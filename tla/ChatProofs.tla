----------------------------- MODULE ChatProofs -----------------------------
(***************************************************************************)
(* Proofs about the chat of p12, for any users and any number of lines:    *)
(* descriptors, members and their count agree, and the select() loop is a  *)
(* room in which all the others hear what one says.                        *)
(***************************************************************************)
EXTENDS Chat, FiniteSetTheorems, TLAPS

Open == {f \in Fds : peer[f] # NoUser}
Members == read_set \ {Listener}

\* Who waits to be accepted waits once, and has no descriptor yet.
QueueInv ==
  /\ \A i \in 1 .. Len(backlog) : sock[backlog[i]] # "new"
  /\ \A i, j \in 1 .. Len(backlog) : backlog[i] = backlog[j] => i = j
  /\ \A f \in Open : /\ sock[peer[f]] # "new"
                     /\ \A i \in 1 .. Len(backlog) : backlog[i] # peer[f]

FdInv ==
  /\ Listener \in read_set
  /\ ready \subseteq read_set
  /\ pc = "name" => connected_fd \in Open \ read_set
  /\ Open = Members \cup (IF pc = "name" THEN {connected_fd} ELSE {})
  /\ \A f, g \in Open : peer[f] = peer[g] => f = g
  /\ usr_cnt = Cardinality(Open)
  /\ pc # "name" /\ Listener \in ready => backlog # << >>

Inv == TypeOK /\ (pc # "killed" => FdInv /\ QueueInv)

-----------------------------------------------------------------------------
\* What the proofs use of the constants.
LEMMA Numbers ==
  /\ Cardinality(Users) \in Nat /\ Fds \subseteq Nat /\ Listener \notin Fds
  /\ IsFiniteSet(Fds) /\ Cardinality(Fds) = Cardinality(Users)
<1>1. Cardinality(Users) \in Nat
  BY ChatAssumption, FS_CardinalityType
<1>2. IsFiniteSet(Fds) /\ Cardinality(Fds) = Cardinality(Users)
  BY <1>1, FS_Interval DEF Fds
<1> QED BY <1>1, <1>2 DEF Fds, Listener

LEMMA OpenIsFinite == IsFiniteSet(Open) /\ Cardinality(Open) \in 0 .. Cardinality(Users)
<1>1. Open \in SUBSET Fds
  BY DEF Open
<1>2. IsFiniteSet(Open) /\ Cardinality(Open) <= Cardinality(Fds)
  BY <1>1, Numbers, FS_Subset
<1>3. Cardinality(Open) \in Nat
  BY <1>2, FS_CardinalityType
<1> QED BY <1>2, <1>3, Numbers

\* A set of descriptors that is not empty has a lowest one.
LEMMA LowestFacts ==
  ASSUME NEW S \in SUBSET Fds, S # {}
  PROVE  Min(S) \in S
<1> DEFINE R == OpToRel(<, Nat)
<1>1. IsWellFoundedOn(R, Nat)
  BY NatLessThanWellFounded
<1>2. \A y, z \in Nat : y < z => << y, z >> \in R
  BY DEF OpToRel
<1>3. S \subseteq Nat
  BY Numbers
<1> HIDE DEF R
<1>4. PICK m \in S : \A y \in S : ~ (<< y, m >> \in R)
  BY <1>1, <1>3, WFMin
<1>5. \A y \in S : m <= y
  <2>1. TAKE y \in S
  <2>2. y \in Nat /\ m \in Nat /\ ~ (y < m)
    BY <1>2, <1>3, <1>4
  <2> QED BY <2>2
<1> QED BY <1>5 DEF Min

\* There is a descriptor left for whoever waits.
LEMMA RoomForOne ==
  ASSUME TypeOK, FdInv, QueueInv, backlog # << >>
  PROVE  /\ Head(backlog) \in Users
         /\ Min({f \in Fds : peer[f] = NoUser}) \in Fds \ Open
<1> DEFINE u == Head(backlog)
<1>1. u \in Users /\ u = backlog[1] /\ 1 \in 1 .. Len(backlog)
  BY DEF TypeOK
<1>2. Open # Fds
  <2> SUFFICES ASSUME Open = Fds PROVE FALSE
    OBVIOUS
  <2>1. \A f \in Fds : peer[f] \in Users \ {u}
    <3>1. TAKE f \in Fds
    <3>2. peer[f] \in Users
      BY DEF TypeOK, Open
    <3>3. peer[f] # u
      BY <1>1 DEF QueueInv
    <3> QED BY <3>2, <3>3
  <2>2. peer \in [Fds -> Users \ {u}]
    BY <2>1 DEF TypeOK
  <2>3. \A f, g \in Fds : peer[f] = peer[g] => f = g
    BY DEF FdInv
  <2>4. peer \in Injection(Fds, Users \ {u})
    BY <2>2, <2>3 DEF Injection, IsInjective
  <2>5. IsFiniteSet(Users \ {u}) /\ Cardinality(Users \ {u}) = Cardinality(Users) - 1
    BY <1>1, ChatAssumption, FS_RemoveElement
  <2>6. Cardinality(Fds) <= Cardinality(Users \ {u})
    BY <2>4, <2>5, FS_Injection
  <2> QED BY <2>5, <2>6, Numbers
<1>3. {f \in Fds : peer[f] = NoUser} # {}
  BY <1>2 DEF Open
<1>4. Min({f \in Fds : peer[f] = NoUser}) \in {f \in Fds : peer[f] = NoUser}
  <2> DEFINE S == {f \in Fds : peer[f] = NoUser}
  <2>1. S \in SUBSET Fds /\ S # {}
    BY <1>3
  <2> HIDE DEF S
  <2>2. Min(S) \in S
    BY <2>1, LowestFacts
  <2> QED BY <2>2 DEF S
<1> QED BY <1>1, <1>4 DEF Open

\* Whose turn it is: a member.
LEMMA TurnIsMembers ==
  ASSUME TypeOK, FdInv, NEW f \in Fds, Turn(f)
  PROVE  /\ pc = "pass" /\ f \in Members /\ f \in Open /\ peer[f] \in Users
         /\ f # Listener /\ Members = Open
BY Numbers DEF TypeOK, FdInv, Turn, Members, Open

LEMMA InitInv == Init => Inv
<1> SUFFICES ASSUME Init PROVE Inv
  OBVIOUS
<1>1. Open = {} /\ Cardinality(Open) = 0
  BY FS_EmptySet DEF Init, Open
<1>2. TypeOK
  BY Numbers, ChatAssumption DEF Init, TypeOK, Listener
<1>4. FdInv
  BY <1>1, Numbers DEF Init, FdInv, Members
<1>5. QueueInv
  BY <1>1 DEF Init, QueueInv
<1> QED BY <1>2, <1>4, <1>5 DEF Inv

-----------------------------------------------------------------------------
(***************************************************************************)
(* The types.                                                              *)
(***************************************************************************)
LEMMA AnnounceTypes ==
  ASSUME TypeOK, NEW f, NEW n \in 0 .. Cardinality(Users), Announce(f, n)
  PROVE  /\ sent' \in [Users -> Seq(Users \X Nat)]
         /\ told' \in [Users -> 0 .. Cardinality(Users)]
         /\ rst' \in [Users -> {"no", "sent", "arrived"}]
BY DEF TypeOK, Announce, WriteTo

LEMMA TakenTypes ==
  ASSUME TypeOK, NEW u \in Users, NEW k \in 1 .. Pending(u),
         taken' = [taken EXCEPT ![u] = @ + k], wrote' = wrote
  PROVE  taken' \in [Users -> Nat] /\ \A v \in Users : taken'[v] <= wrote'[v]
<1>1. wrote[u] \in Nat /\ taken[u] \in Nat /\ k \in Nat /\ taken[u] + k <= wrote[u]
  BY DEF TypeOK, Pending
<1> QED BY <1>1 DEF TypeOK

LEMMA CountTypes ==
  ASSUME TypeOK, FdInv, NEW f \in Open
  PROVE  usr_cnt \in 1 .. Cardinality(Users)
<1>1. Cardinality(Open) # 0
  BY OpenIsFinite, FS_EmptySet
<1> QED BY <1>1, OpenIsFinite DEF FdInv

LEMMA ServerTypes ==
  ASSUME Inv, pc # "killed", Server
  PROVE  TypeOK'
<1> USE Numbers DEF Inv
<1>1. CASE Select
  BY <1>1 DEF Select, TypeOK, output, client
<1>2. CASE Accept
  <2> DEFINE fd == Min({f \in Fds : peer[f] = NoUser})
  <2>1. backlog # << >>
    BY <1>2 DEF Accept, Turn, FdInv
  <2>2. Head(backlog) \in Users /\ fd \in Fds \ Open
    BY <2>1, RoomForOne
  <2>3. usr_cnt + 1 \in 0 .. Cardinality(Users)
    <3>1. Open \cup {fd} \in SUBSET Fds
      BY <2>2 DEF Open
    <3> HIDE DEF fd
    <3>2. Cardinality(Open \cup {fd}) <= Cardinality(Fds)
      BY <3>1, FS_Subset
    <3>3. Cardinality(Open \cup {fd}) = Cardinality(Open) + 1
      BY <2>2, OpenIsFinite, FS_AddElement
    <3> QED BY <3>2, <3>3, OpenIsFinite DEF FdInv
  <2>4. connected_fd' = fd /\ peer' = [peer EXCEPT ![fd] = Head(backlog)]
    BY <1>2 DEF Accept
  <2> HIDE DEF fd
  <2>5. Tail(backlog) \in Seq(Users)
    BY <2>1 DEF TypeOK
  <2> QED BY <1>2, <2>2, <2>3, <2>4, <2>5 DEF Accept, TypeOK, output, client
<1>3. CASE ReadName
  <2>1. connected_fd \in Fds /\ peer[connected_fd] \in Users
    BY <1>3 DEF ReadName, FdInv, TypeOK, Open
  <2>2. PICK k \in 1 .. Pending(peer[connected_fd]) :
          taken' = [taken EXCEPT ![peer[connected_fd]] = @ + k]
    BY <1>3 DEF ReadName
  <2>3. taken' \in [Users -> Nat] /\ \A u \in Users : taken'[u] <= wrote'[u]
    BY <1>3, <2>1, <2>2, TakenTypes DEF ReadName, client
  <2>4. /\ sent' \in [Users -> Seq(Users \X Nat)]
        /\ told' \in [Users -> 0 .. Cardinality(Users)]
        /\ rst' \in [Users -> {"no", "sent", "arrived"}]
    BY <1>3, AnnounceTypes DEF ReadName, TypeOK
  <2>5. /\ pc' \in {"select", "pass", "killed"}
        /\ read_set' \in SUBSET (Fds \cup {Listener})
        /\ ready' \in SUBSET (Fds \cup {Listener})
        /\ connected_fd' \in Fds \cup {0}
    BY <1>3 DEF ReadName, Join, PassOn, TypeOK, Listener
  <2> QED BY <1>3, <2>3, <2>4, <2>5 DEF ReadName, TypeOK, client
<1>4. CASE ReadNoName
  BY <1>4 DEF ReadNoName, Join, PassOn, TypeOK, FdInv, Open, Listener, output, client
<1>5. ASSUME NEW f \in Fds, Relay(f) PROVE TypeOK'
  <2>1. peer[f] \in Users
    BY <1>5, TurnIsMembers DEF Relay
  <2>2. PICK k \in 1 .. Pending(peer[f]) :
          /\ taken' = [taken EXCEPT ![peer[f]] = @ + k]
          /\ sent' = [v \in Users |->
                        IF v \in Reached(f)
                        THEN sent[v] \o [n \in 1 .. k |-> << peer[f], taken[peer[f]] + n >>]
                        ELSE sent[v]]
    BY <1>5 DEF Relay
  <2>3. taken' \in [Users -> Nat] /\ \A u \in Users : taken'[u] <= wrote'[u]
    BY <1>5, <2>1, <2>2, TakenTypes DEF Relay, client
  <2>4. sent' \in [Users -> Seq(Users \X Nat)]
    <3>1. taken[peer[f]] \in Nat /\ k \in Nat
      BY <2>1 DEF TypeOK, Pending
    <3>2. [n \in 1 .. k |-> << peer[f], taken[peer[f]] + n >>] \in Seq(Users \X Nat)
      BY <2>1, <3>1
    <3> DEFINE lines == [n \in 1 .. k |-> << peer[f], taken[peer[f]] + n >>]
    <3>3. lines \in Seq(Users \X Nat)
      BY <3>2
    <3>4. sent' = [v \in Users |-> IF v \in Reached(f) THEN sent[v] \o lines ELSE sent[v]]
      BY <2>2
    <3> HIDE DEF lines
    <3> QED BY <3>3, <3>4 DEF TypeOK
  <2>5. rst' \in [Users -> {"no", "sent", "arrived"}]
    BY <1>5 DEF Relay, WriteTo, TypeOK
  <2>6. /\ pc' \in {"select", "pass", "killed"}
        /\ ready' \in SUBSET (Fds \cup {Listener})
        /\ dirty' \in BOOLEAN
    BY <1>5 DEF Relay, PassOn, TypeOK
  <2> QED BY <1>5, <2>3, <2>4, <2>5, <2>6 DEF Relay, TypeOK, client
<1>6. ASSUME NEW f \in Fds, Leave(f) PROVE TypeOK'
  <2>1. peer[f] \in Users /\ f \in Open
    BY <1>6, TurnIsMembers DEF Leave, Leaves
  <2>2. usr_cnt - 1 \in 0 .. Cardinality(Users)
    BY <2>1, CountTypes, Numbers
  <2>3. taken' \in [Users -> Nat] /\ \A u \in Users : taken'[u] <= wrote'[u]
    <3>1. 1 \in 1 .. Pending(peer[f]) /\ taken' = [taken EXCEPT ![peer[f]] = @ + 1]
      BY <1>6 DEF Leave, Leaves
    <3>2. wrote' = wrote
      BY <1>6 DEF Leave, client
    <3> QED BY <2>1, <3>1, <3>2, TakenTypes
  <2>4. /\ sent' \in [Users -> Seq(Users \X Nat)]
        /\ told' \in [Users -> 0 .. Cardinality(Users)]
        /\ rst' \in [Users -> {"no", "sent", "arrived"}]
    BY <1>6, <2>2, AnnounceTypes DEF Leave, Leaves
  <2>5. /\ pc' \in {"select", "pass", "killed"}
        /\ read_set' \in SUBSET (Fds \cup {Listener})
        /\ ready' \in SUBSET (Fds \cup {Listener})
        /\ peer' \in [Fds -> Users \cup {NoUser}]
        /\ dirty' \in BOOLEAN
    BY <1>6 DEF Leave, PassOn, TypeOK
  <2> QED BY <1>6, <2>2, <2>3, <2>4, <2>5 DEF Leave, Leaves, TypeOK, client
<1>7. ASSUME NEW f \in Fds, ReadEnd(f) PROVE TypeOK'
  BY <1>7 DEF ReadEnd, PassOn, TypeOK, output, client
<1> QED BY <1>1, <1>2, <1>3, <1>4, <1>5, <1>6, <1>7 DEF Server

LEMMA ClientTypes ==
  ASSUME Inv, NEW u \in Users, Client(u)
  PROVE  TypeOK'
<1> USE ChatAssumption DEF Inv, TypeOK, server, output
<1>1. CASE Connect(u)
  BY <1>1 DEF Connect
<1>2. CASE WriteName(u)
  BY <1>2 DEF WriteName, Write
<1>3. CASE Say(u)
  BY <1>3 DEF Say, Write
<1>4. CASE Quit(u)
  BY <1>4 DEF Quit, Write
<1>5. CASE Close(u)
  BY <1>5 DEF Close
<1>6. CASE ResetArrives(u)
  BY <1>6 DEF ResetArrives, client
<1> QED BY <1>1, <1>2, <1>3, <1>4, <1>5, <1>6 DEF Client, Exit, Die

LEMMA NextTypes == Inv /\ [Next]_vars => TypeOK'
<1> SUFFICES ASSUME Inv, [Next]_vars PROVE TypeOK'
  OBVIOUS
<1>1. CASE UNCHANGED vars
  BY <1>1 DEF Inv, vars, server, output, client, TypeOK
<1> QED BY <1>1, ServerTypes, ClientTypes DEF Next

-----------------------------------------------------------------------------
(***************************************************************************)
(* The descriptors.                                                        *)
(***************************************************************************)
\* What a pass leaves of the ready set is a part of the read set.
LEMMA PassOnReady ==
  ASSUME NEW f, ready \subseteq read_set, PassOn(f)
  PROVE  ready' = ready \ {f} /\ pc' \in {"select", "pass"}
BY DEF PassOn

\* A step that opens and closes nothing, and does not take anyone from the backlog.
LEMMA SameDescriptors ==
  ASSUME FdInv, UNCHANGED << read_set, connected_fd, usr_cnt, peer >>,
         pc' = "name" <=> pc = "name", ready' \subseteq read_set,
         pc # "name" /\ Listener \in ready' => backlog' # << >>
  PROVE  FdInv'
BY DEF FdInv, Open, Members

LEMMA AcceptDescriptors ==
  ASSUME Inv, pc # "killed", Accept
  PROVE  FdInv'
<1> USE Numbers DEF Inv
<1> DEFINE fd == Min({f \in Fds : peer[f] = NoUser})
<1>1. pc = "pass" /\ backlog # << >>
  BY DEF Accept, Turn, FdInv
<1>2. Head(backlog) \in Users /\ fd \in Fds \ Open
  BY <1>1, RoomForOne
<1>3. /\ connected_fd' = fd /\ peer' = [peer EXCEPT ![fd] = Head(backlog)]
      /\ pc' = "name" /\ usr_cnt' = usr_cnt + 1
      /\ UNCHANGED << read_set, ready >>
  BY DEF Accept
<1> HIDE DEF fd
<1>4. Head(backlog) # NoUser /\ \A f \in Open : peer[f] # Head(backlog)
  BY <1>1, <1>2, ChatAssumption DEF QueueInv, TypeOK
<1>5. Open' = Open \cup {fd}
  BY <1>2, <1>3, <1>4 DEF Open, TypeOK
<1>6. Cardinality(Open') = usr_cnt'
  BY <1>2, <1>3, <1>5, OpenIsFinite, FS_AddElement DEF FdInv
<1>7. \A f, g \in Open' : peer'[f] = peer'[g] => f = g
  BY <1>2, <1>3, <1>4, <1>5 DEF FdInv, TypeOK, Open
<1>8. Open = Members
  BY <1>1 DEF FdInv
<1>9. fd \notin read_set
  BY <1>2, <1>8 DEF Members
<1> QED BY <1>1, <1>3, <1>5, <1>6, <1>7, <1>8, <1>9 DEF FdInv, Members

\* The accepted one becomes a member.
LEMMA JoinDescriptors ==
  ASSUME Inv, pc = "name", Join, UNCHANGED << usr_cnt, peer >>
  PROVE  FdInv'
<1> USE Numbers DEF Inv
<1>1. /\ read_set' = read_set \cup {connected_fd}
      /\ pc' \in {"select", "pass"} /\ ready' = ready \ {Listener}
  BY DEF Join, PassOn
<1>2. connected_fd \in Open \ read_set /\ Open \subseteq Fds
  BY DEF FdInv, Open
<1>3. Open' = Open
  BY DEF Open
<1>4. Members' = Members \cup {connected_fd}
  BY <1>1, <1>2 DEF Members
<1> QED BY <1>1, <1>2, <1>3, <1>4 DEF FdInv

LEMMA LeaveDescriptors ==
  ASSUME Inv, pc # "killed", NEW f \in Fds, Leave(f), pc' # "killed"
  PROVE  FdInv'
<1> USE Numbers DEF Inv
<1>1. pc = "pass" /\ f \in Members /\ f \in Open /\ f # Listener /\ Members = Open
  BY TurnIsMembers DEF Leave, Leaves
<1>2. /\ usr_cnt' = usr_cnt - 1 /\ read_set' = read_set \ {f}
      /\ peer' = [peer EXCEPT ![f] = NoUser] /\ backlog' = backlog
      /\ ready' = ready \ {f} /\ pc' \in {"select", "pass"}
  BY DEF Leave, Leaves, PassOn
<1>3. Open' = Open \ {f}
  BY <1>2 DEF Open, TypeOK
<1>4. Cardinality(Open') = usr_cnt'
  BY <1>1, <1>2, <1>3, OpenIsFinite, FS_RemoveElement DEF FdInv
<1>5. \A g, h \in Open' : peer'[g] = peer'[h] => g = h
  BY <1>2, <1>3 DEF FdInv, TypeOK, Open
<1>6. Members' = Members \ {f}
  BY <1>2 DEF Members
<1> QED BY <1>1, <1>2, <1>3, <1>4, <1>5, <1>6 DEF FdInv

LEMMA NextDescriptors ==
  ASSUME Inv, pc # "killed", pc' # "killed", [Next]_vars
  PROVE  FdInv'
<1> USE DEF Inv
<1>1. CASE Select
  <2>1. ready' \subseteq read_set /\ Listener \in ready' => backlog # << >>
    BY <1>1 DEF Select, Readable
  <2> QED BY <1>1, <2>1, SameDescriptors DEF Select
<1>2. CASE Accept
  BY <1>2, AcceptDescriptors
<1>3. CASE ReadName
  BY <1>3, JoinDescriptors DEF ReadName
<1>4. CASE ReadNoName
  BY <1>4, JoinDescriptors DEF ReadNoName
<1>5. ASSUME NEW f \in Fds, Relay(f) PROVE FdInv'
  <2>1. ready' = ready \ {f} /\ pc = "pass" /\ pc' \in {"select", "pass"} /\ backlog' = backlog
    BY <1>5 DEF Relay, PassOn, Turn
  <2> QED BY <1>5, <2>1, SameDescriptors DEF Relay, FdInv
<1>6. ASSUME NEW f \in Fds, Leave(f) PROVE FdInv'
  BY <1>6, LeaveDescriptors
<1>7. ASSUME NEW f \in Fds, ReadEnd(f) PROVE FdInv'
  <2>1. ready' = ready \ {f} /\ pc = "pass" /\ pc' \in {"select", "pass"} /\ backlog' = backlog
    BY <1>7 DEF ReadEnd, PassOn, Turn
  <2> QED BY <1>7, <2>1, SameDescriptors DEF ReadEnd, FdInv
<1>8. ASSUME NEW u \in Users, Client(u) PROVE FdInv'
  <2>1. UNCHANGED server /\ (backlog' = backlog \/ backlog' = Append(backlog, u))
    BY <1>8 DEF Client, Connect, WriteName, Say, Quit, Write, Exit, Die, Close, ResetArrives
  <2>2. backlog # << >> => backlog' # << >>
    BY <2>1 DEF TypeOK
  <2> QED BY <2>1, <2>2, SameDescriptors DEF server, FdInv
<1>9. CASE UNCHANGED vars
  BY <1>9, SameDescriptors DEF vars, server, FdInv
<1> QED BY <1>1, <1>2, <1>3, <1>4, <1>5, <1>6, <1>7, <1>8, <1>9 DEF Next, Server

-----------------------------------------------------------------------------
(***************************************************************************)
(* Who waits to be accepted.                                               *)
(***************************************************************************)
LEMMA SameQueue ==
  ASSUME QueueInv, UNCHANGED << backlog, peer >>,
         \A u \in Users : sock[u] # "new" => sock'[u] # "new", TypeOK
  PROVE  QueueInv'
BY DEF QueueInv, Open, TypeOK

LEMMA AcceptQueue ==
  ASSUME Inv, pc # "killed", Accept
  PROVE  QueueInv'
<1> USE DEF Inv
<1> DEFINE fd == Min({f \in Fds : peer[f] = NoUser})
<1>1. backlog # << >>
  BY DEF Accept, Turn, FdInv
<1>2. Head(backlog) \in Users /\ fd \in Fds \ Open
  BY <1>1, RoomForOne
<1>3. /\ peer' = [peer EXCEPT ![fd] = Head(backlog)]
      /\ backlog' = Tail(backlog) /\ sock' = sock
  BY DEF Accept, client
<1> HIDE DEF fd
<1>4. /\ Head(backlog) = backlog[1] /\ Len(backlog') = Len(backlog) - 1
      /\ Len(backlog) \in Nat \ {0}
      /\ \A i \in 1 .. Len(backlog') : backlog'[i] = backlog[i + 1]
  BY <1>1, <1>3 DEF TypeOK
<1>5. \A f \in Open' : \/ f = fd /\ peer'[f] = backlog[1]
                       \/ f \in Open /\ peer'[f] = peer[f]
  <2>1. peer' = [peer EXCEPT ![fd] = backlog[1]]
    BY <1>3, <1>4
  <2> QED BY <1>2, <2>1 DEF Open, TypeOK
<1>6. \A i \in 1 .. Len(backlog') : sock'[backlog'[i]] # "new"
  BY <1>3, <1>4 DEF QueueInv
<1>7. \A i, j \in 1 .. Len(backlog') : backlog'[i] = backlog'[j] => i = j
  BY <1>4 DEF QueueInv
<1>8. \A f \in Open' : /\ sock'[peer'[f]] # "new"
                       /\ \A i \in 1 .. Len(backlog') : backlog'[i] # peer'[f]
  <2>1. TAKE f \in Open'
  <2>2. CASE f = fd /\ peer'[f] = backlog[1]
    <3>1. \A i \in 1 .. Len(backlog') : backlog[i + 1] # backlog[1]
      BY <1>4 DEF QueueInv
    <3> QED BY <1>3, <1>4, <2>2, <3>1 DEF QueueInv
  <2>3. CASE f \in Open /\ peer'[f] = peer[f]
    BY <1>3, <1>4, <2>3 DEF QueueInv
  <2> QED BY <1>5, <2>2, <2>3
<1> QED BY <1>6, <1>7, <1>8 DEF QueueInv

LEMMA ConnectQueue ==
  ASSUME Inv, pc # "killed", NEW u \in Users, Connect(u)
  PROVE  QueueInv'
<1> USE DEF Inv
<1>1. /\ sock[u] = "new" /\ sock' = [sock EXCEPT ![u] = "open"]
      /\ backlog' = Append(backlog, u) /\ peer' = peer
  BY DEF Connect, server
<1>2. /\ Len(backlog) \in Nat /\ Len(backlog') = Len(backlog) + 1
      /\ \A i \in 1 .. Len(backlog) : backlog'[i] = backlog[i] /\ backlog[i] \in Users
      /\ backlog'[Len(backlog) + 1] = u
  BY <1>1 DEF TypeOK
<1>3. \A v \in Users : sock[v] # "new" => sock'[v] # "new" /\ v # u
  BY <1>1 DEF TypeOK
<1>4. sock'[u] # "new"
  BY <1>1 DEF TypeOK
<1>5. \A i \in 1 .. Len(backlog') :
        \/ i \in 1 .. Len(backlog) /\ backlog'[i] = backlog[i] /\ backlog[i] # u
        \/ i = Len(backlog) + 1 /\ backlog'[i] = u
  BY <1>2, <1>3 DEF QueueInv
<1>6. \A i \in 1 .. Len(backlog') : sock'[backlog'[i]] # "new"
  BY <1>2, <1>3, <1>4, <1>5 DEF QueueInv
<1>7. \A i, j \in 1 .. Len(backlog') : backlog'[i] = backlog'[j] => i = j
  BY <1>2, <1>5 DEF QueueInv
<1>8. \A f \in Open : peer[f] \in Users /\ sock[peer[f]] # "new"
  BY DEF Open, QueueInv, TypeOK
<1>9. \A f \in Open' : /\ sock'[peer'[f]] # "new"
                       /\ \A i \in 1 .. Len(backlog') : backlog'[i] # peer'[f]
  <2>1. Open' = Open
    BY <1>1 DEF Open
  <2> QED BY <1>1, <1>3, <1>5, <1>8, <2>1 DEF QueueInv
<1> QED BY <1>6, <1>7, <1>9 DEF QueueInv

LEMMA NextQueue ==
  ASSUME Inv, pc # "killed", pc' # "killed", [Next]_vars
  PROVE  QueueInv'
<1> USE DEF Inv
<1>1. CASE Accept
  BY <1>1, AcceptQueue
<1>2. CASE Select \/ ReadName \/ ReadNoName \/ \E f \in Fds : Relay(f) \/ ReadEnd(f)
  BY <1>2, SameQueue DEF Select, ReadName, ReadNoName, Relay, ReadEnd, client
<1>3. ASSUME NEW f \in Fds, Leave(f) PROVE QueueInv'
  <2>1. peer' = [peer EXCEPT ![f] = NoUser] /\ backlog' = backlog /\ sock' = sock
    BY <1>3 DEF Leave, client
  <2>2. \A g \in Open' : g \in Open /\ peer'[g] = peer[g]
    BY <2>1 DEF Open, TypeOK
  <2> QED BY <2>1, <2>2 DEF QueueInv
<1>4. ASSUME NEW u \in Users, Connect(u) PROVE QueueInv'
  BY <1>4, ConnectQueue
<1>5. ASSUME NEW u \in Users, WriteName(u) \/ Say(u) \/ Quit(u) \/ ResetArrives(u)
      PROVE  QueueInv'
  BY <1>5, SameQueue DEF WriteName, Say, Quit, Write, ResetArrives, server, client
<1>6. ASSUME NEW u \in Users, Close(u) PROVE QueueInv'
  <2>1. /\ \A v \in Users : sock[v] # "new" => sock'[v] # "new"
        /\ UNCHANGED << backlog, peer >>
    BY <1>6 DEF Close, server, TypeOK
  <2> QED BY <2>1, SameQueue
<1>7. CASE UNCHANGED vars
  BY <1>7, SameQueue DEF vars, server, client
<1> QED BY <1>1, <1>2, <1>3, <1>4, <1>5, <1>6, <1>7 DEF Next, Server, Client, Exit, Die

LEMMA NextInv == Inv /\ [Next]_vars => Inv'
<1> SUFFICES ASSUME Inv, [Next]_vars PROVE Inv'
  OBVIOUS
<1>1. TypeOK'
  BY NextTypes
<1>2. pc = "killed" => pc' = "killed"
  BY DEF Next, vars, server
<1>3. pc' # "killed" => FdInv' /\ QueueInv'
  BY <1>2, NextDescriptors, NextQueue
<1> QED BY <1>1, <1>3 DEF Inv

\* Every variable of the chat keeps its type: in particular there is a descriptor
\* for every user who connects, and usr_cnt is between none and all.
THEOREM TypeCorrect == Spec => []TypeOK
BY InitInv, NextInv, PTL DEF Spec, Inv

\* Descriptors, members and usr_cnt agree in the middle of every pass (p12,
\* lines 67-122), for any number of users.
THEOREM DescriptorsCorrect == Spec => []DescriptorsAgree
<1>1. Inv => DescriptorsAgree
  BY DEF Inv, FdInv, DescriptorsAgree, Open, Members
<1> QED BY <1>1, InitInv, NextInv, PTL DEF Spec

-----------------------------------------------------------------------------
(***************************************************************************)
(* The number of users.  Of who is not a member yet nothing was read and   *)
(* nobody told it anything; a member without a name cannot write one.      *)
(***************************************************************************)
Outsider(u) ==
  \/ sock[u] = "new"
  \/ \E i \in 1 .. Len(backlog) : backlog[i] = u
  \/ pc = "name" /\ u = peer[connected_fd]

NamedInv ==
  \A f \in Members :
    taken[peer[f]] = 0 => wrote[peer[f]] = 0 /\ sock[peer[f]] = "closed"

\* n is the number all members were told that were told any, when c are counted.
Said(n, c) ==
  /\ n \in c - Cardinality(Unnamed) .. c
  /\ \A f \in Members : told[peer[f]] \in {0, n}

Counted == IF pc = "name" THEN usr_cnt - 1 ELSE usr_cnt

ToldInv ==
  /\ \A u \in Users : Outsider(u) => told[u] = 0 /\ taken[u] = 0
  /\ NamedInv
  /\ \E n \in Int : Said(n, Counted)

LEMMA MembersTypes ==
  ASSUME TypeOK, FdInv
  PROVE  /\ Members \subseteq Open /\ Open \subseteq Fds
         /\ \A f \in Open : peer[f] \in Users
         /\ \A f \in Members : ~ (pc = "name" /\ peer[f] = peer[connected_fd])
BY DEF FdInv, TypeOK, Open, Members

\* An outsider is nobody who hears.
LEMMA MembersAreNoOutsiders ==
  ASSUME TypeOK, FdInv, QueueInv, NEW f \in Members
  PROVE  ~ Outsider(peer[f])
BY MembersTypes DEF Outsider, QueueInv

\* Everyone in read_set but f hears, unless the server is killed.
LEMMA AllAreReached ==
  ASSUME NEW f, Survives(f)
  PROVE  Reached(f) = {peer[i] : i \in Members \ {f}}
BY DEF Reached, Survives, Others, Members

LEMMA ReachedMembers ==
  ASSUME NEW f
  PROVE  Reached(f) \subseteq {peer[i] : i \in Members \ {f}}
BY DEF Reached, Others, Members

\* Outsiders stay as they are, and so does what members have written.
LEMMA SameTold ==
  ASSUME ToldInv, UNCHANGED << read_set, peer, usr_cnt, told, taken >>,
         \A u \in Users : Outsider(u)' => Outsider(u),
         \A f \in Members : wrote[peer[f]] = 0 /\ sock[peer[f]] = "closed"
                              => wrote'[peer[f]] = 0 /\ sock'[peer[f]] = "closed",
         pc' = "name" <=> pc = "name"
  PROVE  ToldInv'
<1>1. Unnamed' = Unnamed /\ Members' = Members /\ Counted' = Counted
  BY DEF Unnamed, Members, Counted
<1> QED BY <1>1 DEF ToldInv, NamedInv, Said, Members

\* The members without a name, of which there are finitely many.
LEMMA UnnamedTypes ==
  ASSUME TypeOK
  PROVE  /\ Unnamed = {f \in Members : taken[peer[f]] = 0}
         /\ IsFiniteSet(Unnamed) /\ Cardinality(Unnamed) \in Nat
<1>1. Unnamed \subseteq Fds
  BY DEF Unnamed, TypeOK
<1>2. IsFiniteSet(Unnamed)
  BY <1>1, Numbers, FS_Subset
<1> QED BY <1>2, FS_CardinalityType DEF Unnamed, Members

\* After an announcement all members were told the present number, or nothing.
LEMMA AllTold ==
  ASSUME TypeOK', Counted' = usr_cnt',
         \A f \in Members' : told'[peer'[f]] \in {0, usr_cnt'}
  PROVE  \E n \in Int : Said(n, Counted)'
<1>1. Cardinality(Unnamed') \in Nat
  <2>1. IsFiniteSet(Unnamed')
    <3>1. Unnamed' \subseteq Fds
      BY DEF Unnamed, TypeOK
    <3> QED BY <3>1, Numbers, FS_Subset
  <2> QED BY <2>1, FS_CardinalityType
<1>2. usr_cnt' \in Int
  BY Numbers DEF TypeOK
<1>3. usr_cnt' \in usr_cnt' - Cardinality(Unnamed') .. usr_cnt'
  BY <1>1, <1>2
<1> QED BY <1>2, <1>3 DEF Said

LEMMA AcceptTold ==
  ASSUME Inv, ToldInv, pc # "killed", Accept
  PROVE  ToldInv'
<1> USE Numbers DEF Inv
<1> DEFINE fd == Min({f \in Fds : peer[f] = NoUser})
<1>1. pc = "pass" /\ backlog # << >>
  BY DEF Accept, Turn, FdInv
<1>2. Head(backlog) \in Users /\ fd \in Fds \ Open
  BY <1>1, RoomForOne
<1>3. /\ peer' = [peer EXCEPT ![fd] = Head(backlog)] /\ connected_fd' = fd /\ pc' = "name"
      /\ backlog' = Tail(backlog)
      /\ UNCHANGED << read_set, sock, wrote, taken, told >>
  BY DEF Accept, client, output
<1> HIDE DEF fd
<1>4. Members' = Members /\ \A f \in Members : peer'[f] = peer[f]
  BY <1>2, <1>3, MembersTypes DEF Members, TypeOK
<1>5. \A u \in Users : Outsider(u)' => Outsider(u)
  <2>1. /\ Head(backlog) = backlog[1] /\ 1 \in 1 .. Len(backlog)
        /\ \A i \in 1 .. Len(backlog') : backlog'[i] = backlog[i + 1] /\ i + 1 \in 1 .. Len(backlog)
    BY <1>1, <1>3 DEF TypeOK
  <2>2. peer'[connected_fd'] = backlog[1]
    BY <1>2, <1>3, <2>1 DEF TypeOK
  <2> QED BY <1>3, <2>1, <2>2 DEF Outsider
<1>6. Unnamed' = Unnamed
  BY <1>3, <1>4 DEF Unnamed, Members
<1>7. Counted' = Counted
  BY <1>1, <1>3, Numbers DEF Counted, Accept, TypeOK
<1> QED BY <1>3, <1>4, <1>5, <1>6, <1>7 DEF ToldInv, NamedInv, Said

LEMMA ReadNameTold ==
  ASSUME Inv, ToldInv, ReadName, pc' # "killed"
  PROVE  ToldInv'
<1> USE Numbers DEF Inv
<1> DEFINE u == peer[connected_fd]
<1>1. /\ pc = "name" /\ Survives(Listener) /\ Join
      /\ Announce(Listener, usr_cnt) /\ UNCHANGED << usr_cnt, peer, backlog, wrote, sock >>
  BY DEF ReadName, client
<1>2. PICK k \in 1 .. Pending(u) : taken' = [taken EXCEPT ![u] = @ + k]
  BY DEF ReadName
<1>3. connected_fd \in Open \ read_set /\ u \in Users
  BY <1>1, MembersTypes DEF FdInv
<1>4. Reached(Listener) = {peer[i] : i \in Members} /\ u \notin Reached(Listener)
  BY <1>1, AllAreReached, MembersTypes DEF Members
<1>5. /\ taken'[u] > 0 /\ \A v \in Users \ {u} : taken'[v] = taken[v]
  BY <1>2, <1>3 DEF TypeOK, Pending
<1>6. \A v \in Users : told'[v] = IF v \in Reached(Listener) THEN usr_cnt ELSE told[v]
  BY <1>1 DEF Announce
<1> HIDE DEF u
<1>7. pc' \in {"select", "pass"} /\ Members' = Members \cup {connected_fd}
  BY <1>1, <1>3 DEF Join, PassOn, Members, Open
<1>8. \A v \in Users : Outsider(v)' => Outsider(v) /\ v # u /\ v \notin Reached(Listener)
  <2>1. \A v \in Users : Outsider(v)' => sock[v] = "new" \/ (\E i \in 1 .. Len(backlog) : backlog[i] = v)
    BY <1>1, <1>7 DEF Outsider
  <2>2. sock[u] # "new" /\ \A i \in 1 .. Len(backlog) : backlog[i] # u
    BY <1>1, <1>3 DEF QueueInv, u
  <2>3. \A v \in Users : Outsider(v) => v \notin Reached(Listener)
    BY <1>1, <1>4, MembersAreNoOutsiders
  <2> QED BY <2>1, <2>2, <2>3 DEF Outsider
<1>9. \A v \in Users : Outsider(v)' => told'[v] = 0 /\ taken'[v] = 0
  BY <1>5, <1>6, <1>8 DEF ToldInv
<1>10. NamedInv'
  <2>1. \A f \in Members : peer[f] \in Users /\ peer[f] # u
    BY <1>1, MembersTypes DEF u
  <2> QED BY <1>1, <1>5, <1>7, <2>1 DEF NamedInv, ToldInv, u
<1>11. \E n \in Int : Said(n, Counted)'
  <2>1. told'[u] = 0
    BY <1>1, <1>3, <1>4, <1>6 DEF ToldInv, Outsider, u
  <2>2. \A f \in Members : peer[f] \in Users /\ told'[peer[f]] = usr_cnt
    BY <1>1, <1>4, <1>6, MembersTypes
  <2>3. \A f \in Members' : told'[peer'[f]] \in {0, usr_cnt'}
    BY <1>1, <1>7, <2>1, <2>2 DEF u
  <2>4. TypeOK' /\ Counted' = usr_cnt'
    BY <1>1, <1>7, ServerTypes DEF Counted, Server
  <2> QED BY <2>3, <2>4, AllTold
<1> QED BY <1>9, <1>10, <1>11 DEF ToldInv

LEMMA ReadNoNameTold ==
  ASSUME Inv, ToldInv, ReadNoName
  PROVE  ToldInv'
<1> USE Numbers DEF Inv
<1> DEFINE u == peer[connected_fd]
<1>1. /\ pc = "name" /\ Join /\ Pending(u) = 0 /\ sock[u] = "closed"
      /\ UNCHANGED << usr_cnt, peer, backlog, wrote, sock, taken, told >>
  BY DEF ReadNoName, client, output
<1>2. connected_fd \in Open \ read_set /\ u \in Users
  BY <1>1, MembersTypes DEF FdInv
<1>3. taken[u] = 0 /\ wrote[u] = 0
  <2>1. taken[u] = 0
    BY <1>1, <1>2 DEF ToldInv, Outsider
  <2> QED BY <1>1, <1>2, <2>1 DEF Pending, TypeOK
<1>4. pc' \in {"select", "pass"} /\ Members' = Members \cup {connected_fd}
  BY <1>1, <1>2 DEF Join, PassOn, Members, Open
<1>5. \A v \in Users : Outsider(v)' => Outsider(v)
  BY <1>1, <1>4 DEF Outsider
<1>6. NamedInv'
  BY <1>1, <1>3, <1>4 DEF NamedInv, ToldInv
<1>7. \E n \in Int : Said(n, Counted)'
  <2> DEFINE new == connected_fd
             some == Cardinality(Unnamed)
  <2>1. PICK n \in Int : Said(n, usr_cnt - 1)
    BY <1>1 DEF ToldInv, Counted
  <2>2. /\ new \notin Unnamed /\ IsFiniteSet(Unnamed) /\ some \in Nat
        /\ Unnamed' = Unnamed \cup {new}
    BY <1>1, <1>2, <1>3, <1>4, UnnamedTypes DEF Unnamed, Members
  <2>3. Cardinality(Unnamed') = some + 1
    BY <2>2, FS_AddElement
  <2>4. usr_cnt \in Int /\ Counted' = usr_cnt
    BY <1>1, <1>4 DEF TypeOK, Counted
  <2> HIDE DEF some
  <2>5. n \in usr_cnt - Cardinality(Unnamed') .. usr_cnt
    BY <2>1, <2>2, <2>3, <2>4 DEF Said, some
  <2>6. told'[u] = 0
    BY <1>1, <1>2 DEF ToldInv, Outsider
  <2>7. \A f \in Members' : told'[peer'[f]] \in {0, n}
    BY <1>1, <1>4, <2>1, <2>6 DEF Said
  <2> QED BY <2>1, <2>4, <2>5, <2>7 DEF Said
<1> QED BY <1>1, <1>5, <1>6, <1>7 DEF ToldInv

LEMMA RelayTold ==
  ASSUME Inv, ToldInv, NEW f \in Fds, Relay(f), pc' # "killed"
  PROVE  ToldInv'
<1> USE Numbers DEF Inv
<1>1. /\ pc = "pass" /\ pc' \in {"select", "pass"}
      /\ UNCHANGED << read_set, usr_cnt, peer, backlog, wrote, sock, told >>
  BY DEF Relay, Turn, PassOn, client
<1>2. f \in Members /\ peer[f] \in Users
  BY <1>1, TurnIsMembers DEF Relay
<1>3. PICK k \in 1 .. Pending(peer[f]) : taken' = [taken EXCEPT ![peer[f]] = @ + k]
  BY DEF Relay
<1>4. taken[peer[f]] > 0
  <2>1. wrote[peer[f]] # 0 /\ taken[peer[f]] \in Nat
    BY <1>2, <1>3 DEF Pending, TypeOK
  <2> QED BY <1>2, <2>1 DEF ToldInv, NamedInv
<1>5. /\ taken'[peer[f]] > 0 /\ \A v \in Users \ {peer[f]} : taken'[v] = taken[v]
  BY <1>2, <1>3, <1>4 DEF TypeOK, Pending
<1>6. Members' = Members /\ \A g \in Members : peer[g] \in Users
  BY <1>1, MembersTypes DEF Members
<1>7. \A v \in Users : Outsider(v)' => Outsider(v) /\ v # peer[f]
  <2>1. \A v \in Users : Outsider(v)' => Outsider(v)
    BY <1>1 DEF Outsider
  <2> QED BY <1>1, <1>2, <2>1, MembersAreNoOutsiders
<1>8. NamedInv'
  BY <1>1, <1>5, <1>6 DEF NamedInv, ToldInv
<1>9. \E n \in Int : Said(n, Counted)'
  <2>1. Unnamed' = Unnamed
    BY <1>1, <1>4, <1>5, <1>6 DEF Unnamed, Members
  <2>2. Counted' = Counted
    BY <1>1 DEF Counted
  <2> QED BY <1>1, <1>6, <2>1, <2>2 DEF ToldInv, Said
<1> QED BY <1>1, <1>5, <1>7, <1>8, <1>9 DEF ToldInv

LEMMA LeaveTold ==
  ASSUME Inv, ToldInv, pc # "killed", NEW f \in Fds, Leave(f), pc' # "killed"
  PROVE  ToldInv'
<1> USE Numbers DEF Inv
<1>1. pc = "pass" /\ f \in Members /\ peer[f] \in Users
  BY TurnIsMembers DEF Leave, Leaves
<1>2. /\ pc' \in {"select", "pass"} /\ read_set' = read_set \ {f} /\ usr_cnt' = usr_cnt - 1
      /\ Survives(f) /\ Announce(f, usr_cnt - 1)
      /\ peer' = [peer EXCEPT ![f] = NoUser] /\ taken' = [taken EXCEPT ![peer[f]] = @ + 1]
      /\ UNCHANGED << backlog, wrote, sock >>
  BY DEF Leave, Leaves, PassOn, client
<1>3. /\ Members' = Members \ {f}
      /\ \A g \in Members' : peer'[g] = peer[g] /\ peer[g] \in Users /\ peer[g] # peer[f]
  BY <1>1, <1>2, MembersTypes DEF Members, TypeOK, FdInv
<1>4. Reached(f) = {peer[g] : g \in Members'}
  BY <1>2, <1>3, AllAreReached
<1>5. \A v \in Users : told'[v] = IF v \in Reached(f) THEN usr_cnt - 1 ELSE told[v]
  BY <1>2 DEF Announce
<1>6. \A v \in Users \ {peer[f]} : taken'[v] = taken[v]
  BY <1>2 DEF TypeOK
<1>7. \A v \in Users : Outsider(v)' => Outsider(v) /\ v # peer[f] /\ v \notin Reached(f)
  <2>1. \A v \in Users : Outsider(v)' => Outsider(v)
    BY <1>2 DEF Outsider
  <2>2. \A g \in Members : ~ Outsider(peer[g])
    BY MembersAreNoOutsiders
  <2> QED BY <1>1, <1>3, <1>4, <2>1, <2>2
<1>8. NamedInv'
  BY <1>2, <1>3, <1>6 DEF NamedInv, ToldInv
<1>9. \E n \in Int : Said(n, Counted)'
  <2>1. \A g \in Members' : told'[peer'[g]] = usr_cnt'
    BY <1>2, <1>3, <1>4, <1>5
  <2>2. TypeOK' /\ Counted' = usr_cnt'
    BY <1>1, <1>2, ServerTypes DEF Counted, Server
  <2> QED BY <2>1, <2>2, AllTold
<1> QED BY <1>5, <1>6, <1>7, <1>8, <1>9 DEF ToldInv

LEMMA ClientTold ==
  ASSUME Inv, ToldInv, pc # "killed", NEW u \in Users, Client(u)
  PROVE  ToldInv'
<1> USE DEF Inv
<1>1. \A f \in Members : peer[f] \in Users /\ sock[peer[f]] # "new"
  BY MembersTypes DEF QueueInv
<1>2. CASE Connect(u)
  <2>1. /\ sock[u] = "new" /\ sock' = [sock EXCEPT ![u] = "open"]
        /\ backlog' = Append(backlog, u)
        /\ UNCHANGED << pc, connected_fd, read_set, peer, usr_cnt, told, taken, wrote >>
    BY <1>2 DEF Connect, server, output
  <2>2. \A i \in 1 .. Len(backlog') :
          backlog'[i] = u \/ \E j \in 1 .. Len(backlog) : backlog'[i] = backlog[j]
    <3>1. /\ Len(backlog) \in Nat /\ Len(backlog') = Len(backlog) + 1
          /\ \A i \in 1 .. Len(backlog) : backlog'[i] = backlog[i]
          /\ backlog'[Len(backlog) + 1] = u
      BY <2>1 DEF TypeOK
    <3>2. \A i \in 1 .. Len(backlog') : i \in 1 .. Len(backlog) \/ i = Len(backlog) + 1
      BY <3>1
    <3> QED BY <3>1, <3>2
  <2>3. \A v \in Users : Outsider(v)' => Outsider(v)
    BY <2>1, <2>2 DEF Outsider, TypeOK
  <2>4. \A f \in Members : sock'[peer[f]] = sock[peer[f]]
    BY <1>1, <2>1 DEF TypeOK
  <2> QED BY <2>1, <2>3, <2>4, SameTold
<1>3. CASE WriteName(u) \/ Say(u) \/ Quit(u)
  <2>1. /\ sock[u] = "open" /\ wrote' = [wrote EXCEPT ![u] = @ + 1]
        /\ UNCHANGED << pc, connected_fd, read_set, peer, usr_cnt, told, taken, sock, backlog >>
    BY <1>3 DEF WriteName, Say, Quit, Write, server, output
  <2>2. \A v \in Users : Outsider(v)' => Outsider(v)
    BY <2>1 DEF Outsider
  <2>3. \A v \in Users : sock[v] = "closed" => wrote'[v] = wrote[v]
    BY <2>1 DEF TypeOK
  <2> QED BY <1>1, <2>1, <2>2, <2>3, SameTold
<1>4. CASE Close(u) \/ ResetArrives(u)
  <2>1. /\ sock' # sock => sock[u] = "open" /\ sock' = [sock EXCEPT ![u] = "closed"]
        /\ UNCHANGED << pc, connected_fd, read_set, peer, usr_cnt, told, taken, wrote, backlog >>
    BY <1>4 DEF Close, ResetArrives, server, client
  <2>2. \A v \in Users : /\ sock'[v] = "new" => sock[v] = "new"
                         /\ sock[v] = "closed" => sock'[v] = "closed"
    BY <2>1 DEF TypeOK
  <2>3. \A v \in Users : Outsider(v)' => Outsider(v)
    BY <2>1, <2>2 DEF Outsider
  <2> QED BY <1>1, <2>1, <2>2, <2>3, SameTold
<1> QED BY <1>2, <1>3, <1>4 DEF Client, Exit, Die

LEMMA NextTold ==
  ASSUME Inv, pc # "killed" => ToldInv, [Next]_vars, pc' # "killed"
  PROVE  ToldInv'
<1>1. pc # "killed" /\ ToldInv
  BY DEF Next, vars, server
<1>2. CASE Accept
  BY <1>1, <1>2, AcceptTold
<1>3. CASE ReadName
  BY <1>1, <1>3, ReadNameTold
<1>4. CASE ReadNoName
  BY <1>1, <1>4, ReadNoNameTold
<1>5. ASSUME NEW f \in Fds, Relay(f) PROVE ToldInv'
  BY <1>1, <1>5, RelayTold
<1>6. ASSUME NEW f \in Fds, Leave(f) PROVE ToldInv'
  BY <1>1, <1>6, LeaveTold
<1>7. CASE Select \/ UNCHANGED vars \/ \E f \in Fds : ReadEnd(f)
  <2>1. /\ UNCHANGED << read_set, connected_fd, peer, usr_cnt, told, taken, wrote, sock, backlog >>
        /\ pc' # pc => pc \in {"select", "pass"} /\ pc' \in {"select", "pass"}
    BY <1>7 DEF Select, ReadEnd, Turn, PassOn, vars, server, client, output
  <2>2. \A u \in Users : Outsider(u)' => Outsider(u)
    BY <2>1 DEF Outsider
  <2> QED BY <1>1, <2>1, <2>2, SameTold
<1>8. ASSUME NEW u \in Users, Client(u) PROVE ToldInv'
  BY <1>1, <1>8, ClientTold
<1> QED BY <1>1, <1>2, <1>3, <1>4, <1>5, <1>6, <1>7, <1>8 DEF Next, Server

\* All who were told how many users there are were told the same number (p12,
\* lines 75-113), the present one but for those that came in without a name.
THEOREM CountIsCorrect == Spec => []CountIsKnown
<1> DEFINE TInv == pc # "killed" => ToldInv
<1>1. Init => TInv
  <2> SUFFICES ASSUME Init PROVE ToldInv
    OBVIOUS
  <2>1. Members = {} /\ Unnamed = {} /\ usr_cnt = 0 /\ Counted = 0
    BY DEF Init, Members, Unnamed, Counted
  <2>2. 0 \in 0 - Cardinality(Unnamed) .. 0
    BY <2>1, FS_EmptySet
  <2>3. Said(0, Counted)
    BY <2>1, <2>2 DEF Said
  <2> QED BY <2>1, <2>3 DEF Init, ToldInv, NamedInv
<1>2. Inv /\ TInv /\ [Next]_vars => TInv'
  BY NextTold
<1>3. Inv /\ TInv => CountIsKnown
  <2> SUFFICES ASSUME Inv, TInv, pc # "killed" PROVE CountIsKnown
    BY DEF CountIsKnown
  <2>1. usr_cnt - (IF pc = "name" THEN 1 ELSE 0) = Counted
    BY Numbers DEF Inv, TypeOK, Counted
  <2>2. PICK n \in Counted - Cardinality(Unnamed) .. Counted :
          \A f \in Members : told[peer[f]] \in {0, n}
    BY DEF ToldInv, Said
  <2> QED BY <2>1, <2>2 DEF CountIsKnown, Members
<1> QED BY <1>1, <1>2, <1>3, InitInv, NextInv, PTL DEF Spec

-----------------------------------------------------------------------------
(***************************************************************************)
(* The refinement of ChatRoom.  A turn that the server survives is what    *)
(* the room does in one step; one that it does not survive stops the room. *)
(***************************************************************************)
InRoom == {peer[f] : f \in Members}

\* Steps that the room does not see.
LEMMA RoomStutters ==
  ASSUME UNCHANGED << InRoom, taken, sent >>, pc' = "killed" <=> pc = "killed"
  PROVE  UNCHANGED Room!roomVars
BY DEF Room!roomVars, InRoom, Members

LEMMA RoomSteps ==
  ASSUME pc # "killed", NEW u \in Users,
         Room!Enter(u) \/ Room!Speak(u) \/ Room!Leave(u) \/ Room!Stop(u)
  PROVE  Room!RoomNext
BY DEF Room!RoomNext

\* A turn in which k lines of u are read and the lines are sent to the users of S.
LEMMA LinesAreHeard ==
  ASSUME TypeOK, NEW S, NEW u \in Users, NEW k \in 1 .. Pending(u),
         taken' = [taken EXCEPT ![u] = @ + k],
         sent' = [v \in Users |->
                    IF v \in S THEN sent[v] \o [n \in 1 .. k |-> << u, taken[u] + n >>]
                    ELSE sent[v]]
  PROVE  Room!Hear(S, u, taken'[u])
<1>1. taken[u] \in Nat /\ k \in Nat \ {0} /\ taken'[u] = taken[u] + k
  BY DEF TypeOK, Pending
<1>2. taken'[u] - taken[u] = k /\ taken'[u] > taken[u]
  BY <1>1
<1>3. taken' = [taken EXCEPT ![u] = taken'[u]]
  BY <1>1
<1> QED BY <1>2, <1>3 DEF Room!Hear

\* A turn in which k lines of u are read and nobody is sent a line.
LEMMA NothingIsHeard ==
  ASSUME TypeOK, NEW u \in Users, NEW k \in 1 .. Pending(u),
         taken' = [taken EXCEPT ![u] = @ + k], sent' = sent
  PROVE  Room!Hear({}, u, taken'[u])
<1>1. taken[u] \in Nat /\ k \in Nat \ {0} /\ taken'[u] = taken[u] + k
  BY DEF TypeOK, Pending
<1>2. taken'[u] - taken[u] = k /\ taken'[u] > taken[u]
  BY <1>1
<1>3. taken' = [taken EXCEPT ![u] = taken'[u]]
  BY <1>1
<1>4. sent' = [v \in Users |-> sent[v]]
  BY DEF TypeOK
<1> QED BY <1>2, <1>3, <1>4 DEF Room!Hear

LEMMA ReadNameRefines ==
  ASSUME Inv, NEW u, u = peer[connected_fd], ReadName
  PROVE  Room!RoomNext
<1> USE DEF Inv
<1>1. /\ pc = "name" /\ UNCHANGED peer
      /\ sent' = sent
      /\ \/ Survives(Listener) /\ Join
         \/ ~ Survives(Listener) /\ pc' = "killed" /\ UNCHANGED read_set
  BY DEF ReadName, Announce
<1>2. PICK k \in 1 .. Pending(u) : taken' = [taken EXCEPT ![u] = @ + k]
  BY DEF ReadName
<1>3. /\ connected_fd \in Open \ read_set /\ connected_fd # Listener
      /\ u \in Users /\ u \notin InRoom
  BY <1>1, MembersTypes, Numbers DEF FdInv, InRoom
<1>4. taken[u] \in Nat /\ taken'[u] = taken[u] + k /\ k \in Nat
  BY <1>2, <1>3 DEF TypeOK, Pending
<1>5. CASE Join
  <2>1. pc' # "killed" /\ InRoom' = InRoom \cup {u}
    BY <1>1, <1>3, <1>5 DEF Join, PassOn, InRoom, Members
  <2>2. taken'[u] >= taken[u]
    BY <1>4
  <2>3. taken' = [taken EXCEPT ![u] = taken'[u]]
    BY <1>2, <1>4
  <2>4. Room!Enter(u)
    BY <1>1, <1>3, <2>1, <2>2, <2>3 DEF Room!Enter, InRoom, Members
  <2> QED BY <1>1, <1>3, <2>4, RoomSteps
<1>6. CASE pc' = "killed" /\ UNCHANGED read_set
  <2>1. Room!Hear({}, u, taken'[u])
    BY <1>1, <1>2, <1>3, NothingIsHeard
  <2>2. Room!Stop(u)
    BY <1>1, <1>6, <2>1 DEF Room!Stop
  <2> QED BY <1>1, <1>3, <2>2, RoomSteps
<1> QED BY <1>1, <1>5, <1>6

LEMMA ReadNoNameRefines ==
  ASSUME Inv, NEW u, u = peer[connected_fd], ReadNoName
  PROVE  Room!RoomNext
<1> USE DEF Inv
<1>1. pc = "name" /\ Join /\ UNCHANGED << peer, taken, sent >>
  BY DEF ReadNoName, output
<1>2. /\ connected_fd \in Open \ read_set /\ connected_fd # Listener
      /\ u \in Users /\ u \notin InRoom
  BY <1>1, MembersTypes, Numbers DEF FdInv, InRoom
<1>3. pc' # "killed" /\ InRoom' = InRoom \cup {u}
  BY <1>1, <1>2 DEF Join, PassOn, InRoom, Members
<1>4. taken'[u] >= taken[u] /\ taken' = [taken EXCEPT ![u] = taken'[u]]
  BY <1>1, <1>2 DEF TypeOK
<1>5. Room!Enter(u)
  BY <1>1, <1>2, <1>3, <1>4 DEF Room!Enter, InRoom, Members
<1> QED BY <1>1, <1>2, <1>5, RoomSteps

LEMMA RelayRefines ==
  ASSUME Inv, NEW f \in Fds, Relay(f)
  PROVE  Room!RoomNext
<1> USE DEF Inv
<1>1. /\ pc = "pass" /\ UNCHANGED << read_set, peer >>
      /\ \/ Survives(f) /\ PassOn(f)
         \/ ~ Survives(f) /\ pc' = "killed"
  BY DEF Relay, Turn
<1>2. f \in Members /\ f \in Open /\ peer[f] \in Users /\ peer[f] \in InRoom
  BY <1>1, TurnIsMembers DEF Relay, InRoom
<1>3. PICK k \in 1 .. Pending(peer[f]) :
        /\ taken' = [taken EXCEPT ![peer[f]] = @ + k]
        /\ sent' = [v \in Users |->
                      IF v \in Reached(f)
                      THEN sent[v] \o [n \in 1 .. k |-> << peer[f], taken[peer[f]] + n >>]
                      ELSE sent[v]]
  BY DEF Relay
<1>4. Room!Hear(Reached(f), peer[f], taken'[peer[f]])
  BY <1>2, <1>3, LinesAreHeard
<1>5. {peer[i] : i \in Members \ {f}} = InRoom \ {peer[f]}
  BY <1>1, <1>2, MembersTypes DEF InRoom, FdInv
<1>6. CASE Survives(f) /\ PassOn(f)
  <2>1. Reached(f) = InRoom \ {peer[f]}
    BY <1>5, <1>6, AllAreReached
  <2>2. pc' # "killed"
    BY <1>6 DEF PassOn
  <2>3. Room!Speak(peer[f])
    BY <1>1, <1>2, <1>4, <2>1, <2>2 DEF Room!Speak, InRoom, Members
  <2> QED BY <1>1, <1>2, <2>3, RoomSteps
<1>7. CASE pc' = "killed"
  <2>1. Reached(f) \in SUBSET (InRoom \ {peer[f]})
    BY <1>5, ReachedMembers
  <2>2. Room!Stop(peer[f])
    BY <1>1, <1>4, <1>7, <2>1 DEF Room!Stop, InRoom, Members
  <2> QED BY <1>1, <1>2, <2>2, RoomSteps
<1> QED BY <1>1, <1>6, <1>7

LEMMA LeaveRefines ==
  ASSUME Inv, NEW f \in Fds, NEW u, u = peer[f], Leave(f)
  PROVE  Room!RoomNext
<1> USE DEF Inv
<1>1. /\ pc = "pass" /\ sent' = sent
      /\ Pending(u) = 1 /\ taken' = [taken EXCEPT ![u] = @ + 1]
      /\ \/ read_set' = read_set \ {f} /\ peer' = [peer EXCEPT ![f] = NoUser] /\ PassOn(f)
         \/ pc' = "killed" /\ UNCHANGED << read_set, peer >>
  BY DEF Leave, Leaves, Turn, Announce
<1>2. f \in Members /\ f \in Open /\ u \in Users /\ u \in InRoom
  BY <1>1, TurnIsMembers DEF Leave, Leaves, InRoom
<1>3. CASE read_set' = read_set \ {f} /\ peer' = [peer EXCEPT ![f] = NoUser] /\ PassOn(f)
  <2>1. Members' = Members \ {f} /\ \A g \in Members' : peer'[g] = peer[g]
    BY <1>3, MembersTypes DEF Members, TypeOK
  <2>2. \A g \in Members \ {f} : peer[g] # u
    BY <1>1, <1>2, MembersTypes DEF FdInv
  <2>3. InRoom' = InRoom \ {u}
    BY <2>1, <2>2 DEF InRoom
  <2>4. pc' # "killed"
    BY <1>3 DEF PassOn
  <2>5. Room!Leave(u)
    BY <1>1, <1>2, <2>3, <2>4 DEF Room!Leave, InRoom, Members
  <2> QED BY <1>1, <1>2, <2>5, RoomSteps
<1>4. CASE pc' = "killed" /\ UNCHANGED << read_set, peer >>
  <2>1. 1 \in 1 .. Pending(u)
    BY <1>1
  <2>2. Room!Hear({}, u, taken'[u])
    BY <1>1, <1>2, <2>1, NothingIsHeard
  <2>3. Room!Stop(u)
    BY <1>1, <1>4, <2>2 DEF Room!Stop
  <2> QED BY <1>1, <1>2, <2>3, RoomSteps
<1> QED BY <1>1, <1>3, <1>4

LEMMA NextRefines ==
  Inv /\ [Next]_vars => [Room!RoomNext]_(Room!roomVars)
<1> SUFFICES ASSUME Inv, [Next]_vars PROVE [Room!RoomNext]_(Room!roomVars)
  OBVIOUS
<1>1. CASE Select
  BY <1>1, RoomStutters DEF Select, output, InRoom, Members
<1>2. ASSUME Accept, pc # "killed" PROVE UNCHANGED Room!roomVars
  <2> DEFINE fd == Min({f \in Fds : peer[f] = NoUser})
  <2>1. pc = "pass" /\ backlog # << >>
    BY <1>2 DEF Inv, Accept, Turn, FdInv
  <2>2. fd \in Fds \ Open
    BY <1>2, <2>1, RoomForOne DEF Inv
  <2>3. /\ peer' = [peer EXCEPT ![fd] = Head(backlog)] /\ pc' = "name"
        /\ UNCHANGED << read_set, taken, sent >>
    BY <1>2 DEF Accept, output
  <2> HIDE DEF fd
  <2>4. Members' = Members /\ \A f \in Members : peer'[f] = peer[f]
    BY <1>2, <2>2, <2>3, MembersTypes DEF Inv, Members, TypeOK
  <2> QED BY <2>1, <2>3, <2>4, RoomStutters DEF InRoom
<1>3. CASE ReadName
  BY <1>3, ReadNameRefines
<1>4. CASE ReadNoName
  BY <1>4, ReadNoNameRefines
<1>5. ASSUME NEW f \in Fds, Relay(f) PROVE Room!RoomNext
  BY <1>5, RelayRefines
<1>6. ASSUME NEW f \in Fds, Leave(f) PROVE Room!RoomNext
  BY <1>6, LeaveRefines
<1>7. ASSUME NEW f \in Fds, ReadEnd(f) PROVE UNCHANGED Room!roomVars
  BY <1>7, RoomStutters DEF ReadEnd, Turn, PassOn, output, InRoom, Members
<1>8. ASSUME NEW u \in Users, Client(u) PROVE UNCHANGED Room!roomVars
  <2>1. UNCHANGED << server, sent >>
    BY <1>8 DEF Client, Connect, WriteName, Say, Quit, Write, Exit, Die, Close,
                ResetArrives, output
  <2> QED BY <2>1, RoomStutters DEF server, InRoom, Members
<1>9. CASE UNCHANGED vars
  BY <1>9, RoomStutters DEF vars, server, output, InRoom, Members
<1> QED BY <1>1, <1>2, <1>3, <1>4, <1>5, <1>6, <1>7, <1>8, <1>9 DEF Next, Server

LEMMA InitRefines == Init => Room!RoomInit
BY DEF Init, Room!RoomInit

\* The select() loop of p12 is a chat room: every line that is read goes to all the
\* other members, once and in order, whatever the passes, leaves and reused
\* descriptors, and however many users there are.
THEOREM ChatIsRoom == Spec => ImplementsRoom
BY InitInv, NextInv, InitRefines, NextRefines, PTL DEF Spec, ImplementsRoom, Room!RoomSpec
=============================================================================
