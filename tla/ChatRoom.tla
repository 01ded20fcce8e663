------------------------------ MODULE ChatRoom ------------------------------
(***************************************************************************)
(* What the chat server of p12 promises: one room, in which every line of  *)
(* a member is heard, in order and once, by all the other members.         *)
(***************************************************************************)
EXTENDS Integers, Sequences

CONSTANT Users

VARIABLES
  members,
  taken,    \* taken[u]: how many lines of u, its name among them, are dealt with
  heard,    \* heard[u]: the lines <<speaker, number>> that were sent to u
  running

roomVars == << members, taken, heard, running >>

RoomInit ==
  /\ members = {}
  /\ taken = [u \in Users |-> 0]
  /\ heard = [u \in Users |-> << >>]
  /\ running = TRUE

\* Every user of S hears the lines of u from the next one up to number n.
Hear(S, u, n) ==
  LET lines == [k \in 1 .. n - taken[u] |-> << u, taken[u] + k >>]
  IN  /\ n > taken[u]
      /\ taken' = [taken EXCEPT ![u] = n]
      /\ heard' = [v \in Users |-> IF v \in S THEN heard[v] \o lines ELSE heard[v]]

\* What is read along with the name is not heard by anyone.
Enter(u) ==
  /\ u \notin members
  /\ members' = members \cup {u}
  /\ taken'[u] >= taken[u]
  /\ taken' = [taken EXCEPT ![u] = taken'[u]]
  /\ UNCHANGED << heard, running >>

Speak(u) ==
  /\ u \in members
  /\ Hear(members \ {u}, u, taken'[u])
  /\ UNCHANGED << members, running >>

\* The line that says so is not heard.
Leave(u) ==
  /\ u \in members
  /\ members' = members \ {u}
  /\ taken' = [taken EXCEPT ![u] = @ + 1]
  /\ UNCHANGED << heard, running >>

\* The server may stop in the middle of telling the others.
Stop(u) ==
  /\ running
  /\ running' = FALSE
  /\ \E S \in SUBSET (members \ {u}) : Hear(S, u, taken'[u])
  /\ UNCHANGED members

RoomNext == \E u \in Users : running /\ (Enter(u) \/ Speak(u) \/ Leave(u) \/ Stop(u))

RoomSpec == RoomInit /\ [][RoomNext]_roomVars
=============================================================================
