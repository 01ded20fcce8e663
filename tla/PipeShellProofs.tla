-------------------------- MODULE PipeShellProofs --------------------------
(***************************************************************************)
(* Who holds the writing end of a pipe of p8, for any number of lines and  *)
(* commands, and what follows for the command that reads it.               *)
(***************************************************************************)
EXTENDS PipeShell, TLAPS

Labels == {"none", "begin", "wire", "read", "write", "gone", "prompt", "wait"}

\* There is a right command only for a line with a pipe, and none of a line to come.
Types ==
  /\ line \in Seq(Lines) /\ typed \in 0 .. NLines
  /\ pc \in [Procs -> Labels]
  /\ pc[Shell] \in {"prompt", "wait", "gone"}
  /\ DOMAIN ends = Procs /\ DOMAIN in = Procs /\ DOMAIN runs = Procs
  /\ \A k \in 1 .. NLines :
       /\ typed < k => pc[Left(k)] = "none" /\ pc[Right(k)] = "none"
       /\ pc[Right(k)] # "none" => line[k].op = "|"

Holds(p, k) == << k, "w" >> \in ends[p]

\* The writing end of a line's pipe is held by the shell, by the line's own left
\* command and by the commands of the lines behind it.
Holders ==
  \A k \in 1 .. typed : line[k].op = "|" =>
    /\ Alive(Shell) => Holds(Shell, k)
    /\ \A j \in 1 .. typed : k <= j /\ Alive(Left(j)) => Holds(Left(j), k)
    /\ \A j \in 1 .. typed : k < j /\ Alive(Right(j)) => Holds(Right(j), k)

\* A right command that reads, reads the pipe of its line.
Wired == \A k \in 1 .. NLines : pc[Right(k)] = "read" => in[Right(k)] = k

PInv == Types /\ Holders /\ Wired /\ ReadersEndLast

\* The processes are different ones.
LEMMA Distinct ==
  /\ Shell \in Procs
  /\ \A k \in 1 .. NLines :
       /\ Left(k) \in Procs /\ Right(k) \in Procs
       /\ Left(k) # Shell /\ Right(k) # Shell
       /\ \A j \in 1 .. NLines : /\ Left(k) # Right(j)
                                 /\ Left(k) = Left(j) => k = j
                                 /\ Right(k) = Right(j) => k = j
BY DEF Procs, Children, Shell, Left, Right

LEMMA NLinesIsNat == NLines \in Nat
BY PipeShellAssumption

\* A step that starts nobody, and takes no writing end from who stays, other than that
\* of its own pipe from a right command.
LEMMA HoldersStay ==
  ASSUME Types, Holders, UNCHANGED line,
         \A p \in Procs : Alive(p)' => Alive(p),
         \A p \in Procs, k \in 1 .. NLines :
           Alive(p)' /\ Holds(p, k) /\ p # Right(k) => Holds(p, k)'
  PROVE  Holders'
<1>1. typed' = typed /\ typed \in 0 .. NLines
  BY DEF typed, Types
<1>2. \A k \in 1 .. typed : k \in 1 .. NLines
  BY <1>1, NLinesIsNat
<1>3. SUFFICES ASSUME NEW k \in 1 .. typed, line[k].op = "|"
      PROVE  /\ Alive(Shell)' => Holds(Shell, k)'
             /\ \A j \in 1 .. typed : k <= j /\ Alive(Left(j))' => Holds(Left(j), k)'
             /\ \A j \in 1 .. typed : k < j /\ Alive(Right(j))' => Holds(Right(j), k)'
  BY <1>1 DEF Holders
<1> QED BY <1>2, <1>3, Distinct DEF Holders

\* A step that starts nobody, and ends no reading.
LEMMA LastStay ==
  ASSUME Types, ReadersEndLast, UNCHANGED line,
         \A p \in Procs : Alive(p)' => Alive(p),
         pc[Shell] = "gone" => pc'[Shell] = "gone",
         \A k \in 1 .. NLines :
           pc'[Right(k)] \in {"write", "gone"} /\ runs'[Right(k)] \in Reads =>
             pc[Right(k)] \in {"write", "gone"} /\ runs[Right(k)] \in Reads
  PROVE  ReadersEndLast'
<1>1. typed' = typed /\ typed \in 0 .. NLines
  BY DEF typed, Types
<1>2. \A k \in 1 .. typed : k \in 1 .. NLines
  BY <1>1, NLinesIsNat
<1>3. SUFFICES ASSUME NEW k \in 1 .. typed,
                      pc'[Right(k)] \in {"write", "gone"}, runs'[Right(k)] \in Reads
      PROVE  /\ pc'[Shell] = "gone"
             /\ ~ Alive(Left(k))'
             /\ \A j \in k + 1 .. typed : ~ Alive(Left(j))' /\ ~ Alive(Right(j))'
  BY <1>1 DEF ReadersEndLast
<1>4. /\ pc[Shell] = "gone" /\ ~ Alive(Left(k))
      /\ \A j \in k + 1 .. typed : ~ Alive(Left(j)) /\ ~ Alive(Right(j))
  BY <1>2, <1>3 DEF ReadersEndLast
<1>5. \A j \in k + 1 .. typed : j \in 1 .. NLines
  BY <1>1, NLinesIsNat
<1> QED BY <1>2, <1>3, <1>4, <1>5, Distinct

-----------------------------------------------------------------------------
LEMMA InitPInv == Init => PInv
<1> SUFFICES ASSUME Init PROVE PInv
  OBVIOUS
<1>1. line = << >> /\ typed = 0 /\ pc[Shell] = "prompt" /\ 1 .. typed = {}
  BY Distinct DEF Init, typed
<1>2. \A k \in 1 .. NLines : pc[Left(k)] = "none" /\ pc[Right(k)] = "none"
  BY Distinct DEF Init
<1>3. /\ pc \in [Procs -> Labels]
      /\ DOMAIN ends = Procs /\ DOMAIN in = Procs /\ DOMAIN runs = Procs
  BY DEF Init, Labels
<1>4. line \in Seq(Lines) /\ typed \in 0 .. NLines
  BY <1>1, NLinesIsNat
<1>5. Types
  BY <1>1, <1>2, <1>3, <1>4 DEF Types
<1>6. Wired
  BY <1>2 DEF Wired
<1> QED BY <1>1, <1>5, <1>6 DEF PInv, Holders, ReadersEndLast

\* A step of one process that types nothing, and neither begins nor wires a right
\* command.  p goes on, or is gone and has no ends.
LEMMA StepOf ==
  ASSUME PInv, UNCHANGED line, NEW p \in Procs, Alive(p),
         NEW l \in Labels, l # "none", p = Shell => l \in {"prompt", "wait", "gone"},
         pc' = [pc EXCEPT ![p] = l],
         DOMAIN ends' = Procs, DOMAIN in' = Procs, DOMAIN runs' = Procs,
         \A q \in Procs, k \in 1 .. NLines :
           Holds(q, k) /\ (q # p \/ l # "gone") => Holds(q, k)',
         \A k \in 1 .. NLines : p = Right(k) => l # "read",
         \A k \in 1 .. NLines :
           runs'[Right(k)] = runs[Right(k)] /\ in'[Right(k)] = in[Right(k)],
         \A k \in 1 .. NLines : p = Right(k) /\ l \in {"write", "gone"} => pc[p] = "write"
  PROVE  PInv'
<1>1. Types /\ Holders /\ Wired /\ ReadersEndLast
  BY DEF PInv
<1>2. pc' \in [Procs -> Labels] /\ pc'[p] = l /\ \A q \in Procs : q # p => pc'[q] = pc[q]
  BY <1>1 DEF Types
<1>3. pc[p] # "none" /\ pc[p] # "gone"
  BY DEF Alive
<1>4. Types'
  BY <1>1, <1>2, <1>3, Distinct DEF Types, typed
<1>5. \A q \in Procs : Alive(q)' => Alive(q)
  BY <1>2, <1>3 DEF Alive
<1>6. Holders'
  <2>1. \A q \in Procs, k \in 1 .. NLines : Alive(q)' /\ Holds(q, k) => Holds(q, k)'
    BY <1>2 DEF Alive
  <2> QED BY <1>1, <1>5, <2>1, HoldersStay
<1>7. Wired'
  BY <1>1, <1>2, Distinct DEF Wired
<1>8. ReadersEndLast'
  <2>1. pc[Shell] = "gone" => pc'[Shell] = "gone"
    BY <1>2, <1>3, Distinct
  <2>2. \A k \in 1 .. NLines :
          pc'[Right(k)] \in {"write", "gone"} /\ runs'[Right(k)] \in Reads =>
            pc[Right(k)] \in {"write", "gone"} /\ runs[Right(k)] \in Reads
    BY <1>2, Distinct
  <2> QED BY <1>1, <1>5, <2>1, <2>2, LastStay
<1> QED BY <1>4, <1>6, <1>7, <1>8 DEF PInv

\* An end of file at the pipe of its line is news for a right command: the shell has
\* gone, and everybody of the line and of those behind it who had the writing end.
LEMMA RightReadEnd ==
  ASSUME PInv, NEW k \in 1 .. NLines, ReadEnd(Right(k))
  PROVE  PInv'
<1>1. Types /\ Holders /\ Wired /\ ReadersEndLast
  BY DEF PInv
<1>2. /\ pc[Right(k)] = "read" /\ pc' = [pc EXCEPT ![Right(k)] = "write"]
      /\ UNCHANGED << line, in, out, ends, runs >>
      /\ in[Right(k)] \in 1 .. NLines => ~ Held(in[Right(k)], "w")
  BY DEF ReadEnd
<1>3. in[Right(k)] = k /\ ~ Held(k, "w")
  BY <1>1, <1>2 DEF Wired
<1>4. \A p \in Procs : ~ Holds(p, k)
  BY <1>3 DEF Held, Holds
<1>5. k \in 1 .. typed /\ line[k].op = "|"
  <2>1. ~ (typed < k) /\ typed \in 0 .. NLines /\ line[k].op = "|"
    BY <1>1, <1>2 DEF Types
  <2> QED BY <2>1, NLinesIsNat
<1>6. pc' \in [Procs -> Labels] /\ pc'[Right(k)] = "write"
      /\ \A q \in Procs : q # Right(k) => pc'[q] = pc[q]
  BY <1>1, <1>2, Distinct DEF Types, Labels
<1>7. Types'
  BY <1>1, <1>2, <1>6, Distinct DEF Types, typed
<1>8. \A q \in Procs : Alive(q)' => Alive(q)
  BY <1>2, <1>6 DEF Alive
<1>9. Holders'
  BY <1>1, <1>2, <1>8, HoldersStay DEF Holds
<1>10. Wired'
  BY <1>1, <1>2, <1>6, Distinct DEF Wired
<1>11. \A j \in 1 .. typed : j \in 1 .. NLines
  BY <1>1, NLinesIsNat DEF Types
<1>12. /\ ~ Alive(Shell) /\ ~ Alive(Left(k))
       /\ \A j \in k + 1 .. typed : ~ Alive(Left(j)) /\ ~ Alive(Right(j))
  <2>1. ~ Alive(Shell)
    BY <1>1, <1>4, <1>5, Distinct DEF Holders
  <2>2. \A j \in 1 .. typed : k <= j => ~ Alive(Left(j))
    BY <1>1, <1>4, <1>5, <1>11, Distinct DEF Holders
  <2>3. \A j \in 1 .. typed : k < j => ~ Alive(Right(j))
    BY <1>1, <1>4, <1>5, <1>11, Distinct DEF Holders
  <2>4. /\ k <= k
        /\ \A j \in k + 1 .. typed : j \in 1 .. typed /\ k <= j /\ k < j
    BY <1>1, NLinesIsNat DEF Types
  <2> QED BY <1>5, <2>1, <2>2, <2>3, <2>4
<1>13. pc[Shell] = "gone"
  BY <1>1, <1>12 DEF Types, Alive
<1>14. typed' = typed
  BY <1>2 DEF typed
<1>15. ReadersEndLast'
  <2> SUFFICES ASSUME NEW i \in 1 .. typed,
                      pc'[Right(i)] \in {"write", "gone"}, runs[Right(i)] \in Reads
               PROVE  /\ pc'[Shell] = "gone"
                      /\ ~ Alive(Left(i))'
                      /\ \A j \in i + 1 .. typed : ~ Alive(Left(j))' /\ ~ Alive(Right(j))'
    BY <1>2, <1>14 DEF ReadersEndLast
  <2>1. /\ ~ Alive(Left(i))
        /\ \A j \in i + 1 .. typed : ~ Alive(Left(j)) /\ ~ Alive(Right(j))
    <3>1. CASE i = k
      BY <1>12, <3>1
    <3>2. CASE i # k
      BY <1>1, <1>6, <1>11, <3>2, Distinct DEF ReadersEndLast
    <3> QED BY <3>1, <3>2
  <2>2. \A j \in i + 1 .. typed : j \in 1 .. NLines
    BY <1>1, NLinesIsNat DEF Types
  <2>3. pc'[Shell] = "gone"
    BY <1>6, <1>13, <1>5, Distinct
  <2> QED BY <1>8, <1>11, <2>1, <2>2, <2>3, Distinct
<1> QED BY <1>7, <1>9, <1>10, <1>15 DEF PInv

LEMMA WireRightStep ==
  ASSUME PInv, NEW k \in 1 .. NLines, WireRight(k)
  PROVE  PInv'
<1>1. Types /\ Holders /\ Wired /\ ReadersEndLast
  BY DEF PInv
<1> DEFINE command == RightCommand(line[k])
           l == IF command \in Reads THEN "read" ELSE "write"
<1>2. /\ pc[Right(k)] = "wire" /\ pc' = [pc EXCEPT ![Right(k)] = l]
      /\ ends' = [ends EXCEPT ![Right(k)] = @ \ {<< k, "w" >>}]
      /\ in' = [in EXCEPT ![Right(k)] = k]
      /\ runs' = [runs EXCEPT ![Right(k)] = command]
      /\ UNCHANGED line
  BY DEF WireRight, Execv, RightInput, RightEnds
<1>3. l \in Labels /\ l \in {"read", "write"} /\ (l = "write" => command \notin Reads)
  BY DEF Labels
<1> HIDE DEF l, command
<1>4. /\ pc' \in [Procs -> Labels] /\ pc'[Right(k)] = l
      /\ \A q \in Procs : q # Right(k) => pc'[q] = pc[q]
  BY <1>1, <1>2, <1>3, Distinct DEF Types
<1>5. /\ runs'[Right(k)] = command /\ in'[Right(k)] = k
      /\ \A i \in 1 .. NLines : i # k =>
           runs'[Right(i)] = runs[Right(i)] /\ in'[Right(i)] = in[Right(i)]
  BY <1>1, <1>2, Distinct DEF Types
<1>6. Types'
  BY <1>1, <1>2, <1>4, Distinct DEF Types, typed
<1>7. \A q \in Procs : Alive(q)' => Alive(q)
  BY <1>2, <1>4 DEF Alive
<1>8. Holders'
  <2>1. \A q \in Procs, i \in 1 .. NLines : Holds(q, i) /\ q # Right(i) => Holds(q, i)'
    BY <1>1, <1>2, Distinct DEF Types, Holds
  <2> QED BY <1>1, <1>2, <1>7, <2>1, HoldersStay
<1>9. Wired'
  BY <1>1, <1>4, <1>5, Distinct DEF Wired
<1>10. ReadersEndLast'
  <2>1. pc[Shell] = "gone" => pc'[Shell] = "gone"
    BY <1>4, Distinct
  <2>2. \A i \in 1 .. NLines :
          pc'[Right(i)] \in {"write", "gone"} /\ runs'[Right(i)] \in Reads =>
            pc[Right(i)] \in {"write", "gone"} /\ runs[Right(i)] \in Reads
    BY <1>3, <1>4, <1>5, Distinct
  <2> QED BY <1>1, <1>2, <1>7, <2>1, <2>2, LastStay
<1> QED BY <1>6, <1>8, <1>9, <1>10 DEF PInv

\* The right command gets the ends that the left one has.
LEMMA ForkRightStep ==
  ASSUME PInv, NEW k \in 1 .. NLines, pc[Left(k)] = "begin", line[k].op = "|",
         pc' = [pc EXCEPT ![Left(k)] = "wire", ![Right(k)] = "wire"],
         ends' = [ends EXCEPT ![Right(k)] = ends[Left(k)]],
         UNCHANGED << line, in, runs >>
  PROVE  PInv'
<1>1. Types /\ Holders /\ Wired /\ ReadersEndLast
  BY DEF PInv
<1>2. /\ pc' \in [Procs -> Labels] /\ pc'[Left(k)] = "wire" /\ pc'[Right(k)] = "wire"
      /\ \A q \in Procs : q # Left(k) /\ q # Right(k) => pc'[q] = pc[q]
  BY <1>1, Distinct DEF Types, Labels
<1>3. /\ typed' = typed /\ k \in 1 .. typed
      /\ \A j \in 1 .. typed : j \in 1 .. NLines
  <2>1. ~ (typed < k) /\ typed \in 0 .. NLines
    BY <1>1 DEF Types
  <2> QED BY <2>1, NLinesIsNat DEF typed
<1>4. Types'
  BY <1>1, <1>2, <1>3, Distinct DEF Types, typed
<1>5. /\ \A q \in Procs : q # Right(k) => (Alive(q)' => Alive(q))
      /\ Alive(Left(k))
  BY <1>2 DEF Alive
<1>6. Holders'
  <2> SUFFICES ASSUME NEW i \in 1 .. typed, line[i].op = "|"
        PROVE  /\ Alive(Shell)' => Holds(Shell, i)'
               /\ \A j \in 1 .. typed : i <= j /\ Alive(Left(j))' => Holds(Left(j), i)'
               /\ \A j \in 1 .. typed : i < j /\ Alive(Right(j))' => Holds(Right(j), i)'
    BY <1>3 DEF Holders
  <2>1. /\ Alive(Shell) => Holds(Shell, i)
        /\ \A j \in 1 .. typed : i <= j /\ Alive(Left(j)) => Holds(Left(j), i)
        /\ \A j \in 1 .. typed : i < j /\ Alive(Right(j)) => Holds(Right(j), i)
    BY <1>1 DEF Holders
  <2>2. /\ \A q \in Procs : q # Right(k) => Holds(q, i)' = Holds(q, i)
        /\ Holds(Right(k), i)' = Holds(Left(k), i)
    BY <1>1, Distinct DEF Types, Holds
  <2>3. ASSUME NEW j \in 1 .. typed, i < j, Alive(Right(j))'
        PROVE  Holds(Right(j), i)'
    <3>1. CASE j = k
      <4>1. i <= k
        BY <1>3, <2>3, <3>1
      <4> QED BY <1>3, <1>5, <2>1, <2>2, <3>1, <4>1
    <3>2. CASE j # k
      BY <1>3, <1>5, <2>1, <2>2, <2>3, <3>2, Distinct
    <3> QED BY <3>1, <3>2
  <2> QED BY <1>3, <1>5, <2>1, <2>2, <2>3, Distinct
<1>7. Wired'
  BY <1>1, <1>2, Distinct DEF Wired
<1>8. ReadersEndLast'
  <2> SUFFICES ASSUME NEW i \in 1 .. typed,
                      pc'[Right(i)] \in {"write", "gone"}, runs[Right(i)] \in Reads
               PROVE  /\ pc'[Shell] = "gone"
                      /\ ~ Alive(Left(i))'
                      /\ \A j \in i + 1 .. typed : ~ Alive(Left(j))' /\ ~ Alive(Right(j))'
    BY <1>3 DEF ReadersEndLast
  <2>1. i # k /\ i \in 1 .. NLines
    BY <1>2, <1>3
  <2>2. /\ pc[Shell] = "gone" /\ ~ Alive(Left(i))
        /\ \A j \in i + 1 .. typed : ~ Alive(Left(j)) /\ ~ Alive(Right(j))
    BY <1>1, <1>2, <2>1, Distinct DEF ReadersEndLast
  <2>3. \A j \in i + 1 .. typed : j \in 1 .. NLines /\ j # k
    <3>1. k \notin i + 1 .. typed
      BY <1>5, <2>2
    <3> QED BY <1>1, <3>1, NLinesIsNat DEF Types
  <2> QED BY <1>2, <1>5, <2>1, <2>2, <2>3, Distinct
<1> QED BY <1>4, <1>6, <1>7, <1>8 DEF PInv

LEMMA TypeStep ==
  ASSUME PInv, NEW l \in Lines, Type(l)
  PROVE  PInv'
<1>1. Types /\ Holders /\ Wired /\ ReadersEndLast
  BY DEF PInv
<1>2. PICK k \in Nat : k = typed + 1
  BY <1>1, NLinesIsNat DEF Types
<1>3. PICK held : held = ends[Shell] \cup NewEnds(k, l)
  OBVIOUS
<1>4. /\ pc[Shell] = "prompt" /\ typed < NLines /\ line' = Append(line, l)
      /\ UNCHANGED << in, runs >>
      /\ \/ /\ pc' = [pc EXCEPT ![Shell] = "wait", ![Left(k)] = "begin"]
            /\ ends' = [ends EXCEPT ![Shell] = held, ![Left(k)] = held]
         \/ /\ pc' = [pc EXCEPT ![Shell] = "wait"]
            /\ ends' = [ends EXCEPT ![Shell] = held]
  BY <1>2, <1>3 DEF Type
<1>5. /\ typed \in Nat /\ k \in 1 .. NLines /\ typed' = k /\ k = typed + 1
      /\ \A i \in 1 .. typed : line'[i] = line[i]
      /\ line'[k] = l /\ line' \in Seq(Lines)
  <2>1. line \in Seq(Lines) /\ typed = Len(line) /\ typed \in 0 .. NLines
    BY <1>1 DEF Types, typed
  <2>2. typed' = Len(line')
    BY DEF typed
  <2> QED BY <1>2, <1>4, <2>1, <2>2, NLinesIsNat
<1>6. pc[Left(k)] = "none" /\ pc[Right(k)] = "none"
  BY <1>1, <1>5 DEF Types
<1>7. /\ ends[Shell] \subseteq held /\ (l.op = "|" => << k, "w" >> \in held)
  BY <1>3 DEF NewEnds
<1>8. /\ pc' \in [Procs -> Labels] /\ pc'[Shell] = "wait"
      /\ pc'[Left(k)] \in {"none", "begin"}
      /\ \A q \in Procs : q # Shell /\ q # Left(k) => pc'[q] = pc[q]
  <2>1. /\ pc \in [Procs -> Labels] /\ {"wait", "begin"} \subseteq Labels
        /\ Shell \in Procs /\ Left(k) \in Procs /\ Left(k) # Shell
    BY <1>1, <1>5, Distinct DEF Types, Labels
  <2>2. CASE pc' = [pc EXCEPT ![Shell] = "wait", ![Left(k)] = "begin"]
    BY <2>1, <2>2
  <2>3. CASE pc' = [pc EXCEPT ![Shell] = "wait"]
    BY <1>6, <2>1, <2>3
  <2> QED BY <1>4, <2>2, <2>3
<1>9. /\ DOMAIN ends' = Procs /\ ends'[Shell] = held
      /\ Alive(Left(k))' => ends'[Left(k)] = held
      /\ \A q \in Procs : q # Shell /\ q # Left(k) => ends'[q] = ends[q]
  <2>1. CASE /\ pc' = [pc EXCEPT ![Shell] = "wait", ![Left(k)] = "begin"]
             /\ ends' = [ends EXCEPT ![Shell] = held, ![Left(k)] = held]
    BY <1>1, <1>5, <2>1, Distinct DEF Types
  <2>2. CASE /\ pc' = [pc EXCEPT ![Shell] = "wait"]
             /\ ends' = [ends EXCEPT ![Shell] = held]
    <3>1. pc'[Left(k)] = "none"
      BY <1>1, <1>5, <1>6, <2>2, Distinct DEF Types
    <3> QED BY <1>1, <1>5, <2>2, <3>1, Distinct DEF Types, Alive
  <2> QED BY <1>4, <2>1, <2>2
<1>10. \A i \in 1 .. k : i = k \/ i \in 1 .. typed
  BY <1>5
<1>11. \A i \in 1 .. k : i \in 1 .. NLines
  BY <1>5, NLinesIsNat
<1>12. Types'
  <2>1. \A i \in 1 .. NLines : k < i => typed < i /\ i # k
    BY <1>5
  <2>2. \A i \in 1 .. NLines : pc'[Right(i)] # "none" => line'[i].op = "|"
    <3> SUFFICES ASSUME NEW i \in 1 .. NLines, pc'[Right(i)] # "none"
                 PROVE  line'[i].op = "|"
      OBVIOUS
    <3>1. pc[Right(i)] # "none"
      BY <1>8, <1>5, Distinct
    <3>2. line[i].op = "|" /\ ~ (typed < i)
      BY <1>1, <3>1 DEF Types
    <3>3. i \in 1 .. typed
      BY <1>5, <3>2
    <3> QED BY <1>5, <3>2, <3>3
  <2>3. \A i \in 1 .. NLines : typed' < i => pc'[Left(i)] = "none" /\ pc'[Right(i)] = "none"
    BY <1>1, <1>5, <1>8, <2>1, Distinct DEF Types
  <2>4. typed' \in 0 .. NLines
    BY <1>5
  <2> QED BY <1>1, <1>4, <1>5, <1>8, <1>9, <2>2, <2>3, <2>4 DEF Types
<1>13. Holders'
  <2> SUFFICES ASSUME NEW i \in 1 .. k, line'[i].op = "|"
        PROVE  /\ Holds(Shell, i)'
               /\ \A j \in 1 .. k : i <= j /\ Alive(Left(j))' => Holds(Left(j), i)'
               /\ \A j \in 1 .. k : i < j /\ Alive(Right(j))' => Holds(Right(j), i)'
    BY <1>5 DEF Holders
  <2>1. << i, "w" >> \in held
    <3>1. CASE i = k
      BY <1>5, <1>7, <3>1
    <3>2. CASE i \in 1 .. typed
      <4>1. Holds(Shell, i)
        BY <1>1, <1>4, <1>5, <3>2 DEF Holders, Alive
      <4> QED BY <1>7, <4>1 DEF Holds
    <3> QED BY <1>10, <3>1, <3>2
  <2>2. ASSUME NEW j \in 1 .. k, i <= j, Alive(Left(j))'
        PROVE  Holds(Left(j), i)'
    <3>1. CASE j = k
      BY <1>9, <2>1, <2>2, <3>1 DEF Holds
    <3>2. CASE j # k
      <4>1. j \in 1 .. typed /\ i \in 1 .. typed
        BY <1>5, <2>2, <3>2
      <4>2. pc'[Left(j)] = pc[Left(j)] /\ ends'[Left(j)] = ends[Left(j)]
        BY <1>5, <1>8, <1>9, <1>11, <3>2, Distinct
      <4>3. Holds(Left(j), i)
        BY <1>1, <1>5, <2>2, <4>1, <4>2 DEF Holders, Alive
      <4> QED BY <4>2, <4>3 DEF Holds
    <3> QED BY <3>1, <3>2
  <2>3. ASSUME NEW j \in 1 .. k, i < j, Alive(Right(j))'
        PROVE  Holds(Right(j), i)'
    <3>1. pc'[Right(j)] = pc[Right(j)] /\ ends'[Right(j)] = ends[Right(j)]
      BY <1>5, <1>8, <1>9, <1>11, Distinct
    <3>2. j # k
      BY <1>6, <2>3, <3>1 DEF Alive
    <3>3. j \in 1 .. typed /\ i \in 1 .. typed
      BY <1>5, <2>3, <3>2
    <3>4. Holds(Right(j), i)
      BY <1>1, <1>5, <2>3, <3>1, <3>3 DEF Holders, Alive
    <3> QED BY <3>1, <3>4 DEF Holds
  <2> QED BY <1>9, <2>1, <2>2, <2>3 DEF Holds
<1>14. Wired'
  BY <1>1, <1>4, <1>5, <1>8, Distinct DEF Wired
<1>15. ReadersEndLast'
  <2>1. \A i \in 1 .. k : pc'[Right(i)] = pc[Right(i)]
    BY <1>5, <1>8, <1>11, Distinct
  <2>2. \A i \in 1 .. k : ~ (pc[Right(i)] \in {"write", "gone"} /\ runs[Right(i)] \in Reads)
    BY <1>1, <1>4, <1>6, <1>10 DEF ReadersEndLast
  <2> QED BY <1>4, <1>5, <2>1, <2>2 DEF ReadersEndLast
<1> QED BY <1>12, <1>13, <1>14, <1>15 DEF PInv

LEMMA ShellStep ==
  ASSUME PInv, \/ \E l \in Lines : TypeTooMany(l)
               \/ Wait \/ Quit
  PROVE  PInv'
<1>1. /\ Shell \in Procs /\ Alive(Shell) /\ UNCHANGED << line, in, runs >>
      /\ \A k \in 1 .. NLines : Shell # Right(k)
      /\ DOMAIN ends = Procs /\ DOMAIN in = Procs /\ DOMAIN runs = Procs
  BY Distinct DEF PInv, Types, TypeTooMany, Wait, Quit, Alive
<1>2. CASE Wait
  <2>1. "prompt" \in Labels /\ pc' = [pc EXCEPT ![Shell] = "prompt"] /\ ends' = ends
    BY <1>2 DEF Wait, Labels
  <2> QED BY <1>1, <2>1, StepOf DEF Holds
<1>3. CASE Gone(Shell)
  <2>1. /\ "gone" \in Labels /\ pc' = [pc EXCEPT ![Shell] = "gone"]
        /\ ends' = [ends EXCEPT ![Shell] = {}]
    BY <1>3 DEF Gone, Labels
  <2>2. \A q \in Procs, k \in 1 .. NLines : Holds(q, k) /\ q # Shell => Holds(q, k)'
    BY <1>1, <2>1 DEF Holds
  <2>3. DOMAIN ends' = Procs
    BY <1>1, <2>1
  <2> QED BY <1>1, <2>1, <2>2, <2>3, StepOf
<1> QED BY <1>2, <1>3 DEF TypeTooMany, Quit

LEMMA LeftStep ==
  ASSUME PInv, NEW k \in 1 .. NLines, Begin(k) \/ WireLeft(k)
  PROVE  PInv'
<1> DEFINE p == Left(k)
<1>1. /\ p \in Procs /\ p # Shell /\ Alive(p) /\ UNCHANGED line
      /\ \A j \in 1 .. NLines : p # Right(j) /\ Right(j) \in Procs
      /\ DOMAIN ends = Procs /\ DOMAIN in = Procs /\ DOMAIN runs = Procs
  BY Distinct DEF PInv, Types, Begin, WireLeft, Alive
<1>2. PICK l \in {"read", "write", "gone"} : pc' = [pc EXCEPT ![p] = l]
  BY DEF Begin, WireLeft, Gone, Execv
<1>3. l \in Labels /\ l # "none"
  BY DEF Labels
<1>4. /\ DOMAIN ends' = Procs
      /\ \A q \in Procs, j \in 1 .. NLines :
           Holds(q, j) /\ (q # p \/ l # "gone") => Holds(q, j)'
  <2>1. CASE ends' = [ends EXCEPT ![p] = @ \ {<< k, "r" >>}] \/ ends' = ends
    BY <1>1, <2>1 DEF Holds
  <2>2. CASE Gone(p)
    <3>1. ends' = [ends EXCEPT ![p] = {}] /\ pc'[p] = "gone"
      BY <1>1, <2>2 DEF Gone, PInv, Types
    <3>2. l = "gone"
      BY <1>1, <1>2, <3>1 DEF PInv, Types
    <3> QED BY <1>1, <3>1, <3>2 DEF Holds
  <2> QED BY <2>1, <2>2 DEF Begin, WireLeft
<1>5. DOMAIN in' = Procs /\ \A j \in 1 .. NLines : in'[Right(j)] = in[Right(j)]
  BY <1>1 DEF Begin, WireLeft
<1>6. DOMAIN runs' = Procs /\ \A j \in 1 .. NLines : runs'[Right(j)] = runs[Right(j)]
  BY <1>1 DEF Begin, WireLeft, Execv
<1> HIDE DEF p
<1> QED BY <1>1, <1>2, <1>3, <1>4, <1>5, <1>6, StepOf

LEMMA ForkStep ==
  ASSUME PInv, NEW k \in 1 .. NLines, ForkRight(k)
  PROVE  PInv'
<1>1. CASE /\ pc' = [pc EXCEPT ![Left(k)] = "wire", ![Right(k)] = "wire"]
           /\ ends' = [ends EXCEPT ![Right(k)] = ends[Left(k)]]
  BY <1>1, ForkRightStep DEF ForkRight
<1>2. CASE Gone(Left(k))
  <2> DEFINE p == Left(k)
  <2>1. /\ p \in Procs /\ p # Shell /\ Alive(p) /\ UNCHANGED << line, in, runs >>
        /\ \A j \in 1 .. NLines : p # Right(j)
        /\ DOMAIN ends = Procs /\ DOMAIN in = Procs /\ DOMAIN runs = Procs
    BY Distinct DEF PInv, Types, ForkRight, Alive
  <2>2. /\ "gone" \in Labels /\ pc' = [pc EXCEPT ![p] = "gone"]
        /\ ends' = [ends EXCEPT ![p] = {}]
    BY <1>2 DEF Gone, Labels
  <2> HIDE DEF p
  <2>3. \A q \in Procs, j \in 1 .. NLines : Holds(q, j) /\ q # p => Holds(q, j)'
    BY <2>1, <2>2 DEF Holds
  <2>4. DOMAIN ends' = Procs
    BY <2>1, <2>2
  <2> QED BY <2>1, <2>2, <2>3, <2>4, StepOf
<1> QED BY <1>1, <1>2 DEF ForkRight

LEMMA Unmoved ==
  ASSUME PInv, UNCHANGED << line, pc, in, ends, runs >>
  PROVE  PInv'
BY DEF PInv, Types, typed, Holders, Holds, Alive, Wired, ReadersEndLast

LEMMA ProgramStep ==
  ASSUME PInv, NEW k \in 1 .. NLines, NEW p \in {Left(k), Right(k)}, Program(p)
  PROVE  PInv'
<1>1. /\ p \in Procs /\ p # Shell
      /\ DOMAIN ends = Procs /\ DOMAIN in = Procs /\ DOMAIN runs = Procs
  BY Distinct DEF PInv, Types
<1>2. CASE Read(p) \/ Write(p)
  BY <1>2, Unmoved DEF Read, Write
<1>3. CASE ReadEnd(p) /\ p = Right(k)
  BY <1>3, RightReadEnd
<1>4. CASE ReadEnd(p) /\ p = Left(k)
  <2>1. /\ Alive(p) /\ UNCHANGED << line, in, ends, runs >>
        /\ "write" \in Labels /\ pc' = [pc EXCEPT ![p] = "write"]
    BY <1>4 DEF ReadEnd, Alive, Labels
  <2>2. \A j \in 1 .. NLines : p # Right(j)
    BY <1>4, Distinct
  <2> QED BY <1>1, <2>1, <2>2, StepOf DEF Holds
<1>5. CASE Ends(p)
  <2>1. /\ Alive(p) /\ UNCHANGED << line, in, runs >> /\ pc[p] = "write"
        /\ "gone" \in Labels /\ pc' = [pc EXCEPT ![p] = "gone"]
        /\ ends' = [ends EXCEPT ![p] = {}]
    BY <1>5 DEF Ends, Gone, Alive, Labels
  <2>2. \A q \in Procs, j \in 1 .. NLines : Holds(q, j) /\ q # p => Holds(q, j)'
    BY <1>1, <2>1 DEF Holds
  <2>3. DOMAIN ends' = Procs
    BY <1>1, <2>1
  <2> QED BY <1>1, <2>1, <2>2, <2>3, StepOf
<1> QED BY <1>2, <1>3, <1>4, <1>5 DEF Program

LEMMA NextPInv == PInv /\ [Next]_vars => PInv'
<1> SUFFICES ASSUME PInv, [Next]_vars PROVE PInv'
  OBVIOUS
<1>1. CASE \E l \in Lines : Type(l)
  BY <1>1, TypeStep
<1>2. CASE \/ \E l \in Lines : TypeTooMany(l)
           \/ Wait \/ Quit
  BY <1>2, ShellStep
<1>3. CASE \E k \in 1 .. NLines : Child(k)
  BY <1>3, LeftStep, ForkStep, ProgramStep DEF Child
<1>4. CASE \E k \in 1 .. NLines : Grandchild(k)
  BY <1>4, WireRightStep, ProgramStep DEF Grandchild
<1>5. CASE UNCHANGED vars
  BY <1>5, Unmoved DEF vars
<1> QED BY <1>1, <1>2, <1>3, <1>4, <1>5 DEF Next

(***************************************************************************)
(* In a pipeline the reader outlives the shell and all later commands, for *)
(* any lines, sizes and failures of fork(): the shell closes none of its   *)
(* ends (lines 66-92) and everybody it starts inherits them.               *)
(***************************************************************************)
THEOREM ReadersLast == Spec => []ReadersEndLast
<1>1. PInv => ReadersEndLast
  BY DEF PInv
<1> QED BY <1>1, InitPInv, NextPInv, PTL DEF Spec
=============================================================================
