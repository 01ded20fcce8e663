---------------------------- MODULE SearchProofs ----------------------------
(***************************************************************************)
(* Proofs about the search of pa1, for every file, query and size of the   *)
(* chunks: the bad character rule skips no word, and the answer is the one *)
(* that was asked for.                                                     *)
(***************************************************************************)
EXTENDS Search, TLAPS, WellFoundedInduction, FiniteSetTheorems

\* A set of numbers has a least one, and a greatest one if it has a bound.
LEMMA Least ==
  ASSUME NEW T \in SUBSET Nat, T # {}
  PROVE  \E m \in T : \A y \in T : m <= y
<1> DEFINE R == OpToRel(<, Nat)
<1>1. IsWellFoundedOn(R, Nat)
  BY NatLessThanWellFounded
<1>2. \A y, z \in Nat : y < z => << y, z >> \in R
  BY DEF OpToRel
<1> HIDE DEF R
<1>3. PICK m \in T : \A y \in T : ~ (<< y, m >> \in R)
  BY <1>1, WFMin
<1>4. ASSUME NEW y \in T PROVE m <= y
  <2>1. y \in Nat /\ m \in Nat
    OBVIOUS
  <2>2. ~ (y < m)
    BY <2>1, <1>2, <1>3
  <2> QED BY <2>1, <2>2
<1> QED BY <1>4

LEMMA MaxFacts ==
  ASSUME NEW n \in Nat, NEW S \in SUBSET (0 .. n), S # {}
  PROVE  Max(S) \in S /\ \A y \in S : Max(S) >= y
<1> DEFINE T == {n - x : x \in S}
<1>1. T \subseteq Nat
  OBVIOUS
<1>2. T # {}
  <2>1. PICK x \in S : TRUE
    OBVIOUS
  <2> QED BY <2>1
<1> HIDE DEF T
<1>3. PICK m \in T : \A y \in T : m <= y
  BY <1>1, <1>2, Least
<1>4. \E x \in S : \A y \in S : x >= y
  BY <1>3 DEF T
<1> QED BY <1>4 DEF Max

LEMMA GreatestFacts ==
  ASSUME NEW n \in Nat, NEW S \in SUBSET (0 .. n - 1)
  PROVE  /\ Greatest(S) \in -1 .. n - 1
         /\ Greatest(S) >= 0 => Greatest(S) \in S
         /\ \A y \in S : y <= Greatest(S)
<1>1. CASE S = {}
  BY <1>1 DEF Greatest
<1>2. CASE S # {}
  <2>1. n - 1 \in Nat
    <3>1. PICK x \in S : x \in 0 .. n - 1
      BY <1>2
    <3> QED BY <3>1
  <2>2. Max(S) \in S /\ \A y \in S : Max(S) >= y
    BY <1>2, <2>1, MaxFacts
  <2>3. Greatest(S) = Max(S)
    BY <1>2 DEF Greatest
  <2>4. Max(S) \in 0 .. n - 1
    BY <2>2
  <2> HIDE DEF Greatest
  <2> QED BY <2>2, <2>3, <2>4
<1> QED BY <1>1, <1>2

\* The table holds, for each character, a place of the pattern that is not before
\* any place where the character stands.
LEMMA LastPlacesFacts ==
  ASSUME NEW p \in Seq(Chars), p # << >>
  PROVE  /\ LastPlaces(p) \in [Chars -> 0 .. Len(p) - 1]
         /\ \A c \in Chars, i \in 0 .. Len(p) - 1 :
              p[i + 1] = c => i <= LastPlaces(p)[c]
<1> DEFINE Places(c) == {i \in 0 .. Len(p) - 1 : p[i + 1] = c}
<1>1. Len(p) \in Nat \ {0}
  OBVIOUS
<1>2. ASSUME NEW c \in Chars
      PROVE  /\ Greatest(Places(c)) \in -1 .. Len(p) - 1
             /\ \A y \in Places(c) : y <= Greatest(Places(c))
  BY <1>1, GreatestFacts
<1>3. \A c \in Chars : LastPlaces(p)[c] = Max2(0, Greatest(Places(c)))
  BY DEF LastPlaces
<1>4. \A c \in Chars : LastPlaces(p)[c] \in 0 .. Len(p) - 1
  <2> HIDE DEF Places
  <2> QED BY <1>1, <1>2, <1>3 DEF Max2
<1>5. LastPlaces(p) \in [Chars -> 0 .. Len(p) - 1]
  <2>1. LastPlaces(p) = [c \in Chars |-> LastPlaces(p)[c]]
    BY DEF LastPlaces
  <2> QED BY <2>1, <1>4
<1>6. ASSUME NEW c \in Chars, NEW i \in 0 .. Len(p) - 1, p[i + 1] = c
      PROVE  i <= LastPlaces(p)[c]
  <2>1. i \in Places(c)
    BY <1>6
  <2>2. i <= Greatest(Places(c))
    BY <2>1, <1>2
  <2> HIDE DEF Places
  <2> QED BY <2>2, <1>2, <1>3 DEF Max2
<1> QED BY <1>5, <1>6

LEMMA MismatchFacts ==
  ASSUME NEW p \in Seq(Chars), NEW i \in Nat
  PROVE  /\ Mismatch(p, i) \in -1 .. Len(p) - 1
         /\ Mismatch(p, i) >= 0 =>
              lower[text(i + Mismatch(p, i))] # lower[p[Mismatch(p, i) + 1]]
         /\ Mismatch(p, i) < 0 =>
              \A j \in 0 .. Len(p) - 1 : lower[text(i + j)] = lower[p[j + 1]]
<1> DEFINE Places == {j \in 0 .. Len(p) - 1 : lower[text(i + j)] # lower[p[j + 1]]}
<1>1. Len(p) \in Nat
  OBVIOUS
<1>2. Mismatch(p, i) = Greatest(Places)
  BY DEF Mismatch
<1>3. /\ Greatest(Places) \in -1 .. Len(p) - 1
      /\ Greatest(Places) >= 0 => Greatest(Places) \in Places
      /\ \A y \in Places : y <= Greatest(Places)
  BY <1>1, GreatestFacts
<1>4. ASSUME Mismatch(p, i) < 0, NEW j \in 0 .. Len(p) - 1
      PROVE  lower[text(i + j)] = lower[p[j + 1]]
  <2>1. ~ (j <= Greatest(Places))
    <3> HIDE DEF Places
    <3> QED BY <1>2, <1>3, <1>4
  <2> QED BY <2>1, <1>3
<1> QED BY <1>2, <1>3, <1>4

LEMMA LoweredFacts ==
  ASSUME NEW p \in Seq(Chars), NEW j \in Int
  PROVE  /\ Lowered(p, j) \in Seq(Chars)
         /\ Len(Lowered(p, j)) = Len(p)
         /\ InSmallLetters(p) => Lowered(p, j) = p
<1>1. \A i \in 1 .. Len(p) : p[i] \in Chars /\ lower[p[i]] \in Chars
  BY SearchAssumption
<1>2. Lowered(p, j) \in [1 .. Len(p) -> Chars]
  BY <1>1 DEF Lowered
<1>3. Lowered(p, j) \in Seq(Chars) /\ Len(Lowered(p, j)) = Len(p)
  BY <1>2
<1>4. ASSUME InSmallLetters(p)
      PROVE  Lowered(p, j) = p
  <2>1. Lowered(p, j) = [i \in 1 .. Len(p) |-> p[i]]
    BY <1>4 DEF Lowered, InSmallLetters
  <2> QED BY <2>1
<1> QED BY <1>3, <1>4

-----------------------------------------------------------------------------
\* The table is the table of the pattern when the comparison has nothing to lower.
TableInv ==
  /\ characters \in [Chars -> 0 .. pattern_length - 1]
  /\ \A v \in 1 .. Len(word) :
       InSmallLetters(query.word[v]) => word[v] = query.word[v]
  /\ InSmallLetters(query.word[w]) => characters = LastPlaces(pattern)

\* What was found lies behind the stride.
PlacesInv ==
  /\ \A k \in 1 .. Len(hits[w]) : hits[w][k] < s
  /\ \A v \in w + 1 .. Len(word) : hits[v] = << >>

IInv == TypeOK /\ TableInv /\ NoneSkipped
HInv == TypeOK /\ TableInv /\ PlacesInv /\ HitsAreWords

\* What the loop may use: the chunk holds characters up to behind the pattern.
LEMMA SearchingFacts ==
  ASSUME TypeOK, TableInv, Searching
  PROVE  /\ pattern \in Seq(Chars) /\ pattern_length \in Nat \ {0}
         /\ s + pattern_length < text_length
         /\ \A i \in 0 .. s + pattern_length : text(i) \in Chars
         /\ \A c \in Chars : characters[c] \in 0 .. pattern_length - 1
<1>1. pattern \in Seq(Chars) /\ pattern # << >>
  BY DEF TypeOK, pattern
<1>2. pattern_length \in Nat \ {0}
  BY <1>1 DEF pattern_length
<1>3. /\ offset \in Nat /\ s \in Nat /\ MAX_INPUT \in Nat
      /\ Len(file) \in Nat /\ file \in Seq(Chars)
  BY SearchAssumption DEF TypeOK
<1>4. text_length \in Int /\ text_length <= Len(file) - offset
  BY <1>3 DEF text_length
<1>5. s + pattern_length < text_length
  BY <1>2, <1>3, <1>4 DEF Searching
<1>6. ASSUME NEW i \in 0 .. s + pattern_length
      PROVE  text(i) \in Chars
  <2>1. offset + i + 1 \in 1 .. Len(file)
    BY <1>2, <1>3, <1>4, <1>5
  <2> QED BY <2>1, <1>3 DEF text
<1>7. \A c \in Chars : characters[c] \in 0 .. pattern_length - 1
  BY DEF TableInv
<1> QED BY <1>1, <1>2, <1>5, <1>6, <1>7

LEMMA LoweredWords ==
  ASSUME TypeOK, NEW j \in Int, word' = [word EXCEPT ![w] = Lowered(@, j)],
         UNCHANGED << file, query, offset, w >>
  PROVE  /\ word' \in Seq(Seq(Chars) \ {<< >>}) /\ Len(word') = Len(word)
         /\ \A i \in 1 .. Len(word) : Len(word'[i]) = Len(word[i])
         /\ pattern_length' = pattern_length
         /\ \A v \in 1 .. Len(word) : InSmallLetters(word[v]) => word'[v] = word[v]
<1>1. w \in 1 .. Len(word) /\ word[w] \in Seq(Chars) \ {<< >>}
  BY DEF TypeOK
<1>2. /\ Lowered(word[w], j) \in Seq(Chars)
      /\ Len(Lowered(word[w], j)) = Len(word[w])
      /\ InSmallLetters(word[w]) => Lowered(word[w], j) = word[w]
  BY <1>1, LoweredFacts
<1>3. word'[w] = Lowered(word[w], j)
  BY <1>1 DEF TypeOK
<1>4. \A v \in 1 .. Len(word) : v # w => word'[v] = word[v]
  BY DEF TypeOK
<1>5. Lowered(word[w], j) # << >>
  BY <1>1, <1>2
<1>6. word' \in Seq(Seq(Chars) \ {<< >>}) /\ Len(word') = Len(word)
  BY <1>1, <1>2, <1>5 DEF TypeOK
<1>7. \A i \in 1 .. Len(word) : Len(word'[i]) = Len(word[i])
  BY <1>2, <1>3, <1>4
<1>8. pattern_length' = pattern_length
  BY <1>1, <1>7 DEF pattern_length, pattern
<1>9. \A v \in 1 .. Len(word) : InSmallLetters(word[v]) => word'[v] = word[v]
  BY <1>2, <1>3, <1>4
<1> QED BY <1>6, <1>7, <1>8, <1>9

-----------------------------------------------------------------------------
LEMMA TypeInit == Init => TypeOK /\ TableInv
<1> SUFFICES ASSUME Init PROVE TypeOK /\ TableInv
  OBVIOUS
<1>1. PICK i \in Inputs : file = i.file /\ query = i.query /\ word = i.query.word
                         /\ characters = LastPlaces(i.query.word[1])
                         /\ hits = NoHits(Len(i.query.word))
  BY DEF Init
<1>2. file \in Seq(Chars) /\ query \in Queries /\ word = query.word
  BY <1>1, SearchAssumption
<1>3. word \in Seq(Seq(Chars) \ {<< >>}) /\ word # << >>
  BY <1>2 DEF Queries
<1>4. offset = 0 /\ w = 1 /\ s = 0 /\ w \in 1 .. Len(word) /\ pattern = word[1]
  BY <1>3 DEF Init, pattern
<1>5. pattern \in Seq(Chars) /\ pattern # << >>
  BY <1>3, <1>4
<1>6. characters = LastPlaces(pattern)
  BY <1>1, <1>4
<1>7. characters \in [Chars -> 0 .. pattern_length - 1]
  BY <1>5, <1>6, LastPlacesFacts DEF pattern_length
<1>8. TableInv
  BY <1>2, <1>6, <1>7 DEF TableInv
<1>9. hits \in [1 .. Len(word) -> Seq(Nat)]
  BY <1>1, <1>2 DEF NoHits
<1>10. characters \in [Chars -> Nat]
  <2>1. 0 .. pattern_length - 1 \subseteq Nat
    OBVIOUS
  <2> QED BY <1>7, <2>1
<1>11. TypeOK
  BY <1>2, <1>3, <1>4, <1>9, <1>10 DEF TypeOK
<1> QED BY <1>8, <1>11

\* A turn of the loop keeps the types and the table.
LEMMA TypeTurn ==
  ASSUME TypeOK, TableInv, Searching, NEW j \in Int, NEW n \in Nat,
         word' = [word EXCEPT ![w] = Lowered(@, j)], s' = n,
         hits' \in [1 .. Len(word) -> Seq(Nat)],
         UNCHANGED << file, query, offset, w, characters >>
  PROVE  TypeOK' /\ TableInv'
<1>1. /\ word' \in Seq(Seq(Chars) \ {<< >>}) /\ Len(word') = Len(word)
      /\ \A i \in 1 .. Len(word) : Len(word'[i]) = Len(word[i])
      /\ pattern_length' = pattern_length
      /\ \A v \in 1 .. Len(word) : InSmallLetters(word[v]) => word'[v] = word[v]
  BY LoweredWords
<1>2. TypeOK'
  BY <1>1 DEF TypeOK
<1>3. \A v \in 1 .. Len(word) :
        InSmallLetters(query.word[v]) => word'[v] = query.word[v]
  BY <1>1 DEF TableInv
<1>4. w \in 1 .. Len(word)
  BY DEF TypeOK
<1>5. InSmallLetters(query.word[w]) => characters = LastPlaces(pattern')
  BY <1>1, <1>3, <1>4 DEF TableInv, pattern
<1>6. \A p : InSmallLetters(p)' = InSmallLetters(p)
  BY DEF InSmallLetters
<1>7. LastPlaces(pattern)' = LastPlaces(pattern')
  BY DEF LastPlaces
<1>8. characters' \in [Chars -> 0 .. pattern_length' - 1]
  BY <1>1 DEF TableInv
<1> QED BY <1>1, <1>2, <1>3, <1>5, <1>6, <1>7, <1>8 DEF TableInv

LEMMA ShiftStep ==
  ASSUME TypeOK, TableInv, Shift
  PROVE  /\ TypeOK' /\ TableInv'
         /\ Mismatch(pattern, s) \in -1 .. pattern_length - 1
         /\ Mismatch(pattern, s) < 0 => s' = s + 1
         /\ Mismatch(pattern, s) >= 0 =>
              LET j == Mismatch(pattern, s) IN
              s' = s + Max2(1, j - characters[lower[text(s + j)]])
         /\ word' = [word EXCEPT ![w] = Lowered(@, Max2(0, Mismatch(pattern, s)))]
         /\ s' \in Nat /\ s < s' /\ s' <= s + pattern_length
<1> DEFINE j == Mismatch(pattern, s)
<1>1. /\ pattern \in Seq(Chars) /\ pattern_length \in Nat \ {0}
      /\ \A i \in 0 .. s + pattern_length : text(i) \in Chars
      /\ \A c \in Chars : characters[c] \in 0 .. pattern_length - 1
      /\ s \in Nat
  BY SearchingFacts DEF Shift, TypeOK
<1>2. j \in -1 .. pattern_length - 1
  BY <1>1, MismatchFacts DEF pattern_length
<1>3. word' = [word EXCEPT ![w] = Lowered(@, Max2(0, j))]
  BY DEF Shift
<1>4. s' = Advance(IF j < 0 THEN j ELSE j - characters[lower[text(s + j)]])
  BY DEF Shift
<1> HIDE DEF j
<1>5. j < 0 => s' = s + 1
  BY <1>1, <1>2, <1>4 DEF Advance, Max2
<1>6. j >= 0 => s' = s + Max2(1, j - characters[lower[text(s + j)]])
  BY <1>2, <1>4 DEF Advance
<1>7. j >= 0 => characters[lower[text(s + j)]] \in Nat
  <2> SUFFICES ASSUME j >= 0 PROVE characters[lower[text(s + j)]] \in Nat
    OBVIOUS
  <2>1. s + j \in 0 .. s + pattern_length
    BY <1>1, <1>2
  <2>2. lower[text(s + j)] \in Chars
    BY <1>1, <2>1, SearchAssumption
  <2> QED BY <1>1, <2>2
<1>8. s' \in Nat /\ s < s' /\ s' <= s + pattern_length
  <2>1. CASE j < 0
    BY <1>1, <1>5, <2>1
  <2>2. CASE j >= 0
    BY <1>1, <1>2, <1>6, <1>7, <2>2 DEF Max2
  <2> QED BY <1>2, <2>1, <2>2
<1>9. Max2(0, j) \in Int
  BY <1>2 DEF Max2
<1>10. Searching /\ hits' \in [1 .. Len(word) -> Seq(Nat)]
       /\ UNCHANGED << file, query, offset, w, characters >>
  BY DEF Shift, TypeOK
<1>11. TypeOK' /\ TableInv'
  BY <1>3, <1>8, <1>9, <1>10, TypeTurn
<1> QED BY <1>2, <1>3, <1>5, <1>6, <1>8, <1>11 DEF j

LEMMA HitStep ==
  ASSUME TypeOK, TableInv, Hit
  PROVE  /\ TypeOK' /\ TableInv'
         /\ s' \in Nat /\ s < s' /\ s' <= s + pattern_length
         /\ hits' = [hits EXCEPT ![w] = Append(@, s)]
         /\ word' = [word EXCEPT ![w] = Lowered(@, 0)]
<1>1. /\ pattern_length \in Nat \ {0}
      /\ text(s + pattern_length) \in Chars
      /\ \A c \in Chars : characters[c] \in 0 .. pattern_length - 1
      /\ s \in Nat
  <2>1. s \in Nat /\ pattern_length \in Nat \ {0}
    BY SearchingFacts DEF Hit, TypeOK
  <2>2. s + pattern_length \in 0 .. s + pattern_length
    BY <2>1
  <2> QED BY <2>1, <2>2, SearchingFacts DEF Hit
<1>2. characters[text(s + pattern_length)] \in 0 .. pattern_length - 1
  BY <1>1
<1>3. s' = s + pattern_length - characters[text(s + pattern_length)]
  BY DEF Hit
<1>4. s' \in Nat /\ s < s' /\ s' <= s + pattern_length
  BY <1>1, <1>2, <1>3
<1>5. /\ hits' = [hits EXCEPT ![w] = Append(@, s)]
      /\ word' = [word EXCEPT ![w] = Lowered(@, 0)]
      /\ Searching /\ UNCHANGED << file, query, offset, w, characters >>
  BY DEF Hit
<1>6. hits' \in [1 .. Len(word) -> Seq(Nat)]
  <2>1. hits \in [1 .. Len(word) -> Seq(Nat)] /\ w \in 1 .. Len(word)
    BY DEF TypeOK
  <2>2. hits[w] \in Seq(Nat)
    BY <2>1
  <2>3. Append(hits[w], s) \in Seq(Nat)
    BY <2>2, <1>1
  <2> QED BY <2>1, <2>3, <1>5
<1>7. TypeOK' /\ TableInv'
  <2>1. 0 \in Int
    OBVIOUS
  <2>2. word' = [word EXCEPT ![w] = Lowered(@, 0)]
    BY <1>5
  <2>3. Searching /\ UNCHANGED << file, query, offset, w, characters >>
    BY <1>5
  <2> QED BY <1>4, <1>6, <2>1, <2>2, <2>3, TypeTurn
<1> QED BY <1>4, <1>5, <1>7

\* The next word begins with the table of its pattern, and the next chunk as well.
LEMMA TypeTable ==
  ASSUME TypeOK, TableInv, UNCHANGED << file, query, word >>,
         w' \in 1 .. Len(word), s' = 0, offset' \in Nat,
         characters' = LastPlaces(word[w']),
         hits' \in [1 .. Len(word) -> Seq(Nat)]
  PROVE  TypeOK' /\ TableInv'
<1>1. word[w'] \in Seq(Chars) \ {<< >>}
  BY DEF TypeOK
<1>2. characters' \in [Chars -> 0 .. Len(word[w']) - 1]
  BY <1>1, LastPlacesFacts
<1>3. characters' \in [Chars -> Nat]
  <2>1. 0 .. Len(word[w']) - 1 \subseteq Nat
    OBVIOUS
  <2> QED BY <1>2, <2>1
<1>4. TypeOK'
  BY <1>3 DEF TypeOK
<1>5. pattern' = word[w'] /\ pattern_length' = Len(word[w'])
  BY DEF pattern, pattern_length
<1>6. \A p : InSmallLetters(p)' = InSmallLetters(p)
  BY DEF InSmallLetters
<1>7. LastPlaces(pattern)' = LastPlaces(pattern')
  BY DEF LastPlaces
<1>8. TableInv'
  BY <1>2, <1>5, <1>6, <1>7 DEF TableInv
<1> QED BY <1>4, <1>8

LEMMA NextWordStep ==
  ASSUME TypeOK, TableInv, NextWord
  PROVE  TypeOK' /\ TableInv' /\ s' = 0
<1>1. w' \in 1 .. Len(word) /\ w' = w + 1
  BY DEF NextWord, TypeOK
<1> QED BY <1>1, TypeTable DEF NextWord, TypeOK

LEMMA NextChunkStep ==
  ASSUME TypeOK, TableInv, NextChunk
  PROVE  TypeOK' /\ TableInv' /\ s' = 0 /\ hits' = NoHits(Len(word)) /\ w' = 1
<1>1. w' = 1 /\ w' \in 1 .. Len(word) /\ s' = 0 /\ offset' \in Nat
  BY SearchAssumption DEF NextChunk, TypeOK
<1>2. characters' = LastPlaces(word[w']) /\ hits' = NoHits(Len(word))
  BY <1>1 DEF NextChunk
<1>3. hits' \in [1 .. Len(word) -> Seq(Nat)]
  BY <1>2 DEF NoHits
<1> QED BY <1>1, <1>2, <1>3, TypeTable DEF NextChunk

LEMMA TypeStep == TypeOK /\ TableInv /\ [Next]_vars => TypeOK' /\ TableInv'
<1> SUFFICES ASSUME TypeOK, TableInv, [Next]_vars PROVE TypeOK' /\ TableInv'
  OBVIOUS
<1>1. CASE Hit
  BY <1>1, HitStep
<1>2. CASE Shift
  BY <1>2, ShiftStep
<1>3. CASE NextWord
  BY <1>3, NextWordStep
<1>4. CASE NextChunk
  BY <1>4, NextChunkStep
<1>5. CASE UNCHANGED vars
  BY <1>5 DEF vars, TypeOK, TableInv, pattern, pattern_length, InSmallLetters, LastPlaces
<1> QED BY <1>1, <1>2, <1>3, <1>4, <1>5 DEF Next

(***************************************************************************)
(* The variables have their types: a stride never leaves the numbers,      *)
(* whatever the table says (line 90 and line 94).                          *)
(***************************************************************************)
THEOREM TypeCorrect == Spec => []TypeOK
<1>1. TypeOK /\ TableInv /\ [Next]_vars => TypeOK' /\ TableInv'
  BY TypeStep
<1>2. Init => TypeOK /\ TableInv
  BY TypeInit
<1> QED BY <1>1, <1>2, PTL DEF Spec

\* The end of the file, the words and the end of the chunk, in this order of weight,
\* come closer with each turn: the chunk goes on, or the word, or the stride, which
\* never passes the end of the chunk.
Forward ==
  \/ Reading /\ offset' = offset + MAX_INPUT
  \/ offset' = offset /\ w < w' /\ w' <= Len(word)
  \/ offset' = offset /\ w' = w /\ s < s' /\ s' < text_length

LEMMA ForwardStep == TypeOK /\ TableInv /\ [Next]_vars => [Forward]_vars
<1> SUFFICES ASSUME TypeOK, TableInv, Next PROVE Forward
  OBVIOUS
<1>1. CASE Hit \/ Shift
  <2>1. offset' = offset /\ w' = w /\ s' \in Nat /\ s < s' /\ s' <= s + pattern_length
    BY <1>1, HitStep, ShiftStep DEF Hit, Shift
  <2>2. /\ s \in Nat /\ pattern_length \in Nat /\ text_length \in Int
        /\ s + pattern_length < text_length
    <3>1. Searching
      BY <1>1 DEF Hit, Shift
    <3>2. text_length \in Int
      BY SearchAssumption DEF TypeOK, text_length
    <3> QED BY <3>1, <3>2, SearchingFacts DEF TypeOK
  <2> QED BY <2>1, <2>2 DEF Forward
<1>2. CASE NextWord
  BY <1>2 DEF NextWord, TypeOK, Forward
<1>3. CASE NextChunk
  BY <1>3 DEF NextChunk, Forward
<1> QED BY <1>1, <1>2, <1>3 DEF Next

(***************************************************************************)
(* The search cannot turn in place, for any file, query and size of the    *)
(* chunks: each turn of the loops goes forward, to an end that is fixed    *)
(* (lines 55-168 and the loops of main()).  A turn that is always taken reaches it.        *)
(***************************************************************************)
THEOREM GoesForward == Spec => [][Forward]_vars
<1>1. Init => TypeOK /\ TableInv
  BY TypeInit
<1>2. TypeOK /\ TableInv /\ [Next]_vars => TypeOK' /\ TableInv'
  BY TypeStep
<1>3. TypeOK /\ TableInv /\ [Next]_vars => [Forward]_vars
  BY ForwardStep
<1> QED BY <1>1, <1>2, <1>3, PTL DEF Spec

-----------------------------------------------------------------------------
\* A turn that kept the word, or lowered it, leaves behind what it had left behind.
LEMMA BehindStays ==
  ASSUME TypeOK, TableInv, NoneSkipped, NEW j \in Int,
         word' = [word EXCEPT ![w] = Lowered(@, j)],
         UNCHANGED << file, query, offset, w >>,
         ToSet(hits[w]) \subseteq ToSet(hits'[w]),
         s \in Nat, s' \in Nat,
         \A i \in Nat \ {0} :
           (/\ s <= i /\ i < s'
            /\ InSmallLetters(query.word[w])
            /\ IsWord(pattern, i)) => i \in ToSet(hits'[w])
  PROVE  NoneSkipped'
<1>1. w \in 1 .. Len(word) /\ offset \in Nat
  BY DEF TypeOK
<1>2. SUFFICES ASSUME NEW i \in Nat \ {0}, i < s', Reading', InSmallLetters(query.word[w]),
                      i < text_length' - pattern_length', IsWord(pattern', i)
               PROVE  i \in ToSet(hits'[w])
  <2>1. \A p : InSmallLetters(p)' = InSmallLetters(p)
    BY DEF InSmallLetters
  <2>2. \A i : IsWord(pattern, i)' = IsWord(pattern', i)
    BY DEF IsWord, text, Separator
  <2>3. \A i : ToSet(hits[w])' = ToSet(hits'[w])
    BY DEF ToSet
  <2>4. \A n \in Nat : \A i \in 1 .. n - 1 : i \in Nat \ {0} /\ i < n
    OBVIOUS
  <2> QED BY <2>1, <2>2, <2>3, <2>4 DEF NoneSkipped
<1>3. pattern' = pattern /\ pattern_length' = pattern_length /\ InSmallLetters(pattern)
  BY <1>1, <1>2, LoweredWords DEF TableInv, pattern, pattern_length
<1>4. Reading /\ text_length' = text_length
  BY <1>2 DEF Reading, text_length
<1>5. CASE i < s
  <2>1. i \in 1 .. s - 1
    BY <1>5
  <2>2. i \in ToSet(hits[w])
    BY <1>2, <1>3, <1>4, <2>1 DEF NoneSkipped
  <2> QED BY <2>2
<1>6. CASE s <= i
  BY <1>2, <1>3, <1>6
<1>7. i < s \/ s <= i
  BY <1>2
<1> QED BY <1>5, <1>6, <1>7

\* The bad character rule: when c is the character of the text at place s + q, and
\* the pattern was moved so that its last c has not passed it, no word was passed.
LEMMA NoWordBetween ==
  ASSUME TypeOK, TableInv, Searching, InSmallLetters(pattern),
         InSmallLetters(query.word[w]),
         NEW q \in 0 .. pattern_length,
         NEW i \in Nat, s < i, i < s + q - characters[lower[text(s + q)]]
  PROVE  ~ IsWord(pattern, i)
<1> DEFINE c == lower[text(s + q)]
           k == s + q - i
<1>1. /\ pattern \in Seq(Chars) /\ pattern_length \in Nat \ {0} /\ s \in Nat
      /\ \A n \in 0 .. s + pattern_length : text(n) \in Chars
      /\ \A d \in Chars : characters[d] \in 0 .. pattern_length - 1
  BY SearchingFacts DEF TypeOK
<1>2. c \in Chars
  <2>1. s + q \in 0 .. s + pattern_length
    BY <1>1
  <2> QED BY <1>1, <2>1, SearchAssumption
<1>3. characters[c] \in 0 .. pattern_length - 1
  BY <1>1, <1>2
<1>4. k \in 0 .. pattern_length - 1 /\ characters[c] < k /\ i + k = s + q
  BY <1>1, <1>3
<1>5. pattern # << >> /\ characters = LastPlaces(pattern)
  BY <1>1 DEF TableInv, pattern_length
<1>6. lower[text(i + k)] = c
  BY <1>4
<1> HIDE DEF k, c
<1>7. pattern[k + 1] # c
  <2>1. k \in 0 .. Len(pattern) - 1
    BY <1>4 DEF pattern_length
  <2>2. pattern[k + 1] = c => k <= LastPlaces(pattern)[c]
    BY <1>1, <1>2, <1>5, <2>1, LastPlacesFacts
  <2> QED BY <1>3, <1>4, <1>5, <2>2
<1>8. lower[pattern[k + 1]] = pattern[k + 1]
  <2>1. k + 1 \in 1 .. Len(pattern)
    BY <1>1, <1>4 DEF pattern_length
  <2> QED BY <2>1 DEF InSmallLetters
<1>9. lower[text(i + k)] # lower[pattern[k + 1]]
  BY <1>6, <1>7, <1>8
<1> QED BY <1>4, <1>9 DEF IsWord, pattern_length

\* A word typed in small letters stays as it was typed.
LEMMA PatternIsQuery ==
  ASSUME TypeOK, TableInv, InSmallLetters(query.word[w])
  PROVE  pattern = query.word[w] /\ InSmallLetters(pattern)
BY DEF TypeOK, TableInv, pattern

LEMMA ShiftSkipsNone ==
  ASSUME TypeOK, TableInv, Shift, InSmallLetters(query.word[w]),
         NEW i \in s .. s' - 1, 0 < i
  PROVE  ~ IsWord(pattern, i)
<1> DEFINE j == Mismatch(pattern, s)
<1>1. /\ j \in -1 .. pattern_length - 1
      /\ j < 0 => s' = s + 1
      /\ j >= 0 => s' = s + Max2(1, j - characters[lower[text(s + j)]])
      /\ s \in Nat
  BY ShiftStep DEF TypeOK
<1>2. pattern \in Seq(Chars) /\ pattern_length \in Nat \ {0} /\ InSmallLetters(pattern)
  BY SearchingFacts, PatternIsQuery DEF Shift
<1>3. j >= 0 => lower[text(s + j)] # lower[pattern[j + 1]]
  BY <1>1, <1>2, MismatchFacts
<1>4. j < 0 => ~ Ends(s) \/ FALSE \in Begins(s)
  BY DEF Shift
<1> HIDE DEF j
<1>5. CASE j < 0
  <2>1. i = s /\ s # 0
    BY <1>1, <1>5
  <2>2. ~ Ends(s) \/ ~ Separator(text(s - 1))
    BY <1>4, <1>5, <2>1 DEF Begins
  <2> QED BY <1>1, <2>1, <2>2 DEF IsWord, Ends, pattern_length
<1>6. CASE j >= 0 /\ i = s
  <2>1. j \in 0 .. pattern_length - 1
    BY <1>1, <1>6
  <2> QED BY <1>3, <1>6, <2>1 DEF IsWord, pattern_length
<1>7. CASE j >= 0 /\ i # s
  <2>1. j \in 0 .. pattern_length /\ i \in Nat /\ s < i
    BY <1>1, <1>2, <1>7
  <2>2. characters[lower[text(s + j)]] \in Int
    <3>1. s + j \in 0 .. s + pattern_length
      BY <1>1, <1>2, <2>1
    <3>2. lower[text(s + j)] \in Chars
      BY <3>1, SearchingFacts, SearchAssumption DEF Shift
    <3> QED BY <3>2, SearchingFacts DEF Shift
  <2>3. i < s + j - characters[lower[text(s + j)]]
    BY <1>1, <1>7, <2>1, <2>2 DEF Max2
  <2> QED BY <1>2, <2>1, <2>3, NoWordBetween DEF Shift
<1> QED BY <1>1, <1>5, <1>6, <1>7

LEMMA HitSkipsNone ==
  ASSUME TypeOK, TableInv, Hit, InSmallLetters(query.word[w]),
         NEW i \in s .. s' - 1, i # s
  PROVE  ~ IsWord(pattern, i)
<1> DEFINE L == pattern_length
<1>1. /\ s \in Nat /\ L \in Nat \ {0} /\ InSmallLetters(pattern)
      /\ s' = s + L - characters[text(s + L)]
  BY SearchingFacts, PatternIsQuery DEF Hit, TypeOK
<1>2. lower[text(s + L)] = text(s + L) /\ text(s + L) \in Chars
  <2>1. text(s + L) \in {Space, Newline}
    BY DEF Hit, Ends, Separator
  <2> QED BY <2>1, SearchAssumption
<1>3. characters[text(s + L)] \in Int
  BY <1>2, SearchingFacts DEF Hit
<1>4. L \in 0 .. pattern_length /\ i \in Nat /\ s < i /\ i < s + L - characters[text(s + L)]
  BY <1>1, <1>3
<1> QED BY <1>1, <1>2, <1>4, NoWordBetween DEF Hit

LEMMA AppendSet ==
  ASSUME NEW h \in Seq(Nat), NEW n \in Nat
  PROVE  ToSet(h) \subseteq ToSet(Append(h, n)) /\ n \in ToSet(Append(h, n))
<1>1. /\ DOMAIN h = 1 .. Len(h) /\ DOMAIN Append(h, n) = 1 .. Len(h) + 1
      /\ \A i \in 1 .. Len(h) : Append(h, n)[i] = h[i]
      /\ Append(h, n)[Len(h) + 1] = n
      /\ Len(h) \in Nat
  OBVIOUS
<1>2. \A i \in 1 .. Len(h) : i \in 1 .. Len(h) + 1
  BY <1>1
<1>3. Len(h) + 1 \in 1 .. Len(h) + 1
  BY <1>1
<1> QED BY <1>1, <1>2, <1>3 DEF ToSet

LEMMA NoneSkippedInit == Init => NoneSkipped
<1> SUFFICES ASSUME Init PROVE NoneSkipped
  OBVIOUS
<1>1. 1 .. s - 1 = {}
  BY DEF Init
<1> QED BY <1>1 DEF NoneSkipped

LEMMA NoneSkippedStep ==
  TypeOK /\ TableInv /\ NoneSkipped /\ [Next]_vars => NoneSkipped'
<1> SUFFICES ASSUME TypeOK, TableInv, NoneSkipped, [Next]_vars PROVE NoneSkipped'
  OBVIOUS
<1>1. CASE Hit
  <2>1. /\ s \in Nat /\ s' \in Nat /\ 0 \in Int
        /\ hits' = [hits EXCEPT ![w] = Append(@, s)]
        /\ word' = [word EXCEPT ![w] = Lowered(@, 0)]
    <3>1. s \in Nat /\ 0 \in Int
      BY DEF TypeOK
    <3> QED BY <1>1, <3>1, HitStep
  <2>2. UNCHANGED << file, query, offset, w >>
    BY <1>1 DEF Hit
  <2>3. hits'[w] = Append(hits[w], s) /\ hits[w] \in Seq(Nat)
    BY <2>1 DEF TypeOK
  <2>4. ToSet(hits[w]) \subseteq ToSet(hits'[w]) /\ s \in ToSet(hits'[w])
    BY <2>1, <2>3, AppendSet
  <2>5. \A i \in Nat \ {0} :
          s <= i /\ i < s' /\ InSmallLetters(query.word[w]) /\ IsWord(pattern, i) =>
            i \in ToSet(hits'[w])
    <3> SUFFICES ASSUME NEW i \in Nat \ {0}, s <= i, i < s', i # s,
                        InSmallLetters(query.word[w])
                 PROVE  ~ IsWord(pattern, i)
      BY <2>4
    <3>1. i \in s .. s' - 1
      <4>1. \A m, n \in Nat : m <= i /\ i < n => i \in m .. n - 1
        OBVIOUS
      <4> QED BY <2>1, <4>1
    <3> QED BY <1>1, <3>1, HitSkipsNone
  <2> QED BY <2>1, <2>2, <2>4, <2>5, BehindStays
<1>2. CASE Shift
  <2> DEFINE j == Max2(0, Mismatch(pattern, s))
  <2>1. /\ s \in Nat /\ s' \in Nat
        /\ word' = [word EXCEPT ![w] = Lowered(@, j)]
        /\ Mismatch(pattern, s) \in Int
    BY <1>2, ShiftStep DEF TypeOK
  <2>2. j \in Int
    BY <2>1 DEF Max2
  <2> HIDE DEF j
  <2>3. UNCHANGED << file, query, offset, w >> /\ hits' = hits
    BY <1>2 DEF Shift
  <2>4. \A i \in Nat \ {0} :
          s <= i /\ i < s' /\ InSmallLetters(query.word[w]) /\ IsWord(pattern, i) =>
            i \in ToSet(hits'[w])
    <3> SUFFICES ASSUME NEW i \in Nat \ {0}, s <= i, i < s',
                        InSmallLetters(query.word[w])
                 PROVE  ~ IsWord(pattern, i)
      OBVIOUS
    <3>1. i \in s .. s' - 1
      <4>1. \A m, n \in Nat : m <= i /\ i < n => i \in m .. n - 1
        OBVIOUS
      <4> QED BY <2>1, <4>1
    <3> QED BY <1>2, <3>1, ShiftSkipsNone
  <2> QED BY <2>1, <2>2, <2>3, <2>4, BehindStays
<1>3. CASE NextWord \/ NextChunk
  <2>1. s' = 0
    BY <1>3, NextWordStep, NextChunkStep
  <2>2. 1 .. s' - 1 = {}
    BY <2>1
  <2> QED BY <2>2 DEF NoneSkipped
<1>4. CASE UNCHANGED vars
  BY <1>4 DEF vars, NoneSkipped, Reading, InSmallLetters, text_length, pattern_length,
              pattern, IsWord, text, Separator, ToSet
<1> QED BY <1>1, <1>2, <1>3, <1>4 DEF Next

(***************************************************************************)
(* The jumps of the search lose nothing, for any file, any query in small  *)
(* letters and any size of the chunks: the bad character rule, with the    *)
(* table of lines 60-62 and the two shifts of lines 92 and 96.             *)
(***************************************************************************)
THEOREM SkipsNone == Spec => []NoneSkipped
<1>1. Init => IInv
  BY TypeInit, NoneSkippedInit DEF IInv
<1>2. IInv /\ [Next]_vars => IInv'
  BY TypeStep, NoneSkippedStep DEF IInv
<1>3. IInv => NoneSkipped
  BY DEF IInv
<1> QED BY <1>1, <1>2, <1>3, PTL DEF Spec

-----------------------------------------------------------------------------
\* A word stays one when the pattern it is compared with is lowered.
LEMMA LoweredIsWord ==
  ASSUME NEW p \in Seq(Chars), NEW j \in Int, NEW i
  PROVE  IsWord(p, i) => IsWord(Lowered(p, j), i)
<1>1. Len(Lowered(p, j)) = Len(p) /\ Len(p) \in Nat
  BY LoweredFacts
<1>2. ASSUME NEW k \in 0 .. Len(p) - 1
      PROVE  lower[Lowered(p, j)[k + 1]] = lower[p[k + 1]]
  <2>1. k + 1 \in 1 .. Len(p) /\ p[k + 1] \in Chars
    BY <1>1
  <2> QED BY <2>1, SearchAssumption DEF Lowered
<1> QED BY <1>1, <1>2 DEF IsWord

\* What was found stays a word in a turn of the loop.
LEMMA WordsStay ==
  ASSUME TypeOK, HitsAreWords, NEW j \in Int, NEW v \in 1 .. Len(word),
         word' = [word EXCEPT ![w] = Lowered(@, j)],
         UNCHANGED << file, query, offset, w >>,
         NEW k \in 1 .. Len(hits[v])
  PROVE  IsWord(word'[v], hits[v][k])
<1>1. IsWord(word[v], hits[v][k])
  BY DEF HitsAreWords
<1>2. word[v] \in Seq(Chars)
  BY DEF TypeOK
<1>3. word'[v] = word[v] \/ word'[v] = Lowered(word[v], j)
  BY DEF TypeOK
<1> QED BY <1>1, <1>2, <1>3, LoweredIsWord

LEMMA WordsInit == Init => PlacesInv /\ HitsAreWords
<1> SUFFICES ASSUME Init PROVE PlacesInv /\ HitsAreWords
  OBVIOUS
<1>1. TypeOK
  BY TypeInit
<1>2. \A v \in 1 .. Len(word) : hits[v] = << >>
  BY DEF Init, NoHits
<1>3. w \in 1 .. Len(word)
  BY <1>1 DEF TypeOK
<1> QED BY <1>2, <1>3 DEF PlacesInv, HitsAreWords

\* No places: at the beginning of a chunk, and for the words not yet searched for.
LEMMA NoPlaces ==
  ASSUME TypeOK', \A v \in 1 .. Len(word') : hits'[v] = << >>
  PROVE  PlacesInv' /\ HitsAreWords'
<1>1. w' \in 1 .. Len(word') /\ Len(word') \in Nat
  BY DEF TypeOK
<1>2. \A v \in w' + 1 .. Len(word') : v \in 1 .. Len(word')
  <2>1. \A n \in Nat : \A m \in 1 .. n : \A v \in m + 1 .. n : v \in 1 .. n
    OBVIOUS
  <2> QED BY <1>1, <2>1
<1>3. \A v \in 1 .. Len(word') : 1 .. Len(hits'[v]) = {} /\ 2 .. Len(hits'[v]) = {}
  <2>1. Len(<< >>) = 0
    OBVIOUS
  <2> QED BY <2>1
<1>4. PlacesInv'
  BY <1>1, <1>2, <1>3 DEF PlacesInv
<1>5. HitsAreWords'
  BY <1>3 DEF HitsAreWords
<1> QED BY <1>4, <1>5

LEMMA HitKeepsWords ==
  ASSUME TypeOK, TableInv, PlacesInv, HitsAreWords, Hit
  PROVE  PlacesInv' /\ HitsAreWords'
<1>1. /\ s \in Nat /\ s' \in Nat /\ s < s' /\ TypeOK'
      /\ hits' = [hits EXCEPT ![w] = Append(@, s)]
      /\ word' = [word EXCEPT ![w] = Lowered(@, 0)]
  <2>1. s \in Nat
    BY DEF TypeOK
  <2> QED BY <2>1, HitStep
<1>2. UNCHANGED << file, query, offset, w >>
  BY DEF Hit
<1>3. /\ w \in 1 .. Len(word) /\ Len(word) \in Nat /\ Len(word') = Len(word)
      /\ hits[w] \in Seq(Nat)
      /\ hits'[w] = Append(hits[w], s)
      /\ \A v \in 1 .. Len(word) : v # w => hits'[v] = hits[v]
      /\ word'[w] = Lowered(pattern, 0)
  <2>1. /\ w \in 1 .. Len(word) /\ hits \in [1 .. Len(word) -> Seq(Nat)]
        /\ Len(word) \in Nat /\ DOMAIN word = 1 .. Len(word)
    BY DEF TypeOK
  <2>2. Len(word') = Len(word)
    BY <1>1, <1>2, LoweredWords
  <2>3. hits[w] \in Seq(Nat)
    BY <2>1
  <2>4. hits'[w] = Append(hits[w], s)
    BY <1>1, <2>1
  <2>5. \A v \in 1 .. Len(word) : v # w => hits'[v] = hits[v]
    BY <1>1, <2>1
  <2>6. word'[w] = Lowered(pattern, 0)
    BY <1>1, <2>1 DEF pattern
  <2> QED BY <2>1, <2>2, <2>3, <2>4, <2>5, <2>6
<1> DEFINE n == Len(hits[w])
<1>4. /\ n \in Nat /\ Len(hits'[w]) = n + 1 /\ hits'[w][n + 1] = s
      /\ \A k \in 1 .. n : hits'[w][k] = hits[w][k] /\ hits[w][k] \in Nat
  BY <1>1, <1>3
<1> HIDE DEF n
<1>5. \A k \in 1 .. n : hits[w][k] < s
  BY DEF PlacesInv, n
<1>6. PlacesInv'
  <2>1. ASSUME NEW k \in 1 .. n + 1
        PROVE  hits'[w][k] < s'
    <3>1. CASE k \in 1 .. n
      BY <1>1, <1>4, <1>5, <3>1
    <3>2. CASE k = n + 1
      BY <1>1, <1>4, <3>2
    <3> QED BY <1>4, <3>1, <3>2
  <2>2. \A v \in w + 1 .. Len(word) : hits'[v] = << >>
    <3>1. \A v \in w + 1 .. Len(word) : v \in 1 .. Len(word) /\ v # w
      BY <1>3
    <3> QED BY <1>3, <3>1 DEF PlacesInv
  <2> QED BY <1>2, <1>3, <1>4, <2>1, <2>2 DEF PlacesInv
<1>7. IsWord(pattern, s)
  <2>1. pattern \in Seq(Chars) /\ pattern_length \in Nat
    BY SearchingFacts DEF Hit
  <2>2. \A j \in 0 .. Len(pattern) - 1 : lower[text(s + j)] = lower[pattern[j + 1]]
    BY <1>1, <2>1, MismatchFacts DEF Hit
  <2>3. s > 0 => Separator(text(s - 1))
    <3> SUFFICES ASSUME s > 0 PROVE Separator(text(s - 1))
      OBVIOUS
    <3>1. s # 0
      BY <1>1
    <3>2. TRUE \in {Separator(text(s - 1))}
      BY <3>1, Zenon DEF Hit, Begins
    <3> QED BY <3>2, Zenon
  <2> QED BY <2>2, <2>3 DEF Hit, IsWord, Ends, pattern_length
<1>8. ASSUME NEW v \in 1 .. Len(word), NEW k \in 1 .. Len(hits'[v])
      PROVE  IsWord(word'[v], hits'[v][k])
  <2>1. 0 \in Int
    OBVIOUS
  <2>2. CASE v = w /\ k = n + 1
    <3>1. pattern \in Seq(Chars)
      BY SearchingFacts DEF Hit
    <3> QED BY <1>3, <1>4, <1>7, <2>1, <2>2, <3>1, LoweredIsWord
  <2>3. CASE v = w /\ k # n + 1
    <3>1. k \in 1 .. n
      BY <1>4, <1>8, <2>3
    <3>2. k \in 1 .. Len(hits[v])
      BY <2>3, <3>1 DEF n
    <3>3. IsWord(word'[v], hits[v][k])
      BY <1>1, <1>2, <2>1, <3>2, WordsStay
    <3> QED BY <1>4, <2>3, <3>1, <3>3
  <2>4. CASE v # w
    <3>1. k \in 1 .. Len(hits[v]) /\ hits'[v] = hits[v]
      BY <1>3, <1>8, <2>4
    <3> QED BY <1>1, <1>2, <2>1, <3>1, WordsStay
  <2> QED BY <2>2, <2>3, <2>4
<1>9. ASSUME NEW v \in 1 .. Len(word), NEW k \in 2 .. Len(hits'[v])
      PROVE  hits'[v][k - 1] < hits'[v][k]
  <2>1. CASE v # w
    BY <1>3, <1>9, <2>1 DEF HitsAreWords
  <2>2. CASE v = w /\ k = n + 1
    <3>1. k - 1 \in 1 .. n
      BY <1>4, <1>9, <2>2
    <3>2. hits'[w][k - 1] = hits[w][k - 1] /\ hits[w][k - 1] < s
      BY <1>4, <1>5, <3>1
    <3> QED BY <1>4, <2>2, <3>2
  <2>3. CASE v = w /\ k # n + 1
    <3>1. k \in 2 .. n /\ k \in 1 .. n /\ k - 1 \in 1 .. n
      BY <1>4, <1>9, <2>3
    <3>2. hits[w][k - 1] < hits[w][k]
      BY <1>3, <3>1 DEF HitsAreWords, n
    <3> QED BY <1>4, <2>3, <3>1, <3>2
  <2> QED BY <2>1, <2>2, <2>3
<1>10. \A v \in 1 .. Len(word) : \A k \in 1 .. Len(hits'[v]) :
         IsWord(word[v], hits[v][k])' = IsWord(word'[v], hits'[v][k])
  BY <1>2 DEF IsWord, text, Separator
<1> QED BY <1>3, <1>6, <1>8, <1>9, <1>10 DEF HitsAreWords

LEMMA ShiftKeepsWords ==
  ASSUME TypeOK, TableInv, PlacesInv, HitsAreWords, Shift
  PROVE  PlacesInv' /\ HitsAreWords'
<1> DEFINE j == Max2(0, Mismatch(pattern, s))
<1>1. /\ s \in Nat /\ s' \in Nat /\ s < s' /\ Mismatch(pattern, s) \in Int
      /\ word' = [word EXCEPT ![w] = Lowered(@, j)]
  <2>1. s \in Nat
    BY DEF TypeOK
  <2> QED BY <2>1, ShiftStep
<1>2. j \in Int
  BY <1>1 DEF Max2
<1> HIDE DEF j
<1>3. UNCHANGED << file, query, offset, w, hits >>
  BY DEF Shift
<1>4. Len(word') = Len(word) /\ w \in 1 .. Len(word) /\ hits \in [1 .. Len(word) -> Seq(Nat)]
  BY <1>1 DEF TypeOK
<1>5. PlacesInv'
  <2>1. \A k \in 1 .. Len(hits[w]) : hits[w][k] \in Nat
    BY <1>4
  <2>2. \A k \in 1 .. Len(hits[w]) : hits[w][k] < s'
    BY <1>1, <2>1 DEF PlacesInv
  <2> QED BY <1>3, <1>4, <2>2 DEF PlacesInv
<1>6. \A v \in 1 .. Len(word) : \A k \in 1 .. Len(hits[v]) : IsWord(word'[v], hits[v][k])
  BY <1>1, <1>2, <1>3, WordsStay
<1>7. \A v \in 1 .. Len(word) : \A k \in 1 .. Len(hits[v]) :
        IsWord(word[v], hits[v][k])' = IsWord(word'[v], hits[v][k])
  BY <1>3 DEF IsWord, text, Separator
<1>8. SUFFICES ASSUME NEW v \in 1 .. Len(word)
               PROVE  /\ \A k \in 1 .. Len(hits[v]) : IsWord(word[v], hits[v][k])'
                      /\ \A k \in 2 .. Len(hits[v]) : hits[v][k - 1] < hits[v][k]
  BY <1>3, <1>4, <1>5 DEF HitsAreWords
<1>9. \A k \in 2 .. Len(hits[v]) : hits[v][k - 1] < hits[v][k]
  BY <1>8 DEF HitsAreWords
<1> QED BY <1>6, <1>7, <1>9

LEMMA WordsStep ==
  TypeOK /\ TableInv /\ PlacesInv /\ HitsAreWords /\ [Next]_vars =>
    PlacesInv' /\ HitsAreWords'
<1> SUFFICES ASSUME TypeOK, TableInv, PlacesInv, HitsAreWords, [Next]_vars
             PROVE  PlacesInv' /\ HitsAreWords'
  OBVIOUS
<1>1. CASE Hit
  BY <1>1, HitKeepsWords
<1>2. CASE Shift
  BY <1>2, ShiftKeepsWords
<1>3. CASE NextWord
  <2>1. UNCHANGED << file, query, word, offset, hits >> /\ w' = w + 1
    BY <1>3 DEF NextWord
  <2>2. w \in Nat /\ w + 1 \in w + 1 .. Len(word) /\ Len(word) \in Nat
    BY <1>3 DEF NextWord, TypeOK
  <2>3. hits[w + 1] = << >> /\ \A v \in w + 2 .. Len(word) : v \in w + 1 .. Len(word)
    BY <2>2 DEF PlacesInv
  <2>4. PlacesInv'
    <3>1. \A v \in w' + 1 .. Len(word) : v \in w + 1 .. Len(word)
      BY <2>1, <2>2
    <3>2. 1 .. Len(hits'[w']) = {}
      BY <2>1, <2>3
    <3> QED BY <2>1, <3>1, <3>2 DEF PlacesInv
  <2>5. HitsAreWords'
    BY <2>1 DEF HitsAreWords, IsWord, text, Separator
  <2> QED BY <2>4, <2>5
<1>4. CASE NextChunk
  <2>1. TypeOK' /\ hits' = NoHits(Len(word)) /\ word' = word
    BY <1>4, NextChunkStep DEF NextChunk
  <2>2. \A v \in 1 .. Len(word') : hits'[v] = << >>
    BY <2>1 DEF NoHits
  <2> QED BY <2>1, <2>2, NoPlaces
<1>5. CASE UNCHANGED vars
  BY <1>5 DEF vars, PlacesInv, HitsAreWords, IsWord, text, Separator
<1> QED BY <1>1, <1>2, <1>3, <1>4, <1>5 DEF Next

(***************************************************************************)
(* Everything reported is a whole word that is the query's, and reported   *)
(* once, for any file and query: although the comparison lowers the        *)
(* pattern in place (lines 70-71), what was found remains an occurrence.   *)
(***************************************************************************)
THEOREM HitsCorrect == Spec => []HitsAreWords
<1>1. Init => HInv
  BY TypeInit, WordsInit DEF HInv
<1>2. HInv /\ [Next]_vars => HInv'
  BY TypeStep, WordsStep DEF HInv
<1>3. HInv => HitsAreWords
  BY DEF HInv
<1> QED BY <1>1, <1>2, <1>3, PTL DEF Spec

-----------------------------------------------------------------------------
\* The elements of a set of numbers up to i, and how many there are.
UpTo(S, i) == {k \in S : k <= i}

LEMMA UpToFacts ==
  ASSUME NEW n \in Nat, NEW S \in SUBSET (1 .. n)
  PROVE  /\ IsFiniteSet(S) /\ Cardinality(S) \in Nat /\ Cardinality(S) <= n
         /\ \A i \in Nat : /\ IsFiniteSet(UpTo(S, i)) /\ Cardinality(UpTo(S, i)) \in Nat
                           /\ Cardinality(UpTo(S, i)) <= Cardinality(S)
         /\ Cardinality(UpTo(S, 0)) = 0
         /\ UpTo(S, n) = S
         /\ \A i \in Nat \ {0} :
              Cardinality(UpTo(S, i)) =
                Cardinality(UpTo(S, i - 1)) + (IF i \in S THEN 1 ELSE 0)
         /\ \A i, j \in Nat : i <= j => Cardinality(UpTo(S, i)) <= Cardinality(UpTo(S, j))
<1>1. IsFiniteSet(1 .. n) /\ Cardinality(1 .. n) = n
  BY FS_Interval
<1> \A k \in S : k \in 1 .. n
  OBVIOUS
<1>2. IsFiniteSet(S) /\ Cardinality(S) \in Nat /\ Cardinality(S) <= n
  BY <1>1, FS_Subset, FS_CardinalityType
<1>3. ASSUME NEW i \in Nat
      PROVE  /\ IsFiniteSet(UpTo(S, i)) /\ Cardinality(UpTo(S, i)) \in Nat
             /\ Cardinality(UpTo(S, i)) <= Cardinality(S)
  <2>1. UpTo(S, i) \subseteq S
    BY DEF UpTo
  <2> QED BY <1>2, <2>1, FS_Subset, FS_CardinalityType
<1>4. Cardinality(UpTo(S, 0)) = 0
  <2>1. \A k \in S : ~ (k <= 0)
    OBVIOUS
  <2>2. UpTo(S, 0) = {}
    BY <2>1 DEF UpTo
  <2> QED BY <2>2, FS_EmptySet
<1>5. UpTo(S, n) = S
  <2>1. \A k \in S : k <= n
    OBVIOUS
  <2> QED BY <2>1 DEF UpTo
<1>6. ASSUME NEW i \in Nat \ {0}
      PROVE  Cardinality(UpTo(S, i)) = Cardinality(UpTo(S, i - 1)) + (IF i \in S THEN 1 ELSE 0)
  <2>1. CASE i \in S
    <3>0. /\ \A k \in S : k <= i <=> (k <= i - 1 \/ k = i)
          /\ ~ (i <= i - 1)
      OBVIOUS
    <3>1. UpTo(S, i) = UpTo(S, i - 1) \cup {i} /\ i \notin UpTo(S, i - 1)
      BY <2>1, <3>0 DEF UpTo
    <3>2. i - 1 \in Nat
      OBVIOUS
    <3> QED BY <1>3, <2>1, <3>1, <3>2, FS_AddElement
  <2>2. CASE i \notin S
    <3>0. \A k \in S : k <= i <=> (k <= i - 1 \/ k = i)
      OBVIOUS
    <3>1. UpTo(S, i) = UpTo(S, i - 1)
      BY <2>2, <3>0 DEF UpTo
    <3>2. i - 1 \in Nat
      OBVIOUS
    <3> QED BY <1>3, <2>2, <3>1, <3>2
  <2> QED BY <2>1, <2>2
<1>7. ASSUME NEW i \in Nat, NEW j \in Nat, i <= j
      PROVE  Cardinality(UpTo(S, i)) <= Cardinality(UpTo(S, j))
  <2>0. \A k \in S : k <= i => k <= j
    BY <1>7
  <2>1. UpTo(S, i) \subseteq UpTo(S, j)
    BY <2>0 DEF UpTo
  <2> QED BY <1>3, <2>1, FS_Subset
<1> QED BY <1>2, <1>3, <1>4, <1>5, <1>6, <1>7

LEMMA NthFacts ==
  ASSUME NEW N \in Nat, NEW S \in SUBSET (1 .. N)
  PROVE  /\ \A n \in 1 .. Cardinality(S) : Nth(S, n) \in S
         /\ \A i \in S : \E n \in 1 .. Cardinality(S) : Nth(S, n) = i
         /\ \A m, n \in 1 .. Cardinality(S) : m < n => Nth(S, m) < Nth(S, n)
<1> DEFINE c(i) == Cardinality(UpTo(S, i))
<1>1. /\ Cardinality(S) \in Nat /\ c(0) = 0 /\ c(N) = Cardinality(S)
      /\ \A i \in Nat : c(i) \in Nat /\ c(i) <= Cardinality(S)
      /\ \A i \in Nat \ {0} : c(i) = c(i - 1) + (IF i \in S THEN 1 ELSE 0)
      /\ \A i, j \in Nat : i <= j => c(i) <= c(j)
  BY UpToFacts
<1>2. \A n : Nth(S, n) = CHOOSE i \in S : c(i) = n
  BY DEF Nth, UpTo
<1> HIDE DEF c
<1>3. ASSUME NEW n \in 1 .. Cardinality(S)
      PROVE  \E i \in S : c(i) = n
  <2> DEFINE T == {i \in Nat : c(i) >= n}
  <2>1. T # {}
    BY <1>1
  <2>2. PICK m \in T : \A y \in T : m <= y
    BY <2>1, Least
  <2>3. m \in Nat /\ c(m) >= n
    OBVIOUS
  <2> HIDE DEF T
  <2>4. m # 0 /\ m - 1 \in Nat
    BY <1>1, <1>3, <2>3
  <2>5. m - 1 \notin T
    BY <2>2, <2>3, <2>4
  <2>6. c(m - 1) \in Nat /\ c(m - 1) < n
    BY <1>1, <1>3, <2>4, <2>5 DEF T
  <2>7. m \in S /\ c(m) = n
    BY <1>1, <1>3, <2>3, <2>4, <2>6
  <2> QED BY <2>7
<1>4. ASSUME NEW i \in S, NEW j \in S, i < j
      PROVE  c(i) < c(j)
  <2>1. j \in Nat \ {0} /\ j - 1 \in Nat /\ i \in Nat /\ i <= j - 1
    BY <1>4
  <2>2. c(i) <= c(j - 1) /\ c(j) = c(j - 1) + 1 /\ c(i) \in Nat /\ c(j - 1) \in Nat
    BY <1>1, <2>1
  <2> QED BY <2>2
<1>5. \A n \in 1 .. Cardinality(S) : Nth(S, n) \in S /\ c(Nth(S, n)) = n
  BY <1>2, <1>3
<1>6. ASSUME NEW i \in S
      PROVE  c(i) \in 1 .. Cardinality(S) /\ Nth(S, c(i)) = i
  <2>1. i \in Nat \ {0} /\ i - 1 \in Nat
    OBVIOUS
  <2>2. c(i) = c(i - 1) + 1 /\ c(i - 1) \in Nat /\ c(i) <= Cardinality(S)
    BY <1>1, <2>1
  <2>3. c(i) \in 1 .. Cardinality(S)
    BY <1>1, <2>2
  <2> DEFINE k == Nth(S, c(i))
  <2>4. k \in S /\ c(k) = c(i)
    BY <1>5, <2>3
  <2> HIDE DEF k
  <2>5. k \in Nat /\ c(k) \in Nat
    BY <1>1, <2>4
  <2>6. k = i
    BY <1>4, <2>1, <2>4, <2>5
  <2> QED BY <2>3, <2>6 DEF k
<1>7. ASSUME NEW m \in 1 .. Cardinality(S), NEW n \in 1 .. Cardinality(S), m < n
      PROVE  Nth(S, m) < Nth(S, n)
  <2> DEFINE i == Nth(S, m)
             j == Nth(S, n)
  <2>1. i \in S /\ j \in S /\ c(i) = m /\ c(j) = n
    BY <1>5
  <2> HIDE DEF i, j
  <2>2. i \in Nat /\ j \in Nat
    BY <2>1
  <2>3. i < j
    BY <1>4, <1>7, <2>1, <2>2
  <2> QED BY <2>3 DEF i, j
<1> QED BY <1>5, <1>6, <1>7

\* What Pick takes from a list.
LEMMA PickFacts ==
  ASSUME NEW N \in Nat, NEW list, DOMAIN list = 1 .. N, NEW S \in SUBSET (1 .. N)
  PROVE  /\ Cardinality(S) \in Nat
         /\ DOMAIN Pick(list, S) = 1 .. Cardinality(S)
         /\ ToSet(Pick(list, S)) = {list[i] : i \in S}
         /\ \A n \in 1 .. Cardinality(S) : Nth(S, n) \in S /\ Pick(list, S)[n] = list[Nth(S, n)]
<1>1. Cardinality(S) \in Nat
  BY UpToFacts
<1>2. DOMAIN Pick(list, S) = 1 .. Cardinality(S)
  BY DEF Pick
<1>3. \A n \in 1 .. Cardinality(S) : Nth(S, n) \in S /\ Pick(list, S)[n] = list[Nth(S, n)]
  BY NthFacts DEF Pick
<1>4. \A i \in S : \E n \in 1 .. Cardinality(S) : Nth(S, n) = i
  BY NthFacts
<1>5. ToSet(Pick(list, S)) = {list[i] : i \in S}
  <2>1. ToSet(Pick(list, S)) = {Pick(list, S)[n] : n \in 1 .. Cardinality(S)}
    BY <1>2 DEF ToSet
  <2>2. ASSUME NEW n \in 1 .. Cardinality(S)
        PROVE  Pick(list, S)[n] \in {list[i] : i \in S}
    BY <1>3
  <2>3. ASSUME NEW i \in S
        PROVE  list[i] \in {Pick(list, S)[n] : n \in 1 .. Cardinality(S)}
    <3>1. PICK n \in 1 .. Cardinality(S) : Nth(S, n) = i
      BY <1>4
    <3> QED BY <1>3, <3>1
  <2> QED BY <2>1, <2>2, <2>3
<1> QED BY <1>1, <1>2, <1>3, <1>5

\* A list of numbers that never go down.
Ascending(list, N) ==
  /\ list \in [1 .. N -> Int]
  /\ \A a, b \in 1 .. N : a <= b => list[a] <= list[b]

LEMMA PickAscending ==
  ASSUME NEW N \in Nat, NEW list, Ascending(list, N), NEW S \in SUBSET (1 .. N)
  PROVE  Ascending(Pick(list, S), Cardinality(S))
<1>1. DOMAIN list = 1 .. N
  BY DEF Ascending
<1>2. /\ Cardinality(S) \in Nat /\ DOMAIN Pick(list, S) = 1 .. Cardinality(S)
      /\ \A n \in 1 .. Cardinality(S) : Nth(S, n) \in S /\ Pick(list, S)[n] = list[Nth(S, n)]
  BY <1>1, PickFacts
<1>3. ASSUME NEW n \in 1 .. Cardinality(S)
      PROVE  Pick(list, S)[n] \in Int
  BY <1>2 DEF Ascending
<1>4. Pick(list, S) \in [1 .. Cardinality(S) -> Int]
  BY <1>2, <1>3 DEF Pick
<1>5. ASSUME NEW a \in 1 .. Cardinality(S), NEW b \in 1 .. Cardinality(S), a <= b
      PROVE  Pick(list, S)[a] <= Pick(list, S)[b]
  <2>1. a = b \/ a < b
    BY <1>2, <1>5
  <2>2. Nth(S, a) \in 1 .. N /\ Nth(S, b) \in 1 .. N
    BY <1>2
  <2>3. a < b => Nth(S, a) < Nth(S, b)
    BY NthFacts
  <2>4. Nth(S, a) <= Nth(S, b)
    BY <2>1, <2>2, <2>3
  <2> QED BY <1>2, <2>2, <2>4 DEF Ascending
<1> QED BY <1>4, <1>5 DEF Ascending

\* Of a list that never goes down, nothing is left out but repetitions.
LEMMA DistinctFacts ==
  ASSUME NEW N \in Nat, NEW list, Ascending(list, N)
  PROVE  ToSet(Distinct(list)) = ToSet(list)
<1> DEFINE S == {i \in 1 .. N : i = 1 \/ list[i - 1] < list[i]}
<1>1. DOMAIN list = 1 .. N /\ S \in SUBSET (1 .. N) /\ Distinct(list) = Pick(list, S)
  BY DEF Ascending, Distinct
<1>2. ToSet(Distinct(list)) = {list[i] : i \in S}
  <2> HIDE DEF S
  <2>1. ToSet(Pick(list, S)) = {list[i] : i \in S}
    BY <1>1, PickFacts
  <2> QED BY <1>1, <2>1
<1>3. ASSUME NEW k \in 1 .. N
      PROVE  \E i \in S : list[i] = list[k]
  <2> DEFINE T == {i \in 1 .. N : list[i] = list[k]}
  <2>1. T \in SUBSET Nat /\ T # {}
    OBVIOUS
  <2>2. PICK m \in T : \A y \in T : m <= y
    BY <2>1, Least
  <2>3. m \in 1 .. N /\ list[m] = list[k]
    BY <2>2
  <2>4. m = 1 \/ (m - 1 \in 1 .. N /\ list[m - 1] # list[m])
    BY <2>2, <2>3
  <2>5. m \in S
    BY <2>3, <2>4 DEF Ascending
  <2> QED BY <2>3, <2>5
<1>4. ToSet(list) = {list[i] : i \in 1 .. N}
  BY <1>1 DEF ToSet
<1> HIDE DEF S
<1>5. {list[i] : i \in S} = {list[i] : i \in 1 .. N}
  BY <1>1, <1>3
<1> QED BY <1>2, <1>4, <1>5

-----------------------------------------------------------------------------
(***************************************************************************)
(* Lines and columns.                                                      *)
(***************************************************************************)
Breaks(i) == {k \in 1 .. i : file[k] = Newline}
Start(i) == Max2(0, Greatest(Breaks(i)))

LEMMA BreaksFinite ==
  ASSUME NEW i \in Nat
  PROVE  /\ IsFiniteSet(Breaks(i)) /\ Cardinality(Breaks(i)) \in 0 .. i
         /\ LineAt(i) = 1 + Cardinality(Breaks(i)) /\ LineAt(i) \in 1 .. i + 1
<1>1. Breaks(i) \in SUBSET (1 .. i)
  BY DEF Breaks
<1>2. IsFiniteSet(Breaks(i)) /\ Cardinality(Breaks(i)) \in Nat /\ Cardinality(Breaks(i)) <= i
  BY <1>1, UpToFacts
<1>3. LineAt(i) = 1 + Cardinality(Breaks(i))
  BY DEF LineAt, Breaks
<1> QED BY <1>2, <1>3

\* Two places are in one line when there is no newline between them.
LEMMA SameLine ==
  ASSUME NEW i \in Nat, NEW j \in Nat, i <= j
  PROVE  /\ LineAt(i) <= LineAt(j)
         /\ LineAt(i) = LineAt(j) => Start(i) = Start(j)
         /\ LineAt(i) = LineAt(j) <=> \A k \in i + 1 .. j : file[k] # Newline
<1>1. /\ IsFiniteSet(Breaks(i)) /\ Cardinality(Breaks(i)) \in Nat
      /\ IsFiniteSet(Breaks(j)) /\ Cardinality(Breaks(j)) \in Nat
      /\ LineAt(i) = 1 + Cardinality(Breaks(i)) /\ LineAt(j) = 1 + Cardinality(Breaks(j))
  BY BreaksFinite
<1>2. Breaks(i) \subseteq Breaks(j)
  BY DEF Breaks
<1>3. /\ Cardinality(Breaks(i)) <= Cardinality(Breaks(j))
      /\ Cardinality(Breaks(i)) = Cardinality(Breaks(j)) => Breaks(i) = Breaks(j)
  BY <1>1, <1>2, FS_Subset
<1>4. LineAt(i) = LineAt(j) <=> Breaks(i) = Breaks(j)
  BY <1>1, <1>3
<1>5. Breaks(i) = Breaks(j) <=> \A k \in i + 1 .. j : file[k] # Newline
  <2>1. ASSUME Breaks(i) = Breaks(j), NEW k \in i + 1 .. j, file[k] = Newline
        PROVE  FALSE
    <3>1. k \in 1 .. j /\ k \notin 1 .. i
      BY <2>1
    <3> QED BY <2>1, <3>1 DEF Breaks
  <2>2. ASSUME \A k \in i + 1 .. j : file[k] # Newline
        PROVE  Breaks(j) \subseteq Breaks(i)
    <3>1. \A k \in 1 .. j : k \in i + 1 .. j \/ k \in 1 .. i
      OBVIOUS
    <3> QED BY <2>2, <3>1 DEF Breaks
  <2> QED BY <1>2, <2>1, <2>2
<1>6. Breaks(i) = Breaks(j) => Start(i) = Start(j)
  BY DEF Start
<1>7. LineAt(i) <= LineAt(j)
  BY <1>1, <1>3
<1> QED BY <1>4, <1>5, <1>6, <1>7

LEMMA StartFacts ==
  ASSUME NEW i \in Nat
  PROVE  /\ Start(i) \in 0 .. i
         /\ Start(i) > 0 => file[Start(i)] = Newline
         /\ \A k \in Start(i) + 1 .. i : file[k] # Newline
<1>1. Breaks(i) \in SUBSET (0 .. (i + 1) - 1) /\ i + 1 \in Nat
  BY DEF Breaks
<1>2. /\ Greatest(Breaks(i)) \in -1 .. (i + 1) - 1
      /\ Greatest(Breaks(i)) >= 0 => Greatest(Breaks(i)) \in Breaks(i)
      /\ \A y \in Breaks(i) : y <= Greatest(Breaks(i))
  BY <1>1, GreatestFacts
<1> DEFINE g == Greatest(Breaks(i))
<1> HIDE DEF g
<1>3. g \in -1 .. i /\ (g >= 0 => g \in 1 .. i /\ file[g] = Newline)
  BY <1>2 DEF g, Breaks
<1>4. Start(i) = IF g > 0 THEN g ELSE 0
  BY <1>3 DEF Start, Max2, g
<1>5. ASSUME NEW k \in Start(i) + 1 .. i
      PROVE  file[k] # Newline
  <2>1. Start(i) \in 0 .. i /\ g <= Start(i)
    BY <1>3, <1>4
  <2>2. k \in 1 .. i /\ ~ (k <= g)
    BY <1>3, <2>1
  <2>3. k \notin Breaks(i)
    BY <1>2, <2>2 DEF g
  <2> QED BY <2>2, <2>3 DEF Breaks
<1> QED BY <1>3, <1>4, <1>5

LEMMA LocationFacts ==
  ASSUME NEW i \in Nat
  PROVE  LocationAt(i) = << LineAt(i), i - Start(i) >>
<1> DEFINE S == {k \in 0 .. i - 1 : LineAt(k) = LineAt(i)}
<1>1. Start(i) \in 0 .. i
  BY StartFacts
<1>2. ASSUME NEW k \in 0 .. i - 1
      PROVE  LineAt(k) = LineAt(i) <=> k \in Start(i) .. i - 1
  <2>1. k \in Nat /\ k <= i
    BY <1>2
  <2>2. LineAt(k) = LineAt(i) <=> \A m \in k + 1 .. i : file[m] # Newline
    BY <2>1, SameLine
  <2>3. CASE k >= Start(i)
    <3>1. \A m \in k + 1 .. i : m \in Start(i) + 1 .. i
      BY <1>1, <2>1, <2>3
    <3> QED BY <1>1, <2>1, <2>2, <2>3, <3>1, StartFacts
  <2>4. CASE k < Start(i)
    <3>1. Start(i) \in k + 1 .. i /\ Start(i) > 0
      BY <1>1, <2>1, <2>4
    <3> QED BY <1>1, <2>1, <2>2, <2>4, <3>1, StartFacts
  <2> QED BY <1>1, <2>1, <2>3, <2>4
<1>3. S = Start(i) .. i - 1
  <2>1. \A k \in Start(i) .. i - 1 : k \in 0 .. i - 1
    BY <1>1
  <2> QED BY <1>2, <2>1
<1>4. Cardinality(Start(i) .. i - 1) = i - Start(i)
  BY <1>1, FS_Interval
<1> QED BY <1>3, <1>4 DEF LocationAt

\* What the code takes for line and column of a place with no newline.
LEMMA LineAndColumn ==
  ASSUME offset \in Nat, NEW j \in Nat, text(j) # Newline
  PROVE  Line(j) = LineAt(offset + j) /\ Column(j) = (offset + j) - Start(offset + j)
<1>1. /\ offset + j \in Nat /\ file[offset + j + 1] # Newline
      /\ \A k : k \in 1 .. offset + j + 1 <=> k \in 1 .. offset + j \/ k = offset + j + 1
  BY DEF text
<1>2. Newlines(j) = Breaks(offset + j)
  BY <1>1 DEF Newlines, Breaks
<1>3. Line(j) = LineAt(offset + j)
  BY <1>1, <1>2, BreaksFinite DEF Line
<1>4. Start(offset + j) \in Int /\ Column(j) = offset + (j - Start(offset + j))
  BY <1>1, <1>2, StartFacts DEF Column, Start
<1> QED BY <1>3, <1>4

-----------------------------------------------------------------------------
(***************************************************************************)
(* The chunk that place i of the file is in.                               *)
(***************************************************************************)
LEMMA ChunkFacts ==
  ASSUME NEW i \in Nat
  PROVE  /\ Chunk(i) \in Nat /\ Chunk(i) * MAX_INPUT \in Nat
         /\ Chunk(i) * MAX_INPUT <= i /\ i < Chunk(i) * MAX_INPUT + MAX_INPUT
<1> DEFINE m == MAX_INPUT
           q == i \div m
<1>1. m \in Nat \ {0}
  BY SearchAssumption
<1> HIDE DEF m
<1>2. q \in Int /\ i = m * q + (i % m) /\ i % m \in 0 .. m - 1
  BY <1>1
<1>3. q >= 0
  <2> SUFFICES ASSUME q < 0 PROVE FALSE
    BY <1>2
  <2>1. m * (q + 1) <= m * 0 /\ m * (q + 1) = m * q + m
    BY <1>1, <1>2
  <2> QED BY <1>1, <1>2, <2>1
<1>4. q \in Nat /\ m * q = q * m /\ q * m \in Nat
  BY <1>1, <1>2, <1>3
<1>5. q * m <= i /\ i < q * m + m
  BY <1>1, <1>2, <1>4
<1> QED BY <1>4, <1>5 DEF Chunk, m

LEMMA ChunkIs ==
  ASSUME NEW i \in Nat, NEW c \in Nat
  PROVE  Chunk(i) = c <=> c * MAX_INPUT <= i /\ i < c * MAX_INPUT + MAX_INPUT
<1> DEFINE m == MAX_INPUT
           d == Chunk(i)
<1>1. /\ m \in Nat \ {0} /\ d \in Nat /\ d * m \in Nat /\ d * m <= i /\ i < d * m + m
  BY ChunkFacts, SearchAssumption
<1> HIDE DEF m, d
<1>2. c * m \in Nat /\ (c + 1) * m = c * m + m /\ (d + 1) * m = d * m + m
  BY <1>1
<1>3. ASSUME d < c PROVE d * m + m <= c * m
  <2>1. (d + 1) * m <= c * m
    BY <1>1, <1>3
  <2> QED BY <1>2, <2>1
<1>4. ASSUME c < d PROVE c * m + m <= d * m
  <2>1. (c + 1) * m <= d * m
    BY <1>1, <1>4
  <2> QED BY <1>2, <2>1
<1>5. d = c \/ d < c \/ c < d
  BY <1>1
<1>6. c * m <= i /\ i < c * m + m => d = c
  BY <1>1, <1>2, <1>3, <1>4, <1>5
<1> QED BY <1>1, <1>6 DEF m, d

LEMMA ChunkGrows ==
  ASSUME NEW i \in Nat, NEW j \in Nat, i <= j
  PROVE  Chunk(i) <= Chunk(j)
<1> DEFINE m == MAX_INPUT
           c == Chunk(i)
           d == Chunk(j)
<1>1. /\ m \in Nat \ {0} /\ c \in Nat /\ d \in Nat /\ c * m \in Nat /\ d * m \in Nat
      /\ c * m <= i /\ j < d * m + m
  BY ChunkFacts, SearchAssumption
<1> HIDE DEF m, c, d
<1>2. ASSUME d < c PROVE FALSE
  <2>1. (d + 1) * m <= c * m /\ (d + 1) * m = d * m + m
    BY <1>1, <1>2
  <2> QED BY <1>1, <2>1
<1>3. c <= d
  BY <1>1, <1>2
<1> QED BY <1>3 DEF c, d

-----------------------------------------------------------------------------
(***************************************************************************)
(* The invariant: what the lists hold, chunk by chunk.                     *)
(***************************************************************************)
Small == \A v \in 1 .. Len(query.word) : InSmallLetters(query.word[v])

Given == \E i \in Inputs : file = i.file /\ query = i.query

\* A word of the query that lies inside the chunk.
Inside(v, i) == i + Len(word[v]) < text_length /\ IsWord(word[v], i)

\* The words before the present one are all found, and what is found is in order
\* and followed by something.
ListsInv ==
  /\ Reading /\ Small =>
       \A v \in 1 .. w - 1 : \A i \in Nat \ {0} : Inside(v, i) => i \in ToSet(hits[v])
  /\ \A v \in 1 .. Len(word) :
       /\ \A k \in 1 .. Len(hits[v]) : hits[v][k] + Len(word[v]) < text_length
       /\ \A a, b \in 1 .. Len(hits[v]) : a < b => hits[v][a] < hits[v][b]

\* The part of the answer that comes from one chunk.
Part(At(_), c) ==
  CASE query.id \in {1, 3} -> {LocationAt(i) : i \in {i \in At(1) : Chunk(i) = c}}
    [] query.id = 2 ->
         {l \in 1 .. Len(file) + 1 : \A v \in 1 .. Len(query.word) :
            \E i \in At(v) : Chunk(i) = c /\ LineAt(i) = l}
    [] query.id = 4 ->
         {LineAt(i) : i \in {i \in At(1) : \E k \in At(2) : Chunk(i) = c /\
            Chunk(k) = c /\ LineAt(i) = LineAt(k) /\ k >= i + Len(query.word[1]) + 3}}

\* What was printed is the answer up to the present chunk.
Printed(n) ==
  Small => /\ \A c \in 0 .. n - 1 : Part(Certain, c) \subseteq ToSet(out)
           /\ ToSet(out) \subseteq Wanted(Possible)

OutInv ==
  /\ out \in Seq(ToSet(out))
  /\ \E n \in Nat : offset = n * MAX_INPUT /\ Printed(n)

AInv == IInv /\ HInv /\ Given /\ ListsInv /\ OutInv

-----------------------------------------------------------------------------
LEMMA SameSmall == UNCHANGED query => (Small' <=> Small)
BY DEF Small, InSmallLetters

\* A turn of the loop leaves the other words alone, and adds a place that is greater.
LEMMA ListsTurn ==
  ASSUME TypeOK, PlacesInv, ListsInv, UNCHANGED << file, query, offset, w >>,
         Len(word') = Len(word),
         \A v \in 1 .. Len(word) : Len(word'[v]) = Len(word[v]),
         \A v \in 1 .. Len(word) : v # w => word'[v] = word[v] /\ hits'[v] = hits[v],
         \/ hits'[w] = hits[w]
         \/ hits'[w] = Append(hits[w], s) /\ s + Len(word[w]) < text_length
  PROVE  ListsInv'
<1>1. /\ w \in 1 .. Len(word) /\ Len(word) \in Nat /\ s \in Nat
      /\ hits \in [1 .. Len(word) -> Seq(Nat)]
  BY DEF TypeOK
<1>2. text_length' = text_length /\ (Reading' <=> Reading) /\ (Small' <=> Small)
  BY SameSmall DEF text_length, Reading
<1>3. ASSUME Reading', Small', NEW v \in 1 .. w - 1, NEW i \in Nat \ {0}, Inside(v, i)'
      PROVE  i \in ToSet(hits'[v])
  <2>1. v \in 1 .. Len(word) /\ v # w
    BY <1>1
  <2>2. Inside(v, i)
    BY <1>2, <1>3, <2>1 DEF Inside, IsWord, text, Separator
  <2> QED BY <1>2, <1>3, <2>1, <2>2 DEF ListsInv
<1>4. ASSUME NEW v \in 1 .. Len(word)
      PROVE  /\ \A k \in 1 .. Len(hits'[v]) : hits'[v][k] + Len(word[v]) < text_length
             /\ \A a, b \in 1 .. Len(hits'[v]) : a < b => hits'[v][a] < hits'[v][b]
  <2>1. CASE hits'[v] = hits[v]
    BY <2>1 DEF ListsInv
  <2>2. CASE v = w /\ hits'[w] = Append(hits[w], s) /\ s + Len(word[w]) < text_length
    <3> DEFINE n == Len(hits[w])
               h == hits'[w]
    <3>1. /\ n \in Nat /\ Len(h) = n + 1 /\ h[n + 1] = s
          /\ \A k \in 1 .. n : h[k] = hits[w][k] /\ hits[w][k] < s
      BY <1>1, <2>2 DEF PlacesInv
    <3>2. /\ \A k \in 1 .. n : hits[w][k] + Len(word[w]) < text_length
          /\ \A a, b \in 1 .. n : a < b => hits[w][a] < hits[w][b]
      BY <1>1 DEF ListsInv
    <3> HIDE DEF n, h
    <3>3. \A k \in 1 .. n + 1 : k \in 1 .. n \/ k = n + 1
      BY <3>1
    <3>4. \A k \in 1 .. n + 1 : h[k] + Len(word[w]) < text_length
      BY <2>2, <3>1, <3>2, <3>3
    <3>5. \A a, b \in 1 .. n + 1 : a < b => a \in 1 .. n
      BY <3>1
    <3>6. \A a, b \in 1 .. n + 1 : a < b => h[a] < h[b]
      BY <3>1, <3>2, <3>3, <3>5
    <3> QED BY <2>2, <3>1, <3>4, <3>6 DEF h
  <2> QED BY <1>4, <2>1, <2>2
<1>5. \A i, v : ToSet(hits[v])' = ToSet(hits'[v])
  BY DEF ToSet
<1> QED BY <1>2, <1>3, <1>4, <1>5 DEF ListsInv

LEMMA ListsEmpty ==
  ASSUME \A v \in 1 .. Len(word') : hits'[v] = << >>, w' = 1
  PROVE  ListsInv'
<1>1. 1 .. w' - 1 = {}
  OBVIOUS
<1>2. \A v \in 1 .. Len(word') : 1 .. Len(hits'[v]) = {}
  OBVIOUS
<1> QED BY <1>1, <1>2 DEF ListsInv

LEMMA ListsStep ==
  TypeOK /\ TableInv /\ NoneSkipped /\ PlacesInv /\ ListsInv /\ [Next]_vars => ListsInv'
<1> SUFFICES ASSUME TypeOK, TableInv, NoneSkipped, PlacesInv, ListsInv, [Next]_vars
             PROVE  ListsInv'
  OBVIOUS
<1>1. /\ w \in 1 .. Len(word) /\ Len(word) \in Nat /\ s \in Nat
      /\ hits \in [1 .. Len(word) -> Seq(Nat)]
  BY DEF TypeOK
<1>2. CASE Hit
  <2>1. /\ hits' = [hits EXCEPT ![w] = Append(@, s)]
        /\ word' = [word EXCEPT ![w] = Lowered(@, 0)]
        /\ UNCHANGED << file, query, offset, w >> /\ 0 \in Int
    BY <1>2, HitStep DEF Hit
  <2>2. Len(word') = Len(word) /\ \A v \in 1 .. Len(word) : Len(word'[v]) = Len(word[v])
    BY <2>1, LoweredWords
  <2>3. \A v \in 1 .. Len(word) : v # w => word'[v] = word[v] /\ hits'[v] = hits[v]
    BY <1>1, <2>1
  <2>4. hits'[w] = Append(hits[w], s)
    BY <1>1, <2>1
  <2>5. s + Len(word[w]) < text_length
    BY <1>2, SearchingFacts DEF Hit, pattern_length, pattern
  <2> QED BY <2>1, <2>2, <2>3, <2>4, <2>5, ListsTurn
<1>3. CASE Shift
  <2> DEFINE j == Max2(0, Mismatch(pattern, s))
  <2>1. /\ word' = [word EXCEPT ![w] = Lowered(@, j)] /\ Mismatch(pattern, s) \in Int
        /\ UNCHANGED << file, query, offset, w, hits >>
    <3>1. Mismatch(pattern, s) \in -1 .. pattern_length - 1
      BY <1>3, ShiftStep
    <3>2. -1 .. pattern_length - 1 \subseteq Int
      OBVIOUS
    <3> QED BY <1>3, <3>1, <3>2 DEF Shift
  <2>2. j \in Int
    BY <2>1 DEF Max2
  <2> HIDE DEF j
  <2>3. Len(word') = Len(word) /\ \A v \in 1 .. Len(word) : Len(word'[v]) = Len(word[v])
    BY <2>1, <2>2, LoweredWords
  <2>4. \A v \in 1 .. Len(word) : v # w => word'[v] = word[v] /\ hits'[v] = hits[v]
    BY <1>1, <2>1
  <2> QED BY <2>1, <2>3, <2>4, ListsTurn
<1>4. CASE NextWord
  <2>1. UNCHANGED << file, query, word, offset, hits >> /\ w' = w + 1 /\ Reading /\ ~ Searching
    BY <1>4 DEF NextWord
  <2>2. text_length' = text_length /\ (Reading' <=> Reading) /\ (Small' <=> Small)
    BY <2>1, SameSmall DEF text_length, Reading
  <2>3. ASSUME Small, NEW v \in 1 .. w, NEW i \in Nat \ {0}, Inside(v, i)
        PROVE  i \in ToSet(hits[v])
    <3>1. CASE v \in 1 .. w - 1
      BY <2>1, <2>3, <3>1 DEF ListsInv
    <3>2. CASE v = w
      <4>1. InSmallLetters(query.word[w])
        BY <1>1, <2>3 DEF Small, TypeOK
      <4>2. pattern_length \in Nat /\ text_length \in Int
        BY SearchAssumption DEF TypeOK, pattern_length, pattern, text_length
      <4>3. i + pattern_length < text_length /\ IsWord(pattern, i)
        BY <2>3, <3>2 DEF Inside, pattern_length, pattern
      <4>4. ~ (s < text_length - pattern_length)
        BY <2>1 DEF Searching
      <4>5. i \in 1 .. s - 1 /\ i < text_length - pattern_length
        BY <1>1, <4>2, <4>3, <4>4
      <4> QED BY <2>1, <3>2, <4>1, <4>3, <4>5 DEF NoneSkipped
    <3> QED BY <1>1, <3>1, <3>2
  <2>4. \A v, i : Inside(v, i)' <=> Inside(v, i)
    BY <2>1, <2>2 DEF Inside, IsWord, text, Separator
  <2>5. w' - 1 = w
    BY <1>1, <2>1
  <2>6. \A v : hits'[v] = hits[v] /\ ToSet(hits[v])' = ToSet(hits[v])
    BY <2>1 DEF ToSet
  <2> QED BY <2>1, <2>2, <2>3, <2>4, <2>5, <2>6 DEF ListsInv
<1>5. CASE NextChunk
  <2>1. hits' = NoHits(Len(word)) /\ w' = 1 /\ word' = word
    BY <1>5, NextChunkStep DEF NextChunk
  <2>2. \A v \in 1 .. Len(word') : hits'[v] = << >>
    BY <2>1 DEF NoHits
  <2> QED BY <2>1, <2>2, ListsEmpty
<1>6. CASE UNCHANGED vars
  <2>1. /\ UNCHANGED << file, query, offset, w >> /\ word' = word /\ hits' = hits
    BY <1>6 DEF vars
  <2> QED BY <2>1, ListsTurn
<1> QED BY <1>2, <1>3, <1>4, <1>5, <1>6 DEF Next

-----------------------------------------------------------------------------
(***************************************************************************)
(* At the end of a chunk the lists hold the words that are in it.          *)
(***************************************************************************)
LEMMA WordsTyped ==
  ASSUME TypeOK, NEW v \in 1 .. Len(query.word)
  PROVE  /\ query.word[v] \in Seq(Chars) /\ Len(query.word[v]) \in Nat \ {0}
         /\ v \in DOMAIN query.word
<1>1. query.word \in Seq(Seq(Chars) \ {<< >>})
  BY DEF TypeOK, Queries
<1>2. v \in DOMAIN query.word /\ query.word[v] \in Seq(Chars) \ {<< >>}
  BY <1>1
<1> QED BY <1>2

LEMMA WordInChunk ==
  ASSUME TypeOK, NEW c \in Nat, offset = c * MAX_INPUT,
         NEW v \in 1 .. Len(query.word), NEW j \in Nat,
         word[v] = query.word[v]
  PROVE  Inside(v, j) <=> WordAt(v, offset + j) /\ Chunk(offset + j) = c
<1> DEFINE p == query.word[v]
           n == Len(p)
           i == offset + j
<1>1. /\ n \in Nat /\ offset \in Nat /\ Len(file) \in Nat /\ MAX_INPUT \in Nat \ {0}
      /\ offset = c * MAX_INPUT /\ j \in Nat /\ i = offset + j /\ i \in Nat /\ i + n \in Nat
  <2>1. n \in Nat
    BY WordsTyped
  <2>2. offset \in Nat /\ Len(file) \in Nat
    BY DEF TypeOK
  <2>3. MAX_INPUT \in Nat \ {0}
    BY SearchAssumption
  <2> HIDE DEF n
  <2> QED BY <2>1, <2>2, <2>3
<1>2. text_length = IF Len(file) - offset < MAX_INPUT THEN Len(file) - offset ELSE MAX_INPUT
  BY DEF text_length
<1>3. /\ Chunk(i) = c <=> c * MAX_INPUT <= i /\ i < c * MAX_INPUT + MAX_INPUT
      /\ Chunk(i + n) = c <=> c * MAX_INPUT <= i + n /\ i + n < c * MAX_INPUT + MAX_INPUT
  BY <1>1, ChunkIs
<1>4. j + n < text_length <=> i + n < Len(file) /\ Chunk(i) = c /\ Chunk(i + n) = c
  <2> HIDE DEF n
  <2> QED BY <1>1, <1>2, <1>3
<1>5. (j > 0 => Separator(text(j - 1))) <=> (c * MAX_INPUT < i => Separator(file[i]))
  <2>1. j > 0 <=> c * MAX_INPUT < i
    BY <1>1
  <2>2. text(j - 1) = file[i]
    BY <1>1 DEF text
  <2> QED BY <2>1, <2>2
<1>6. (\A k \in 0 .. n - 1 : lower[text(j + k)] = lower[p[k + 1]])
        <=> (\A k \in 1 .. n : lower[file[i + k]] = lower[p[k]])
  <2>1. ASSUME \A k \in 0 .. n - 1 : lower[text(j + k)] = lower[p[k + 1]], NEW k \in 1 .. n
        PROVE  lower[file[i + k]] = lower[p[k]]
    <3>1. k - 1 \in 0 .. n - 1 /\ offset + (j + (k - 1)) + 1 = i + k /\ (k - 1) + 1 = k
      BY <1>1
    <3>2. lower[text(j + (k - 1))] = lower[p[(k - 1) + 1]]
      BY <2>1, <3>1
    <3> QED BY <3>1, <3>2 DEF text
  <2>2. ASSUME \A k \in 1 .. n : lower[file[i + k]] = lower[p[k]], NEW k \in 0 .. n - 1
        PROVE  lower[text(j + k)] = lower[p[k + 1]]
    <3>1. k + 1 \in 1 .. n /\ offset + (j + k) + 1 = i + (k + 1)
      <4> HIDE DEF n, i
      <4> QED BY <1>1, <2>2
    <3> QED BY <2>2, <3>1 DEF text
  <2> QED BY <2>1, <2>2
<1>7. text(j + n) = file[i + n + 1]
  <2>1. offset + (j + n) + 1 = i + n + 1
    <3> HIDE DEF n, i
    <3> QED BY <1>1
  <2> QED BY <2>1 DEF text
<1>8. Inside(v, j) <=>
        /\ j + n < text_length
        /\ j > 0 => Separator(text(j - 1))
        /\ \A k \in 0 .. n - 1 : lower[text(j + k)] = lower[p[k + 1]]
        /\ Separator(text(j + n))
  BY DEF Inside, IsWord
<1>9. WordAt(v, i) <=>
        /\ i + n < Len(file)
        /\ \A k \in 1 .. n : lower[file[i + k]] = lower[p[k]]
        /\ Separator(file[i + n + 1])
        /\ Chunk(i) = Chunk(i + n)
        /\ Chunk(i) * MAX_INPUT < i => Separator(file[i])
  BY DEF WordAt
<1> HIDE DEF p, n, i
<1>10. Inside(v, j) <=> WordAt(v, i) /\ Chunk(i) = c
  BY <1>4, <1>5, <1>6, <1>7, <1>8, <1>9, Zenon
<1> QED BY <1>10 DEF i

Collected(c) ==
  \A v \in 1 .. Len(query.word) :
    /\ \A j \in ToSet(hits[v]) :
         /\ j \in Nat /\ text(j) # Newline
         /\ offset + j \in Possible(v) /\ Chunk(offset + j) = c
    /\ \A i \in Certain(v) : Chunk(i) = c => \E j \in ToSet(hits[v]) : i = offset + j

\* A word typed has no newline, so its place in the text is not one.
LEMMA NoNewline ==
  ASSUME TypeOK, Given, Small, NEW v \in 1 .. Len(query.word), NEW j \in Nat,
         IsWord(query.word[v], j)
  PROVE  text(j) # Newline
<1> DEFINE p == query.word[v]
<1>1. p \in Seq(Chars) /\ p # << >> /\ 1 \in DOMAIN p /\ Len(p) > 0
  <2>1. p \in Seq(Chars) /\ Len(p) \in Nat \ {0}
    BY WordsTyped
  <2> HIDE DEF p
  <2> QED BY <2>1
<1>2. p[1] # Newline
  <2>1. PICK i \in Inputs : query = i.query
    BY DEF Given
  <2>2. v \in DOMAIN query.word
    BY WordsTyped
  <2>3. Newline \notin ToSet(p)
    BY <2>1, <2>2, SearchAssumption
  <2> QED BY <1>1, <2>3 DEF ToSet
<1>3. lower[p[1]] = p[1]
  BY <1>1 DEF Small, InSmallLetters
<1>4. lower[text(j)] = lower[p[1]]
  <2>1. 0 \in 0 .. Len(p) - 1 /\ j + 0 = j /\ 0 + 1 = 1
    BY <1>1
  <2> QED BY <2>1 DEF IsWord
<1>5. lower[Newline] = Newline
  BY SearchAssumption
<1> QED BY <1>2, <1>3, <1>4, <1>5

LEMMA AllCollected ==
  ASSUME TypeOK, TableInv, NoneSkipped, HitsAreWords, Given, ListsInv,
         Small, Reading, ~ Searching, w = Len(word), NEW c \in Nat, offset = c * MAX_INPUT
  PROVE  Collected(c)
<1> SUFFICES ASSUME NEW v \in 1 .. Len(query.word)
             PROVE  /\ \A j \in ToSet(hits[v]) :
                         /\ j \in Nat /\ text(j) # Newline
                         /\ offset + j \in Possible(v) /\ Chunk(offset + j) = c
                    /\ \A i \in Certain(v) :
                         Chunk(i) = c => \E j \in ToSet(hits[v]) : i = offset + j
  BY DEF Collected
<1>1. /\ Len(word) = Len(query.word) /\ v \in 1 .. Len(word) /\ word[v] = query.word[v]
      /\ offset \in Nat /\ s \in Nat
      /\ hits \in [1 .. Len(word) -> Seq(Nat)] /\ word[v] \in Seq(Chars)
  BY DEF TypeOK, TableInv, Small
<1>2. ASSUME NEW j \in ToSet(hits[v])
      PROVE  /\ j \in Nat /\ text(j) # Newline
             /\ offset + j \in Possible(v) /\ Chunk(offset + j) = c
  <2>1. PICK k \in 1 .. Len(hits[v]) : j = hits[v][k]
    BY <1>1, <1>2 DEF ToSet
  <2>2. j \in Nat /\ Inside(v, j)
    BY <1>1, <2>1 DEF ListsInv, HitsAreWords, Inside
  <2>3. WordAt(v, offset + j) /\ Chunk(offset + j) = c
    BY <1>1, <2>2, WordInChunk
  <2>4. offset + j \in 0 .. Len(file) - 1
    <3>1. offset + j + Len(query.word[v]) < Len(file)
      BY <2>3 DEF WordAt
    <3>2. Len(query.word[v]) \in Nat /\ Len(file) \in Nat
      BY WordsTyped DEF TypeOK
    <3> QED BY <1>1, <2>2, <3>1, <3>2
  <2>5. text(j) # Newline
    BY <1>1, <2>2, NoNewline DEF Inside
  <2> QED BY <2>2, <2>3, <2>4, <2>5 DEF Possible
<1>3. ASSUME NEW i \in Certain(v), Chunk(i) = c
      PROVE  \E j \in ToSet(hits[v]) : i = offset + j
  <2>1. i \in Nat /\ WordAt(v, i) /\ c * MAX_INPUT < i
    BY <1>3 DEF Certain, Possible
  <2> DEFINE j == i - offset
  <2>2. j \in Nat \ {0} /\ offset + j = i
    BY <1>1, <2>1
  <2> HIDE DEF j
  <2>3. Inside(v, j)
    BY <1>1, <1>3, <2>1, <2>2, WordInChunk
  <2>4. j \in ToSet(hits[v])
    <3>1. CASE v \in 1 .. w - 1
      BY <2>2, <2>3, <3>1 DEF ListsInv
    <3>2. CASE v = w
      <4>1. InSmallLetters(query.word[w])
        BY <3>2 DEF Small
      <4>2. pattern_length \in Nat /\ text_length \in Int
        BY <1>1, <3>2, SearchAssumption DEF TypeOK, pattern_length, pattern, text_length
      <4>3. j + pattern_length < text_length /\ IsWord(pattern, j)
        BY <2>3, <3>2 DEF Inside, pattern_length, pattern
      <4>4. ~ (s < text_length - pattern_length)
        BY DEF Searching
      <4>5. j \in 1 .. s - 1 /\ j < text_length - pattern_length
        BY <1>1, <2>2, <4>2, <4>3, <4>4
      <4> QED BY <3>2, <4>1, <4>3, <4>5 DEF NoneSkipped
    <3>3. v \in 1 .. w - 1 \/ v = w
      BY <1>1
    <3> QED BY <3>1, <3>2, <3>3
  <2> QED BY <2>2, <2>4
<1> QED BY <1>2, <1>3

-----------------------------------------------------------------------------
(***************************************************************************)
(* What is printed for a chunk.                                            *)
(***************************************************************************)
LEMMA PlaceFacts ==
  ASSUME TypeOK, NEW c \in Nat, Collected(c), NEW v \in 1 .. Len(query.word),
         NEW j \in ToSet(hits[v])
  PROVE  /\ j \in Nat /\ offset + j \in Nat
         /\ offset + j \in Possible(v) /\ Chunk(offset + j) = c
         /\ Line(j) = LineAt(offset + j)
         /\ Column(j) = (offset + j) - Start(offset + j)
         /\ << Line(j), Column(j) >> = LocationAt(offset + j)
<1>1. /\ j \in Nat /\ text(j) # Newline
      /\ offset + j \in Possible(v) /\ Chunk(offset + j) = c
  BY DEF Collected
<1>2. offset \in Nat /\ offset + j \in Nat
  BY <1>1 DEF TypeOK
<1>3. Line(j) = LineAt(offset + j) /\ Column(j) = (offset + j) - Start(offset + j)
  BY <1>1, <1>2, LineAndColumn
<1>4. << Line(j), Column(j) >> = LocationAt(offset + j)
  <2> DEFINE i == offset + j
  <2>1. i \in Nat /\ Line(j) = LineAt(i) /\ Column(j) = i - Start(i)
    BY <1>2, <1>3
  <2> HIDE DEF i
  <2>2. LocationAt(i) = << LineAt(i), i - Start(i) >>
    BY <2>1, LocationFacts
  <2>3. << Line(j), Column(j) >> = LocationAt(i)
    BY <2>1, <2>2
  <2> QED BY <2>3 DEF i
<1> QED BY <1>1, <1>2, <1>3, <1>4

LEMMA FirstWord ==
  ASSUME TypeOK
  PROVE  /\ 1 \in 1 .. Len(query.word) /\ Len(word) = Len(query.word) /\ Len(query.word) \in Nat
         /\ \A v \in 1 .. Len(query.word) :
              hits[v] \in Seq(Nat) /\ DOMAIN hits[v] = 1 .. Len(hits[v]) /\ Len(hits[v]) \in Nat
<1>1. query.word \in Seq(Seq(Chars) \ {<< >>}) \ {<< >>} /\ Len(word) = Len(query.word)
  BY DEF TypeOK, Queries
<1>2. 1 \in 1 .. Len(query.word) /\ Len(query.word) \in Nat
  BY <1>1
<1>3. hits \in [1 .. Len(query.word) -> Seq(Nat)]
  BY <1>1 DEF TypeOK
<1> QED BY <1>1, <1>2, <1>3

LEMMA ReportPlaces ==
  ASSUME TypeOK, NEW c \in Nat, Collected(c), query.id \in {1, 3}
  PROVE  /\ Part(Certain, c) \subseteq ToSet(Report)
         /\ ToSet(Report) \subseteq Part(Possible, c)
<1> DEFINE h == hits[1]
<1>1. 1 \in 1 .. Len(query.word)
  BY FirstWord
<1>2. Report = Locations(h)
  BY DEF Report
<1>3. ToSet(Report) = {<< Line(h[k]), Column(h[k]) >> : k \in DOMAIN h}
  BY <1>2 DEF Locations, ToSet
<1>4. \A j \in ToSet(h) :
        /\ offset + j \in Possible(1) /\ Chunk(offset + j) = c
        /\ << Line(j), Column(j) >> = LocationAt(offset + j)
  BY <1>1, PlaceFacts
<1>5. \A k \in DOMAIN h : h[k] \in ToSet(h)
  BY DEF ToSet
<1>6. /\ Part(Certain, c) = {LocationAt(i) : i \in {i \in Certain(1) : Chunk(i) = c}}
      /\ Part(Possible, c) = {LocationAt(i) : i \in {i \in Possible(1) : Chunk(i) = c}}
  BY DEF Part
<1>7. ASSUME NEW i \in Certain(1), Chunk(i) = c
      PROVE  LocationAt(i) \in ToSet(Report)
  <2>1. PICK j \in ToSet(h) : i = offset + j
    BY <1>1, <1>7 DEF Collected
  <2>2. PICK k \in DOMAIN h : j = h[k]
    BY <2>1 DEF ToSet
  <2> HIDE DEF h
  <2>3. LocationAt(i) = << Line(h[k]), Column(h[k]) >>
    BY <1>4, <2>1, <2>2
  <2> QED BY <1>3, <2>3
<1>8. ASSUME NEW k \in DOMAIN h
      PROVE  << Line(h[k]), Column(h[k]) >> \in Part(Possible, c)
  <2> HIDE DEF h
  <2>1. h[k] \in ToSet(h)
    BY <1>5
  <2>2. /\ offset + h[k] \in Possible(1) /\ Chunk(offset + h[k]) = c
        /\ << Line(h[k]), Column(h[k]) >> = LocationAt(offset + h[k])
    BY <1>4, <2>1
  <2> QED BY <1>6, <2>2
<1>9. ToSet(Report) \subseteq Part(Possible, c)
  BY <1>3, <1>8
<1>10. Part(Certain, c) \subseteq ToSet(Report)
  BY <1>6, <1>7
<1> QED BY <1>9, <1>10

\* The lines of the places found for a word: in order, and those of the file.
LEMMA LinesFound ==
  ASSUME TypeOK, ListsInv, NEW c \in Nat, Collected(c), NEW v \in 1 .. Len(query.word)
  PROVE  /\ DOMAIN LinesOf(hits[v]) = 1 .. Len(hits[v])
         /\ Ascending(LinesOf(hits[v]), Len(hits[v]))
         /\ \A l : l \in ToSet(LinesOf(hits[v])) <=>
                     \E j \in ToSet(hits[v]) : l = LineAt(offset + j)
<1> DEFINE h == hits[v]
           n == Len(h)
<1>1. h \in Seq(Nat) /\ DOMAIN h = 1 .. n /\ n \in Nat /\ offset \in Nat
  BY FirstWord DEF TypeOK
<1>2. v \in 1 .. Len(word) /\ \A a, b \in 1 .. n : a < b => h[a] < h[b]
  BY FirstWord DEF ListsInv
<1>3. \A j \in ToSet(h) : j \in Nat /\ offset + j \in Nat /\ Line(j) = LineAt(offset + j)
  BY PlaceFacts
<1> HIDE DEF h, n
<1>4. \A k \in 1 .. n : h[k] \in ToSet(h)
  BY <1>1 DEF ToSet
<1>5. LinesOf(h) = [k \in 1 .. n |-> LineAt(offset + h[k])]
  <2>1. LinesOf(h) = [k \in 1 .. n |-> Line(h[k])]
    BY <1>1 DEF LinesOf
  <2> QED BY <1>3, <1>4, <2>1
<1>6. \A k \in 1 .. n : LineAt(offset + h[k]) \in Int
  <2>1. \A i \in Nat : LineAt(i) \in 1 .. i + 1
    BY BreaksFinite
  <2>2. \A i \in Nat : LineAt(i) \in Int
    BY <2>1
  <2> QED BY <1>3, <1>4, <2>2
<1>7. ASSUME NEW a \in 1 .. n, NEW b \in 1 .. n, a <= b
      PROVE  LineAt(offset + h[a]) <= LineAt(offset + h[b])
  <2>1. h[a] \in Nat /\ h[b] \in Nat
    BY <1>1
  <2>2. h[a] <= h[b]
    BY <1>1, <1>2, <1>7, <2>1
  <2> QED BY <1>1, <2>1, <2>2, SameLine
<1>8. Ascending(LinesOf(h), n)
  BY <1>5, <1>6, <1>7 DEF Ascending
<1>9. ToSet(LinesOf(h)) = {LineAt(offset + h[k]) : k \in 1 .. n}
  BY <1>5 DEF ToSet
<1>10. ToSet(h) = {h[k] : k \in 1 .. n}
  BY <1>1 DEF ToSet
<1>11. \A l : l \in ToSet(LinesOf(h)) <=> \E j \in ToSet(h) : l = LineAt(offset + j)
  BY <1>9, <1>10
<1> QED BY <1>5, <1>8, <1>11 DEF h, n

LEMMA ReportLines ==
  ASSUME TypeOK, ListsInv, NEW c \in Nat, Collected(c), query.id = 2
  PROVE  /\ Part(Certain, c) \subseteq ToSet(Report)
         /\ ToSet(Report) \subseteq Part(Possible, c)
<1> DEFINE base == LinesOf(hits[1])
           n == Len(hits[1])
           S == {i \in 1 .. n : \A v \in 2 .. Len(word) : base[i] \in ToSet(LinesOf(hits[v]))}
           N == Len(query.word)
<1>1. 1 \in 1 .. N /\ Len(word) = N /\ N \in Nat /\ n \in Nat
  BY FirstWord
<1>2. DOMAIN base = 1 .. n /\ Ascending(base, n)
  BY <1>1, LinesFound
<1>3. intersection = Pick(base, S)
  BY <1>2 DEF intersection
<1>4. ToSet(Report) = {base[i] : i \in S}
  <2>1. Report = Distinct(Pick(base, S))
    BY <1>3 DEF Report
  <2>2. S \in SUBSET (1 .. n)
    OBVIOUS
  <2> HIDE DEF base, S, n
  <2>3. Cardinality(S) \in Nat /\ Ascending(Pick(base, S), Cardinality(S))
    BY <1>1, <1>2, <2>2, PickAscending, PickFacts
  <2>4. ToSet(Report) = ToSet(Pick(base, S))
    BY <2>1, <2>3, DistinctFacts
  <2> QED BY <1>1, <1>2, <2>2, <2>4, PickFacts
<1>5. ToSet(base) = {base[i] : i \in 1 .. n}
  BY <1>2 DEF ToSet
<1>6. \A v \in 1 .. N : v = 1 \/ v \in 2 .. N
  BY <1>1
<1>7. \A l : l \in ToSet(Report) <=> \A v \in 1 .. N : l \in ToSet(LinesOf(hits[v]))
  <2>1. ASSUME NEW l \in ToSet(Report), NEW v \in 1 .. N
        PROVE  l \in ToSet(LinesOf(hits[v]))
    <3>1. PICK i \in S : l = base[i]
      BY <1>4, <2>1
    <3>2. CASE v = 1
      BY <1>5, <3>1, <3>2
    <3>3. CASE v \in 2 .. N
      BY <1>1, <3>1, <3>3
    <3> QED BY <1>6, <3>2, <3>3
  <2>2. ASSUME NEW l, \A v \in 1 .. N : l \in ToSet(LinesOf(hits[v]))
        PROVE  l \in ToSet(Report)
    <3>1. l \in ToSet(base) /\ \A v \in 2 .. N : v \in 1 .. N
      BY <1>1, <2>2
    <3>2. PICK i \in 1 .. n : l = base[i]
      BY <1>5, <3>1
    <3>3. i \in S
      BY <1>1, <2>2, <3>1, <3>2
    <3> HIDE DEF base, S, n
    <3> QED BY <1>4, <3>2, <3>3
  <2> QED BY <2>1, <2>2
<1>8. \A v \in 1 .. N : \A l :
        l \in ToSet(LinesOf(hits[v])) <=> \E j \in ToSet(hits[v]) : l = LineAt(offset + j)
  BY LinesFound
<1> HIDE DEF base, S, n, N
<1>9. Part(Certain, c) =
        {l \in 1 .. Len(file) + 1 :
           \A v \in 1 .. N : \E i \in Certain(v) : Chunk(i) = c /\ LineAt(i) = l}
  BY DEF Part, N
<1>10. Part(Possible, c) =
        {l \in 1 .. Len(file) + 1 :
           \A v \in 1 .. N : \E i \in Possible(v) : Chunk(i) = c /\ LineAt(i) = l}
  BY DEF Part, N
<1>11. ASSUME NEW l \in Part(Certain, c)
       PROVE  l \in ToSet(Report)
  <2>1. SUFFICES ASSUME NEW v \in 1 .. N PROVE l \in ToSet(LinesOf(hits[v]))
    BY <1>7
  <2>2. PICK i \in Certain(v) : Chunk(i) = c /\ LineAt(i) = l
    BY <1>9, <1>11
  <2>3. PICK j \in ToSet(hits[v]) : i = offset + j
    BY <2>2 DEF Collected, N
  <2> QED BY <1>8, <2>2, <2>3
<1>12. ASSUME NEW l \in ToSet(Report)
       PROVE  l \in Part(Possible, c)
  <2>1. ASSUME NEW v \in 1 .. N
        PROVE  \E i \in Possible(v) : Chunk(i) = c /\ LineAt(i) = l
    <3>1. PICK j \in ToSet(hits[v]) : l = LineAt(offset + j)
      BY <1>7, <1>8, <1>12
    <3> QED BY <3>1, PlaceFacts DEF N
  <2>2. l \in 1 .. Len(file) + 1
    <3>1. PICK i \in Possible(1) : LineAt(i) = l
      BY <1>1, <2>1
    <3>2. i \in 0 .. Len(file) - 1 /\ Len(file) \in Nat
      BY DEF Possible, TypeOK
    <3>3. l \in 1 .. i + 1
      BY <3>1, <3>2, BreaksFinite
    <3> QED BY <3>2, <3>3
  <2> QED BY <1>10, <2>1, <2>2
<1> QED BY <1>11, <1>12

\* Places in one line are as far apart as their columns.
LEMMA SameDistance ==
  ASSUME NEW i \in Nat, NEW k \in Nat, LineAt(i) = LineAt(k)
  PROVE  (k - Start(k)) - (i - Start(i)) = k - i
<1>1. Start(i) \in 0 .. i /\ Start(k) \in 0 .. k
  BY StartFacts
<1>2. Start(i) = Start(k)
  <2>1. CASE i <= k
    BY <2>1, SameLine
  <2>2. CASE k <= i
    BY <2>2, SameLine
  <2> QED BY <2>1, <2>2
<1> QED BY <1>1, <1>2

LEMMA ReportGap ==
  ASSUME TypeOK, ListsInv, Given, NEW c \in Nat, Collected(c), query.id = 4,
         word[1] = query.word[1]
  PROVE  /\ Part(Certain, c) \subseteq ToSet(Report)
         /\ ToSet(Report) \subseteq Part(Possible, c)
<1> DEFINE first == hits[1]
           second == hits[2]
           n == Len(first)
           L == Len(query.word[1])
           Near(a, b) == Line(a) = Line(b) /\ Column(b) - Column(a) - Len(word[1]) >= Gap
           S == {i \in 1 .. n : \E k \in DOMAIN second : Near(first[i], second[k])}
           Follows(i, k) == LineAt(i) = LineAt(k) /\ k >= i + L + 3
<1>1. 1 \in 1 .. Len(query.word) /\ 2 \in 1 .. Len(query.word) /\ L \in Nat
  <2>1. 1 \in 1 .. Len(query.word) /\ Len(query.word) \in Nat /\ L \in Nat
    BY FirstWord, WordsTyped
  <2>2. Len(query.word) = 2
    BY SearchAssumption DEF Given
  <2> QED BY <2>1, <2>2
<1>2. n \in Nat /\ DOMAIN first = 1 .. n
  BY <1>1, FirstWord
<1>3. DOMAIN LinesOf(first) = 1 .. n /\ Ascending(LinesOf(first), n)
  BY <1>1, LinesFound
<1>4. Report = Distinct(Pick(LinesOf(first), S))
  BY <1>2 DEF Report, intersection4
<1>5. S \in SUBSET (1 .. n)
  OBVIOUS
<1>6. \A a \in ToSet(first), b \in ToSet(second) :
        Near(a, b) <=> Follows(offset + a, offset + b)
  <2> SUFFICES ASSUME NEW a \in ToSet(first), NEW b \in ToSet(second)
               PROVE  Near(a, b) <=> Follows(offset + a, offset + b)
    OBVIOUS
  <2> DEFINE i == offset + a
             k == offset + b
  <2>1. /\ i \in Nat /\ k \in Nat
        /\ Line(a) = LineAt(i) /\ Column(a) = i - Start(i)
        /\ Line(b) = LineAt(k) /\ Column(b) = k - Start(k)
    BY <1>1, PlaceFacts
  <2> HIDE DEF i, k, first, second, L
  <2>2. LineAt(i) = LineAt(k) => Column(b) - Column(a) = k - i
    BY <2>1, SameDistance
  <2>3. Near(a, b) <=> Line(a) = Line(b) /\ Column(b) - Column(a) - L >= 3
    BY DEF Gap, L
  <2>4. Near(a, b) <=> Follows(i, k)
    BY <1>1, <2>1, <2>2, <2>3
  <2> QED BY <2>4 DEF i, k
<1> HIDE DEF S
<1>7. ToSet(Report) = {Line(first[i]) : i \in S}
  <2> HIDE DEF n
  <2>1. Cardinality(S) \in Nat /\ Ascending(Pick(LinesOf(first), S), Cardinality(S))
    BY <1>2, <1>3, <1>5, PickAscending, PickFacts
  <2>2. ToSet(Report) = ToSet(Pick(LinesOf(first), S))
    BY <1>4, <2>1, DistinctFacts
  <2>3. ToSet(Report) = {LinesOf(first)[i] : i \in S}
    BY <1>2, <1>3, <1>5, <2>2, PickFacts
  <2>4. \A i \in S : LinesOf(first)[i] = Line(first[i])
    BY <1>2, <1>5 DEF LinesOf
  <2> QED BY <2>3, <2>4
<1>8. \A a \in ToSet(first) : Line(a) = LineAt(offset + a) /\ offset + a \in Possible(1)
                              /\ Chunk(offset + a) = c
  BY <1>1, PlaceFacts
<1>9. \A b \in ToSet(second) : offset + b \in Possible(2) /\ Chunk(offset + b) = c
  BY <1>1, PlaceFacts
<1>10. /\ ToSet(first) = {first[i] : i \in 1 .. n}
       /\ ToSet(second) = {second[k] : k \in DOMAIN second}
  BY <1>2 DEF ToSet
<1>11. /\ Part(Certain, c) = {LineAt(i) : i \in {i \in Certain(1) : \E k \in Certain(2) :
            Chunk(i) = c /\ Chunk(k) = c /\ Follows(i, k)}}
       /\ Part(Possible, c) = {LineAt(i) : i \in {i \in Possible(1) : \E k \in Possible(2) :
            Chunk(i) = c /\ Chunk(k) = c /\ Follows(i, k)}}
  BY DEF Part
<1>12. /\ \A i \in Certain(1) : Chunk(i) = c => \E a \in ToSet(first) : i = offset + a
       /\ \A k \in Certain(2) : Chunk(k) = c => \E b \in ToSet(second) : k = offset + b
  BY <1>1 DEF Collected
<1> HIDE DEF first, second, n, Near, Follows
<1>13. ASSUME NEW i \in Certain(1), NEW k \in Certain(2), Chunk(i) = c, Chunk(k) = c, Follows(i, k)
       PROVE  LineAt(i) \in ToSet(Report)
  <2>1. PICK a \in ToSet(first) : i = offset + a
    BY <1>12, <1>13
  <2>2. PICK b \in ToSet(second) : k = offset + b
    BY <1>12, <1>13
  <2>3. Near(a, b)
    BY <1>6, <1>13, <2>1, <2>2
  <2>4. PICK m \in 1 .. n : a = first[m]
    BY <1>10, <2>1
  <2>5. m \in S
    BY <1>10, <2>3, <2>4 DEF S
  <2>6. Line(first[m]) = LineAt(i)
    BY <1>8, <2>1, <2>4
  <2> QED BY <1>7, <2>5, <2>6
<1>14. ASSUME NEW m \in S
       PROVE  Line(first[m]) \in Part(Possible, c)
  <2>1. m \in 1 .. n
    BY <1>5
  <2>2. PICK k \in DOMAIN second : Near(first[m], second[k])
    BY DEF S
  <2>3. first[m] \in ToSet(first) /\ second[k] \in ToSet(second)
    BY <1>10, <2>1
  <2>4. Follows(offset + first[m], offset + second[k])
    BY <1>6, <2>2, <2>3
  <2>5. /\ Line(first[m]) = LineAt(offset + first[m]) /\ offset + first[m] \in Possible(1)
        /\ Chunk(offset + first[m]) = c
        /\ offset + second[k] \in Possible(2) /\ Chunk(offset + second[k]) = c
    BY <1>8, <1>9, <2>3
  <2> QED BY <1>11, <2>4, <2>5
<1>15. ToSet(Report) \subseteq Part(Possible, c)
  BY <1>7, <1>14
<1>16. Part(Certain, c) \subseteq ToSet(Report)
  BY <1>11, <1>13
<1> QED BY <1>15, <1>16

-----------------------------------------------------------------------------
(***************************************************************************)
(* What is printed, chunk after chunk.                                     *)
(***************************************************************************)
LEMMA ReportIsPart ==
  ASSUME TypeOK, TableInv, ListsInv, Given, Small, NEW c \in Nat, Collected(c)
  PROVE  /\ Part(Certain, c) \subseteq ToSet(Report)
         /\ ToSet(Report) \subseteq Part(Possible, c)
<1>1. query.id \in 1 .. 4
  BY DEF TypeOK, Queries
<1>2. word[1] = query.word[1]
  BY FirstWord DEF TableInv, Small
<1>3. query.id \in {1, 3} \/ query.id = 2 \/ query.id = 4
  BY <1>1
<1> QED BY <1>2, <1>3, ReportPlaces, ReportLines, ReportGap

\* A function on 1 .. m is a sequence of its values.
LEMMA ListIsSeq ==
  ASSUME NEW m \in Nat, NEW f, f = [i \in 1 .. m |-> f[i]]
  PROVE  f \in Seq(ToSet(f))
<1>1. \A i \in 1 .. m : f[i] \in ToSet(f)
  BY DEF ToSet
<1> DEFINE T == ToSet(f)
<1> HIDE DEF T
<1>2. f \in [1 .. m -> T]
  BY <1>1 DEF T
<1>3. f \in Seq(T)
  BY <1>2
<1> QED BY <1>3 DEF T

LEMMA PickIsSeq ==
  ASSUME NEW n \in Nat, NEW list, NEW S \in SUBSET (1 .. n)
  PROVE  /\ Pick(list, S) \in Seq(ToSet(Pick(list, S)))
         /\ Cardinality(S) \in Nat /\ DOMAIN Pick(list, S) = 1 .. Cardinality(S)
<1>1. Cardinality(S) \in Nat
  BY UpToFacts
<1>2. Pick(list, S) = [i \in 1 .. Cardinality(S) |-> Pick(list, S)[i]]
  BY DEF Pick
<1> QED BY <1>1, <1>2, ListIsSeq

LEMMA DistinctIsSeq ==
  ASSUME NEW n \in Nat, NEW list, DOMAIN list = 1 .. n
  PROVE  Distinct(list) \in Seq(ToSet(Distinct(list)))
<1> DEFINE S == {i \in 1 .. n : i = 1 \/ list[i - 1] < list[i]}
<1>1. Distinct(list) = Pick(list, S) /\ S \in SUBSET (1 .. n)
  BY DEF Distinct
<1> HIDE DEF S
<1> QED BY <1>1, PickIsSeq

LEMMA ReportIsSeq ==
  ASSUME TypeOK
  PROVE  Report \in Seq(ToSet(Report))
<1> DEFINE n == Len(hits[1])
<1>1. n \in Nat /\ DOMAIN hits[1] = 1 .. n
  BY FirstWord
<1>2. CASE query.id \in {1, 3}
  <2>1. Report = [i \in 1 .. n |-> << Line(hits[1][i]), Column(hits[1][i]) >>]
    BY <1>1, <1>2 DEF Report, Locations
  <2>2. Report = [i \in 1 .. n |-> Report[i]]
    BY <2>1
  <2> HIDE DEF n
  <2> QED BY <1>1, <2>2, ListIsSeq
<1>3. CASE query.id = 2
  <2> DEFINE base == LinesOf(hits[1])
             S == {i \in 1 .. n : \A v \in 2 .. Len(word) : base[i] \in ToSet(LinesOf(hits[v]))}
  <2>1. DOMAIN base = 1 .. n
    BY <1>1 DEF LinesOf
  <2>2. Report = Distinct(Pick(base, S)) /\ S \in SUBSET (1 .. n)
    BY <1>3, <2>1 DEF Report, intersection
  <2> HIDE DEF n, base, S
  <2>3. Cardinality(S) \in Nat /\ DOMAIN Pick(base, S) = 1 .. Cardinality(S)
    BY <1>1, <2>2, PickIsSeq
  <2> QED BY <2>2, <2>3, DistinctIsSeq
<1>4. CASE query.id = 4
  <2> DEFINE base == LinesOf(hits[1])
             Near(a, b) == Line(a) = Line(b) /\ Column(b) - Column(a) - Len(word[1]) >= Gap
             S == {i \in 1 .. n : \E k \in DOMAIN hits[2] : Near(hits[1][i], hits[2][k])}
  <2>1. Report = Distinct(Pick(base, S)) /\ S \in SUBSET (1 .. n)
    BY <1>1, <1>4 DEF Report, intersection4
  <2> HIDE DEF n, base, S
  <2>2. Cardinality(S) \in Nat /\ DOMAIN Pick(base, S) = 1 .. Cardinality(S)
    BY <1>1, <2>1, PickIsSeq
  <2> QED BY <2>1, <2>2, DistinctIsSeq
<1>5. query.id \in {1, 3} \/ query.id = 2 \/ query.id = 4
  BY DEF TypeOK, Queries
<1> QED BY <1>2, <1>3, <1>4, <1>5

LEMMA Joined ==
  ASSUME NEW a, NEW b, a \in Seq(ToSet(a)), b \in Seq(ToSet(b))
  PROVE  /\ ToSet(a \o b) = ToSet(a) \cup ToSet(b)
         /\ a \o b \in Seq(ToSet(a \o b))
<1> DEFINE A == ToSet(a)
           B == ToSet(b)
           C == A \cup B
<1>1. A = {a[i] : i \in DOMAIN a} /\ B = {b[i] : i \in DOMAIN b}
  BY DEF ToSet
<1> HIDE DEF A, B
<1>2. a \in Seq(C) /\ b \in Seq(C)
  <2>1. a \in Seq(A) /\ b \in Seq(B)
    BY DEF A, B
  <2>2. a \in [1 .. Len(a) -> A] /\ b \in [1 .. Len(b) -> B] /\ Len(a) \in Nat /\ Len(b) \in Nat
    BY <2>1
  <2>3. a \in [1 .. Len(a) -> C] /\ b \in [1 .. Len(b) -> C]
    BY <2>2
  <2> QED BY <2>2, <2>3
<1> HIDE DEF C
<1> DEFINE m == Len(a)
           n == Len(b)
<1>3. /\ a \o b \in Seq(C) /\ m \in Nat /\ n \in Nat /\ Len(a \o b) = m + n
      /\ DOMAIN a = 1 .. m /\ DOMAIN b = 1 .. n /\ DOMAIN (a \o b) = 1 .. m + n
      /\ \A i \in 1 .. m : (a \o b)[i] = a[i]
      /\ \A i \in m + 1 .. m + n : (a \o b)[i] = b[i - m]
  BY <1>2
<1> HIDE DEF m, n
<1>4. ToSet(a \o b) = {(a \o b)[i] : i \in 1 .. m + n}
  BY <1>3 DEF ToSet
<1>5. ASSUME NEW i \in 1 .. m + n PROVE (a \o b)[i] \in C
  BY <1>2, <1>3
<1>6. ASSUME NEW x \in C PROVE x \in ToSet(a \o b)
  <2>1. CASE x \in A
    <3>1. PICK i \in 1 .. m : x = a[i]
      BY <1>1, <1>3, <2>1
    <3>2. i \in 1 .. m + n
      BY <1>3
    <3> QED BY <1>3, <1>4, <3>1, <3>2
  <2>2. CASE x \in B
    <3>1. PICK i \in 1 .. n : x = b[i]
      BY <1>1, <1>3, <2>2
    <3>2. m + i \in m + 1 .. m + n /\ (m + i) - m = i /\ m + i \in 1 .. m + n
      BY <1>3
    <3>3. (a \o b)[m + i] = b[i]
      BY <1>3, <3>2
    <3> QED BY <1>4, <3>1, <3>2, <3>3
  <2> QED BY <1>6, <2>1, <2>2 DEF C
<1>7. ToSet(a \o b) = C
  BY <1>4, <1>5, <1>6
<1> QED BY <1>3, <1>7 DEF A, B, C

\* The parts make up the answer.
LEMMA PartIsWanted ==
  ASSUME TypeOK, NEW c \in 0 .. Chunk(Len(file))
  PROVE  Part(Possible, c) \subseteq Wanted(Possible)
<1>1. query.id \in {1, 3} \/ query.id = 2 \/ query.id = 4
  BY DEF TypeOK, Queries
<1>2. CASE query.id \in {1, 3}
  BY <1>2 DEF Part, Wanted
<1>3. CASE query.id = 2
  BY <1>3 DEF Part, Wanted
<1>4. CASE query.id = 4
  BY <1>4 DEF Part, Wanted
<1> QED BY <1>1, <1>2, <1>3, <1>4

LEMMA WantedIsPart ==
  ASSUME TypeOK, NEW x \in Wanted(Certain)
  PROVE  \E i \in Certain(1) : x \in Part(Certain, Chunk(i))
<1>1. query.id \in {1, 3} \/ query.id = 2 \/ query.id = 4
  BY DEF TypeOK, Queries
<1>2. CASE query.id \in {1, 3}
  BY <1>2 DEF Part, Wanted
<1>3. CASE query.id = 2
  <2>1. 1 \in 1 .. Len(query.word)
    BY FirstWord
  <2>2. PICK c \in 0 .. Chunk(Len(file)) :
          /\ x \in 1 .. Len(file) + 1
          /\ \A v \in 1 .. Len(query.word) : \E i \in Certain(v) : Chunk(i) = c /\ LineAt(i) = x
    BY <1>3 DEF Wanted
  <2>3. PICK i \in Certain(1) : Chunk(i) = c
    BY <2>1, <2>2
  <2>4. x \in Part(Certain, c)
    BY <1>3, <2>2 DEF Part
  <2> QED BY <2>3, <2>4
<1>4. CASE query.id = 4
  BY <1>4 DEF Part, Wanted
<1> QED BY <1>1, <1>2, <1>3, <1>4

\* The answer depends on the file and the query only.
LEMMA SameAnswer ==
  ASSUME UNCHANGED << file, query >>
  PROVE  /\ Wanted(Possible)' = Wanted(Possible)
         /\ \A c : Part(Certain, c)' = Part(Certain, c)
<1>1. \A v, i : WordAt(v, i)' <=> WordAt(v, i)
  BY DEF WordAt, Chunk, Separator
<1>2. \A v : Possible(v)' = Possible(v)
  BY <1>1 DEF Possible
<1>3. \A v : Certain(v)' = Certain(v)
  BY <1>2 DEF Certain, Chunk
<1>4. \A i : LineAt(i)' = LineAt(i) /\ Chunk(i)' = Chunk(i)
  BY DEF LineAt, Chunk
<1>5. \A i : LocationAt(i)' = LocationAt(i)
  BY <1>4 DEF LocationAt
<1>6. Wanted(Possible)' = Wanted(Possible)
  <2>1. Chunk(Len(file))' = Chunk(Len(file))
    BY DEF Chunk
  <2> DEFINE Places == {LocationAt(i) : i \in Possible(1)}
             Lines == {l \in 1 .. Len(file) + 1 : \E c \in 0 .. Chunk(Len(file)) :
                         \A v \in 1 .. Len(query.word) :
                           \E i \in Possible(v) : Chunk(i) = c /\ LineAt(i) = l}
             Firsts == {i \in Possible(1) : \E k \in Possible(2) :
                          Chunk(i) = Chunk(k) /\ LineAt(i) = LineAt(k)
                            /\ k >= i + Len(query.word[1]) + 3}
             Gaps == {LineAt(i) : i \in Firsts}
  <2>2. Lines' = Lines
    BY <1>2, <1>4, <2>1
  <2>3. Places' = Places
    BY <1>2, <1>5
  <2>4. Firsts' = Firsts
    BY <1>2, <1>4
  <2>5. Gaps' = Gaps
    BY <1>4, <2>4
  <2>6. Wanted(Possible) = CASE query.id \in {1, 3} -> Places
                             [] query.id = 2 -> Lines
                             [] query.id = 4 -> Gaps
    BY DEF Wanted
  <2>7. Wanted(Possible)' = CASE query'.id \in {1, 3} -> Places'
                              [] query'.id = 2 -> Lines'
                              [] query'.id = 4 -> Gaps'
    BY DEF Wanted
  <2> HIDE DEF Places, Lines, Firsts, Gaps
  <2> QED BY <2>2, <2>3, <2>5, <2>6, <2>7
<1>7. \A c : Part(Certain, c)' = Part(Certain, c)
  BY <1>3, <1>4, <1>5 DEF Part
<1> QED BY <1>6, <1>7

LEMMA OutInit == Init => Given /\ ListsInv /\ OutInv
<1> SUFFICES ASSUME Init PROVE Given /\ ListsInv /\ OutInv
  OBVIOUS
<1>1. Given
  BY DEF Init, Given
<1>2. ListsInv
  <2>1. w = 1 /\ \A v \in 1 .. Len(word) : hits[v] = << >>
    BY DEF Init, NoHits
  <2>2. 1 .. w - 1 = {} /\ \A v \in 1 .. Len(word) : 1 .. Len(hits[v]) = {}
    BY <2>1
  <2> QED BY <2>2 DEF ListsInv
<1>3. OutInv
  <2>1. out = << >> /\ offset = 0
    BY DEF Init
  <2>2. ToSet(out) = {} /\ out \in Seq(ToSet(out))
    BY <2>1 DEF ToSet
  <2>3. 0 \in Nat /\ offset = 0 * MAX_INPUT /\ 0 .. 0 - 1 = {}
    <3>1. MAX_INPUT \in Nat
      BY SearchAssumption
    <3> QED BY <2>1, <3>1
  <2>4. Printed(0)
    BY <2>2, <2>3 DEF Printed
  <2> QED BY <2>2, <2>3, <2>4 DEF OutInv
<1> QED BY <1>1, <1>2, <1>3

LEMMA OutStep == AInv /\ [Next]_vars => Given' /\ OutInv'
<1> SUFFICES ASSUME AInv, [Next]_vars PROVE Given' /\ OutInv'
  OBVIOUS
<1> USE DEF AInv, IInv, HInv
<1>1. UNCHANGED << file, query >>
  BY DEF Next, Hit, Shift, NextWord, NextChunk, vars
<1>2. Given'
  BY <1>1 DEF Given
<1>3. PICK n \in Nat : offset = n * MAX_INPUT /\ Printed(n)
  BY DEF OutInv
<1>4. out \in Seq(ToSet(out))
  BY DEF OutInv
<1>5. /\ Wanted(Possible)' = Wanted(Possible)
      /\ \A c : Part(Certain, c)' = Part(Certain, c)
      /\ Small' <=> Small
  BY <1>1, SameAnswer, SameSmall
<1>6. ToSet(out)' = ToSet(out')
  BY DEF ToSet
<1>7. CASE UNCHANGED << offset, out >>
  <2>1. \A c \in 0 .. n - 1 : Part(Certain, c)' = Part(Certain, c)
    BY <1>5
  <2>2. Printed(n)'
    BY <1>3, <1>5, <1>6, <1>7, <2>1 DEF Printed
  <2>3. out' \in Seq(ToSet(out)') /\ offset' = n * MAX_INPUT
    BY <1>3, <1>4, <1>6, <1>7
  <2> QED BY <1>2, <2>2, <2>3 DEF OutInv
<1>8. CASE NextChunk
  <2>1. /\ out' = out \o Report /\ offset' = offset + MAX_INPUT
        /\ Reading /\ ~ Searching /\ w = Len(word)
    BY <1>8 DEF NextChunk
  <2>2. MAX_INPUT \in Nat \ {0} /\ Len(file) \in Nat
    BY SearchAssumption DEF TypeOK
  <2>3. n + 1 \in Nat /\ offset' = (n + 1) * MAX_INPUT
    <3>1. (n + 1) * MAX_INPUT = n * MAX_INPUT + MAX_INPUT
      BY <2>2
    <3> QED BY <1>3, <2>1, <3>1
  <2>4. /\ ToSet(out') = ToSet(out) \cup ToSet(Report)
        /\ out' \in Seq(ToSet(out'))
    BY <1>4, <2>1, ReportIsSeq, Joined
  <2>5. ASSUME Small
        PROVE  /\ Part(Certain, n) \subseteq ToSet(Report)
               /\ ToSet(Report) \subseteq Wanted(Possible)
    <3>1. Collected(n)
      BY <1>3, <2>1, <2>5, AllCollected
    <3>2. /\ Part(Certain, n) \subseteq ToSet(Report)
          /\ ToSet(Report) \subseteq Part(Possible, n)
      BY <2>5, <3>1, ReportIsPart
    <3>3. n \in 0 .. Chunk(Len(file))
      <4> DEFINE f == Len(file)
                 c == Chunk(f)
                 m == MAX_INPUT
      <4>1. f \in Nat /\ n * m < f /\ m \in Nat \ {0}
        BY <1>3, <2>1, <2>2 DEF Reading
      <4>2. c \in Nat /\ f < c * m + m
        BY <4>1, ChunkFacts
      <4> HIDE DEF f, c, m
      <4>3. ASSUME c < n PROVE FALSE
        <5>1. (c + 1) * m <= n * m /\ (c + 1) * m = c * m + m
          BY <4>1, <4>2, <4>3
        <5>2. c * m \in Nat /\ n * m \in Nat
          BY <4>1, <4>2
        <5> QED BY <4>1, <4>2, <5>1, <5>2
      <4>4. n \in 0 .. c
        BY <4>2, <4>3
      <4> QED BY <4>4 DEF c, f
    <3> QED BY <3>2, <3>3, PartIsWanted
  <2>6. ASSUME Small, NEW c \in 0 .. (n + 1) - 1
        PROVE  Part(Certain, c) \subseteq ToSet(out')
    <3>1. c \in 0 .. n - 1 \/ c = n
      OBVIOUS
    <3> QED BY <1>3, <2>4, <2>5, <2>6, <3>1 DEF Printed
  <2>7. Small => ToSet(out') \subseteq Wanted(Possible)
    BY <1>3, <2>4, <2>5 DEF Printed
  <2>8. Printed(n + 1)'
    BY <1>5, <1>6, <2>6, <2>7 DEF Printed
  <2>9. out' \in Seq(ToSet(out)')
    BY <1>6, <2>4
  <2> QED BY <1>2, <2>3, <2>8, <2>9 DEF OutInv
<1>9. UNCHANGED << offset, out >> \/ NextChunk
  BY DEF Next, Hit, Shift, NextWord, vars
<1> QED BY <1>2, <1>7, <1>8, <1>9

(***************************************************************************)
(* The answer is what was asked for, for any file, any query in small      *)
(* letters and any size of the chunks: the locations of a word or phrase,  *)
(* the lines that hold all of the words, or those in which one follows the *)
(* other (lines 55-218 and the loops of main()).                           *)
(***************************************************************************)
THEOREM AnswersAreRight == Spec => []AnswerIsRight
<1>1. Init => AInv
  BY TypeInit, NoneSkippedInit, WordsInit, OutInit DEF AInv, IInv, HInv
<1>2. AInv /\ [Next]_vars => AInv'
  BY TypeStep, NoneSkippedStep, WordsStep, ListsStep, OutStep DEF AInv, IInv, HInv
<1>3. AInv => AnswerIsRight
  <2> SUFFICES ASSUME AInv, ~ Reading, Small
               PROVE  /\ Wanted(Certain) \subseteq ToSet(out)
                      /\ ToSet(out) \subseteq Wanted(Possible)
    BY DEF AnswerIsRight, Small
  <2>1. TypeOK
    BY DEF AInv, IInv
  <2>2. PICK n \in Nat : offset = n * MAX_INPUT /\ Printed(n)
    BY DEF AInv, OutInv
  <2>3. ASSUME NEW x \in Wanted(Certain)
        PROVE  x \in ToSet(out)
    <3>1. PICK i \in Certain(1) : x \in Part(Certain, Chunk(i))
      BY <2>1, WantedIsPart
    <3> DEFINE m == MAX_INPUT
               c == Chunk(i)
    <3>2. m \in Nat \ {0} /\ i \in Nat /\ i < n * m /\ n * m \in Nat
      <4>1. Len(file) \in Nat /\ i \in 0 .. Len(file) - 1 /\ m \in Nat \ {0}
        <5>1. Len(file) \in Nat
          BY <2>1 DEF TypeOK
        <5>2. i \in 0 .. Len(file) - 1
          BY DEF Certain, Possible
        <5>3. m \in Nat \ {0}
          BY SearchAssumption
        <5> QED BY <5>1, <5>2, <5>3
      <4>2. offset \in Nat /\ ~ (offset < Len(file))
        BY <2>1 DEF TypeOK, Reading
      <4> QED BY <2>2, <4>1, <4>2
    <3>3. c \in Nat /\ c * m \in Nat /\ c * m <= i
      BY <3>2, ChunkFacts
    <3> HIDE DEF m, c
    <3>4. ASSUME n <= c PROVE FALSE
      <4>1. n * m <= c * m
        BY <3>2, <3>3, <3>4
      <4> QED BY <3>2, <3>3, <4>1
    <3>5. c \in 0 .. n - 1
      BY <3>3, <3>4
    <3> QED BY <2>2, <3>1, <3>5 DEF Printed, c
  <2> QED BY <2>2, <2>3 DEF Printed
<1> QED BY <1>1, <1>2, <1>3, PTL DEF Spec
=============================================================================
