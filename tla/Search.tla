------------------------------- MODULE Search -------------------------------
(***************************************************************************)
(* pa1: one query of the text search.  The file is read in chunks; in each *)
(* chunk every word of the query is searched for with the bad character    *)
(* rule, and what was found is combined and printed.  A step is one turn   *)
(* of the search loop, with the comparison inside it.                      *)
(*                                                                         *)
(* Indices are the C ones, from 0, relative to the chunk.  What the        *)
(* comparison does to the text, lowering it in place, cannot be told apart *)
(* from lowering what is read, since nothing else looks at a letter of it; *)
(* what it does to the pattern can, since the next chunk's table is built  *)
(* from it.  Characters are ASCII, words are not empty and lists do not    *)
(* outgrow their 1024 places.                                              *)
(***************************************************************************)
EXTENDS Integers, Sequences, FiniteSets, FiniteSetsExt, SequencesExt

CONSTANTS
  Chars,           \* the characters of files and queries
  Space, Newline,
  lower,           \* lower[c]: c, or the small letter if c is a capital
  MAX_INPUT,       \* the size of a chunk
  Inputs           \* the pairs [file, query] searched

\* A query is what case_id() returns: a number from 1 to 4 and the words in the order
\* typed, the two around the '*' if there is one.  It is read up to a newline.  How the
\* input is cut is not modelled: it has one '*' and no space, or spaces, and no quote
\* but the two of a phrase.
Queries == [id : 1 .. 4, word : Seq(Seq(Chars) \ {<< >>}) \ {<< >>}]

ASSUME SearchAssumption ==
  /\ {Space, Newline} \subseteq Chars
  /\ Space # Newline
  /\ lower \in [Chars -> Chars]
  /\ \A c \in Chars : /\ lower[lower[c]] = lower[c]
                      /\ c \in {Space, Newline} => lower[c] = c
  /\ MAX_INPUT \in Nat \ {0}
  /\ \A i \in Inputs :
       /\ i.file \in Seq(Chars) /\ i.query \in Queries
       /\ i.query.id = 4 => Len(i.query.word) = 2
       /\ \A v \in DOMAIN i.query.word : Newline \notin ToSet(i.query.word[v])

VARIABLES
  file, query,
  word,            \* the words as the comparisons have left them
  offset,          \* where the chunk begins
  w,               \* which word is searched for
  s,               \* its stride against the text
  characters,      \* the last place of each character in it
  hits,            \* hits[w]: where it was found
  out              \* what was printed: << line, column >> or lines

vars == << file, query, word, offset, w, s, characters, hits, out >>

-----------------------------------------------------------------------------
pattern == word[w]
pattern_length == Len(pattern)
text_length == IF Len(file) - offset < MAX_INPUT THEN Len(file) - offset ELSE MAX_INPUT
text(i) == file[offset + i + 1]

Separator(c) == c \in {Space, Newline}

\* The greatest of two numbers, and of a set of numbers or -1.
Max2(a, b) == IF a > b THEN a ELSE b
Greatest(S) == IF S = {} THEN -1 ELSE Max(S)

\* Mutant: the first place.
FirstPlaces(p) ==
  [c \in Chars |-> IF \E i \in 1 .. Len(p) : p[i] = c
                   THEN (CHOOSE i \in 1 .. Len(p) :
                           p[i] = c /\ \A k \in 1 .. i - 1 : p[k] # c) - 1
                   ELSE 0]

\* What is not set explicitly is 0, and not the -1 of the first place.
LastPlaces(p) ==
  [c \in Chars |-> Max2(0, Greatest({i \in 0 .. Len(p) - 1 : p[i + 1] = c}))]

\* Where the comparison, which goes from right to left, stops.
Mismatch(p, i) ==
  Greatest({j \in 0 .. Len(p) - 1 : lower[text(i + j)] # lower[p[j + 1]]})

\* The characters it has looked at are small letters now.
Lowered(p, j) == [i \in 1 .. Len(p) |-> IF i > j THEN lower[p[i]] ELSE p[i]]

\* Mutant: a word may be followed by anything.
EndsAnyhow(i) == TRUE

Ends(i) == Separator(text(i + pattern_length))

\* In front of the buffer there may be anything.
Begins(i) == IF i = 0 THEN BOOLEAN ELSE {Separator(text(i - 1))}

-----------------------------------------------------------------------------
\* `lines' and `start_idx': how many newlines there are up to a place and at it,
\* and where the line with that number begins.
Newlines(i) == {k \in 1 .. offset + i + 1 : file[k] = Newline}
Line(i) == Cardinality(Newlines(i)) + 1
Column(i) == offset + i - Max2(0, Greatest(Newlines(i)))

Locations(h) == [i \in DOMAIN h |-> << Line(h[i]), Column(h[i]) >>]
LinesOf(h) == [i \in DOMAIN h |-> Line(h[i])]

\* The n-th of a set of places, and what a list has at these places.
Nth(S, n) == CHOOSE i \in S : Cardinality({k \in S : k <= i}) = n
Pick(list, S) == [n \in 1 .. Cardinality(S) |-> list[Nth(S, n)]]

\* A line is printed when its number exceeds the one before it in the list.
Distinct(list) == Pick(list, {i \in DOMAIN list : i = 1 \/ list[i - 1] < list[i]})

\* The lines of the first word in which each of the others was found, too.  The code
\* enters a line once for each of these places, which are printed as one.
intersection ==
  LET base == LinesOf(hits[1])
      Common(l) == \A v \in 2 .. Len(word) : l \in ToSet(LinesOf(hits[v]))
  IN  Pick(base, {i \in DOMAIN base : Common(base[i])})

\* Mutant: a word of one letter between them does not count.
WideGap == 4

\* The lines in which the second word begins three places or more behind the first.
Gap == 3
intersection4(first, second) ==
  LET Near(a, b) == /\ Line(a) = Line(b)
                    /\ Column(b) - Column(a) - Len(word[1]) >= Gap
  IN  Pick(LinesOf(first),
           {i \in DOMAIN first : \E k \in DOMAIN second : Near(first[i], second[k])})

\* What is printed for a chunk.
Report ==
  CASE query.id \in {1, 3} -> Locations(hits[1])
    [] query.id = 2 -> Distinct(intersection)
    [] query.id = 4 -> Distinct(intersection4(hits[1], hits[2]))

-----------------------------------------------------------------------------
NoHits(n) == [i \in 1 .. n |-> << >>]

Init ==
  \E i \in Inputs :
    /\ file = i.file
    /\ query = i.query
    /\ word = i.query.word
    /\ offset = 0
    /\ w = 1
    /\ s = 0
    /\ characters = LastPlaces(i.query.word[1])
    /\ hits = NoHits(Len(i.query.word))
    /\ out = << >>

Reading == offset < Len(file)
Searching == Reading /\ s < text_length - pattern_length

\* The pattern matches as a whole word: noted, and the shift looks at what follows.
Hit ==
  /\ Searching
  /\ Mismatch(pattern, s) < 0
  /\ Ends(s)
  /\ TRUE \in Begins(s)
  /\ hits' = [hits EXCEPT ![w] = Append(@, s)]
  /\ word' = [word EXCEPT ![w] = Lowered(@, 0)]
  /\ s' = s + pattern_length - characters[text(s + pattern_length)]
  /\ UNCHANGED << file, query, offset, w, characters, out >>

\* Mutant: a shift of none.
AdvanceMaybe(n) == s + Max2(0, n)

\* Never less than one.
Advance(n) == s + Max2(1, n)

\* It does not: the shift looks at where the comparison stopped.  When the pattern
\* matched and is no word that is in front of it, and the shift is 1.
Shift ==
  /\ Searching
  /\ LET j == Mismatch(pattern, s) IN
     /\ j < 0 => ~ Ends(s) \/ FALSE \in Begins(s)
     /\ word' = [word EXCEPT ![w] = Lowered(@, Max2(0, j))]
     /\ s' = Advance(IF j < 0 THEN j ELSE j - characters[lower[text(s + j)]])
  /\ UNCHANGED << file, query, offset, w, characters, hits, out >>

\* The next word, in the same chunk.
NextWord ==
  /\ Reading /\ ~ Searching
  /\ w < Len(word)
  /\ w' = w + 1
  /\ s' = 0
  /\ characters' = LastPlaces(word[w + 1])
  /\ UNCHANGED << file, query, word, offset, hits, out >>

\* All words were searched for: print, and read the next chunk.
NextChunk ==
  /\ Reading /\ ~ Searching
  /\ w = Len(word)
  /\ out' = out \o Report
  /\ offset' = offset + MAX_INPUT
  /\ w' = 1
  /\ s' = 0
  /\ characters' = LastPlaces(word[1])
  /\ hits' = NoHits(Len(word))
  /\ UNCHANGED << file, query, word >>

Next == Hit \/ Shift \/ NextWord \/ NextChunk

Spec == Init /\ [][Next]_vars
FairSpec == Spec /\ WF_vars(Next)

-----------------------------------------------------------------------------
TypeOK ==
  /\ file \in Seq(Chars)
  /\ query \in Queries
  /\ word \in Seq(Seq(Chars) \ {<< >>})
  /\ Len(word) = Len(query.word)
  /\ \A i \in 1 .. Len(word) : Len(word[i]) = Len(query.word[i])
  /\ offset \in Nat
  /\ w \in 1 .. Len(word)
  /\ s \in Nat
  /\ characters \in [Chars -> Nat]
  /\ hits \in [1 .. Len(word) -> Seq(Nat)]

\* A whole word of the chunk that is the pattern, whatever the case of the letters.
IsWord(p, i) ==
  /\ i > 0 => Separator(text(i - 1))
  /\ \A j \in 0 .. Len(p) - 1 : lower[text(i + j)] = lower[p[j + 1]]
  /\ Separator(text(i + Len(p)))

InSmallLetters(p) == \A i \in 1 .. Len(p) : lower[p[i]] = p[i]

(***************************************************************************)
(* The jumps of the search lose nothing: every whole word that lies behind *)
(* the present stride was found, wherever a shift went.  That the table    *)
(* says 0 where the algorithm wants -1 makes shifts shorter only.  It      *)
(* holds for words typed in small letters; a capital is entered in the     *)
(* table as it was typed and lowered only later (lines 60-71).             *)
(***************************************************************************)
NoneSkipped ==
  \A i \in 1 .. s - 1 :
    (/\ Reading
     /\ InSmallLetters(query.word[w])
     /\ i < text_length - pattern_length
     /\ IsWord(pattern, i)) => i \in ToSet(hits[w])

(***************************************************************************)
(* The same for any word: line 70 says that all characters are changed to  *)
(* small letters.  It does not hold, see README.md.                        *)
(***************************************************************************)
NoneSkippedInAnyCase ==
  \A i \in 1 .. s - 1 :
    (Reading /\ i < text_length - pattern_length /\ IsWord(pattern, i)) =>
      i \in ToSet(hits[w])

(***************************************************************************)
(* What was found is there, and was found once: the places are in order    *)
(* and each holds the word, even while the pattern is lowered in place.    *)
(***************************************************************************)
HitsAreWords ==
  \A v \in 1 .. Len(word) :
    /\ \A k \in 1 .. Len(hits[v]) : IsWord(word[v], hits[v][k])
    /\ \A k \in 2 .. Len(hits[v]) : hits[v][k - 1] < hits[v][k]

-----------------------------------------------------------------------------
(***************************************************************************)
(* What is asked for, defined on the whole file.  A word at the beginning  *)
(* of a chunk may be found or not (see Begins), and one that reaches the   *)
(* end of a chunk with what follows it is not found.                       *)
(***************************************************************************)
Chunk(i) == i \div MAX_INPUT

WordAt(v, i) ==
  LET p == query.word[v] IN
  /\ i + Len(p) < Len(file)
  /\ \A j \in 1 .. Len(p) : lower[file[i + j]] = lower[p[j]]
  /\ Separator(file[i + Len(p) + 1])
  /\ Chunk(i) = Chunk(i + Len(p))
  /\ Chunk(i) * MAX_INPUT < i => Separator(file[i])

Possible(v) == {i \in 0 .. Len(file) - 1 : WordAt(v, i)}
Certain(v) == {i \in Possible(v) : Chunk(i) * MAX_INPUT < i}

LineAt(i) == 1 + Cardinality({k \in 1 .. i : file[k] = Newline})
LocationAt(i) == << LineAt(i), Cardinality({k \in 0 .. i - 1 : LineAt(k) = LineAt(i)}) >>

Wanted(At(_)) ==
  CASE query.id \in {1, 3} -> {LocationAt(i) : i \in At(1)}
    [] query.id = 2 ->
         {l \in 1 .. Len(file) + 1 : \E c \in 0 .. Chunk(Len(file)) :
            \A v \in 1 .. Len(query.word) : \E i \in At(v) : Chunk(i) = c /\ LineAt(i) = l}
    [] query.id = 4 ->
         {LineAt(i) : i \in {i \in At(1) : \E k \in At(2) :
            Chunk(i) = Chunk(k) /\ LineAt(i) = LineAt(k) /\ k >= i + Len(query.word[1]) + 3}}

(***************************************************************************)
(* The answer to a query in small letters is what the four kinds of search *)
(* ask for: the locations of a word or phrase, the lines that hold all of  *)
(* the words, or those in which one follows the other with something in    *)
(* between.                                                                *)
(***************************************************************************)
AnswerIsRight ==
  (~ Reading /\ \A v \in 1 .. Len(query.word) : InSmallLetters(query.word[v])) =>
    /\ Wanted(Certain) \subseteq ToSet(out)
    /\ ToSet(out) \subseteq Wanted(Possible)

(***************************************************************************)
(* Every search ends: each shift goes forward, and the file is read to its *)
(* end.                                                                    *)
(***************************************************************************)
Ended == <>(~ Reading)
=============================================================================
