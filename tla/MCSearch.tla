------------------------------ MODULE MCSearch ------------------------------
(***************************************************************************)
(* Values for the constants of Search.  For each query: all files of one   *)
(* length over some characters, or all that begin with a given chunk.      *)
(***************************************************************************)
EXTENDS Search

Letters == {"a", "b", "A", " ", "n"}
InSmall == [c \in Letters |-> IF c = "A" THEN "a" ELSE c]

Files(n, C) == [1 .. n -> C]
All(n, C, id, words) == [file : Files(n, C), query : {[id |-> id, word |-> words]}]

Follow(chunk, n, C, id, words) ==
  [file : {chunk \o f : f \in Files(n, C)}, query : {[id |-> id, word |-> words]}]

AllInputs ==
  UNION {
    All(7, {"a", "b", " "}, 1, << <<"a", "a", "b">> >>),
    All(7, {"a", "b", " "}, 1, << <<"b", "a", "b", "b">> >>),
    All(6, {"a", "b", "A", " "}, 1, << <<"a", "b", "a">> >>),
    All(7, {"a", "b", " "}, 1, << <<"b", "A", "b", "b">> >>),
    All(7, {"a", "b", " "}, 3, << <<"a", " ", "a">> >>),
    All(6, {"a", "b", " ", "n"}, 2, << <<"a">>, <<"b">> >>),
    All(7, {"a", " ", "n"}, 4, << <<"a">>, <<"a">> >>),
    All(10, {"a", " "}, 1, << <<"a", "a">> >>),
    Follow(<<"a", "n", "a", " ", "a", "a", " ">>, 7, {"a", " ", "n"},
           2, << <<"a">>, <<"a", "a">> >>),
    Follow(<<" ", "a", " ", "a", " ", "n", "a">>, 7, {"a", " ", "n"},
           3, << <<"a", " ", "a">> >>),
    Follow(<<" ", "a", " ", "a", " ", "a", " ">>, 7, {"a", " ", "n"},
           4, << <<"a">>, <<"a">> >>) }
=============================================================================
