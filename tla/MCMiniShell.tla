----------------------------- MODULE MCMiniShell -----------------------------
(***************************************************************************)
(* Values for the constants of MiniShell.                                  *)
(***************************************************************************)
EXTENDS MiniShell

\* One line for each way through the code, and some that go wrong.
SomeLines == {
  << "ls" >>,
  << "sort" >>,
  << "exit" >>,
  << "cd" >>,
  << "ls", "|", "sort" >>,
  << "man", "|", "sort" >>,
  << "ls", "|", "sort", "|", "grep" >>,
  << "sort", "|", "ls" >>,
  << "ls", ">", "f" >>,
  << "ls", ">>", "f" >>,
  << "sort", "<", "f" >>,
  << "sort", "<", "absent" >>,
  << "sort", "<", "f", ">", "g" >>,
  << "sort", "<", "f", "|", "grep" >>,
  << "man", "<", "f", "|", "sort" >>,
  << "sort", "<", "f", "|", "grep", "|", "sort" >>,
  << "sort", "<", "f", "|", "grep", ">", "g" >>,
  << "ls", "|", "grep", ">>", "f" >>,
  << "ls", "|", "sort", "|", "grep", ">", "g" >>,
  << "ls", "|", "exit", "|", "sort" >>,
  << "ls", ">", "g", "|", "sort" >>,
  << "ls", ">", "g", "|", "sort", ">", "f" >> }

Sizes == [ls |-> 2, sort |-> 1, grep |-> 2, man |-> 3]

SomeFiles == [f |-> << "old", "old", "old" >>]
=============================================================================
