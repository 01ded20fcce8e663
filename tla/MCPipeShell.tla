---------------------------- MODULE MCPipeShell ----------------------------
(***************************************************************************)
(* Values for the constants of PipeShell.                                  *)
(***************************************************************************)
EXTENDS PipeShell

Command(name, args) == [name |-> name, args |-> args]
Line(op, left, right) == [op |-> op, left |-> left, right |-> right]

cat_f == Command("cat", << "f" >>)
cat == Command("cat", << >>)
ls == Command("ls", << >>)
sort == Command("sort", << >>)

\* A pipe that is read, one that is not, and one that is not and too small.
SomeLines == {
  Line("|", cat_f, sort),
  Line("|", Command("pwd", << >>), sort),
  Line("|", ls, sort),
  Line(">", ls, "g"),
  Line("<", cat, "f"),
  Line("<", cat, "absent"),
  Line("", cat, "") }

Readers == {cat}

Sizes == [cat |-> 2, ls |-> 3, pwd |-> 1]
=============================================================================
