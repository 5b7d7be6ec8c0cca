------------------------------ MODULE MCScanner ------------------------------
(* root/        a, l -> a (excluded below), x (excluded by name), c, g        *)
(* root/a/      f, b, up -> root                                              *)
(* root/a/b/    f a hard link of g, s -> root/c/k, gone -> nothing           *)
(* root/c/      k                                                             *)
(* root/x/      h; root/x and root/a/b are roots too                          *)
EXTENDS Scanner

E(d, n, k, t) == [dir |-> d, name |-> n, kind |-> k, to |-> t]

TestDirs  == {"R", "A", "B", "C", "X"}
TestFiles == {"f1", "f2", "g1", "h1"}
TestEntries == {
  E("R", "a", "dir", "A"), E("R", "l", "dirlink", "A"), E("R", "x", "dir", "X"),
  E("R", "c", "dir", "C"), E("R", "g", "file", "g1"),
  E("A", "f", "file", "f1"), E("A", "b", "dir", "B"), E("A", "up", "dirlink", "R"),
  E("B", "f", "file", "g1"), E("B", "s", "filelink", "f2"), E("B", "gone", "broken", "none"),
  E("C", "k", "file", "f2"), E("X", "h", "file", "h1")}
TestRoots == <<[path |-> <<"root">>, dir |-> "R"],
               [path |-> <<"root", "x">>, dir |-> "X"],
               [path |-> <<"root", "a", "b">>, dir |-> "B"]>>
Sizes == [f \in Files |-> IF f = "h1" THEN 3 ELSE 2]
ByName == {"x"}
ByPath == {<<"root", "l">>}
Either == {TRUE, FALSE}
=============================================================================
