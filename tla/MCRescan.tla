------------------------------ MODULE MCRescan ------------------------------
(* Contents of one size; 1 and 2 have one sample, 3 has another. *)
EXTENDS Rescan

ThreeContents == {1, 2, 3}
TwoContents   == {1, 2}
OneSize == [c \in Contents |-> 7]
Samples == [c \in Contents |-> IF c <= 2 THEN 11 ELSE 12]
AllOne  == {[p \in Paths |-> 1]}
\* One that Tol = 1 takes for FirstMTime = 1, and one that is beyond.
FewMTimes == {0, 3}
Later   == {3}
Either  == {TRUE, FALSE}
Never   == {FALSE}
=============================================================================
