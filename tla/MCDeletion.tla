----------------------------- MODULE MCDeletion -----------------------------
(* Two delete commands on a group of three files and, appended by a later    *)
(* scan, one of two: w has been written in between and is in both.  The      *)
(* newest and the oldest file of either group differ, two modification times *)
(* tie, and the first group wastes less than the second.  With "newest" a    *)
(* run keeps w of the first group and unlinks it for the second.             *)
EXTENDS Deletion, TLC

CONSTANTS r1, r2, u, v, w, x

TwoRuns  == {r1, r2}
RunSymmetry == Permutations(TwoRuns)
MCPaths  == {u, v, w, x}
Kept1    == {w}
MCCopies == <<{u, v, w}, {w, x}>>
MCSize   == <<2, 5>>
First    == (u :> 1) @@ (v :> 2) @@ (w :> 2) @@ (x :> 1)
Later    == (u :> 1) @@ (v :> 2) @@ (w :> 3) @@ (x :> 4)
MCMTime  == <<First, Later>>
MCPathLen == (u :> 3) @@ (v :> 5) @@ (w :> 5) @@ (x :> 4)
MCDepth  == (u :> 2) @@ (v :> 1) @@ (w :> 3) @@ (x :> 1)
MCRank   == (u :> 4) @@ (v :> 1) @@ (w :> 3) @@ (x :> 2)
=============================================================================
