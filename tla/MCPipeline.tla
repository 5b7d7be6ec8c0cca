----------------------------- MODULE MCPipeline -----------------------------
(* Small instances of Pipeline.  a1, a2, a3 are copies, l1 and l2 are two    *)
(* links of one inode with the same content, and b shares their size and     *)
(* first bytes; c1, c2 are copies of another size.  The a files have one     *)
(* digest for both hashes, as BLAKE3 gives files that fit the partial read.  *)
EXTENDS Pipeline, TLC

CONSTANTS a1, a2, a3, b, c1, c2, l1, l2

AllKinds == {a1, b, c1, c2, l1, l2}
OneInode == {a1, a2, a3, l1, l2}
TwoPairs == {a1, a2, c1, c2}

\* A cache that holds the hashes of P and, of those in F, the full ones too.
Cache(P, F) == [partial |-> P, full |-> F]

CachesOf(S) == UNION {{Cache(P, F) : F \in SUBSET P} : P \in SUBSET S}

ColdCache == {Cache({}, {})}
\* Hard links are set aside before any of them is looked up.
LinkFreeCaches == CachesOf(Files \ {l1, l2}) \cup {Cache(Files, Files)}

\* Copies are interchangeable, and so are the links of an inode.
CopySymmetry == Permutations({a1, a2, a3}) \cup Permutations({l1, l2})

MCSize    == [f \in Files |-> CASE f \in {c1, c2} -> 2 [] OTHER -> 1]
MCInode   == [f \in Files |-> IF f \in {l1, l2} THEN 9 ELSE 0]
MCPartial == [f \in Files |-> IF f \in {c1, c2} THEN 3 ELSE 1]
MCFull    == [f \in Files |-> CASE f = b -> 2 [] f \in {c1, c2} -> 4 [] OTHER -> 1]
=============================================================================
