--------------------------- MODULE MCHashingPhases ---------------------------
(* A size group of large files, then a hash group with two large ones. *)
EXTENDS HashingPhases

SizeGroup == 1..PartialFiles
TwoLarge == {2, 4}
=============================================================================
