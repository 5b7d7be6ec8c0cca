---------------------------- MODULE MCFullHashing ----------------------------
(* Three large files. *)
EXTENDS FullHashing

ThreeLarge == {1, 2, 3}
=============================================================================
