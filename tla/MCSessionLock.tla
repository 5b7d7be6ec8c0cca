---------------------------- MODULE MCSessionLock ----------------------------
(* Three processes on one root. *)
EXTENDS SessionLock, TLC

CONSTANTS p1, p2, p3

ThreeProcs == {p1, p2, p3}
=============================================================================
