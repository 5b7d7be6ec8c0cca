--------------------------- MODULE DuplicateReport ---------------------------
(***************************************************************************)
(* What a scan promises, without stages, batches, pages or processes: it   *)
(* reports groups of equal files, each content once, and it ends as done   *)
(* only when every pair of equal files it could read is in a group.  The   *)
(* end may still be recorded as an interruption.                           *)
(* Pipeline is shown to implement it where its process is not killed after *)
(* the walk.                                                               *)
(***************************************************************************)
EXTENDS Naturals, FiniteSets

CONSTANTS Files, Content

VARIABLES
  outcome,   \* "running", "interrupted" or "done"
  reported,  \* the groups in the report, sets of files
  excused    \* files the report does not owe

vars == <<outcome, reported, excused>>

Init ==
  /\ outcome = "running"
  /\ reported = {}
  /\ excused \subseteq Files

Equal(S) == \A f, g \in S : Content[f] = Content[g]

Report(S) ==
  /\ outcome = "running"
  /\ Cardinality(S) >= 2 /\ Equal(S)
  /\ \A R \in reported : ~Equal(R \cup S)
  /\ reported' = reported \cup {S}
  /\ UNCHANGED <<outcome, excused>>

Excuse(f) ==
  /\ outcome = "running"
  /\ excused' = excused \cup {f}
  /\ UNCHANGED <<outcome, reported>>

Complete ==
  /\ outcome = "running"
  /\ \A f, g \in Files \ excused :
       f # g /\ Equal({f, g}) => \E S \in reported : {f, g} \subseteq S
  /\ outcome' = "done"
  /\ UNCHANGED <<reported, excused>>

\* A scan is given up, or an error that follows its completion says it was.
Interrupt ==
  /\ outcome # "interrupted"
  /\ outcome' = "interrupted"
  /\ UNCHANGED <<reported, excused>>

Next ==
  \/ \E S \in SUBSET Files : Report(S)
  \/ \E f \in Files : Excuse(f)
  \/ Complete \/ Interrupt

Spec == Init /\ [][Next]_vars
=============================================================================
