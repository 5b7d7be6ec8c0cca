---------------------------- MODULE HashingPhases ----------------------------
(***************************************************************************)
(* The two hashing calls of a scan, one after the other: run_pipeline      *)
(* makes one LargeFileSemaphore and one ShutdownFlag and hands both to     *)
(* run_partial_hashing for a size group and then to run_full_hashing for a *)
(* hash group.  What the first leaves of the slots is what the second has. *)
(***************************************************************************)
EXTENDS FullHashing

CONSTANTS
  PartialFiles,  \* the number of files in the size group
  PartialLarge,  \* those that are large: all of them or none
  NumThreads,
  MaxFd

VARIABLES pMain, pTask, pDigest, pCached, pFds, pCollected, pResults, pUpdates

partial == <<pMain, pTask, pDigest, pCached, pFds, pCollected, pResults, pUpdates>>
full    == <<pc, at, cached, toHash, future, called, permits, acquired, out, broken>>
all     == <<partial, vars>>

P == INSTANCE PartialHashing WITH
  NumFiles <- PartialFiles, Large <- PartialLarge,
  main <- pMain, task <- pTask, digest <- pDigest, cached <- pCached, fds <- pFds,
  collected <- pCollected, results <- pResults, updates <- pUpdates

ASSUME SizeGroupAssumption == P!Parameters /\ PartialLarge \in {{}, 1..PartialFiles}

PhasesInit == Init /\ P!Init

\* The first call is over and its local state gone; "stopped" when run_pipeline
\* returned at the flag and makes no second call.
Over    == pMain \in {"gone", "stopped"}
Between == pMain = "gone"

\* _phase_partial_hash takes the results; the loops of both phases are one turn.
TakeResults ==
  /\ pMain = "returned"
  /\ pMain' = IF shutdown THEN "stopped" ELSE "gone"
  /\ pTask' = [f \in 1..PartialFiles |-> "none"]
  /\ pDigest' = {} /\ pCached' = {} /\ pCollected' = {} /\ pResults' = {}
  /\ pUpdates' = {}
  /\ UNCHANGED <<pFds, vars>>

PartialMain    == P!Main /\ UNCHANGED full
PartialWork(f) == P!Work(f) /\ UNCHANGED full

FullMain        == Between /\ Main /\ UNCHANGED partial
FullTake(f)     == Between /\ Take(f) /\ UNCHANGED partial
FullFinish(f)   == Between /\ Finish(f) /\ UNCHANGED partial
FullCallback(f) == Between /\ Callback(f) /\ UNCHANGED partial

PhasesNext ==
  \/ PartialMain \/ (\E f \in 1..PartialFiles : PartialWork(f)) \/ TakeResults
  \/ FullMain
  \/ \E f \in Candidates : FullTake(f) \/ FullFinish(f) \/ FullCallback(f)
  \/ Between /\ Break /\ UNCHANGED partial
  \/ pMain # "stopped" /\ Signal /\ UNCHANGED partial

(***************************************************************************)
(* Threads, processes and callbacks are scheduled and reads return.        *)
(* Signals and broken pools never have to happen.  Weak fairness is enough *)
(* for a thread that waits for a permit, or in the first call for a slot:  *)
(* the other tasks are finitely many, and once they have ended what it     *)
(* waits for stays free.  In the second call only the waiting thread       *)
(* itself would give a slot back.                                          *)
(***************************************************************************)
PhasesSpec ==
  /\ PhasesInit /\ [][PhasesNext]_all
  /\ WF_all(PartialMain) /\ WF_all(TakeResults) /\ WF_all(FullMain)
  /\ \A f \in 1..PartialFiles : WF_all(PartialWork(f))
  /\ \A f \in 1..NumFiles :
       WF_all(FullTake(f)) /\ WF_all(FullFinish(f)) /\ WF_all(FullCallback(f))

-----------------------------------------------------------------------------
(* Properties *)

(* Both modules' variables have their types. *)
PhasesTypeOK ==
  /\ TypeOK
  /\ ~Over => P!TypeOK

(* OpenFilesBounded and ReturnedAreCached of the first call.                   *)
PartialFilesBounded == Over \/ P!OpenFilesBounded
PartialReturns      == Over \/ P!ReturnedAreCached

\* run_full_hashing waits for a slot, in a group with more large files to hash
\* than there are slots.
ShortOfSlots ==
  pc = "acquire" /\ at \in Large /\ Cardinality(Large \cap toHash) > MaxLarge

(* Both calls return, or the second raises, or the flag stops the scan between *)
(* them, or the second call waits for ever in its submit loop, and that only   *)
(* in a group with more large files to hash than slots: no other order of      *)
(* tasks, callbacks, failing reads and signals keeps a thread waiting.         *)
PhasesEnd == <>[](Ended \/ pMain = "stopped" \/ ShortOfSlots)
=============================================================================
