------------------------ MODULE HashingPhasesProofs ------------------------
(***************************************************************************)
(* What the two hashing calls of a scan promise together, for every number *)
(* of candidates, threads, processes, permits and slots: the semaphore     *)
(* that they share is whole when one hands it to the other.                *)
(***************************************************************************)
EXTENDS HashingPhases, FullHashingProofs

(***************************************************************************)
(* The first call: a permit or slot is free or with a task that opens a    *)
(* file, a task that ended as hashed has its digest in the cache, and the  *)
(* list is what was collected of them.                                     *)
(***************************************************************************)
FdInv == pFds + Cardinality(P!HoldFd) = MaxFd

PartialSlotInv == slots + Cardinality(P!HoldSlot) = MaxLarge

ListInv ==
  /\ P!At({"hashed"}) \subseteq pCached \cup pUpdates
  /\ pCollected \subseteq P!Ended
  /\ pResults = pCollected \cap P!At({"hashed"})
  /\ pMain \in {"exit", "returned"} /\ ~shutdown => pCollected = P!Candidates
  /\ pMain = "returned" => P!Ended = P!Candidates

PartialInv == P!TypeOK /\ FdInv /\ PartialSlotInv /\ ListInv

\* The second call has not begun; the flag may be set.
FullStart ==
  /\ pc = "split" /\ at = 1 /\ toHash = {} /\ cached \subseteq Candidates
  /\ future = [f \in Candidates |-> "none"] /\ called = {}
  /\ permits = MaxInflight /\ acquired = {}
  /\ collected = {} /\ results = {} /\ updates = {}
  /\ shutdown \in BOOLEAN /\ broken = FALSE

PhasesInv ==
  /\ Over => SemInv /\ DigestInv
  /\ ~Over => FullStart /\ PartialInv
  /\ Over => pTask = [f \in 1..PartialFiles |-> "none"]

-----------------------------------------------------------------------------
(* Helpers *)

LEMMA Sizes == /\ PartialFiles \in Nat /\ P!Candidates = 1..PartialFiles
               /\ PartialLarge \subseteq P!Candidates
               /\ NumThreads \in Nat \ {0} /\ MaxFd \in Nat \ {0} /\ MaxLarge \in Nat \ {0}
BY SizeGroupAssumption DEF P!Parameters, P!Candidates

\* The instance has its own copy of FiniteSets.
LEMMA SameCardinality == ASSUME NEW S PROVE P!Cardinality(S) = Cardinality(S)
BY DEF P!Cardinality, Cardinality, P!IsFiniteSet, IsFiniteSet

LEMMA PFinite ==
  ASSUME NEW S \in SUBSET P!Candidates
  PROVE  IsFiniteSet(S) /\ Cardinality(S) \in Nat
<1>1. IsFiniteSet(P!Candidates)
  BY Sizes, FS_Interval
<1> QED BY <1>1, FS_Subset, FS_CardinalityType

LEMMA POneMore ==
  ASSUME NEW S \in SUBSET P!Candidates, NEW f \in P!Candidates \ S
  PROVE  Cardinality(S \cup {f}) = Cardinality(S) + 1
BY PFinite, FS_AddElement

LEMMA POneLess ==
  ASSUME NEW S \in SUBSET P!Candidates, NEW f \in S
  PROVE  Cardinality(S \ {f}) = Cardinality(S) - 1
BY PFinite, FS_RemoveElement

LEMMA FullStartSem == ASSUME FullStart, slots = MaxLarge PROVE SemInv /\ DigestInv
<1>1. Submitted = {} /\ InFlight = {}
  BY DEF FullStart, Submitted, Is, InFlight
<1>2. MaxInflight \in Nat \ {0} /\ MaxInflight \in 0..MaxInflight /\ MaxLarge \in 0..MaxLarge
      /\ 1 \in 1..(NumFiles + 1)
  <2>1. NumProcesses \in Nat \ {0} /\ MaxLarge \in Nat \ {0} /\ NumFiles \in Nat
    BY LimitAssumption, CandidatesAssumption
  <2>2. MaxInflight \in Nat \ {0}
    BY <2>1 DEF MaxInflight
  <2> QED BY <2>1, <2>2
<1>3. TypeOK
  BY <1>2 DEF FullStart, TypeOK
<1>4. FutureInv
  BY <1>1 DEF FullStart, FutureInv
<1>5. PermitInv /\ SlotInv
  BY <1>1, <1>2, FS_EmptySet DEF FullStart, PermitInv, SlotInv, OutForLarge
<1>6. DigestInv
  BY DEF FullStart, DigestInv
<1> QED BY <1>3, <1>4, <1>5, <1>6 DEF SemInv

\* A task that goes to a place joins the sets of that place and leaves the others.
LEMMA Moves ==
  ASSUME P!TypeOK, NEW f \in P!Candidates, NEW place \in P!TaskStates, P!Go(f, place),
         NEW S
  PROVE  /\ (P!At(S))' = IF place \in S THEN P!At(S) \cup {f} ELSE P!At(S) \ {f}
         /\ pTask' \in [P!Candidates -> P!TaskStates]
<1>1. pTask' = [pTask EXCEPT ![f] = place] /\ pTask \in [P!Candidates -> P!TaskStates]
  BY DEF P!Go, P!TypeOK
<1>2. \A g \in P!Candidates : pTask'[g] = IF g = f THEN place ELSE pTask[g]
  BY <1>1
<1>3. (P!At(S))' = {g \in P!Candidates : pTask'[g] \in S}
  BY DEF P!At
<1> QED BY <1>1, <1>2, <1>3 DEF P!At

\* A task that stays inside a set of places, or outside it.
LEMMA Stays ==
  ASSUME P!TypeOK, NEW f \in P!Candidates, NEW place \in P!TaskStates, P!Go(f, place),
         NEW S, place \in S <=> pTask[f] \in S
  PROVE  (P!At(S))' = P!At(S)
<1>1. (P!At(S))' = IF place \in S THEN P!At(S) \cup {f} ELSE P!At(S) \ {f}
  BY Moves
<1> QED BY <1>1 DEF P!At

LEMMA InAt == ASSUME NEW f \in P!Candidates, NEW S PROVE f \in P!At(S) <=> pTask[f] \in S
BY DEF P!At

-----------------------------------------------------------------------------
(* The first call, one step per action *)

LEMMA PartialInit == ASSUME PhasesInit PROVE FullStart /\ PartialInv
<1>1. FullStart
  BY DEF PhasesInit, Init, FullStart
<1>2. P!HoldFd = {} /\ P!HoldSlot = {} /\ P!At({"hashed"}) = {}
  BY DEF PhasesInit, P!Init, P!Idle, P!HoldFd, P!HoldSlot, P!At
<1>3. P!TypeOK
  <2>1. MaxFd \in 0..MaxFd /\ MaxLarge \in 0..MaxLarge
    BY Sizes
  <2>2. pTask \in [P!Candidates -> P!TaskStates]
    BY DEF PhasesInit, P!Init, P!Idle, P!TaskStates
  <2>3. /\ pMain = "submit" /\ pDigest = {} /\ pCollected = {} /\ pResults = {}
        /\ pUpdates = {} /\ pFds = MaxFd /\ pCached \in SUBSET P!Candidates
        /\ slots = MaxLarge /\ shutdown = FALSE
    BY DEF PhasesInit, P!Init, P!Idle
  <2> QED BY <2>1, <2>2, <2>3 DEF P!TypeOK
<1>4. FdInv /\ PartialSlotInv
  BY <1>2, Sizes, FS_EmptySet DEF PhasesInit, P!Init, P!Idle, FdInv, PartialSlotInv
<1>5. ListInv
  BY <1>2 DEF PhasesInit, P!Init, P!Idle, ListInv
<1> QED BY <1>1, <1>3, <1>4, <1>5 DEF PartialInv

\* The flag, the list and the queue of the cache when a task moves.
LEMMA WorkList ==
  ASSUME PartialInv, NEW f \in P!Candidates, NEW place \in P!TaskStates, P!Go(f, place),
         pTask[f] \notin {"hashed", "nothing"},
         UNCHANGED <<pMain, pCached, pCollected, pResults, shutdown>>,
         pUpdates \subseteq pUpdates',
         place = "hashed" => f \in pCached \cup pUpdates'
  PROVE  ListInv'
<1>1. /\ (P!At({"hashed"}))' = IF place = "hashed" THEN P!At({"hashed"}) \cup {f}
                               ELSE P!At({"hashed"}) \ {f}
      /\ P!Ended' = IF place \in {"hashed", "nothing"} THEN P!Ended \cup {f}
                    ELSE P!Ended \ {f}
  BY Moves DEF PartialInv, P!Ended
<1>2. f \notin P!Ended /\ f \notin P!At({"hashed"})
  BY DEF P!Ended, P!At
<1>3. (P!At({"hashed"}))' \subseteq pCached' \cup pUpdates'
  BY <1>1 DEF PartialInv, ListInv
<1>4. pCollected' \subseteq P!Ended' /\ pResults' = pCollected' \cap (P!At({"hashed"}))'
  BY <1>1, <1>2 DEF PartialInv, ListInv
<1>5. pMain' = "returned" => P!Ended' = P!Candidates
  BY <1>2 DEF PartialInv, ListInv
<1>6. pMain' \in {"exit", "returned"} /\ ~shutdown' => pCollected' = P!Candidates
  BY DEF PartialInv, ListInv
<1> QED BY <1>3, <1>4, <1>5, <1>6 DEF ListInv, P!Candidates

\* Tasks that touch no permit and no slot.
LEMMA WorkQuiet ==
  ASSUME PartialInv, NEW f \in P!Candidates,
         P!Begin(f) \/ P!Lookup(f) \/ P!Read(f) \/ P!Store(f)
  PROVE  PartialInv'
<1>1. PICK place \in P!TaskStates :
        /\ P!Go(f, place)
        /\ \/ pTask[f] = "queued" /\ place \in {"nothing", "lookup"}
           \/ pTask[f] = "lookup" /\ place = "fd"
           \/ pTask[f] = "lookup" /\ place = "hashed" /\ f \in pCached
           \/ pTask[f] = "read" /\ place = "unslot"
           \/ pTask[f] = "store" /\ place = "hashed" /\ f \in pUpdates'
           \/ pTask[f] = "store" /\ place = "nothing"
  BY DEF P!Begin, P!Lookup, P!Read, P!Store, P!TaskStates
<1>2. UNCHANGED <<pMain, pCached, pFds, slots, pCollected, pResults, shutdown>>
  BY DEF P!Begin, P!Lookup, P!Read, P!Store, P!out
<1>3. /\ pDigest' \subseteq P!Candidates
      /\ pUpdates \subseteq pUpdates' /\ pUpdates' \subseteq P!Candidates
  BY DEF PartialInv, P!TypeOK, P!Begin, P!Lookup, P!Read, P!Store
<1>4. P!TypeOK'
  BY <1>1, <1>2, <1>3, Moves DEF PartialInv, P!TypeOK
<1>5. P!HoldFd' = P!HoldFd /\ P!HoldSlot' = P!HoldSlot
  <2>1. /\ (P!At({"slot", "read", "unslot", "unfd"}))' = P!At({"slot", "read", "unslot", "unfd"})
        /\ (P!At({"read", "unslot"}))' = P!At({"read", "unslot"})
    BY <1>1, Stays DEF PartialInv
  <2> QED BY <2>1 DEF P!HoldFd, P!HoldSlot
<1>6. FdInv' /\ PartialSlotInv'
  BY <1>2, <1>5 DEF PartialInv, FdInv, PartialSlotInv
<1>7. ListInv'
  BY <1>1, <1>2, <1>3, WorkList
<1> QED BY <1>4, <1>6, <1>7 DEF PartialInv

LEMMA WorkPermit ==
  ASSUME PartialInv, NEW f \in P!Candidates, P!AcquireFd(f) \/ P!ReleaseFd(f)
  PROVE  PartialInv'
<1> DEFINE H == P!At({"slot", "read", "unslot", "unfd"})
<1>1. PICK place \in {"slot", "store"} :
        /\ P!Go(f, place)
        /\ \/ place = "slot" /\ pTask[f] = "fd" /\ pFds > 0 /\ pFds' = pFds - 1
           \/ place = "store" /\ pTask[f] = "unfd" /\ pFds' = pFds + 1
  BY DEF P!AcquireFd, P!ReleaseFd
<1>2. /\ place \in P!TaskStates
      /\ UNCHANGED <<pMain, pDigest, pCached, slots, pCollected, pResults, pUpdates, shutdown>>
  BY DEF P!AcquireFd, P!ReleaseFd, P!out, P!TaskStates
<1>3. P!HoldFd = H /\ P!HoldFd' = H' /\ H \in SUBSET P!Candidates
  BY DEF P!HoldFd, P!At
<1>4. P!HoldSlot' = P!HoldSlot
  <2>1. (P!At({"read", "unslot"}))' = P!At({"read", "unslot"})
    BY <1>1, <1>2, Stays DEF PartialInv
  <2> QED BY <2>1 DEF P!HoldSlot
<1>5. pFds \in Nat /\ pFds + Cardinality(H) = MaxFd /\ Cardinality(H) \in Nat /\ MaxFd \in Nat
  BY <1>3, Sizes, PFinite DEF PartialInv, P!TypeOK, FdInv
<1>6. pFds' \in 0..MaxFd /\ pFds' + Cardinality(H') = MaxFd
  <2>1. CASE place = "slot"
    <3>1. H' = H \cup {f} /\ f \notin H
      BY <1>1, <1>2, <2>1, Moves, InAt DEF PartialInv
    <3>2. Cardinality(H') = Cardinality(H) + 1
      BY <1>3, <3>1, POneMore
    <3> QED BY <1>1, <1>5, <2>1, <3>2
  <2>2. CASE place = "store"
    <3>1. H' = H \ {f} /\ f \in H
      BY <1>1, <1>2, <2>2, Moves, InAt DEF PartialInv
    <3>2. Cardinality(H') = Cardinality(H) - 1 /\ Cardinality(H') \in Nat
      BY <1>3, <3>1, POneLess, PFinite
    <3> QED BY <1>1, <1>5, <2>2, <3>2
  <2> QED BY <1>1, <2>1, <2>2
<1>7. P!TypeOK'
  BY <1>1, <1>2, <1>6, Moves DEF PartialInv, P!TypeOK
<1>8. FdInv' /\ PartialSlotInv'
  BY <1>2, <1>3, <1>4, <1>6 DEF PartialInv, FdInv, PartialSlotInv
<1>9. ListInv'
  BY <1>1, <1>2, WorkList
<1> QED BY <1>7, <1>8, <1>9 DEF PartialInv

LEMMA WorkSlot ==
  ASSUME PartialInv, NEW f \in P!Candidates, P!AcquireSlot(f) \/ P!ReleaseSlot(f)
  PROVE  PartialInv'
<1> DEFINE A == P!At({"read", "unslot"})
           H == PartialLarge \cap A
<1>1. PICK place \in {"read", "unfd"} :
        /\ P!Go(f, place)
        /\ \/ place = "read" /\ pTask[f] = "slot"
              /\ IF f \in PartialLarge THEN slots > 0 /\ slots' = slots - 1 ELSE slots' = slots
           \/ /\ place = "unfd" /\ pTask[f] = "unslot"
              /\ slots' = IF f \in PartialLarge THEN slots + 1 ELSE slots
  BY DEF P!AcquireSlot, P!ReleaseSlot
<1>2. /\ place \in P!TaskStates
      /\ UNCHANGED <<pMain, pDigest, pCached, pFds, pCollected, pResults, pUpdates, shutdown>>
  BY DEF P!AcquireSlot, P!ReleaseSlot, P!out, P!TaskStates
<1>3. P!HoldSlot = H /\ P!HoldSlot' = H' /\ H \in SUBSET P!Candidates
  BY DEF P!HoldSlot, P!At
<1>4. P!HoldFd' = P!HoldFd
  <2>1. (P!At({"slot", "read", "unslot", "unfd"}))' = P!At({"slot", "read", "unslot", "unfd"})
    BY <1>1, <1>2, Stays DEF PartialInv
  <2> QED BY <2>1 DEF P!HoldFd
<1>5. slots \in Nat /\ slots + Cardinality(H) = MaxLarge /\ Cardinality(H) \in Nat /\ MaxLarge \in Nat
  BY <1>3, Sizes, PFinite DEF PartialInv, P!TypeOK, PartialSlotInv
<1>6. slots' \in 0..MaxLarge /\ slots' + Cardinality(H') = MaxLarge
  <2>1. CASE f \notin PartialLarge
    <3>1. H' = H /\ slots' = slots
      BY <1>1, <1>2, <2>1, Moves, InAt DEF PartialInv
    <3>2. Cardinality(H') = Cardinality(H)
      BY <3>1
    <3> QED BY <1>5, <3>1, <3>2
  <2>2. CASE f \in PartialLarge /\ place = "read"
    <3>1. H' = H \cup {f} /\ f \notin H
      BY <1>1, <1>2, <2>2, Moves, InAt DEF PartialInv
    <3>2. Cardinality(H') = Cardinality(H) + 1
      BY <1>3, <3>1, POneMore
    <3> QED BY <1>1, <1>5, <2>2, <3>2
  <2>3. CASE f \in PartialLarge /\ place = "unfd"
    <3>1. H' = H \ {f} /\ f \in H
      BY <1>1, <1>2, <2>3, Moves, InAt DEF PartialInv
    <3>2. Cardinality(H') = Cardinality(H) - 1 /\ Cardinality(H') \in Nat
      BY <1>3, <3>1, POneLess, PFinite
    <3> QED BY <1>1, <1>5, <2>3, <3>2
  <2> QED BY <1>1, <2>1, <2>2, <2>3
<1>7. P!TypeOK'
  BY <1>1, <1>2, <1>6, Moves DEF PartialInv, P!TypeOK
<1>8. FdInv' /\ PartialSlotInv'
  BY <1>2, <1>3, <1>4, <1>6 DEF PartialInv, FdInv, PartialSlotInv
<1>9. ListInv'
  BY <1>1, <1>2, WorkList
<1> QED BY <1>7, <1>8, <1>9 DEF PartialInv

LEMMA WorkStep == ASSUME PartialInv, NEW f \in P!Candidates, P!Work(f) PROVE PartialInv'
BY WorkQuiet, WorkPermit, WorkSlot DEF P!Work

LEMMA SubmitStep == ASSUME PartialInv, NEW f \in P!Candidates, P!Submit(f) PROVE PartialInv'
<1>1. /\ P!Go(f, "queued") /\ pTask[f] = "none" /\ "queued" \in P!TaskStates
      /\ UNCHANGED <<pMain, pDigest, pCached, pFds, slots, pCollected, pResults, pUpdates, shutdown>>
  BY DEF P!Submit, P!out, P!TaskStates
<1>2. P!TypeOK'
  BY <1>1, Moves DEF PartialInv, P!TypeOK
<1>3. P!HoldFd' = P!HoldFd /\ P!HoldSlot' = P!HoldSlot
  <2>1. /\ (P!At({"slot", "read", "unslot", "unfd"}))' = P!At({"slot", "read", "unslot", "unfd"})
        /\ (P!At({"read", "unslot"}))' = P!At({"read", "unslot"})
    BY <1>1, Stays DEF PartialInv
  <2> QED BY <2>1 DEF P!HoldFd, P!HoldSlot
<1>4. FdInv' /\ PartialSlotInv'
  BY <1>1, <1>3 DEF PartialInv, FdInv, PartialSlotInv
<1>5. ListInv'
  BY <1>1, WorkList
<1> QED BY <1>2, <1>4, <1>5 DEF PartialInv

\* The main thread when it submits nothing; the flag.
LEMMA CollectStep ==
  ASSUME PartialInv,
         \/ \E f \in P!Candidates : P!Collect(f)
         \/ P!SubmitEnd \/ P!CollectEnd \/ P!Return \/ P!Signal
  PROVE  PartialInv'
<1>1. UNCHANGED <<pTask, pDigest, pCached, pFds, slots, pUpdates>>
  BY DEF P!Collect, P!SubmitEnd, P!CollectEnd, P!Return, P!Signal, P!out
<1>2. UNCHANGED <<P!At({"hashed"}), P!Ended, P!HoldFd, P!HoldSlot>>
  BY <1>1 DEF P!At, P!Ended, P!HoldFd, P!HoldSlot
<1>3. FdInv' /\ PartialSlotInv'
  BY <1>1, <1>2 DEF PartialInv, FdInv, PartialSlotInv
<1>4. P!TypeOK'
  BY <1>1 DEF PartialInv, P!TypeOK, P!Collect, P!SubmitEnd, P!CollectEnd, P!Return, P!Signal,
              P!out
<1>5. ListInv'
  <2>1. ASSUME NEW f \in P!Candidates, P!Collect(f) PROVE ListInv'
    <3>1. f \in P!At({"hashed"}) <=> pTask[f] = "hashed"
      BY DEF P!At
    <3> QED BY <1>1, <1>2, <2>1, <3>1 DEF PartialInv, ListInv, P!Collect, P!Candidates, P!out
  <2>2. CASE P!SubmitEnd \/ P!CollectEnd \/ P!Return \/ P!Signal
    BY <1>1, <1>2, <2>2 DEF PartialInv, ListInv, P!SubmitEnd, P!CollectEnd, P!Return, P!Signal,
                            P!Candidates, P!out
  <2> QED BY <2>1, <2>2
<1> QED BY <1>3, <1>4, <1>5 DEF PartialInv

LEMMA PartialWhole == ASSUME PartialInv, pMain = "returned"
                      PROVE  pFds = MaxFd /\ slots = MaxLarge
<1>1. P!HoldFd = {} /\ P!HoldSlot = {}
  BY DEF PartialInv, ListInv, P!Ended, P!At, P!HoldFd, P!HoldSlot
<1>2. pFds \in Nat /\ slots \in Nat /\ MaxFd \in Nat /\ MaxLarge \in Nat
  BY Sizes DEF PartialInv, P!TypeOK
<1> QED BY <1>1, <1>2, FS_EmptySet DEF PartialInv, FdInv, PartialSlotInv

-----------------------------------------------------------------------------
(* Both calls *)

LEMMA PhasesStep == ASSUME PhasesInv, [PhasesNext]_all PROVE PhasesInv'
<1>1. CASE Over
  <2>1. ~TakeResults /\ ~PartialMain /\ \A f \in 1..PartialFiles : ~PartialWork(f)
    BY <1>1 DEF PhasesInv, Over, TakeResults, PartialMain, PartialWork, P!Main, P!Submit,
                P!Collect, P!SubmitEnd, P!CollectEnd, P!Return, P!Work, P!Begin, P!Lookup,
                P!AcquireFd, P!AcquireSlot, P!Read, P!ReleaseSlot, P!ReleaseFd, P!Store
  <2>2. UNCHANGED partial /\ [Next]_vars /\ (Between \/ UNCHANGED vars)
    BY <1>1, <2>1 DEF PhasesNext, all, Next, FullMain, FullTake, FullFinish, FullCallback,
                      Over, Between
  <2>3. SemInv' /\ DigestInv'
    BY <1>1, <2>2, SemStep, DigestStep DEF PhasesInv
  <2>4. Over' /\ (Between' <=> Between) /\ pTask' = pTask
    BY <1>1, <2>2 DEF partial, Over, Between
  <2> QED BY <1>1, <2>3, <2>4 DEF PhasesInv
<1>2. CASE ~Over /\ TakeResults
  <2>1. slots = MaxLarge /\ FullStart
    BY <1>2, PartialWhole DEF PhasesInv, TakeResults
  <2>2. SemInv /\ DigestInv /\ UNCHANGED vars
    BY <1>2, <2>1, FullStartSem DEF TakeResults
  <2>3. SemInv' /\ DigestInv'
    BY <2>2, SemStep, DigestStep
  <2>4. Over' /\ pTask' = [f \in 1..PartialFiles |-> "none"]
    BY <1>2 DEF TakeResults, Over
  <2> QED BY <2>3, <2>4 DEF PhasesInv
<1>3. CASE ~Over /\ ~TakeResults
  <2>1. FullStart /\ PartialInv
    BY <1>3 DEF PhasesInv
  <2>2. PartialInv' /\ FullStart'
    <3>1. CASE PartialMain
      <4>1. PartialInv'
        BY <2>1, <3>1, SubmitStep, CollectStep DEF PartialMain, P!Main
      <4>2. UNCHANGED full /\ shutdown' \in BOOLEAN
        BY <3>1, <4>1 DEF PartialMain, PartialInv, P!TypeOK
      <4> QED BY <2>1, <4>1, <4>2 DEF FullStart, full, out
    <3>2. ASSUME NEW f \in 1..PartialFiles, PartialWork(f) PROVE PartialInv' /\ FullStart'
      <4>1. PartialInv'
        BY <2>1, <3>2, WorkStep, Sizes DEF PartialWork
      <4>2. UNCHANGED full /\ shutdown' \in BOOLEAN
        BY <3>2, <4>1 DEF PartialWork, PartialInv, P!TypeOK
      <4> QED BY <2>1, <4>1, <4>2 DEF FullStart, full, out
    <3>3. CASE Signal /\ UNCHANGED partial
      <4>1. UNCHANGED <<pTask, pDigest, pCached, pFds, slots, pUpdates, pMain, pCollected,
                        pResults>> /\ shutdown' = TRUE
        BY <3>3 DEF Signal, partial, sems
      <4>2. UNCHANGED <<P!At({"hashed"}), P!Ended, P!HoldFd, P!HoldSlot>>
        BY <4>1 DEF P!At, P!Ended, P!HoldFd, P!HoldSlot
      <4>3. PartialInv'
        BY <2>1, <4>1, <4>2 DEF PartialInv, P!TypeOK, FdInv, PartialSlotInv, ListInv
      <4> QED BY <2>1, <3>3, <4>3 DEF FullStart, Signal, out, sems
    <3>4. CASE UNCHANGED all
      <4>1. UNCHANGED <<pTask, pDigest, pCached, pFds, slots, pUpdates, pMain, pCollected,
                        pResults, shutdown>>
        BY <3>4 DEF all, partial, vars, sems
      <4>2. UNCHANGED <<P!At({"hashed"}), P!Ended, P!HoldFd, P!HoldSlot>>
        BY <4>1 DEF P!At, P!Ended, P!HoldFd, P!HoldSlot
      <4>3. PartialInv'
        BY <2>1, <4>1, <4>2 DEF PartialInv, P!TypeOK, FdInv, PartialSlotInv, ListInv
      <4> QED BY <2>1, <3>4, <4>3 DEF FullStart, all, vars, out, sems
    <3> QED BY <1>3, <3>1, <3>2, <3>3, <3>4
            DEF PhasesNext, Over, Between, FullMain, FullTake, FullFinish, FullCallback
  <2>3. ~Over'
    BY <2>2 DEF PartialInv, P!TypeOK, Over
  <2> QED BY <2>2, <2>3 DEF PhasesInv, Over, Between
<1> QED BY <1>1, <1>2, <1>3

-----------------------------------------------------------------------------
(* The theorems *)

(* The inductive invariant: the accounts of the call that is running, and all *)
(* slots free where one call hands them to the next.                          *)
THEOREM PhasesInductive == PhasesSpec => []PhasesInv
<1>1. PhasesInit => PhasesInv
  <2> SUFFICES ASSUME PhasesInit PROVE PhasesInv
    OBVIOUS
  <2>1. pMain = "submit"
    BY DEF PhasesInit, P!Init, P!Idle
  <2> QED BY <2>1, PartialInit DEF PhasesInv, Over, Between
<1>2. PhasesInv /\ [PhasesNext]_all => PhasesInv'
  BY PhasesStep
<1> QED BY <1>1, <1>2, PTL DEF PhasesSpec

(* Both calls keep their variables' types. *)
THEOREM PhasesTyped == PhasesSpec => []PhasesTypeOK
<1>1. ASSUME PhasesInv PROVE PhasesTypeOK
  <2>1. CASE Over
    BY <1>1, <2>1 DEF PhasesInv, SemInv, PhasesTypeOK
  <2>2. CASE ~Over
    <3>1. P!TypeOK /\ FullStart
      BY <1>1, <2>2 DEF PhasesInv, PartialInv
    <3>2. MaxInflight \in 0..MaxInflight /\ 1 \in 1..(NumFiles + 1)
      BY LimitAssumption, CandidatesAssumption DEF MaxInflight
    <3> QED BY <3>1, <3>2 DEF PhasesTypeOK, FullStart, TypeOK, P!TypeOK
  <2> QED BY <2>1, <2>2
<1> QED BY <1>1, PhasesInductive, PTL

(* No thread of the first call has a file open without a permit, nor a large  *)
(* one without a slot, and the call gives all of them back: _work, for any    *)
(* number of threads and any _MAX_FD.                                         *)
THEOREM OpenFiles == PhasesSpec => []PartialFilesBounded
<1>1. ASSUME PhasesInv PROVE PartialFilesBounded
  <2>1. CASE ~Over
    <3>1. PartialInv
      BY <1>1, <2>1 DEF PhasesInv
    <3>2. pMain = "returned" => pFds = MaxFd /\ slots = MaxLarge
      BY <3>1, PartialWhole
    <3>3. FdInv /\ PartialSlotInv
      BY <3>1 DEF PartialInv
    <3>4. P!OpenFilesBounded
      BY <3>2, <3>3, SameCardinality DEF FdInv, PartialSlotInv, P!OpenFilesBounded
    <3> QED BY <3>4 DEF PartialFilesBounded
  <2> QED BY <2>1 DEF PartialFilesBounded
<1> QED BY <1>1, PhasesInductive, PTL

(* What run_partial_hashing returns is in the cache or its batch, and without *)
(* the flag it is everything that was hashed.                                 *)
THEOREM PartialListRight == PhasesSpec => []PartialReturns
<1>1. ASSUME PhasesInv PROVE PartialReturns
  <2>1. CASE ~Over /\ pMain = "returned"
    <3>1. PartialInv /\ ListInv /\ P!Ended = P!Candidates
      BY <1>1, <2>1 DEF PhasesInv, PartialInv, ListInv
    <3>2. pResults \subseteq pCached \cup pUpdates
      BY <3>1 DEF ListInv
    <3>3. ~shutdown => pResults = P!At({"hashed"})
      BY <2>1, <3>1 DEF ListInv, P!At
    <3> QED BY <3>2, <3>3 DEF PartialReturns, P!ReturnedAreCached
  <2>2. CASE Over \/ pMain # "returned"
    BY <2>2 DEF PartialReturns, P!ReturnedAreCached
  <2> QED BY <2>1, <2>2
<1> QED BY <1>1, PhasesInductive, PTL

(* What FullHashingProofs shows of the second call alone holds of it after    *)
(* the first one, whose slots it takes over: every permit, slot and digest is *)
(* accounted for.                                                             *)
THEOREM SecondCall == PhasesSpec => [](InflightBounded /\ LargeSlotsKept /\ DigestsReturned)
<1>1. ASSUME PhasesInv PROVE InflightBounded /\ LargeSlotsKept /\ DigestsReturned
  <2>1. CASE Over
    BY <1>1, <2>1, SemBounded, SemSlots, DigestAll DEF PhasesInv
  <2>2. CASE ~Over
    <3>1. FullStart
      BY <1>1, <2>2 DEF PhasesInv
    <3>2. InFlight = {} /\ pc = "split"
      BY <3>1 DEF FullStart, InFlight, Submitted, Is
    <3>3. MaxInflight \in Nat /\ MaxLarge \in Nat /\ permits = MaxInflight
      BY <3>1, LimitAssumption DEF FullStart, MaxInflight
    <3> QED BY <3>2, <3>3, FS_EmptySet DEF InflightBounded, LargeSlotsKept, DigestsReturned
  <2> QED BY <2>1, <2>2
<1> QED BY <1>1, PhasesInductive, PTL
=============================================================================
