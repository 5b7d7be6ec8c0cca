-------------------------- MODULE FullHashingProofs --------------------------
(***************************************************************************)
(* What FullHashing promises for every number of candidates, processes and *)
(* slots: both semaphores are balanced.                                    *)
(***************************************************************************)
EXTENDS FullHashing, FiniteSetTheorems, TLAPS

USE CandidatesAssumption, LimitAssumption, BreakAssumption

(***************************************************************************)
(* Futures are submitted in the order of the candidates, a callback or a   *)
(* collection follows the completion.                                      *)
(***************************************************************************)
FutureInv ==
  /\ called \subseteq Completed /\ collected \subseteq Completed
  /\ pc = "split" => Submitted = {}
  /\ pc \in {"submit", "acquire", "permit"} =>
       \A f \in Candidates : f >= at => future[f] = "none"
  /\ pc \in {"acquire", "permit"} => at \in Candidates

\* A permit is free, with a future whose callback has not run, or was taken
\* by the submit that raised.
PermitInv ==
  permits + Cardinality(InFlight) = IF pc = "raised" THEN MaxInflight - 1 ELSE MaxInflight

\* A slot is free or held for a large file: one that is submitted and not
\* collected, or the one that is being submitted.
SlotInv ==
  /\ slots + Cardinality(acquired) = MaxLarge
  /\ acquired = OutForLarge
  /\ pc = "done" => acquired = {}

SemInv == TypeOK /\ FutureInv /\ PermitInv /\ SlotInv

-----------------------------------------------------------------------------
(* Helpers *)

LEMMA Finite ==
  ASSUME NEW S \in SUBSET Candidates
  PROVE  IsFiniteSet(S) /\ Cardinality(S) \in Nat
<1>1. IsFiniteSet(Candidates)
  BY FS_Interval DEF Candidates
<1> QED BY <1>1, FS_Subset, FS_CardinalityType

LEMMA OneMore ==
  ASSUME NEW S \in SUBSET Candidates, NEW f \in Candidates \ S
  PROVE  Cardinality(S \cup {f}) = Cardinality(S) + 1
BY Finite, FS_AddElement

LEMMA OneLess ==
  ASSUME NEW S \in SUBSET Candidates, NEW f \in S
  PROVE  Cardinality(S \ {f}) = Cardinality(S) - 1
BY Finite, FS_RemoveElement

LEMMA SemInit == ASSUME Init PROVE SemInv
<1>1. Submitted = {} /\ InFlight = {}
  BY DEF Init, Submitted, Is, InFlight
<1>2. MaxInflight \in Nat \ {0} /\ MaxInflight \in 0..MaxInflight /\ MaxLarge \in 0..MaxLarge
      /\ 1 \in 1..(NumFiles + 1)
  BY DEF MaxInflight
<1>3. TypeOK
  BY <1>2 DEF Init, TypeOK
<1>4. FutureInv
  BY <1>1 DEF Init, FutureInv
<1>5. PermitInv /\ SlotInv
  BY <1>1, <1>2, FS_EmptySet DEF Init, PermitInv, SlotInv, OutForLarge
<1> QED BY <1>3, <1>4, <1>5 DEF SemInv

-----------------------------------------------------------------------------
(* One step per action *)

\* Steps that touch no future and no semaphore.
LEMMA SemQuiet ==
  ASSUME SemInv, \/ Split \/ SplitEnd \/ Skip \/ CheckFlag \/ SubmitEnd \/ Return
                 \/ Signal \/ UNCHANGED vars
  PROVE  SemInv'
<1>1. UNCHANGED <<future, called, sems, collected>>
  BY DEF Split, SplitEnd, Skip, CheckFlag, SubmitEnd, Return, Signal, vars, out
<1>2. UNCHANGED <<Submitted, InFlight, Completed>>
  BY <1>1 DEF Submitted, InFlight, Completed, Is
<1>3. TypeOK'
  <2>1. CASE Split
    <3>1. at \in Candidates /\ at' = at + 1
      BY <2>1 DEF SemInv, TypeOK, Split, Candidates
    <3>2. at' \in 1..(NumFiles + 1)
      BY <3>1 DEF Candidates
    <3> QED BY <2>1, <3>1, <3>2 DEF SemInv, TypeOK, Split, sems
  <2>2. CASE Skip
    <3>1. at' \in 1..(NumFiles + 1)
      BY <2>2 DEF SemInv, TypeOK, Skip
    <3> QED BY <2>2, <3>1 DEF SemInv, TypeOK, Skip, sems, out
  <2>3. CASE SplitEnd
    BY <2>3 DEF SemInv, TypeOK, SplitEnd, sems, out
  <2>4. CASE CheckFlag \/ SubmitEnd \/ Return \/ Signal \/ UNCHANGED vars
    BY <2>4 DEF SemInv, TypeOK, CheckFlag, SubmitEnd, Return, Signal, vars, sems, out
  <2> QED BY <2>1, <2>2, <2>3, <2>4
<1>4. FutureInv'
  <2>1. CASE Split \/ Signal \/ UNCHANGED vars
    BY <1>1, <1>2, <2>1 DEF SemInv, FutureInv, Split, Signal, vars
  <2>2. CASE SplitEnd
    BY <1>1, <1>2, <2>2 DEF SemInv, FutureInv, SplitEnd, Submitted, Is, TypeOK
  <2>3. CASE Skip
    BY <1>1, <1>2, <2>3 DEF SemInv, FutureInv, Skip, TypeOK, Candidates
  <2>4. CASE SubmitEnd \/ Return
    BY <1>1, <1>2, <2>4 DEF SemInv, FutureInv, SubmitEnd, Return
  <2>5. CASE CheckFlag
    BY <1>1, <1>2, <2>5 DEF SemInv, FutureInv, CheckFlag, TypeOK
  <2> QED BY <2>1, <2>2, <2>3, <2>4, <2>5
<1>5. PermitInv'
  <2>1. pc' = "raised" <=> pc = "raised"
    BY DEF Split, SplitEnd, Skip, CheckFlag, SubmitEnd, Return, Signal, vars
  <2>2. permits' = permits
    BY <1>1 DEF sems
  <2> QED BY <1>2, <2>1, <2>2 DEF SemInv, PermitInv
<1>6. SlotInv'
  <2>1. UNCHANGED <<slots, acquired, collected>>
    BY <1>1 DEF sems
  <2>2. CASE Split \/ Skip \/ CheckFlag \/ SubmitEnd \/ Signal \/ UNCHANGED vars
    BY <1>2, <2>1, <2>2
       DEF SemInv, SlotInv, OutForLarge, Split, Skip, CheckFlag, SubmitEnd, Signal, vars
  <2>3. CASE SplitEnd
    BY <1>2, <2>1, <2>3 DEF SemInv, SlotInv, OutForLarge, FutureInv, SplitEnd
  <2>4. CASE Return
    BY <1>2, <2>1, <2>4 DEF SemInv, SlotInv, OutForLarge, Return
  <2> QED BY <2>2, <2>3, <2>4
<1> QED BY <1>3, <1>4, <1>5, <1>6 DEF SemInv

LEMMA SemAcquire == ASSUME SemInv, AcquireSlot PROVE SemInv'
<1>1. /\ pc = "acquire" /\ pc' = "permit" /\ at \in Candidates /\ at' = at
      /\ UNCHANGED <<future, called, permits, collected>>
  BY DEF SemInv, FutureInv, AcquireSlot, out
<1>2. UNCHANGED <<Submitted, InFlight, Completed>>
  BY <1>1 DEF Submitted, InFlight, Completed, Is
<1>3. future[at] = "none" /\ at \notin Submitted /\ at \notin acquired
  BY <1>1 DEF SemInv, FutureInv, SlotInv, OutForLarge, Submitted, Is, Candidates
<1>4. /\ acquired' = acquired \cup (Large \cap {at})
      /\ slots' + Cardinality(acquired') = MaxLarge /\ slots' \in 0..MaxLarge
  <2>1. CASE at \in Large
    <3>1. slots > 0 /\ slots' = slots - 1 /\ acquired' = acquired \cup {at}
      BY <2>1 DEF AcquireSlot
    <3>2. Cardinality(acquired') = Cardinality(acquired) + 1
      BY <1>1, <1>3, <3>1, OneMore DEF SemInv, TypeOK
    <3> QED BY <2>1, <3>1, <3>2, Finite DEF SemInv, TypeOK, SlotInv
  <2>2. CASE at \notin Large
    BY <2>2 DEF AcquireSlot, SemInv, TypeOK, SlotInv
  <2> QED BY <2>1, <2>2
<1>5. TypeOK'
  BY <1>1, <1>4 DEF SemInv, TypeOK, AcquireSlot, out
<1>6. FutureInv'
  BY <1>1, <1>2 DEF SemInv, FutureInv
<1>7. PermitInv'
  BY <1>1, <1>2 DEF SemInv, PermitInv
<1>8. SlotInv'
  <2>1. acquired' = OutForLarge'
    BY <1>1, <1>2, <1>4 DEF SemInv, SlotInv, OutForLarge
  <2> QED BY <1>1, <1>4, <2>1 DEF SlotInv
<1> QED BY <1>5, <1>6, <1>7, <1>8 DEF SemInv

LEMMA SemSubmit == ASSUME SemInv, Submit PROVE SemInv'
<1>1. /\ pc = "permit" /\ at \in Candidates /\ future[at] = "none"
      /\ permits \in 0..MaxInflight /\ permits > 0 /\ permits' = permits - 1
      /\ UNCHANGED <<called, slots, acquired, collected>>
  BY DEF SemInv, FutureInv, TypeOK, Submit, out, Candidates
<1>2. at \notin Submitted /\ InFlight \subseteq Candidates
  BY <1>1 DEF Submitted, Is, InFlight
<1>3. MaxInflight \in Nat /\ permits' \in 0..MaxInflight
  BY <1>1 DEF MaxInflight
<1>4. CASE broken
  <2>1. pc' = "raised" /\ UNCHANGED <<at, future>>
    BY <1>4 DEF Submit
  <2>2. UNCHANGED <<Submitted, InFlight, Completed>>
    BY <1>1, <2>1 DEF Submitted, InFlight, Completed, Is
  <2>3. TypeOK'
    BY <1>1, <1>3, <2>1 DEF SemInv, TypeOK, Submit, out
  <2>4. FutureInv'
    BY <1>1, <2>1, <2>2 DEF SemInv, FutureInv
  <2>5. PermitInv'
    BY <1>1, <1>2, <1>3, <2>1, <2>2, Finite DEF SemInv, PermitInv
  <2>6. SlotInv'
    BY <1>1, <2>1, <2>2 DEF SemInv, SlotInv, OutForLarge
  <2> QED BY <2>3, <2>4, <2>5, <2>6 DEF SemInv
<1>5. CASE ~broken
  <2>1. /\ pc' = "submit" /\ at' = at + 1
        /\ future' = [future EXCEPT ![at] = "queued"]
    BY <1>5 DEF Submit
  <2>2. future \in [Candidates -> {"none", "queued", "running", "digest", "failed"}]
    BY DEF SemInv, TypeOK
  <2>3. /\ future' \in [Candidates -> {"none", "queued", "running", "digest", "failed"}]
        /\ Submitted' = Submitted \cup {at} /\ Completed' = Completed
    BY <1>1, <2>1, <2>2 DEF Submitted, Completed, Is
  <2>4. at \notin called /\ at \notin collected
    BY <1>1 DEF SemInv, FutureInv, Completed, Is
  <2>5. InFlight' = InFlight \cup {at} /\ at \notin InFlight
    BY <1>1, <1>2, <2>3, <2>4 DEF InFlight
  <2>6. TypeOK'
    <3>1. at' \in 1..(NumFiles + 1)
      BY <1>1, <2>1 DEF Candidates
    <3> QED BY <1>1, <1>3, <2>1, <2>3, <3>1 DEF SemInv, TypeOK, Submit, out
  <2>7. FutureInv'
    <3>1. \A f \in Candidates : f >= at' => future'[f] = "none"
      BY <1>1, <2>1, <2>2 DEF SemInv, FutureInv, Candidates
    <3> QED BY <1>1, <2>1, <2>3, <3>1 DEF SemInv, FutureInv
  <2>8. PermitInv'
    <3>1. Cardinality(InFlight') = Cardinality(InFlight) + 1 /\ Cardinality(InFlight) \in Nat
      BY <1>1, <1>2, <2>5, OneMore, Finite
    <3> QED BY <1>1, <1>3, <2>1, <3>1 DEF SemInv, PermitInv
  <2>9. SlotInv'
    <3>1. OutForLarge' = OutForLarge
      BY <1>1, <2>1, <2>3, <2>4 DEF OutForLarge
    <3> QED BY <1>1, <2>1, <3>1 DEF SemInv, SlotInv
  <2> QED BY <2>6, <2>7, <2>8, <2>9 DEF SemInv
<1> QED BY <1>4, <1>5

\* Steps of the pool: what is submitted and what is completed.
LEMMA SemPool ==
  ASSUME SemInv, \/ \E f \in Candidates : Take(f) \/ Finish(f)
                 \/ Break
  PROVE  SemInv'
<1>1. UNCHANGED <<pc, at, called, sems, out>>
  BY DEF Take, Finish, Break
<1>2. future \in [Candidates -> {"none", "queued", "running", "digest", "failed"}]
  BY DEF SemInv, TypeOK
<1>3. /\ future' \in [Candidates -> {"none", "queued", "running", "digest", "failed"}]
      /\ \A f \in Candidates : future'[f] = "none" <=> future[f] = "none"
      /\ \A f \in Candidates : future[f] \in {"digest", "failed"} => future'[f] = future[f]
  <2>1. ASSUME NEW f \in Candidates, Take(f) PROVE <1>3
    BY <1>2, <2>1 DEF Take
  <2>2. ASSUME NEW f \in Candidates, Finish(f) PROVE <1>3
    BY <1>2, <2>2 DEF Finish
  <2>3. CASE Break
    BY <1>2, <2>3 DEF Break
  <2> QED BY <2>1, <2>2, <2>3
<1>4. UNCHANGED <<Submitted, InFlight>> /\ Completed \subseteq Completed'
  BY <1>1, <1>3 DEF Submitted, InFlight, Completed, Is
<1>5. TypeOK'
  <2>1. broken' \in BOOLEAN /\ UNCHANGED <<cached, toHash, shutdown>>
    BY DEF SemInv, TypeOK, Take, Finish, Break
  <2> QED BY <1>1, <1>3, <2>1 DEF SemInv, TypeOK, sems, out
<1>6. FutureInv'
  BY <1>1, <1>3, <1>4 DEF SemInv, FutureInv, sems, out
<1>7. PermitInv' /\ SlotInv'
  BY <1>1, <1>4 DEF SemInv, PermitInv, SlotInv, OutForLarge, sems, out
<1> QED BY <1>5, <1>6, <1>7 DEF SemInv

LEMMA SemCallback == ASSUME SemInv, NEW f \in Candidates, Callback(f) PROVE SemInv'
<1>1. /\ f \in Completed \ called /\ called' = called \cup {f} /\ permits' = permits + 1
      /\ UNCHANGED <<pc, at, future, slots, acquired, out>>
  BY DEF Callback
<1>2. f \in InFlight /\ InFlight' = InFlight \ {f}
  BY <1>1 DEF InFlight, Submitted, Completed, Is
<1>3. UNCHANGED <<Submitted, Completed>>
  BY <1>1 DEF Submitted, Completed, Is
<1>4. /\ Cardinality(InFlight') = Cardinality(InFlight) - 1
      /\ Cardinality(InFlight') \in Nat /\ Cardinality(InFlight) \in Nat
  BY <1>2, OneLess, Finite DEF InFlight, Submitted
<1>5. MaxInflight \in Nat /\ permits \in 0..MaxInflight
  BY DEF SemInv, TypeOK, MaxInflight
<1>6. PermitInv'
  BY <1>1, <1>4, <1>5 DEF SemInv, PermitInv
<1>7. permits' \in 0..MaxInflight
  BY <1>1, <1>4, <1>5, <1>6 DEF PermitInv
<1>8. TypeOK'
  BY <1>1, <1>7 DEF SemInv, TypeOK, Callback, out
<1>9. FutureInv' /\ SlotInv'
  BY <1>1, <1>3 DEF SemInv, FutureInv, SlotInv, OutForLarge, out
<1> QED BY <1>6, <1>8, <1>9 DEF SemInv

LEMMA SemCollect == ASSUME SemInv, NEW f \in Candidates, Collect(f) PROVE SemInv'
<1>1. /\ pc = "collect" /\ f \in Completed \ collected
      /\ collected' = collected \cup {f} /\ acquired' = acquired \ {f}
      /\ slots' = (IF f \in acquired THEN slots + 1 ELSE slots)
      /\ UNCHANGED <<pc, at, future, called, permits>>
  BY DEF Collect
<1>2. UNCHANGED <<Submitted, Completed, InFlight>>
  BY <1>1 DEF Submitted, Completed, InFlight, Is
<1>3. acquired \in SUBSET Candidates /\ slots \in 0..MaxLarge
  BY DEF SemInv, TypeOK
<1>4. slots' + Cardinality(acquired') = MaxLarge /\ slots' \in Nat
  <2>1. CASE f \in acquired
    BY <1>1, <1>3, <2>1, OneLess, Finite DEF SemInv, SlotInv
  <2>2. CASE f \notin acquired
    <3>1. acquired' = acquired /\ slots' = slots
      BY <1>1, <2>2
    <3> QED BY <1>3, <3>1 DEF SemInv, SlotInv
  <2> QED BY <2>1, <2>2
<1>5. slots' \in 0..MaxLarge
  BY <1>1, <1>3, <1>4, Finite
<1>6. SlotInv'
  <2>1. acquired' = OutForLarge'
    BY <1>1, <1>2 DEF SemInv, SlotInv, OutForLarge
  <2> QED BY <1>1, <1>4, <2>1 DEF SlotInv
<1>7. TypeOK'
  BY <1>1, <1>5 DEF SemInv, TypeOK, Collect
<1>8. FutureInv' /\ PermitInv'
  BY <1>1, <1>2 DEF SemInv, FutureInv, PermitInv
<1> QED BY <1>6, <1>7, <1>8 DEF SemInv

LEMMA SemStep == ASSUME SemInv, [Next]_vars PROVE SemInv'
<1>1. CASE Main
  BY <1>1, SemQuiet, SemAcquire, SemSubmit, SemCollect DEF Main
<1>2. CASE \E f \in Candidates : Take(f) \/ Finish(f) \/ Callback(f)
  BY <1>2, SemPool, SemCallback
<1>3. CASE Break \/ Signal \/ UNCHANGED vars
  BY <1>3, SemPool, SemQuiet
<1> QED BY <1>1, <1>2, <1>3 DEF Next

-----------------------------------------------------------------------------
(* The theorems *)

(* The inductive invariant: types, the order of futures, callbacks and        *)
(* collections, and the accounts of both semaphores.                          *)
THEOREM Balanced == Spec => []SemInv
<1>1. Init => SemInv
  BY SemInit
<1>2. SemInv /\ [Next]_vars => SemInv'
  BY SemStep
<1> QED BY <1>1, <1>2, PTL DEF Spec

LEMMA SemBounded == ASSUME SemInv PROVE InflightBounded
<1>1. Cardinality(InFlight) \in Nat /\ permits \in 0..MaxInflight /\ MaxInflight \in Nat
  BY Finite DEF SemInv, TypeOK, InFlight, Submitted, MaxInflight
<1> QED BY <1>1 DEF SemInv, PermitInv, InflightBounded

(* At most 2 * num_processes futures are pending and no permit is lost or     *)
(* given back twice, in any order of completions and callbacks, also when the *)
(* pool breaks.                                                               *)
THEOREM Bounded == Spec => []InflightBounded
BY SemBounded, Balanced, PTL

LEMMA SemSlots == ASSUME SemInv PROVE LargeSlotsKept
<1>1. slots \in 0..MaxLarge /\ slots + Cardinality(acquired) = MaxLarge
  BY DEF SemInv, TypeOK, SlotInv
<1>2. pc = "done" => slots = MaxLarge
  <2> SUFFICES ASSUME pc = "done" PROVE slots = MaxLarge
    OBVIOUS
  <2>1. Cardinality(acquired) = 0
    BY FS_EmptySet DEF SemInv, SlotInv
  <2> QED BY <1>1, <2>1
<1> QED BY <1>1, <1>2 DEF SemInv, SlotInv, LargeSlotsKept

(* A slot is free or out for one large file that is being submitted or is     *)
(* submitted and not collected; a call that returns has given every slot      *)
(* back, and one that raises has taken those of its files with it.            *)
THEOREM SlotsKept == Spec => []LargeSlotsKept
BY SemSlots, Balanced, PTL

-----------------------------------------------------------------------------
(* The digests *)

\* Until the flag: what is collected is in the list and in the cache, and the
\* hits that the split has passed are in the list.  Nothing is given to the
\* cache before the collecting loop.
DigestInv ==
  /\ ~shutdown =>
       /\ updates = collected \cap Is("digest")
       /\ results = updates \cup (IF pc = "split" THEN cached \cap 1..(at - 1) ELSE cached)
       /\ pc = "done" => collected = Submitted
  /\ pc \notin {"collect", "done"} => updates = {}

LEMMA DigestStep == ASSUME SemInv, DigestInv, [Next]_vars PROVE DigestInv'
<1>1. at \in 1..(NumFiles + 1) /\ cached \subseteq 1..NumFiles /\ NumFiles \in Nat
  BY DEF SemInv, TypeOK, Candidates
<1>2. collected \subseteq Completed /\ (pc = "split" => Submitted = {})
  BY DEF SemInv, FutureInv
<1>3. CASE Split
  BY <1>1, <1>3 DEF DigestInv, Split, Is, sems
<1>4. CASE SplitEnd
  <2>1. pc = "split" /\ Submitted = {} /\ collected = {}
    BY <1>2, <1>4 DEF SplitEnd, Submitted, Completed, Is
  <2>2. ~shutdown => cached \cap 1..(at - 1) = cached
    <3>1. ~shutdown => at - 1 = NumFiles
      BY <1>1, <1>4 DEF SplitEnd
    <3> QED BY <1>1, <3>1
  <2> QED BY <1>4, <2>1, <2>2 DEF DigestInv, SplitEnd, Is, Submitted, out
<1>5. CASE Skip \/ CheckFlag \/ AcquireSlot \/ SubmitEnd \/ Return
  BY <1>5 DEF DigestInv, Skip, CheckFlag, AcquireSlot, SubmitEnd, Return, Is, Submitted, out, sems
<1>6. CASE Submit
  <2>1. future[at] = "none" /\ at \notin collected
    BY <1>1, <1>2, <1>6 DEF SemInv, FutureInv, Submit, Completed, Is
  <2>2. collected \cap Is("digest") = collected' \cap Is("digest")'
    BY <1>1, <1>6, <2>1 DEF SemInv, TypeOK, Submit, Is, out
  <2> QED BY <1>6, <2>2 DEF DigestInv, Submit, out
<1>7. ASSUME NEW f \in Candidates, Collect(f) PROVE DigestInv'
  BY <1>7 DEF DigestInv, Collect, Is, Submitted, Completed
<1>8. ASSUME NEW f \in Candidates, Take(f) \/ Finish(f) \/ Callback(f) PROVE DigestInv'
  <2>1. /\ UNCHANGED <<pc, at, cached, collected, results, updates, shutdown>>
        /\ \A g \in Candidates \ {f} : future'[g] = future[g]
        /\ future'[f] = future[f] \/ (future[f] \in {"queued", "running"} /\ future'[f] # "none")
    BY <1>8 DEF SemInv, TypeOK, Take, Finish, Callback, out, sems
  <2>2. future[f] \in {"queued", "running"} => f \notin collected
    BY <1>2 DEF Completed, Is
  <2>3. collected' \cap Is("digest")' = collected \cap Is("digest")
    BY <1>2, <2>1, <2>2 DEF Is, Completed
  <2>4. Submitted' = Submitted
    BY <2>1 DEF Submitted, Is
  <2> QED BY <2>1, <2>3, <2>4 DEF DigestInv
<1>9. CASE Break
  <2>1. \A g \in collected : future'[g] = future[g]
    BY <1>2, <1>9 DEF Break, Completed, Is
  <2>2. collected' \cap Is("digest")' = collected \cap Is("digest")
    BY <1>2, <1>9, <2>1 DEF Break, Is, Completed, out
  <2>3. Submitted' = Submitted
    BY <1>9 DEF Break, Submitted, Is
  <2> QED BY <1>9, <2>2, <2>3 DEF DigestInv, Break, out
<1>10. CASE Signal \/ UNCHANGED vars
  BY <1>10 DEF DigestInv, Signal, vars, out, sems, Is, Submitted
<1> QED BY <1>3, <1>4, <1>5, <1>6, <1>7, <1>8, <1>9, <1>10 DEF Next, Main

LEMMA DigestAll == ASSUME SemInv, DigestInv PROVE DigestsReturned
<1>1. Is("digest") \subseteq Submitted
  BY DEF Is, Submitted
<1> QED BY <1>1 DEF DigestInv, DigestsReturned

(* A file that the pool hashed is in the returned list and in the batch of    *)
(* the cache unless the flag was set, whatever the order of completions; a    *)
(* call that raises has given the cache nothing.                              *)
THEOREM NoDigestLost == Spec => []DigestsReturned
<1>1. Init => SemInv /\ DigestInv
  <2> SUFFICES ASSUME Init PROVE DigestInv
    BY SemInit
  <2> QED BY DEF Init, DigestInv
<1>2. SemInv /\ DigestInv /\ [Next]_vars => (SemInv /\ DigestInv)'
  BY SemStep, DigestStep
<1> QED BY <1>1, <1>2, DigestAll, PTL DEF Spec

(* Every variable keeps its type. *)
THEOREM TypeCorrect == Spec => []TypeOK
<1>1. SemInv => TypeOK
  BY DEF SemInv
<1> QED BY <1>1, Balanced, PTL
=============================================================================
