-------------------------- MODULE SessionLockProofs --------------------------
(***************************************************************************)
(* What SessionLock promises for every number of processes and sessions    *)
(* and every TTL, whatever is resumed beside whatever runs: a session that *)
(* two processes came to share is exempt, no other one suffers from it.    *)
(***************************************************************************)
EXTENDS SessionLock, SequenceTheorems, TLAPS

(***************************************************************************)
(* The strengthening.  A process that is gone or on its way out works on   *)
(* no session and claims no lock; one that works has a session row, and no *)
(* two work on the same unshared one; the lock row is never older than the *)
(* claim of the process that wrote it.  So neither create's age test nor   *)
(* _release_lock's id test can hit the lock of an unshared scan whose      *)
(* claim is younger than TTL.                                              *)
(***************************************************************************)
SessInv ==
  \A p \in Procs :
    /\ IF pc[p] \in {"off", "other", "exiting"} THEN sess[p] = 0 ELSE sess[p] \in Ids
    /\ pc[p] \in {"off", "other", "exiting", "found"} => since[p] = TTL

DistinctInv ==
  \A p, q \in Procs : sess[p] # 0 /\ sess[p] = sess[q] /\ Unshared(p) => p = q

ClaimInv ==
  \A p \in Procs : Scanning(p) /\ Unshared(p) /\ since[p] < TTL =>
    /\ lock \in Lock
    /\ lock.pid = p /\ lock.session_id = sess[p]
    /\ lock.age <= since[p]

IInv == TypeOK /\ SessInv /\ DistinctInv /\ ClaimInv

USE TTLAssumption

\* A lock row is not the absence of one.
LEMMA NoLockNotLock == NoLock \notin Lock
  BY DEF NoLock, Lock

\* Writing a row of a session table leaves a table of the same length.
LEMMA UpdateRow ==
  ASSUME NEW s \in Seq(Session), NEW i \in DOMAIN s, NEW r \in Session
  PROVE  [s EXCEPT ![i] = r] \in Seq(Session) /\ DOMAIN [s EXCEPT ![i] = r] = DOMAIN s
  BY ExceptSeq DEF Session

LEMMA InitInv == Init => IInv
  BY DEF Init, IInv, TypeOK, SessInv, DistinctInv, ClaimInv, Scanning, NoLock, Ids

-----------------------------------------------------------------------------
(* One lemma per step *)

LEMMA CreateStep ==
  ASSUME IInv, NEW p \in Procs, Create(p)
  PROVE  IInv'
<1> DEFINE id == Len(sessions) + 1
           row == [status |-> "running", stage |-> "scanning"]
<1>1. id \in Nat \ {0} /\ row \in Session /\ sessions \in Seq(Session)
  BY DEF IInv, TypeOK, Session
<1>2. /\ sessions' \in Seq(Session)
      /\ Ids' = Ids \cup {id} /\ id \notin Ids
  BY <1>1, AppendProperties DEF Create, Ids
<1>3. /\ lock' = [session_id |-> id, pid |-> p, age |-> 0]
      /\ lock' \in Lock
  BY <1>1 DEF Create, LockRow, Lock
<1>4. TypeOK'
  BY <1>1, <1>2, <1>3 DEF IInv, TypeOK, Create
<1>5. \A q \in Procs : sess[q] # id
  BY <1>1, <1>2 DEF IInv, SessInv
<1>6. SessInv'
  BY <1>1, <1>2 DEF IInv, TypeOK, SessInv, Create
<1>7. DistinctInv'
  BY <1>5 DEF IInv, TypeOK, DistinctInv, Create, Unshared
<1>8. ClaimInv'
  <2> SUFFICES ASSUME NEW q \in Procs, Scanning(q)', Unshared(q)', (since[q] < TTL)'
               PROVE  /\ lock' \in Lock
                      /\ lock'.pid = q /\ lock'.session_id = sess'[q]
                      /\ lock'.age <= since'[q]
    BY DEF ClaimInv
  <2>1. CASE q = p
    BY <2>1, <1>3 DEF IInv, TypeOK, Create
  <2>2. CASE q # p
    <3>1. Scanning(q) /\ Unshared(q) /\ since[q] < TTL
      BY <2>2 DEF IInv, TypeOK, Create, Scanning, Unshared
    <3>2. lock \in Lock /\ lock.pid = q /\ lock.age <= since[q]
      BY <3>1 DEF IInv, ClaimInv
    <3>3. lock.age \in Nat /\ since[q] \in Nat /\ TTL \in Nat
      BY <3>2 DEF IInv, TypeOK, Lock
    <3>4. Alive(lock.pid) /\ ~(lock.age >= TTL)
      BY <3>1, <3>2, <3>3 DEF Alive, Scanning
    <3> QED BY <3>2, <3>4, NoLockNotLock DEF Create, Claimable
  <2> QED BY <2>1, <2>2
<1> QED BY <1>4, <1>6, <1>7, <1>8 DEF IInv

LEMMA FindStep ==
  ASSUME IInv, NEW p \in Procs, FindResumable(p)
  PROVE  IInv'
<1>1. PICK i \in Unfinished :
        /\ sess' = [sess EXCEPT ![p] = i]
        /\ shared' = IF \E q \in Procs : sess[q] = i THEN shared \cup {i} ELSE shared
  BY DEF FindResumable
<1>2. i \in Ids /\ i \in Nat \ {0}
  BY <1>1 DEF Unfinished, Ids, IInv, TypeOK
<1>3. pc' = [pc EXCEPT ![p] = "found"] /\ UNCHANGED <<lock, sessions, since>>
  BY DEF FindResumable
<1>4. i \notin shared' => \A q \in Procs : sess[q] # i
  BY <1>1
<1>5. TypeOK' /\ shared \subseteq shared'
  BY <1>1, <1>2, <1>3 DEF IInv, TypeOK
<1>6. SessInv'
  <2>1. pc[p] = "off" /\ Ids' = Ids
    BY <1>3 DEF FindResumable, Ids
  <2>2. since'[p] = TTL
    BY <1>3, <2>1 DEF IInv, SessInv
  <2>3. /\ pc'[p] = "found" /\ sess'[p] = i
        /\ \A q \in Procs : q # p => pc'[q] = pc[q] /\ sess'[q] = sess[q] /\ since'[q] = since[q]
    BY <1>1, <1>3 DEF IInv, TypeOK
  <2> QED BY <1>2, <2>1, <2>2, <2>3 DEF IInv, SessInv
<1>7. DistinctInv'
  <2> SUFFICES ASSUME NEW a \in Procs, NEW b \in Procs,
                      sess'[a] # 0, sess'[a] = sess'[b], Unshared(a)'
               PROVE  a = b
    BY DEF DistinctInv
  <2>1. /\ sess'[p] = i
        /\ \A q \in Procs : q # p => sess'[q] = sess[q]
    BY <1>1 DEF IInv, TypeOK
  <2>2. sess'[a] \notin shared' /\ sess'[a] \notin shared
    BY <1>5 DEF Unshared
  <2>3. a = p \/ b = p => a = b
    BY <1>4, <2>1, <2>2
  <2> QED BY <2>1, <2>2, <2>3 DEF IInv, DistinctInv, Unshared
<1>8. ClaimInv'
  BY <1>1, <1>3, <1>5 DEF IInv, TypeOK, ClaimInv, Scanning, Unshared
<1> QED BY <1>5, <1>6, <1>7, <1>8 DEF IInv

\* A process that leaves takes its claim with it.
LEMMA LeaveStep ==
  ASSUME IInv, NEW p \in Procs, Leave(p), UNCHANGED <<lock, sessions, shared>>
  PROVE  IInv'
<1>1. TypeOK'
  BY DEF IInv, TypeOK, Leave
<1>2. SessInv' /\ DistinctInv'
  BY DEF IInv, TypeOK, SessInv, DistinctInv, Leave, Ids, Unshared
<1>3. ClaimInv'
  BY DEF IInv, TypeOK, ClaimInv, Scanning, Leave, Unshared
<1> QED BY <1>1, <1>2, <1>3 DEF IInv

LEMMA ReadStep ==
  ASSUME IInv, NEW p \in Procs, ReadStage(p)
  PROVE  IInv'
<1>1. CASE Leave(p)
  BY <1>1, LeaveStep DEF ReadStage
<1>2. CASE ~Leave(p)
  <2>1. PICK l \in {"scan", "partial", "full"} : pc' = [pc EXCEPT ![p] = l]
    BY <1>2 DEF ReadStage
  <2>2. UNCHANGED <<lock, sessions, sess, since, shared>> /\ pc[p] = "found"
    BY <1>2 DEF ReadStage
  <2>3. TypeOK' /\ SessInv'
    BY <2>1, <2>2 DEF IInv, TypeOK, SessInv, Ids
  <2>4. DistinctInv'
    BY <2>2 DEF IInv, DistinctInv, Unshared
  <2>5. since[p] = TTL
    BY <2>2 DEF IInv, SessInv
  <2>6. ClaimInv'
    BY <2>1, <2>2, <2>5 DEF IInv, TypeOK, ClaimInv, Scanning, Unshared
  <2> QED BY <2>3, <2>4, <2>6 DEF IInv
<1> QED BY <1>1, <1>2

\* A step that writes the row of its own session and moves one process on.
LEMMA RowStep ==
  ASSUME IInv, NEW p \in Procs, pc[p] \in {"found", "scan", "partial", "full", "release"},
         NEW r \in Session, NEW l \in {"partial", "full", "release"},
         l = "release" \/ pc[p] \in {"scan", "partial"},
         sessions' = [sessions EXCEPT ![sess[p]] = r],
         pc' = [pc EXCEPT ![p] = l],
         UNCHANGED <<lock, sess, since, shared>>
  PROVE  IInv'
<1>1. sess[p] \in DOMAIN sessions
  BY DEF IInv, SessInv, Ids
<1>2. sessions' \in Seq(Session) /\ Ids' = Ids
  BY <1>1, UpdateRow DEF IInv, TypeOK, Ids
<1>3. TypeOK'
  BY <1>2 DEF IInv, TypeOK
<1>4. SessInv'
  BY <1>2 DEF IInv, TypeOK, SessInv
<1>5. DistinctInv'
  BY DEF IInv, DistinctInv, Unshared
<1>6. ClaimInv'
  BY DEF IInv, TypeOK, ClaimInv, Scanning, Unshared
<1> QED BY <1>3, <1>4, <1>5, <1>6 DEF IInv

\* Writing one field of a row leaves a row.
LEMMA FieldUpdates ==
  ASSUME NEW row \in Session
  PROVE  /\ \A g \in {"partial_hashing", "full_hashing"} : [row EXCEPT !.stage = g] \in Session
         /\ [row EXCEPT !.status = "interrupted"] \in Session
  BY DEF Session

\* What the writes of the lifecycle methods have in common.
LEMMA Lifecycle ==
  ASSUME IInv, NEW p \in Procs,
         SetStage(p) \/ MarkInterrupted(p) \/ MarkComplete(p) \/ ReleaseFails(p)
  PROVE  \E r \in Session, l \in {"partial", "full", "release"} :
           /\ sessions' = [sessions EXCEPT ![sess[p]] = r]
           /\ pc' = [pc EXCEPT ![p] = l]
           /\ l = "partial" => pc[p] = "scan" /\ r = [sessions[sess[p]] EXCEPT !.stage = "partial_hashing"]
           /\ l = "full" => pc[p] = "partial" /\ r = [sessions[sess[p]] EXCEPT !.stage = "full_hashing"]
<1>1. pc[p] \in {"found", "scan", "partial", "full", "release"}
  BY DEF SetStage, MarkInterrupted, MarkComplete, ReleaseFails
<1>2. sessions \in Seq(Session) /\ sess[p] \in DOMAIN sessions
  BY <1>1 DEF IInv, TypeOK, SessInv, Ids
<1>3. sessions[sess[p]] \in Session
  BY <1>2, ElementOfSeq, LenProperties
<1>4. CASE SetStage(p)
  <2>1. PICK g \in {"partial_hashing", "full_hashing"} :
          /\ sessions' = [sessions EXCEPT ![sess[p]].stage = g]
          /\ g = "partial_hashing" => pc[p] = "scan" /\ pc' = [pc EXCEPT ![p] = "partial"]
          /\ g = "full_hashing" => pc[p] = "partial" /\ pc' = [pc EXCEPT ![p] = "full"]
    BY <1>4 DEF SetStage
  <2>2. [sessions[sess[p]] EXCEPT !.stage = g] \in Session
    BY <1>3, FieldUpdates
  <2>3. sessions' = [sessions EXCEPT ![sess[p]] = [sessions[sess[p]] EXCEPT !.stage = g]]
    BY <2>1
  <2>4. CASE g = "partial_hashing"
    BY <2>1, <2>2, <2>3, <2>4
  <2>5. CASE g = "full_hashing"
    BY <2>1, <2>2, <2>3, <2>5
  <2> QED BY <2>4, <2>5
<1>5. CASE MarkInterrupted(p) \/ ReleaseFails(p)
  <2>1. [sessions[sess[p]] EXCEPT !.status = "interrupted"] \in Session
    BY <1>3, FieldUpdates
  <2>2. sessions' = [sessions EXCEPT ![sess[p]] =
                       [sessions[sess[p]] EXCEPT !.status = "interrupted"]]
    BY <1>5 DEF MarkInterrupted, ReleaseFails
  <2>3. pc' = [pc EXCEPT ![p] = "release"]
    BY <1>5 DEF MarkInterrupted, ReleaseFails, IInv, TypeOK
  <2> QED BY <2>1, <2>2, <2>3
<1>6. CASE MarkComplete(p)
  <2>1. [status |-> "done", stage |-> "done"] \in Session
    BY DEF Session
  <2> QED BY <1>6, <2>1 DEF MarkComplete
<1> QED BY <1>4, <1>5, <1>6

LEMMA LifecycleStep ==
  ASSUME IInv, NEW p \in Procs,
         SetStage(p) \/ MarkInterrupted(p) \/ MarkComplete(p) \/ ReleaseFails(p)
  PROVE  IInv'
<1>1. /\ pc[p] \in {"found", "scan", "partial", "full", "release"}
      /\ UNCHANGED <<lock, sess, since, shared>>
  BY DEF SetStage, MarkInterrupted, MarkComplete, ReleaseFails
<1>2. PICK r \in Session, l \in {"partial", "full", "release"} :
        /\ sessions' = [sessions EXCEPT ![sess[p]] = r]
        /\ pc' = [pc EXCEPT ![p] = l]
        /\ l = "release" \/ pc[p] \in {"scan", "partial"}
  BY Lifecycle
<1> QED BY <1>1, <1>2, RowStep

LEMMA ReleaseStep ==
  ASSUME IInv, NEW p \in Procs, ReleaseLock(p)
  PROVE  IInv'
<1>1. /\ Leave(p) /\ UNCHANGED <<sessions, shared>> /\ pc[p] = "release"
      /\ lock' = IF lock.session_id = sess[p] THEN NoLock ELSE lock
  BY DEF ReleaseLock
<1>2. TypeOK' /\ SessInv' /\ DistinctInv'
  BY <1>1 DEF IInv, TypeOK, SessInv, DistinctInv, Leave, Ids, Unshared
<1>3. ClaimInv'
  <2> SUFFICES ASSUME NEW q \in Procs, Scanning(q)', Unshared(q)', (since[q] < TTL)'
               PROVE  /\ lock' \in Lock
                      /\ lock'.pid = q /\ lock'.session_id = sess'[q]
                      /\ lock'.age <= since'[q]
    BY DEF ClaimInv
  <2>1. q # p /\ Scanning(q) /\ Unshared(q) /\ sess'[q] = sess[q] /\ since'[q] = since[q]
    BY <1>1 DEF IInv, TypeOK, Scanning, Unshared, Leave
  <2>2. lock \in Lock /\ lock.pid = q /\ lock.session_id = sess[q] /\ lock.age <= since[q]
    BY <2>1 DEF IInv, ClaimInv
  <2>3. sess[q] # sess[p]
    BY <2>1, <2>2 DEF IInv, DistinctInv, Lock
  <2> QED BY <1>1, <2>1, <2>2, <2>3
<1> QED BY <1>2, <1>3 DEF IInv

LEMMA ProcessStep ==
  ASSUME IInv, NEW p \in Procs, Exit(p) \/ ReusePid(p)
  PROVE  IInv'
<1>1. TypeOK'
  <2>1. CASE Exit(p)
    BY <2>1 DEF IInv, TypeOK, Exit
  <2>2. CASE ReusePid(p)
    BY <2>2 DEF IInv, TypeOK, ReusePid
  <2> QED BY <2>1, <2>2
<1>2. SessInv' /\ DistinctInv'
  <2>1. CASE Exit(p)
    BY <2>1 DEF IInv, TypeOK, SessInv, DistinctInv, Exit, Ids, Unshared
  <2>2. CASE ReusePid(p)
    BY <2>2 DEF IInv, TypeOK, SessInv, DistinctInv, ReusePid, Ids, Unshared
  <2> QED BY <2>1, <2>2
<1>3. ClaimInv'
  BY DEF IInv, TypeOK, ClaimInv, Scanning, Exit, ReusePid, Unshared
<1> QED BY <1>1, <1>2, <1>3 DEF IInv

LEMMA TickStep ==
  ASSUME IInv, Tick
  PROVE  IInv'
<1>1. \A a \in 0..TTL : Older(a) \in 0..TTL /\ (Older(a) < TTL => Older(a) = a + 1)
  BY DEF Older
<1>2. /\ lock \in Lock => lock' \in Lock /\ lock' = [lock EXCEPT !.age = Older(@)]
      /\ lock = NoLock => lock' = NoLock
  BY <1>1, NoLockNotLock DEF Tick, Lock
<1>3. TypeOK' /\ SessInv' /\ DistinctInv'
  BY <1>1, <1>2 DEF IInv, TypeOK, SessInv, DistinctInv, Tick, Older, Ids, Unshared
<1>4. ClaimInv'
  <2> SUFFICES ASSUME NEW q \in Procs, Scanning(q)', Unshared(q)', (since[q] < TTL)'
               PROVE  /\ lock' \in Lock
                      /\ lock'.pid = q /\ lock'.session_id = sess'[q]
                      /\ lock'.age <= since'[q]
    BY DEF ClaimInv
  <2>1. Scanning(q) /\ Unshared(q) /\ since[q] \in 0..TTL /\ since'[q] = Older(since[q])
    BY DEF IInv, TypeOK, Tick, Scanning, Unshared
  <2>2. since[q] < TTL /\ since'[q] = since[q] + 1
    BY <1>1, <2>1 DEF Older
  <2>3. lock \in Lock /\ lock.pid = q /\ lock.session_id = sess[q] /\ lock.age <= since[q]
    BY <2>1, <2>2 DEF IInv, ClaimInv
  <2>4. lock.age \in 0..TTL /\ Older(lock.age) <= lock.age + 1
    BY <2>3 DEF Lock, Older
  <2>5. lock'.age = Older(lock.age) /\ lock'.pid = lock.pid /\ lock'.session_id = lock.session_id
    BY <1>2, <2>3 DEF Lock
  <2>6. Older(lock.age) <= since[q] + 1
    BY <2>1, <2>3, <2>4 DEF Older
  <2>7. sess' = sess
    BY DEF Tick
  <2> QED BY <1>2, <2>2, <2>3, <2>5, <2>6, <2>7
<1> QED BY <1>3, <1>4 DEF IInv

-----------------------------------------------------------------------------
(* The theorems *)

\* What one process may do.
Step(p) ==
  \/ Create(p) \/ FindResumable(p) \/ ReadStage(p) \/ SetStage(p) \/ MarkInterrupted(p)
  \/ MarkComplete(p) \/ ReleaseFails(p) \/ ReleaseLock(p) \/ Exit(p) \/ ReusePid(p)

LEMMA StepInv ==
  ASSUME IInv, [Next]_vars
  PROVE  IInv'
<1>1. CASE UNCHANGED vars
  BY <1>1 DEF vars, IInv, TypeOK, SessInv, DistinctInv, ClaimInv, Scanning, Ids, Unshared
<1>2. CASE Tick
  BY <1>2, TickStep
<1>3. ASSUME NEW p \in Procs, Step(p) PROVE IInv'
  BY <1>3, CreateStep, FindStep, ReadStep, LifecycleStep, ReleaseStep, ProcessStep DEF Step
<1> QED BY <1>1, <1>2, <1>3 DEF Next, Step

(* The strengthening is an invariant: every variable keeps its type, live     *)
(* processes keep their unshared sessions apart and young claims the lock.    *)
THEOREM Inductive == Spec => []IInv
<1>1. IInv /\ [Next]_vars => IInv'
  BY StepInv
<1> QED BY InitInv, <1>1, PTL DEF Spec

-----------------------------------------------------------------------------
(* The row of a session follows its process *)

(***************************************************************************)
(* The row of an unshared session follows its process from the moment      *)
(* find_resumable has found it.                                            *)
(***************************************************************************)
RowInv ==
  \A p \in Procs : Unshared(p) =>
    /\ pc[p] = "found" => sessions[sess[p]].status = "running"
    /\ Scanning(p) => /\ sessions[sess[p]].status = "running"
                      /\ sessions[sess[p]].stage = StageOf[pc[p]]

LEMMA InitRow == Init => RowInv
  BY DEF Init, RowInv, Scanning

\* The row of a process at work, and that no other process has it unshared.
LEMMA OwnRow ==
  ASSUME IInv, NEW p \in Procs, pc[p] \notin {"off", "other", "exiting"}
  PROVE  /\ sess[p] \in Ids /\ sess[p] # 0
         /\ sessions[sess[p]] \in Session
         /\ \A q \in Procs : q # p /\ Unshared(q) => sess[q] # sess[p]
<1>1. sess[p] \in Ids /\ sessions \in Seq(Session)
  BY DEF IInv, TypeOK, SessInv
<1>2. sess[p] # 0 /\ sessions[sess[p]] \in Session
  BY <1>1, ElementOfSeq, LenProperties DEF Ids
<1> QED BY <1>1, <1>2 DEF IInv, DistinctInv

\* A step that leaves a process and the row of its session alone keeps them together.
LEMMA RowFrame ==
  ASSUME RowInv, NEW q \in Procs, Unshared(q)',
         pc'[q] = pc[q], sess'[q] = sess[q], shared \subseteq shared',
         pc[q] \notin {"off", "other", "exiting", "release"} =>
           sessions'[sess[q]] = sessions[sess[q]]
  PROVE  /\ pc'[q] = "found" => sessions'[sess'[q]].status = "running"
         /\ Scanning(q)' => /\ sessions'[sess'[q]].status = "running"
                            /\ sessions'[sess'[q]].stage = StageOf[pc'[q]]
<1>1. Unshared(q)
  BY DEF Unshared
<1> QED BY <1>1 DEF RowInv, Scanning

\* A new row is a running one, and the rows before it are as they were.
LEMMA CreateRow ==
  ASSUME IInv, RowInv, NEW p \in Procs, Create(p)
  PROVE  RowInv'
<1> DEFINE row == [status |-> "running", stage |-> "scanning"]
<1>1. row \in Session /\ sessions \in Seq(Session) /\ sessions' = Append(sessions, row)
  BY DEF Session, IInv, TypeOK, Create
<1>2. /\ \A i \in Ids : sessions'[i] = sessions[i]
      /\ sessions'[Len(sessions) + 1] = row
  <2> HIDE DEF row
  <2> QED BY <1>1, AppendProperties, LenProperties DEF Ids
<1> SUFFICES ASSUME NEW q \in Procs, Unshared(q)'
             PROVE  /\ pc'[q] = "found" => sessions'[sess'[q]].status = "running"
                    /\ Scanning(q)' => /\ sessions'[sess'[q]].status = "running"
                                       /\ sessions'[sess'[q]].stage = StageOf[pc'[q]]
  BY DEF RowInv
<1>3. CASE q = p
  BY <1>2, <1>3 DEF Create, IInv, TypeOK, StageOf
<1>4. CASE q # p
  <2>1. pc'[q] = pc[q] /\ sess'[q] = sess[q] /\ shared' = shared
    BY <1>4 DEF Create, IInv, TypeOK
  <2>2. pc[q] \notin {"off", "other", "exiting", "release"} =>
          sessions'[sess[q]] = sessions[sess[q]]
    BY <1>2, OwnRow
  <2> QED BY <2>1, <2>2, RowFrame
<1> QED BY <1>3, <1>4

\* A process that writes a row writes the one of its session, and goes on only
\* with the stage it has written.
LEMMA LifecycleRow ==
  ASSUME IInv, RowInv, NEW p \in Procs,
         SetStage(p) \/ MarkInterrupted(p) \/ MarkComplete(p) \/ ReleaseFails(p)
  PROVE  RowInv'
<1>1. /\ pc[p] \notin {"off", "other", "exiting"}
      /\ UNCHANGED <<lock, sess, since, shared>>
  BY DEF SetStage, MarkInterrupted, MarkComplete, ReleaseFails
<1>2. PICK r \in Session, l \in {"partial", "full", "release"} :
        /\ sessions' = [sessions EXCEPT ![sess[p]] = r]
        /\ pc' = [pc EXCEPT ![p] = l]
        /\ l = "partial" => pc[p] = "scan" /\ r = [sessions[sess[p]] EXCEPT !.stage = "partial_hashing"]
        /\ l = "full" => pc[p] = "partial" /\ r = [sessions[sess[p]] EXCEPT !.stage = "full_hashing"]
  BY Lifecycle
<1>3. /\ sess[p] \in Ids /\ sessions[sess[p]] \in Session
      /\ \A q \in Procs : q # p /\ Unshared(q) => sess[q] # sess[p]
  BY <1>1, OwnRow
<1>4. sessions'[sess[p]] = r /\ \A i \in Ids : i # sess[p] => sessions'[i] = sessions[i]
  BY <1>2, <1>3 DEF Ids
<1> SUFFICES ASSUME NEW q \in Procs, Unshared(q)'
             PROVE  /\ pc'[q] = "found" => sessions'[sess'[q]].status = "running"
                    /\ Scanning(q)' => /\ sessions'[sess'[q]].status = "running"
                                       /\ sessions'[sess'[q]].stage = StageOf[pc'[q]]
  BY DEF RowInv
<1>5. CASE q = p
  <2>1. pc'[p] = l /\ sess'[p] = sess[p] /\ Unshared(p)
    BY <1>1, <1>2, <1>5 DEF IInv, TypeOK, Unshared
  <2>2. l \in {"partial", "full"} => sessions[sess[p]].status = "running"
    BY <1>2, <2>1 DEF RowInv, Scanning
  <2>3. l = "partial" => r.status = "running" /\ r.stage = "partial_hashing"
    BY <1>2, <1>3, <2>2 DEF Session
  <2>4. l = "full" => r.status = "running" /\ r.stage = "full_hashing"
    BY <1>2, <1>3, <2>2 DEF Session
  <2> QED BY <1>4, <1>5, <2>1, <2>3, <2>4 DEF Scanning, StageOf
<1>6. CASE q # p
  <2>1. pc'[q] = pc[q] /\ sess'[q] = sess[q] /\ Unshared(q)
    BY <1>1, <1>2, <1>6 DEF IInv, TypeOK, Unshared
  <2>2. pc[q] \notin {"off", "other", "exiting", "release"} =>
          sessions'[sess[q]] = sessions[sess[q]]
    BY <1>3, <1>4, <1>6, <2>1, OwnRow
  <2> QED BY <1>1, <2>1, <2>2, RowFrame
<1> QED BY <1>5, <1>6

\* A process that finds or takes up a session reads from the row where to go on.
LEMMA ResumeRow ==
  ASSUME IInv, RowInv, NEW p \in Procs, FindResumable(p) \/ ReadStage(p)
  PROVE  RowInv'
<1>1. sessions' = sessions /\ shared \subseteq shared'
  BY DEF FindResumable, ReadStage
<1>2. \A q \in Procs : q # p => pc'[q] = pc[q] /\ sess'[q] = sess[q]
  BY DEF FindResumable, ReadStage, Leave, IInv, TypeOK
<1> SUFFICES ASSUME NEW q \in Procs, Unshared(q)'
             PROVE  /\ pc'[q] = "found" => sessions'[sess'[q]].status = "running"
                    /\ Scanning(q)' => /\ sessions'[sess'[q]].status = "running"
                                       /\ sessions'[sess'[q]].stage = StageOf[pc'[q]]
  BY DEF RowInv
<1>3. CASE q # p
  BY <1>1, <1>2, <1>3, RowFrame
<1>4. CASE q = p /\ FindResumable(p)
  <2>1. PICK i \in Unfinished : sess' = [sess EXCEPT ![p] = i]
    BY <1>4 DEF FindResumable
  <2>2. pc'[p] = "found" /\ sess'[p] = i
    BY <1>4, <2>1 DEF FindResumable, IInv, TypeOK
  <2> QED BY <1>1, <1>4, <2>1, <2>2 DEF Unfinished, Scanning
<1>5. CASE q = p /\ ReadStage(p)
  <2>1. CASE Leave(p)
    BY <1>5, <2>1 DEF Leave, IInv, TypeOK, Scanning
  <2>2. CASE ~Leave(p)
    <3>1. /\ UNCHANGED <<sess, shared>> /\ pc[p] = "found"
          /\ pc' = [pc EXCEPT ![p] = CASE sessions[sess[p]].stage = "scanning"        -> "scan"
                                       [] sessions[sess[p]].stage = "partial_hashing" -> "partial"
                                       [] OTHER                                       -> "full"]
          /\ sessions[sess[p]].stage # "done"
      BY <1>5, <2>2 DEF ReadStage
    <3>2. Unshared(p) /\ sessions[sess[p]].status = "running"
      BY <1>5, <3>1 DEF RowInv, Unshared
    <3>3. sessions[sess[p]].stage \in {"scanning", "partial_hashing", "full_hashing"}
      BY <3>1, OwnRow DEF Session
    <3>4. pc'[p] \in {"scan", "partial", "full"} /\ StageOf[pc'[p]] = sessions[sess[p]].stage
      BY <3>1, <3>3 DEF StageOf, IInv, TypeOK
    <3> QED BY <1>1, <1>5, <3>1, <3>2, <3>4
  <2> QED BY <2>1, <2>2
<1> QED BY <1>3, <1>4, <1>5

LEMMA RowStepInv ==
  ASSUME IInv, RowInv, [Next]_vars
  PROVE  RowInv'
<1>1. CASE UNCHANGED vars
  BY <1>1 DEF vars, RowInv, Scanning, Unshared
<1>2. CASE Tick
  BY <1>2 DEF Tick, RowInv, Scanning, Unshared
<1>3. ASSUME NEW p \in Procs, ReleaseLock(p) \/ Exit(p) \/ ReusePid(p)
      PROVE  RowInv'
  <2>1. /\ sessions' = sessions /\ shared' = shared
        /\ \A q \in Procs : pc'[q] \in {"found", "scan", "partial", "full"} =>
                             pc'[q] = pc[q] /\ sess'[q] = sess[q]
    BY <1>3 DEF ReleaseLock, Leave, Exit, ReusePid, IInv, TypeOK
  <2> QED BY <2>1 DEF RowInv, Scanning, Unshared
<1>4. ASSUME NEW p \in Procs, Step(p) PROVE RowInv'
  BY <1>3, <1>4, CreateRow, LifecycleRow, ResumeRow DEF Step
<1> QED BY <1>1, <1>2, <1>4 DEF Next, Step

(* The row of a session that no resume has shared tells the phase of the      *)
(* process that scans it, whatever other processes create, end, resume or     *)
(* lose: set_stage and the marks of another session's process never reach it. *)
THEOREM RowTheorem == Spec => []RowFollowsScan
<1>1. IInv /\ RowInv => RowFollowsScan
  <2> SUFFICES ASSUME IInv, RowInv, NEW p \in Procs, Scanning(p), Unshared(p)
               PROVE  sessions[sess[p]] = [status |-> "running", stage |-> StageOf[pc[p]]]
    BY DEF RowFollowsScan
  <2>1. sessions[sess[p]] \in Session
    BY OwnRow DEF Scanning
  <2> QED BY <2>1 DEF Session, RowInv
<1>2. IInv /\ RowInv /\ [Next]_vars => RowInv'
  BY RowStepInv
<1> QED BY InitRow, <1>1, <1>2, Inductive, PTL DEF Spec

-----------------------------------------------------------------------------
(* The lock *)

(* The lock row, the sessions and the processes keep their types.             *)
THEOREM LockTyped == Spec => []TypeOK
<1>1. IInv => TypeOK
  BY DEF IInv
<1> QED BY <1>1, Inductive, PTL

(* A scan that created its session less than TTL ago and shares it with none  *)
(* holds the lock, whatever the other processes of the database create,       *)
(* resume, finish or lose.                                                    *)
THEOREM HolderTheorem == Spec => []HolderKeepsLock
<1>1. IInv => HolderKeepsLock
  BY NoLockNotLock DEF IInv, ClaimInv, HolderKeepsLock
<1> QED BY <1>1, Inductive, PTL

(* No two scans of unshared sessions with claims younger than TTL overlap on  *)
(* a root.                                                                    *)
THEOREM ExclusionTheorem == Spec => []FreshScansExclusive
<1>1. IInv => FreshScansExclusive
  BY DEF IInv, ClaimInv, FreshScansExclusive
<1> QED BY <1>1, Inductive, PTL
=============================================================================
