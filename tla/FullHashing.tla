----------------------------- MODULE FullHashing -----------------------------
(***************************************************************************)
(* One call of run_full_hashing (workers.py) on one candidate group: the   *)
(* main thread, the processes of the pool, the BoundedExecutor semaphore   *)
(* and the LargeFileSemaphore that every call of the scan shares.          *)
(*                                                                         *)
(* The candidates are numbered in the order in which they are submitted.   *)
(* A future is what ProcessPoolExecutor keeps for a submitted file; its    *)
(* done callback runs after its result is visible, in another thread.      *)
(***************************************************************************)
EXTENDS Naturals, FiniteSets

CONSTANTS
  NumFiles,      \* the candidates of the group are 1..NumFiles
  Large,         \* those of at least LARGE_FILE_THRESHOLD bytes
  NumProcesses,  \* num_processes, the size of the pool
  MaxLarge,      \* max_concurrent of the LargeFileSemaphore
  PoolMayBreak   \* a pool process may be killed

Candidates == 1..NumFiles
MaxInflight == NumProcesses * 2

ASSUME CandidatesAssumption ==
  NumFiles \in Nat /\ Large \subseteq Candidates
ASSUME LimitAssumption == NumProcesses \in Nat \ {0} /\ MaxLarge \in Nat \ {0}
ASSUME BreakAssumption == PoolMayBreak \in BOOLEAN

VARIABLES
  pc,         \* the main thread
  at,         \* the candidate the main thread is at
  cached,     \* candidates whose full hash get_full_hash finds
  toHash,     \* the candidates that missed the cache
  future,     \* the state of each candidate's future
  called,     \* futures whose done callback has run
  permits,    \* free permits of the BoundedExecutor
  slots,      \* free slots of the LargeFileSemaphore
  acquired,   \* candidates that a large-file slot was acquired for
  collected,  \* futures as_completed has handed over
  results,    \* candidates with a digest in the returned list
  updates,    \* candidates given to HashCache.queue_update
  shutdown,   \* ShutdownFlag
  broken      \* the pool is a BrokenProcessPool

sems == <<permits, slots, acquired>>
out  == <<collected, results, updates>>
vars == <<pc, at, cached, toHash, future, called, sems, out, shutdown, broken>>

Init ==
  /\ pc = "split" /\ at = 1
  /\ cached \in SUBSET Candidates
  /\ toHash = {}
  /\ future = [f \in Candidates |-> "none"]
  /\ called = {}
  /\ permits = MaxInflight /\ slots = MaxLarge /\ acquired = {}
  /\ collected = {} /\ results = {} /\ updates = {}
  /\ shutdown = FALSE /\ broken = FALSE

Is(state)  == {f \in Candidates : future[f] = state}
Submitted  == Candidates \ Is("none")
Completed  == Is("digest") \cup Is("failed")
\* Submitted files whose permit has not come back.
InFlight   == Submitted \ called

-----------------------------------------------------------------------------
(* The main thread *)

\* Cache hits are results at once; the loop breaks when the flag is set.
Split ==
  /\ pc = "split" /\ at <= NumFiles /\ ~shutdown
  /\ at' = at + 1
  /\ IF at \in cached
     THEN results' = results \cup {at} /\ UNCHANGED toHash
     ELSE toHash' = toHash \cup {at} /\ UNCHANGED results
  /\ UNCHANGED <<pc, cached, future, called, sems, collected, updates, shutdown,
                 broken>>

SplitEnd ==
  /\ pc = "split"
  /\ at > NumFiles \/ shutdown
  /\ pc' = IF toHash = {} \/ shutdown THEN "done" ELSE "submit"
  /\ at' = 1
  /\ UNCHANGED <<cached, toHash, future, called, sems, out, shutdown, broken>>

Skip ==
  /\ pc = "submit" /\ at <= NumFiles /\ at \notin toHash
  /\ at' = at + 1
  /\ UNCHANGED <<pc, cached, toHash, future, called, sems, out, shutdown, broken>>

\* The submit loop breaks at the flag, which it looks at once per file.
CheckFlag ==
  /\ pc = "submit" /\ at \in toHash
  /\ pc' = IF shutdown THEN "collect" ELSE "acquire"
  /\ UNCHANGED <<at, cached, toHash, future, called, sems, out, shutdown, broken>>

\* Mutated form: the slot is not put down for release.
AcquireUntracked ==
  /\ pc = "acquire"
  /\ IF at \in Large THEN slots > 0 /\ slots' = slots - 1 ELSE UNCHANGED slots
  /\ pc' = "permit"
  /\ UNCHANGED <<at, cached, toHash, future, called, permits, acquired, out,
                 shutdown, broken>>

\* _lsem.acquire(size): waits for a slot when the file is large, flag or not.
AcquireSlot ==
  /\ pc = "acquire"
  /\ IF at \in Large
     THEN slots > 0 /\ slots' = slots - 1 /\ acquired' = acquired \cup {at}
     ELSE UNCHANGED <<slots, acquired>>
  /\ pc' = "permit"
  /\ UNCHANGED <<at, cached, toHash, future, called, permits, out, shutdown, broken>>

\* Mutated form: submits without waiting for a permit.
SubmitAtOnce ==
  /\ pc = "permit" /\ ~broken
  /\ permits' = IF permits > 0 THEN permits - 1 ELSE 0
  /\ future' = [future EXCEPT ![at] = "queued"]
  /\ at' = at + 1 /\ pc' = "submit"
  /\ UNCHANGED <<cached, toHash, called, slots, acquired, out, shutdown, broken>>

\* BoundedExecutor.submit: waits for a permit; a broken pool raises.
Submit ==
  /\ pc = "permit" /\ permits > 0
  /\ permits' = permits - 1
  /\ IF broken
     THEN pc' = "raised" /\ UNCHANGED <<at, future>>
     ELSE /\ future' = [future EXCEPT ![at] = "queued"]
          /\ at' = at + 1
          /\ pc' = "submit"
  /\ UNCHANGED <<cached, toHash, called, slots, acquired, out, shutdown, broken>>

SubmitEnd ==
  /\ pc = "submit" /\ at > NumFiles
  /\ pc' = "collect"
  /\ UNCHANGED <<at, cached, toHash, future, called, sems, out, shutdown, broken>>

\* as_completed hands over f: the slot goes back first; a result that comes
\* after the flag is dropped.
Collect(f) ==
  /\ pc = "collect" /\ f \in Completed \ collected
  /\ collected' = collected \cup {f}
  /\ slots' = IF f \in acquired THEN slots + 1 ELSE slots
  /\ acquired' = acquired \ {f}
  /\ IF future[f] = "digest" /\ ~shutdown
     THEN results' = results \cup {f} /\ updates' = updates \cup {f}
     ELSE UNCHANGED <<results, updates>>
  /\ UNCHANGED <<pc, at, cached, toHash, future, called, permits, shutdown, broken>>

\* Mutated form: the collecting loop is left early.
ReturnEarly ==
  /\ pc = "collect"
  /\ pc' = "done"
  /\ UNCHANGED <<at, cached, toHash, future, called, sems, out, shutdown, broken>>

\* The pool's __exit__ finds every future completed.
Return ==
  /\ pc = "collect" /\ collected = Submitted
  /\ pc' = "done"
  /\ UNCHANGED <<at, cached, toHash, future, called, sems, out, shutdown, broken>>

-----------------------------------------------------------------------------
(* The pool and its callbacks *)

\* A free process takes the oldest queued file.
Take(f) ==
  /\ future[f] = "queued"
  /\ \A g \in Is("queued") : f <= g
  /\ Cardinality(Is("running")) < NumProcesses
  /\ future' = [future EXCEPT ![f] = "running"]
  /\ UNCHANGED <<pc, at, cached, toHash, called, sems, out, shutdown, broken>>

\* hash_file_full returns a digest, or none after an I/O error.
Finish(f) ==
  /\ future[f] = "running"
  /\ \E r \in {"digest", "failed"} : future' = [future EXCEPT ![f] = r]
  /\ UNCHANGED <<pc, at, cached, toHash, called, sems, out, shutdown, broken>>

\* Mutated form: the permit comes back twice.
CallbackTwice(f) ==
  /\ f \in Completed \ called
  /\ called' = called \cup {f} /\ permits' = permits + 2
  /\ UNCHANGED <<pc, at, cached, toHash, future, slots, acquired, out, shutdown,
                 broken>>

\* The done callback of BoundedExecutor gives the permit back.
Callback(f) ==
  /\ f \in Completed \ called
  /\ called' = called \cup {f}
  /\ permits' = permits + 1
  /\ UNCHANGED <<pc, at, cached, toHash, future, slots, acquired, out, shutdown,
                 broken>>

\* A process dies: every unfinished future fails with BrokenProcessPool.
Break ==
  /\ PoolMayBreak /\ ~broken
  /\ Is("running") # {}
  /\ broken' = TRUE
  /\ future' = [f \in Candidates |->
                  IF future[f] \in {"queued", "running"} THEN "failed" ELSE future[f]]
  /\ UNCHANGED <<pc, at, cached, toHash, called, sems, out, shutdown>>

Signal ==
  /\ ~shutdown /\ pc \notin {"done", "raised"}
  /\ shutdown' = TRUE
  /\ UNCHANGED <<pc, at, cached, toHash, future, called, sems, out, broken>>

-----------------------------------------------------------------------------

Main == \/ Split \/ SplitEnd
        \/ Skip \/ CheckFlag \/ AcquireSlot \/ Submit \/ SubmitEnd
        \/ \E f \in Candidates : Collect(f)
        \/ Return

Next == \/ Main
        \/ \E f \in Candidates : Take(f) \/ Finish(f) \/ Callback(f)
        \/ Break \/ Signal

Spec == Init /\ [][Next]_vars

-----------------------------------------------------------------------------
(* Properties *)

Ended == pc \in {"done", "raised"}

(* Every variable has the type its declaration gives. *)
TypeOK ==
  /\ pc \in {"split", "submit", "acquire", "permit", "collect", "done", "raised"}
  /\ at \in 1..(NumFiles + 1)
  /\ cached \subseteq Candidates /\ toHash \subseteq Candidates
  /\ future \in [Candidates -> {"none", "queued", "running", "digest", "failed"}]
  /\ called \subseteq Candidates /\ acquired \subseteq Candidates
  /\ permits \in 0..MaxInflight /\ slots \in 0..MaxLarge
  /\ collected \subseteq Candidates /\ results \subseteq Candidates
  /\ updates \subseteq Candidates
  /\ shutdown \in BOOLEAN /\ broken \in BOOLEAN

(* No more than 2 * num_processes futures are pending, and a permit is free or *)
(* belongs to one of them; the submit that raises on a broken pool is the only *)
(* one that keeps its permit (BoundedExecutor).                                *)
InflightBounded ==
  /\ Cardinality(InFlight) <= MaxInflight
  /\ permits + Cardinality(InFlight) =
       IF pc = "raised" THEN MaxInflight - 1 ELSE MaxInflight

\* Large files between their acquire and the turn of the collecting loop that is
\* theirs, which a call that raises never reaches.
OutForLarge ==
  Large \cap ((Submitted \ collected) \cup (IF pc \in {"permit", "raised"} THEN {at} ELSE {}))

(* Past the cache lookups, a slot is free or out for one large file that is    *)
(* submitted and not yet collected or is being submitted, so that no more than *)
(* max_concurrent of them are queued or read; a call that returns has given    *)
(* every slot back, and one that raises takes with it those of the files it    *)
(* has submitted (LargeFileSemaphore, shared by the calls of a scan).          *)
LargeSlotsKept ==
  /\ pc # "split" => slots + Cardinality(OutForLarge) = MaxLarge
  /\ pc = "done" => slots = MaxLarge

(* A file that the pool hashed is in the returned list and in the batch of the *)
(* cache when the call returns, unless the flag was set.  A call that raises   *)
(* because the pool broke drops every digest: none of them is in the batch.    *)
DigestsReturned ==
  /\ pc = "done" /\ ~shutdown => /\ Is("digest") = updates
                                /\ results = updates \cup cached
  /\ pc = "raised" => updates = {}

(* The submit loop waits for a slot only while max_concurrent large files are  *)
(* still being hashed.                                                         *)
WaitsForOpenFilesOnly ==
  pc = "acquire" /\ at \in Large /\ slots = 0 =>
    \E f \in acquired : future[f] \in {"queued", "running"}
=============================================================================
