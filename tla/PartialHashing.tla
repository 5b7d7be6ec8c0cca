--------------------------- MODULE PartialHashing ---------------------------
(***************************************************************************)
(* One call of run_partial_hashing (workers.py) on the files of one size:  *)
(* the main thread, the threads of the pool, the semaphore that caps open  *)
(* files and the LargeFileSemaphore, which outlives the call.              *)
(*                                                                         *)
(* A task is _work on one candidate.  Candidates are numbered in the order *)
(* in which they are submitted.                                            *)
(***************************************************************************)
EXTENDS Naturals, FiniteSets

CONSTANTS
  NumFiles,    \* the candidates are 1..NumFiles
  Large,       \* those of at least LARGE_FILE_THRESHOLD bytes
  NumThreads,  \* num_threads, the size of the pool
  MaxFd,       \* _MAX_FD
  MaxLarge     \* max_concurrent of the LargeFileSemaphore

Candidates == 1..NumFiles

\* What the module that instantiates this one assumes of the constants.
Parameters ==
  /\ NumFiles \in Nat /\ Large \subseteq Candidates
  /\ NumThreads \in Nat \ {0} /\ MaxFd \in Nat \ {0} /\ MaxLarge \in Nat \ {0}

VARIABLES
  main,       \* the main thread
  task,       \* where the task of each candidate is
  digest,     \* candidates whose local `digest` is not None
  cached,     \* candidates whose partial hash get_partial_hash finds
  fds,        \* free permits of fd_sem
  slots,      \* free slots of the LargeFileSemaphore
  collected,  \* futures as_completed has handed over
  results,    \* candidates in the returned list
  updates,    \* candidates given to HashCache.queue_update
  shutdown    \* ShutdownFlag

out  == <<collected, results>>
vars == <<main, task, digest, cached, fds, slots, out, updates, shutdown>>

TaskStates == {"none", "queued", "lookup", "fd", "slot", "read", "unslot", "unfd",
               "store", "hashed", "nothing"}

Idle ==
  /\ main = "submit"
  /\ task = [f \in Candidates |-> "none"]
  /\ digest = {} /\ collected = {} /\ results = {} /\ updates = {}
  /\ fds = MaxFd

Init ==
  /\ Idle
  /\ cached \in SUBSET Candidates
  /\ slots = MaxLarge
  /\ shutdown = FALSE

At(S)     == {f \in Candidates : task[f] \in S}
Ended     == At({"hashed", "nothing"})
InPool    == Candidates \ At({"none", "queued", "hashed", "nothing"})
HoldFd    == At({"slot", "read", "unslot", "unfd"})
HoldSlot  == Large \cap At({"read", "unslot"})

Go(f, place) == task' = [task EXCEPT ![f] = place]

-----------------------------------------------------------------------------
(* _work, on a thread of the pool *)

\* A free thread takes the oldest task, which looks at the flag first.
Begin(f) ==
  /\ task[f] = "queued"
  /\ \A g \in At({"queued"}) : f <= g
  /\ Cardinality(InPool) < NumThreads
  /\ Go(f, IF shutdown THEN "nothing" ELSE "lookup")
  /\ UNCHANGED <<main, digest, cached, fds, slots, out, updates, shutdown>>

Lookup(f) ==
  /\ task[f] = "lookup"
  /\ Go(f, IF f \in cached THEN "hashed" ELSE "fd")
  /\ UNCHANGED <<main, digest, cached, fds, slots, out, updates, shutdown>>

\* Mutated form: opens a file without a permit.
OpenAtOnce(f) ==
  /\ task[f] = "fd"
  /\ fds' = IF fds > 0 THEN fds - 1 ELSE 0
  /\ Go(f, "slot")
  /\ UNCHANGED <<main, digest, cached, slots, out, updates, shutdown>>

AcquireFd(f) ==
  /\ task[f] = "fd" /\ fds > 0
  /\ fds' = fds - 1
  /\ Go(f, "slot")
  /\ UNCHANGED <<main, digest, cached, slots, out, updates, shutdown>>

\* _lsem.acquire(fi.size)
AcquireSlot(f) ==
  /\ task[f] = "slot"
  /\ IF f \in Large THEN slots > 0 /\ slots' = slots - 1 ELSE UNCHANGED slots
  /\ Go(f, "read")
  /\ UNCHANGED <<main, digest, cached, fds, out, updates, shutdown>>

\* Mutated form: a failed read leaves without passing the finally block.
ReadOrLeave(f) ==
  /\ task[f] = "read"
  /\ \/ digest' = digest \cup {f} /\ Go(f, "unslot")
     \/ UNCHANGED digest /\ Go(f, "store")
  /\ UNCHANGED <<main, cached, fds, slots, out, updates, shutdown>>

\* hash_file_partial returns a digest or None, or raises: then digest is None.
Read(f) ==
  /\ task[f] = "read"
  /\ Go(f, "unslot")
  /\ digest' \in {digest, digest \cup {f}}
  /\ UNCHANGED <<main, cached, fds, slots, out, updates, shutdown>>

\* The finally block: the slot, then the permit.
ReleaseSlot(f) ==
  /\ task[f] = "unslot"
  /\ slots' = IF f \in Large THEN slots + 1 ELSE slots
  /\ Go(f, "unfd")
  /\ UNCHANGED <<main, digest, cached, fds, out, updates, shutdown>>

ReleaseFd(f) ==
  /\ task[f] = "unfd"
  /\ fds' = fds + 1
  /\ Go(f, "store")
  /\ UNCHANGED <<main, digest, cached, slots, out, updates, shutdown>>

\* Mutated form: the digest is returned and not queued.
StoreNowhere(f) ==
  /\ task[f] = "store"
  /\ Go(f, IF f \in digest THEN "hashed" ELSE "nothing")
  /\ UNCHANGED <<main, digest, cached, fds, slots, out, updates, shutdown>>

Store(f) ==
  /\ task[f] = "store"
  /\ IF f \in digest
     THEN updates' = updates \cup {f} /\ Go(f, "hashed")
     ELSE UNCHANGED updates /\ Go(f, "nothing")
  /\ UNCHANGED <<main, digest, cached, fds, slots, out, shutdown>>

Work(f) ==
  \/ Begin(f) \/ Lookup(f) \/ AcquireFd(f) \/ AcquireSlot(f) \/ Read(f)
  \/ ReleaseSlot(f) \/ ReleaseFd(f) \/ Store(f)

-----------------------------------------------------------------------------
(* The main thread *)

\* Every candidate is submitted, whatever the flag says.
Submit(f) ==
  /\ main = "submit" /\ task[f] = "none"
  /\ \A g \in At({"none"}) : f <= g
  /\ Go(f, "queued")
  /\ UNCHANGED <<main, digest, cached, fds, slots, out, updates, shutdown>>

SubmitEnd ==
  /\ main = "submit" /\ At({"none"}) = {}
  /\ main' = "collect"
  /\ UNCHANGED <<task, digest, cached, fds, slots, out, updates, shutdown>>

\* as_completed hands over f; the loop is left at the flag.
Collect(f) ==
  /\ main = "collect" /\ f \in Ended \ collected
  /\ IF shutdown
     THEN main' = "exit" /\ UNCHANGED out
     ELSE /\ collected' = collected \cup {f}
          /\ results' = IF task[f] = "hashed" THEN results \cup {f} ELSE results
          /\ UNCHANGED main
  /\ UNCHANGED <<task, digest, cached, fds, slots, updates, shutdown>>

CollectEnd ==
  /\ main = "collect" /\ collected = Candidates
  /\ main' = "exit"
  /\ UNCHANGED <<task, digest, cached, fds, slots, out, updates, shutdown>>

\* __exit__ of the pool waits for every task, queued ones included.
Return ==
  /\ main = "exit" /\ Ended = Candidates
  /\ main' = "returned"
  /\ UNCHANGED <<task, digest, cached, fds, slots, out, updates, shutdown>>

Main == \/ \E f \in Candidates : Submit(f) \/ Collect(f)
        \/ SubmitEnd \/ CollectEnd \/ Return

Signal ==
  /\ ~shutdown /\ main # "returned"
  /\ shutdown' = TRUE
  /\ UNCHANGED <<main, task, digest, cached, fds, slots, out, updates>>

Next == Main \/ (\E f \in Candidates : Work(f)) \/ Signal

Spec == Init /\ [][Next]_vars

-----------------------------------------------------------------------------
(* Properties *)

(* Every variable has the type its declaration gives. *)
TypeOK ==
  /\ main \in {"submit", "collect", "exit", "returned"}
  /\ task \in [Candidates -> TaskStates]
  /\ digest \subseteq Candidates /\ cached \subseteq Candidates
  /\ fds \in 0..MaxFd /\ slots \in 0..MaxLarge
  /\ collected \subseteq Candidates /\ results \subseteq Candidates
  /\ updates \subseteq Candidates /\ shutdown \in BOOLEAN

(* No more than _MAX_FD files are open and no more than max_concurrent large   *)
(* ones; a permit or slot is free or with a task that opens a file, and all of *)
(* them are free when the call returns, whatever the reads did and whenever    *)
(* the flag was set (fd_sem and _lsem of _work).                               *)
OpenFilesBounded ==
  /\ fds + Cardinality(HoldFd) = MaxFd
  /\ slots + Cardinality(HoldSlot) = MaxLarge
  /\ main = "returned" => fds = MaxFd /\ slots = MaxLarge

(* The returned list is right about the cache: whatever the order of tasks and *)
(* signals, a returned digest is a row or queued as one, so the JOIN of the    *)
(* next phase can find the file; and only the flag makes a digest go missing   *)
(* from the list, which the caller takes for a read error.                     *)
ReturnedAreCached ==
  main = "returned" =>
    /\ results \subseteq cached \cup updates
    /\ ~shutdown => results = At({"hashed"})
=============================================================================
