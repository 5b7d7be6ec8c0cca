----------------------------- MODULE SessionLock -----------------------------
(***************************************************************************)
(* The scan processes that share one database and one root: the advisory   *)
(* lock row of session_locks, the scan_sessions rows, and the factory and  *)
(* lifecycle methods of ScanSession (checkpoint.py), called in the order   *)
(* the scan command (cli.py) and run_pipeline call them.                   *)
(*                                                                         *)
(* Each SQLite transaction is one step.  Time is the age of a row, counted *)
(* up to TTL (the 7200 seconds of create) and no further: nothing tells    *)
(* larger ages apart.  The database of one root suffices, since root_path  *)
(* is the key of the lock and a condition of every query.                  *)
(***************************************************************************)
EXTENDS Naturals, FiniteSets, Sequences

CONSTANTS
  Procs,        \* process ids; one that has exited may be used again
  TTL,          \* age at which the lock of a live process is taken over
  MaxSessions   \* bound on the sessions created in this instance

ASSUME TTLAssumption == TTL \in Nat \ {0}
ASSUME SessionsAssumption == MaxSessions \in Nat

VARIABLES
  lock,      \* the lock row: none, or one of session_id, pid and age
  sessions,  \* scan_sessions by id: status and stage
  pc,        \* what each process does
  sess,      \* the session each process works on, 0 for none
  since,     \* time since each process at work wrote the lock row in create, TTL
             \* when it never did or when the row may be taken over by its age
  shared     \* history: sessions that a resume took up beside a live process

vars == <<lock, sessions, pc, sess, since, shared>>

NoLock == [session_id |-> 0]
Lock   == [session_id : Nat \ {0}, pid : Procs, age : 0..TTL]

Session == [status : {"running", "interrupted", "done"},
            stage  : {"scanning", "partial_hashing", "full_hashing", "done"}]
Ids == DOMAIN sessions

Init ==
  /\ lock = NoLock
  /\ sessions = <<>>
  /\ pc = [p \in Procs |-> "off"]
  /\ sess = [p \in Procs |-> 0]
  /\ since = [p \in Procs |-> TTL]
  /\ shared = {}

-----------------------------------------------------------------------------

\* _pid_alive: the pid belongs to some process, of dupkiller or not.
Alive(p) == pc[p] # "off"

\* Mutated forms: the age limit is one too small; the age is not looked at.
ClaimableEarly == lock # NoLock => ~Alive(lock.pid) \/ lock.age >= TTL - 1
ClaimableByPid == lock # NoLock => ~Alive(lock.pid)

\* The lock row stops nobody when there is none, or by the age and pid test.
Claimable == lock # NoLock => ~Alive(lock.pid) \/ lock.age >= TTL

\* Mutated form: the UPDATE that fills in the session id is missing.
NoSessionId(p, id) == [session_id |-> 0, pid |-> p, age |-> 0]

\* What create leaves in the lock row: its claim, with the id of the new session.
LockRow(p, id) == [session_id |-> id, pid |-> p, age |-> 0]

\* ScanSession.create, one transaction: lock row, session row, commit.
Create(p) ==
  /\ pc[p] = "off" /\ Claimable
  /\ Len(sessions) < MaxSessions
  /\ LET id == Len(sessions) + 1
     IN /\ lock' = LockRow(p, id)
        /\ sess' = [sess EXCEPT ![p] = id]
  /\ sessions' = Append(sessions, [status |-> "running", stage |-> "scanning"])
  /\ pc' = [pc EXCEPT ![p] = "scan"]
  /\ since' = [since EXCEPT ![p] = 0]
  /\ UNCHANGED shared

Unfinished == {i \in Ids : sessions[i].status = "running" /\ sessions[i].stage # "done"}

\* ScanSession.find_resumable: the newest unfinished session.  It takes no lock
\* and does not ask whether a process is at work on the session.
FindResumable(p) ==
  /\ pc[p] = "off"
  /\ \E i \in Unfinished :
       /\ \A j \in Unfinished : j <= i
       /\ sess' = [sess EXCEPT ![p] = i]
       /\ shared' = IF \E q \in Procs : sess[q] = i THEN shared \cup {i} ELSE shared
  /\ pc' = [pc EXCEPT ![p] = "found"]
  /\ UNCHANGED <<lock, sessions, since>>

\* The process is finished with its session and has the way out before it.
Leave(p) ==
  /\ pc' = [pc EXCEPT ![p] = "exiting"]
  /\ sess' = [sess EXCEPT ![p] = 0]
  /\ since' = [since EXCEPT ![p] = TTL]

\* run_pipeline reads the stage of the session and goes on from it; a session
\* that another process has completed meanwhile leaves it nothing to do.
ReadStage(p) ==
  /\ pc[p] = "found"
  /\ LET stage == sessions[sess[p]].stage
     IN \/ stage = "done" /\ Leave(p)
        \/ /\ stage # "done"
           /\ pc' = [pc EXCEPT ![p] = CASE stage = "scanning"        -> "scan"
                                        [] stage = "partial_hashing" -> "partial"
                                        [] OTHER                     -> "full"]
           /\ UNCHANGED <<sess, since>>
  /\ UNCHANGED <<lock, sessions, shared>>

\* set_stage writes the stage this process has reached, whatever the row says.
SetStage(p) ==
  /\ \/ /\ pc[p] = "scan"
        /\ sessions' = [sessions EXCEPT ![sess[p]].stage = "partial_hashing"]
        /\ pc' = [pc EXCEPT ![p] = "partial"]
     \/ /\ pc[p] = "partial"
        /\ sessions' = [sessions EXCEPT ![sess[p]].stage = "full_hashing"]
        /\ pc' = [pc EXCEPT ![p] = "full"]
  /\ UNCHANGED <<lock, sess, since, shared>>

\* Mutated form: no return follows mark_interrupted, and the next phase begins.
InterruptAndGoOn(p) ==
  /\ pc[p] \in {"found", "scan", "partial", "full"}
  /\ sessions' = [sessions EXCEPT ![sess[p]].status = "interrupted"]
  /\ UNCHANGED <<lock, pc, sess, since, shared>>

\* The first commit of mark_interrupted: on shutdown, or on an exception.
MarkInterrupted(p) ==
  /\ pc[p] \in {"found", "scan", "partial", "full"}
  /\ sessions' = [sessions EXCEPT ![sess[p]].status = "interrupted"]
  /\ pc' = [pc EXCEPT ![p] = "release"]
  /\ UNCHANGED <<lock, sess, since, shared>>

\* The first commit of mark_complete.
MarkComplete(p) ==
  /\ pc[p] = "full"
  /\ sessions' = [sessions EXCEPT ![sess[p]] = [status |-> "done", stage |-> "done"]]
  /\ pc' = [pc EXCEPT ![p] = "release"]
  /\ UNCHANGED <<lock, sess, since, shared>>

\* An exception between the two commits of mark_complete or mark_interrupted is
\* one that leaves run_pipeline: scan calls mark_interrupted, over "done" too.
ReleaseFails(p) ==
  /\ pc[p] = "release"
  /\ sessions' = [sessions EXCEPT ![sess[p]].status = "interrupted"]
  /\ UNCHANGED <<lock, pc, sess, since, shared>>

\* Mutated form: DELETE without the session_id condition.
ReleaseAny(p) ==
  /\ pc[p] = "release"
  /\ lock' = NoLock
  /\ Leave(p)
  /\ UNCHANGED <<sessions, shared>>

\* _release_lock: the row goes only when it carries this session's id.
ReleaseLock(p) ==
  /\ pc[p] = "release"
  /\ lock' = IF lock.session_id = sess[p] THEN NoLock ELSE lock
  /\ Leave(p)
  /\ UNCHANGED <<sessions, shared>>

\* The process ends after the release, or is killed at any point.
Exit(p) ==
  /\ pc[p] # "off"
  /\ pc' = [pc EXCEPT ![p] = "off"]
  /\ sess' = [sess EXCEPT ![p] = 0]
  /\ since' = [since EXCEPT ![p] = TTL]
  /\ UNCHANGED <<lock, sessions, shared>>

\* The kernel gives the pid of a dead scan to some other program; it shows only
\* when the lock row has that pid.
ReusePid(p) ==
  /\ pc[p] = "off"
  /\ lock # NoLock /\ lock.pid = p
  /\ pc' = [pc EXCEPT ![p] = "other"]
  /\ UNCHANGED <<lock, sessions, sess, since, shared>>

Older(a) == IF a < TTL THEN a + 1 ELSE a

Tick ==
  /\ lock' = IF lock = NoLock THEN lock ELSE [lock EXCEPT !.age = Older(@)]
  /\ since' = [p \in Procs |-> Older(since[p])]
  /\ UNCHANGED <<sessions, pc, sess, shared>>

Next ==
  \/ \E p \in Procs : \/ Create(p) \/ FindResumable(p) \/ ReadStage(p) \/ SetStage(p)
                      \/ MarkInterrupted(p) \/ MarkComplete(p)
                      \/ ReleaseFails(p) \/ ReleaseLock(p)
                      \/ Exit(p) \/ ReusePid(p)
  \/ Tick

Spec == Init /\ [][Next]_vars

\* Time passes; no process has to do anything.
FairSpec == Spec /\ WF_vars(Tick)

-----------------------------------------------------------------------------
(* Properties *)

(* Every variable has the type its declaration gives. *)
TypeOK ==
  /\ lock \in Lock \cup {NoLock}
  /\ sessions \in Seq(Session)
  /\ pc \in [Procs -> {"off", "other", "found", "scan", "partial", "full", "release",
                       "exiting"}]
  /\ sess \in [Procs -> Nat]
  /\ since \in [Procs -> 0..TTL]
  /\ shared \subseteq Nat \ {0}

Scanning(p) == pc[p] \in {"scan", "partial", "full"}


\* The session is p's own: no resume has taken it up beside a live process.
Unshared(p) == sess[p] \notin shared

(* A scan that created its session less than TTL ago still holds the lock: no  *)
(* later create and no release by the process of another session removes it   *)
(* (create, _release_lock).  The exception is a session that `--resume` has    *)
(* taken up beside the scan: the other process releases the lock by its id.    *)
HolderKeepsLock ==
  \A p \in Procs : Scanning(p) /\ Unshared(p) /\ since[p] < TTL =>
                      /\ lock # NoLock
                      /\ lock.pid = p /\ lock.session_id = sess[p]

(* Two fresh scans of the root overlap only when the lock of one is older than *)
(* TTL or went with a session that `--resume` shared: what the lock really     *)
(* promises.                                                                   *)
FreshScansExclusive ==
  \A p, q \in Procs : /\ Scanning(p) /\ Unshared(p) /\ since[p] < TTL
                       /\ Scanning(q) /\ Unshared(q) /\ since[q] < TTL => p = q

StageOf == [scan |-> "scanning", partial |-> "partial_hashing", full |-> "full_hashing"]

(* While a process scans, the row of its session says so: running, and in the  *)
(* phase the process is in, so that a resume after a kill goes on from there.  *)
(* Older processes, other sessions, releases and exceptions do not touch the   *)
(* row; only a process that `--resume` let in beside this one may set it back  *)
(* or end it (set_stage and the two marks write without a condition).          *)
RowFollowsScan ==
  \A p \in Procs : Scanning(p) /\ Unshared(p) =>
    sessions[sess[p]] = [status |-> "running", stage |-> StageOf[pc[p]]]

(* The root is never locked for good: a lock left by a killed scan lets the    *)
(* next create through, even when its pid now belongs to another program.      *)
LockNeverStuck == []<>Claimable
=============================================================================
