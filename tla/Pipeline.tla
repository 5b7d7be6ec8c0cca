------------------------------ MODULE Pipeline ------------------------------
(***************************************************************************)
(* One scan session of dupkiller: run_pipeline (pipeline.py) over the      *)
(* session_files rows of ScanSession (checkpoint.py), the file_cache rows  *)
(* of HashCache (cache.py) and the JSONL report of OutputHandler.          *)
(*                                                                         *)
(* Durable state is what SQLite has committed and what the report holds;   *)
(* volatile state is what the running process keeps: the two batches that  *)
(* are not committed yet, the set of emitted hashes, the page being        *)
(* iterated and the group being hashed.  A crash keeps the first and       *)
(* loses the second; Start runs the pipeline on the session again, as      *)
(* `scan --resume` does.                                                   *)
(*                                                                         *)
(* File contents do not change while the session lives, so a hash is a     *)
(* constant of the file and a cache row is told by which of its two hash   *)
(* columns is filled.                                                      *)
(***************************************************************************)
EXTENDS Naturals, FiniteSets, Sequences

CONSTANTS
  Files,        \* the regular files below the scanned roots
  Size,         \* Size[f]: st_size
  Inode,        \* Inode[f]: (device, inode) of f as one number, 0 when unknown
  PartialHash,  \* PartialHash[f]: compute_partial_hash, never 0
  FullHash,     \* FullHash[f]: compute_full_hash, never 0
  Caches,       \* what earlier scans may have left in file_cache
  ScanBatch,    \* _BATCH_INSERT of checkpoint.py (500)
  CacheBatch,   \* BATCH_SIZE of cache.py (500)
  SizeFetch,    \* fetch_size of iter_size_groups (1000)
  HashFetch,    \* fetch_size of iter_partial_hash_groups (500)
  LargeFrom,    \* threshold of LargeFileSemaphore (LARGE_FILE_THRESHOLD)
  MaxLarge,     \* max_concurrent_large: its slots
  Faults,       \* what may go wrong in this instance, a subset of FaultKinds
  CrashStages   \* the session stages in which the process may be killed

FaultKinds == {"shutdown", "exception", "read_error", "db_error", "torn_write",
               "report_error"}
Stages     == {"scanning", "partial_hashing", "full_hashing", "done"}

ASSUME FilesAssumption == IsFiniteSet(Files)
ASSUME MetadataAssumption ==
  /\ Size \in [Files -> Nat]
  /\ Inode \in [Files -> Nat]
  /\ PartialHash \in [Files -> Nat \ {0}]
  /\ FullHash \in [Files -> Nat \ {0}]
\* A full hash is only taken of files whose partial hash is in the table.
ASSUME CacheAssumption ==
  Caches \subseteq {c \in [partial : SUBSET Files, full : SUBSET Files] :
                     c.full \subseteq c.partial}
ASSUME BatchAssumption ==
  /\ ScanBatch \in Nat \ {0} /\ CacheBatch \in Nat \ {0}
  /\ SizeFetch \in Nat \ {0} /\ HashFetch \in Nat \ {0}
  /\ LargeFrom \in Nat /\ MaxLarge \in Nat \ {0}
ASSUME FaultAssumption ==
  /\ Faults \subseteq FaultKinds
  /\ CrashStages \subseteq Stages

(***************************************************************************)
(* Equal contents have equal length and equal samples.  Only the           *)
(* completeness of the report needs it.                                    *)
(***************************************************************************)
ASSUME HashAssumption ==
  \A f, g \in Files : FullHash[f] = FullHash[g] =>
                        Size[f] = Size[g] /\ PartialHash[f] = PartialHash[g]

VARIABLES
  fileStage,    \* session_files.stage of each path, "none" when it has no row
  status,       \* scan_sessions.status
  stage,        \* scan_sessions.stage
  partialRows,  \* files whose file_cache row has a partial_hash, committed
  fullRows,     \* files whose file_cache row has a full_hash, committed
  lines,        \* the readable lines of the JSONL report, in file order
  torn,         \* the report ends in an incomplete line
  pc,           \* where the main thread is, "off" when no process runs
  shutdown,     \* ShutdownFlag
  walked,       \* files scan_files has yielded in this process
  queued,       \* ScanSession._pending
  pendPartial,  \* files with a partial_hash in HashCache._pending
  pendFull,     \* files with a full_hash in HashCache._pending
  emitted,      \* OutputHandler._emitted
  page,         \* keys of the fetched page that are not yielded yet
  more,         \* the fetched page was full: another one is asked for
  cursor,       \* OFFSET of iter_size_groups, last_hash of the hash pages
  group,        \* the files of the yielded group
  todo,         \* those of them whose hash has not been asked for
  results,      \* those of them that have a digest
  toEmit,       \* full hashes of the group that are still to be emitted
  hashErrors,   \* history: files that a hash attempt could not read
  unread        \* history: hashes on lines that a starting process did not get to read

session == <<fileStage, status, stage>>
rows    == <<partialRows, fullRows>>
batch   == <<pendPartial, pendFull>>
scan    == <<walked, queued>>
report  == <<lines, torn, emitted>>
iter    == <<page, more, cursor>>
work    == <<group, todo, results>>
vars == <<session, rows, lines, torn, pc, shutdown, scan, batch, emitted,
          iter, work, toEmit, hashErrors, unread>>

FileStages == {"none", "scanned", "partial_done", "full_done", "unique"}
Hashes == {PartialHash[f] : f \in Files} \cup {FullHash[f] : f \in Files}
Line   == [hash : Hashes, partial_hash : Hashes, files : SUBSET Files]

-----------------------------------------------------------------------------
(* Database and cache helpers *)

At(st) == {f \in Files : fileStage[f] = st}

\* mark_files_stage: one UPDATE transaction over a set of paths.
MarkFiles(S, st) ==
  fileStage' = [f \in Files |-> IF f \in S THEN st ELSE fileStage[f]]

\* A batch is committed as a whole, or logged and dropped by the except clause.
Commits == IF "db_error" \in Faults THEN BOOLEAN ELSE {TRUE}

\* ScanSession._flush_locked on the batch Q: every row is replaced.
FlushFiles(Q) ==
  /\ \E ok \in Commits : MarkFiles(IF ok THEN Q ELSE {}, "scanned")
  /\ queued' = {}

QueueFile(f, due) ==
  LET Q == queued \cup {f}
  IN IF due \/ Cardinality(Q) >= ScanBatch
     THEN FlushFiles(Q)
     ELSE queued' = Q /\ UNCHANGED fileStage

\* Mutated form: the upsert leaves the partial_hash column alone.
FlushFullColumn(P, F) ==
  /\ fullRows' = fullRows \cup F /\ UNCHANGED partialRows
  /\ pendPartial' = {} /\ pendFull' = {}

\* HashCache._flush_locked on the batch (P, F): an upsert that fills columns.
FlushCache(P, F) ==
  /\ \E ok \in Commits :
       /\ partialRows' = IF ok THEN partialRows \cup P ELSE partialRows
       /\ fullRows'    = IF ok THEN fullRows \cup F ELSE fullRows
  /\ pendPartial' = {} /\ pendFull' = {}

QueueUpdate(P, F) ==
  LET P2 == pendPartial \cup P
      F2 == pendFull \cup F
  IN IF Cardinality(P2) + Cardinality(F2) >= CacheBatch
     THEN FlushCache(P2, F2)
     ELSE pendPartial' = P2 /\ pendFull' = F2 /\ UNCHANGED rows

\* get_partial_hash, get_full_hash of an unchanged file: its committed row only.
CachedPartial(f) == f \in partialRows
CachedFull(f)    == f \in fullRows

\* compute_partial_hash, compute_full_hash: None for an OSError, else the digest.
ReadFails == "read_error" \in Faults

-----------------------------------------------------------------------------
(* The queries of ScanSession *)

\* Mutated form: HAVING COUNT(*) > 0.
Present(S, key) == {key[f] : f \in S}

Shared(S, key) ==
  {k \in {key[f] : f \in S} : Cardinality({f \in S : key[f] = k}) >= 2}

\* Mutated form: HAVING COUNT(*) > 2.
LargeInodeGroups ==
  {i \in Shared(At("scanned"), Inode) : Cardinality({f \in Files : Inode[f] = i}) > 2}

InodeGroups == Shared({f \in Files : fileStage[f] # "none" /\ Inode[f] # 0}, Inode)

\* ORDER BY ... LIMIT fetch OFFSET offset
Below(K, k) == Cardinality({j \in K : j < k})
\* Mutated form: the first row of every page is skipped.
RowsAfter(K, offset, fetch) ==
  {k \in K : offset < Below(K, k) /\ Below(K, k) < offset + fetch}
Rows(K, offset, fetch) ==
  {k \in K : offset <= Below(K, k) /\ Below(K, k) < offset + fetch}

SizeGroup(s) == {f \in At("scanned") : Size[f] = s}

\* The JOIN of session_files and file_cache.
Confirmable == At("partial_done") \cap partialRows
HashGroup(h) == {f \in Confirmable : PartialHash[f] = h}
-----------------------------------------------------------------------------
(* The process: start, resume, crash *)

Init ==
  /\ fileStage = [f \in Files |-> "none"]
  /\ status = "running" /\ stage = "scanning"
  /\ \E c \in Caches : partialRows = c.partial /\ fullRows = c.full
  /\ lines = <<>> /\ torn = FALSE
  /\ pc = "off" /\ shutdown = FALSE
  /\ walked = {} /\ queued = {}
  /\ pendPartial = {} /\ pendFull = {}
  /\ emitted = {}
  /\ page = {} /\ more = FALSE /\ cursor = 0
  /\ group = {} /\ todo = {} /\ results = {} /\ toEmit = {}
  /\ hashErrors = {} /\ unread = {}

\* Mutated form: a resume that takes up every session not recorded as done.
NotRecorded == status # "done"

\* ScanSession.find_resumable
Resumable == status = "running" /\ stage # "done"

\* Mutated form: the report is opened in append mode and not read.
NothingLoaded(n) == {}

\* _load_emitted: both hashes of each of the first n lines that parse.
EmittedHashes(n) ==
  {lines[i].hash : i \in 1..n} \cup {lines[i].partial_hash : i \in 1..n}

\* How many lines _load_emitted gets to read: an OSError, at the open or at any
\* line, is logged and the scan goes on with the hashes it has.
LinesRead == IF "report_error" \in Faults THEN 0..Len(lines) ELSE {Len(lines)}

\* Mutated form: a resume walks the tree again.
WalkAgain == "scan"

FirstStep ==
  CASE stage = "scanning"        -> "scan"
    [] stage = "partial_hashing" -> "sizes"
    [] OTHER                     -> "hashes"

\* `scan` on the session just created, or `scan --resume` on one found.
Start ==
  /\ pc = "off" /\ Resumable
  /\ \E n \in LinesRead :
       /\ emitted' = EmittedHashes(n)
       /\ unread' = unread \cup (EmittedHashes(Len(lines)) \ EmittedHashes(n))
  /\ pc' = FirstStep
  /\ UNCHANGED <<session, rows, lines, torn, shutdown, scan, batch, iter,
                 work, toEmit, hashErrors>>

LoseMemory ==
  /\ pc' = "off" /\ shutdown' = FALSE
  /\ walked' = {} /\ queued' = {}
  /\ pendPartial' = {} /\ pendFull' = {}
  /\ emitted' = {}
  /\ page' = {} /\ more' = FALSE /\ cursor' = 0
  /\ group' = {} /\ todo' = {} /\ results' = {} /\ toEmit' = {}

\* SIGKILL or the out-of-memory killer, in the middle of a write or not.
Crash ==
  /\ pc # "off" /\ stage \in CrashStages
  /\ LoseMemory
  /\ \/ UNCHANGED torn
     \/ pc = "emit" /\ toEmit # {} /\ "torn_write" \in Faults /\ torn' = TRUE
  /\ UNCHANGED <<session, rows, lines, hashErrors, unread>>

\* SIGINT or SIGTERM: the handler sets the one-shot flag.
Signal ==
  /\ "shutdown" \in Faults
  /\ pc \notin {"off", "close"} /\ ~shutdown
  /\ shutdown' = TRUE
  /\ UNCHANGED <<session, rows, lines, torn, pc, scan, batch, emitted, iter,
                 work, toEmit, hashErrors, unread>>

\* Mutated form: the word goes into the wrong column.
InterruptStage == stage' = "interrupted" /\ pc' = "close" /\ UNCHANGED status

\* mark_interrupted, then the with blocks of `scan` close everything.
Interrupt == status' = "interrupted" /\ pc' = "close" /\ UNCHANGED stage

\* An exception that leaves run_pipeline; after the commit of mark_complete it
\* still leads to mark_interrupted.  A thread that waits for a slot raises nothing.
Raise ==
  /\ "exception" \in Faults
  /\ pc \notin {"off", "stuck", "close"}
  /\ Interrupt
  /\ page' = {} /\ more' = FALSE /\ cursor' = 0
  /\ group' = {} /\ todo' = {} /\ results' = {} /\ toEmit' = {}
  /\ UNCHANGED <<fileStage, rows, lines, torn, shutdown, scan, batch, emitted,
                 hashErrors, unread>>

\* ScanSession.close and HashCache.close flush what is still pending.
Close ==
  /\ pc = "close"
  /\ pc' = "off" /\ shutdown' = FALSE
  /\ FlushFiles(queued) /\ walked' = {}
  /\ FlushCache(pendPartial, pendFull)
  /\ emitted' = {} /\ cursor' = 0
  /\ UNCHANGED <<status, stage, lines, torn, page, more, work, toEmit, hashErrors, unread>>
-----------------------------------------------------------------------------
(* Phase 1: _phase_scan and _detect_and_report_hardlinks *)

\* scan_files yields f; queue_file, then checkpoint_if_due.
ScanFile(f) ==
  /\ pc = "scan" /\ ~shutdown /\ f \notin walked
  /\ walked' = walked \cup {f}
  /\ \E due \in BOOLEAN : QueueFile(f, due)
  /\ UNCHANGED <<status, stage, rows, lines, torn, pc, shutdown, batch, emitted,
                 iter, work, toEmit, hashErrors, unread>>

\* The walk ends, or returns on shutdown; flush_files and checkpoint.
ScanEnd ==
  /\ pc = "scan"
  /\ shutdown \/ walked = Files
  /\ FlushFiles(queued)
  /\ pc' = "scanned"
  /\ UNCHANGED <<status, stage, rows, lines, torn, shutdown, walked, batch,
                 emitted, iter, work, toEmit, hashErrors, unread>>

ScanDone ==
  /\ pc = "scanned"
  /\ IF shutdown
     THEN Interrupt /\ UNCHANGED page
     ELSE page' = InodeGroups /\ pc' = "links" /\ UNCHANGED <<status, stage>>
  /\ UNCHANGED <<fileStage, rows, lines, torn, shutdown, scan, batch, emitted,
                 more, cursor, work, toEmit, hashErrors, unread>>

\* Every path of a hard-linked inode is set aside, in one commit.
MarkLinks(i) ==
  /\ pc = "links" /\ i \in page
  /\ \A j \in page : i <= j
  /\ MarkFiles({f \in Files : fileStage[f] # "none" /\ Inode[f] = i}, "unique")
  /\ page' = page \ {i}
  /\ UNCHANGED <<status, stage, rows, lines, torn, pc, shutdown, scan, batch,
                 emitted, more, cursor, work, toEmit, hashErrors, unread>>

LinksDone ==
  /\ pc = "links" /\ page = {}
  /\ stage' = "partial_hashing" /\ pc' = "sizes"
  /\ UNCHANGED <<fileStage, status, rows, lines, torn, shutdown, scan, batch,
                 emitted, iter, work, toEmit, hashErrors, unread>>

-----------------------------------------------------------------------------
(* Phase 2: _phase_partial_hash over iter_size_groups *)

\* The page query: the sizes shared by two scanned files, from OFFSET cursor.
FetchSizes ==
  /\ pc = "sizes"
  /\ LET P == Rows(Shared(At("scanned"), Size), cursor, SizeFetch)
     IN /\ page' = P
        /\ more' = (Cardinality(P) = SizeFetch)
        /\ cursor' = cursor + Cardinality(P)
  /\ pc' = "size"
  /\ UNCHANGED <<session, rows, lines, torn, shutdown, scan, batch, emitted,
                 work, toEmit, hashErrors, unread>>

\* The generator reads the group again; the loop looks at the flag first.
NextSize(s) ==
  /\ pc = "size" /\ s \in page
  /\ \A t \in page : s <= t
  /\ pc' = CASE Cardinality(SizeGroup(s)) < 2 -> "size"
             [] shutdown                      -> "sweep"
             [] OTHER                         -> "phash"
  /\ page' = IF pc' = "sweep" THEN {} ELSE page \ {s}
  /\ more' = (more /\ pc' # "sweep")
  /\ group' = IF pc' = "phash" THEN SizeGroup(s) ELSE {}
  /\ todo' = group'
  /\ UNCHANGED <<session, rows, lines, torn, shutdown, scan, batch, emitted,
                 cursor, results, toEmit, hashErrors, unread>>

SizesEnd ==
  /\ pc = "size" /\ page = {}
  /\ pc' = IF more THEN "sizes" ELSE "sweep"
  /\ more' = FALSE
  /\ UNCHANGED <<session, rows, lines, torn, shutdown, scan, batch, emitted,
                 page, cursor, work, toEmit, hashErrors, unread>>

\* A pool thread runs _work(f): None on shutdown, a cache hit, or a read.
PartialWork(f) ==
  /\ pc = "phash" /\ f \in todo
  /\ todo' = todo \ {f}
  /\ \/ shutdown /\ UNCHANGED <<results, hashErrors, rows, batch>>
     \/ /\ CachedPartial(f)
        /\ results' = results \cup {f}
        /\ UNCHANGED <<hashErrors, rows, batch>>
     \/ /\ ~CachedPartial(f) /\ ReadFails
        /\ hashErrors' = hashErrors \cup {f}
        /\ UNCHANGED <<results, rows, batch>>
     \/ /\ ~CachedPartial(f)
        /\ results' = results \cup {f}
        /\ QueueUpdate({f}, {})
        /\ UNCHANGED hashErrors
  /\ UNCHANGED <<session, lines, torn, pc, shutdown, scan, emitted, iter, group,
                 toEmit, unread>>

\* run_partial_hashing returns when its pool is empty; on shutdown the
\* as_completed loop has left some digests behind.
PartialReturn ==
  /\ pc = "phash" /\ todo = {}
  /\ results' \in IF shutdown THEN SUBSET results ELSE {results}
  /\ pc' = "pmark"
  /\ UNCHANGED <<session, rows, lines, torn, shutdown, scan, batch, emitted,
                 iter, group, todo, toEmit, hashErrors, unread>>

MarkPartial ==
  /\ pc = "pmark"
  /\ MarkFiles(results, "partial_done")
  /\ pc' = "pfail"
  /\ UNCHANGED <<status, stage, rows, lines, torn, shutdown, scan, batch,
                 emitted, iter, work, toEmit, hashErrors, unread>>

\* The second commit of the group: what came back without a digest.
MarkFailed ==
  /\ pc = "pfail"
  /\ MarkFiles(group \ results, "unique")
  /\ group' = {} /\ results' = {}
  /\ pc' = "size"
  /\ UNCHANGED <<status, stage, rows, lines, torn, shutdown, scan, batch,
                 emitted, iter, todo, toEmit, hashErrors, unread>>

\* mark_files_stage_where_scanned_unique, on every way out of the loop.
Sweep ==
  /\ pc = "sweep"
  /\ MarkFiles(At("scanned"), "unique")
  /\ pc' = "pflush"
  /\ UNCHANGED <<status, stage, rows, lines, torn, shutdown, scan, batch,
                 emitted, iter, work, toEmit, hashErrors, unread>>

FlushPartial ==
  /\ pc = "pflush"
  /\ FlushCache(pendPartial, pendFull)
  /\ pc' = "pdone"
  /\ UNCHANGED <<session, lines, torn, shutdown, scan, emitted, iter, work,
                 toEmit, hashErrors, unread>>

PartialDone ==
  /\ pc = "pdone"
  /\ IF shutdown
     THEN Interrupt
     ELSE stage' = "full_hashing" /\ pc' = "hashes" /\ UNCHANGED status
  /\ cursor' = 0
  /\ UNCHANGED <<fileStage, rows, lines, torn, shutdown, scan, batch, emitted,
                 page, more, work, toEmit, hashErrors, unread>>

-----------------------------------------------------------------------------
(* Phase 3: _phase_full_hash over iter_partial_hash_groups *)

\* The page query: the next hashes above the keyset cursor.
FetchHashes ==
  /\ pc = "hashes"
  /\ LET P == Rows({h \in Shared(Confirmable, PartialHash) : h > cursor}, 0, HashFetch)
     IN /\ page' = P
        /\ more' = (Cardinality(P) = HashFetch)
        /\ \/ P = {} /\ cursor' = cursor
           \/ cursor' \in P /\ \A h \in P : h <= cursor'
  /\ pc' = "hash"
  /\ UNCHANGED <<session, rows, lines, torn, shutdown, scan, batch, emitted,
                 work, toEmit, hashErrors, unread>>

\* A group that an earlier line already covers is passed over.
NextHash(h) ==
  /\ pc = "hash" /\ h \in page
  /\ \A k \in page : h <= k
  /\ pc' = CASE Cardinality(HashGroup(h)) < 2 -> "hash"
             [] shutdown                      -> "fflush"
             [] h \in emitted                 -> "hash"
             [] OTHER                         -> "fhash"
  /\ page' = IF pc' = "fflush" THEN {} ELSE page \ {h}
  /\ more' = (more /\ pc' # "fflush")
  /\ todo' = IF pc' = "fhash" THEN HashGroup(h) ELSE {}
  /\ UNCHANGED <<session, rows, lines, torn, shutdown, scan, batch, emitted,
                 cursor, group, results, toEmit, hashErrors, unread>>

\* Mutated form: a short page does not end the loop.
HashesAgain ==
  /\ pc = "hash" /\ page = {}
  /\ pc' = "hashes" /\ more' = FALSE
  /\ UNCHANGED <<session, rows, lines, torn, shutdown, scan, batch, emitted,
                 page, cursor, work, toEmit, hashErrors, unread>>

HashesEnd ==
  /\ pc = "hash" /\ page = {}
  /\ pc' = IF more THEN "hashes" ELSE "fflush"
  /\ more' = FALSE
  /\ UNCHANGED <<session, rows, lines, torn, shutdown, scan, batch, emitted,
                 page, cursor, work, toEmit, hashErrors, unread>>

\* The files of to_hash that take a slot of the LargeFileSemaphore.
LargeMisses == {f \in todo : ~CachedFull(f) /\ Size[f] >= LargeFrom}

\* One turn of the split loop of run_full_hashing, which takes f from the cache,
\* or, when that loop is over and all files are submitted, of its collecting loop.
\* Once the flag is set neither keeps anything: what was submitted is still read to
\* its end by the pool, and what it returns is dropped.
FullWork(f) ==
  /\ pc = "fhash" /\ f \in todo
  /\ todo' = todo \ {f}
  /\ \/ shutdown /\ UNCHANGED <<results, hashErrors, rows, batch>>
     \/ /\ ~shutdown /\ CachedFull(f)
        /\ results' = results \cup {f}
        /\ UNCHANGED <<hashErrors, rows, batch>>
     \/ /\ ~shutdown /\ \A g \in todo : ~CachedFull(g)
        /\ Cardinality(LargeMisses) <= MaxLarge
        /\ \/ /\ ReadFails
              /\ hashErrors' = hashErrors \cup {f}
              /\ UNCHANGED <<results, rows, batch>>
           \/ /\ results' = results \cup {f}
              /\ QueueUpdate({}, {f})
              /\ UNCHANGED hashErrors
  /\ UNCHANGED <<session, lines, torn, pc, shutdown, scan, emitted, iter, group,
                 toEmit, unread>>

\* The submit loop waits in LargeFileSemaphore.acquire for a slot that only the
\* collecting loop after it gives back; the flag does not end that wait.
SlotWait ==
  /\ pc = "fhash" /\ ~shutdown
  /\ \A g \in todo : ~CachedFull(g)
  /\ Cardinality(LargeMisses) > MaxLarge
  /\ pc' = "stuck"
  /\ UNCHANGED <<session, rows, lines, torn, shutdown, scan, batch, emitted,
                 iter, work, toEmit, hashErrors, unread>>

FullReturn ==
  /\ pc = "fhash" /\ todo = {}
  /\ pc' = "fmark"
  /\ UNCHANGED <<session, rows, lines, torn, shutdown, scan, batch, emitted,
                 iter, work, toEmit, hashErrors, unread>>

\* full_done is committed first; group_by_hash then keeps the groups of two.
MarkFull ==
  /\ pc = "fmark"
  /\ MarkFiles(results, "full_done")
  /\ toEmit' = Shared(results, FullHash)
  /\ pc' = "emit"
  /\ UNCHANGED <<status, stage, rows, lines, torn, shutdown, scan, batch,
                 emitted, iter, work, hashErrors, unread>>

\* emit_group: nothing for a hash already emitted; a line that follows an
\* incomplete one is read back as one unreadable line.
EmitGroup(h) ==
  /\ pc = "emit" /\ h \in toEmit
  /\ toEmit' = toEmit \ {h}
  /\ IF h \in emitted
     THEN UNCHANGED report
     ELSE \E f \in results :
            /\ FullHash[f] = h
            /\ emitted' = emitted \cup {h, PartialHash[f]}
            /\ lines' = IF torn THEN lines
                        ELSE Append(lines,
                               [hash |-> h, partial_hash |-> PartialHash[f],
                                files |-> {g \in results : FullHash[g] = h}])
            /\ torn' = FALSE
  /\ UNCHANGED <<session, rows, pc, shutdown, scan, batch, iter, work, hashErrors, unread>>

EmitEnd ==
  /\ pc = "emit" /\ toEmit = {}
  /\ results' = {}
  /\ pc' = "hash"
  /\ UNCHANGED <<session, rows, lines, torn, shutdown, scan, batch, emitted,
                 iter, group, todo, toEmit, hashErrors, unread>>

FlushFull ==
  /\ pc = "fflush"
  /\ FlushCache(pendPartial, pendFull)
  /\ pc' = "fdone"
  /\ UNCHANGED <<session, lines, torn, shutdown, scan, emitted, iter, work,
                 toEmit, hashErrors, unread>>

\* The first commit of mark_complete.
Complete == status' = "done" /\ stage' = "done" /\ pc' = "release"

\* Mutated form: the flag is not looked at after the loop.
CompleteAnyway ==
  /\ pc = "fdone"
  /\ Complete
  /\ UNCHANGED <<fileStage, rows, lines, torn, shutdown, scan, batch, emitted,
                 iter, work, toEmit, hashErrors, unread>>

\* mark_interrupted or mark_complete.
FullDone ==
  /\ pc = "fdone"
  /\ IF shutdown THEN Interrupt ELSE Complete
  /\ UNCHANGED <<fileStage, rows, lines, torn, shutdown, scan, batch, emitted,
                 iter, work, toEmit, hashErrors, unread>>

\* The rest of mark_complete, which releases the lock, and the way out of
\* run_pipeline.
Release ==
  /\ pc = "release"
  /\ pc' = "close"
  /\ UNCHANGED <<session, rows, lines, torn, shutdown, scan, batch, emitted,
                 iter, work, toEmit, hashErrors, unread>>

-----------------------------------------------------------------------------
(* The specification *)

ScanPhase == \/ \E f \in Files : ScanFile(f)
             \/ ScanEnd \/ ScanDone
             \/ \E i \in page : MarkLinks(i)
             \/ LinksDone

PartialPhase == \/ FetchSizes
                \/ \E s \in page : NextSize(s)
                \/ SizesEnd
                \/ \E f \in todo : PartialWork(f)
                \/ PartialReturn \/ MarkPartial \/ MarkFailed
                \/ Sweep \/ FlushPartial \/ PartialDone

FullPhase == \/ FetchHashes
             \/ \E h \in page : NextHash(h)
             \/ HashesEnd
             \/ \E f \in todo : FullWork(f)
             \/ SlotWait \/ FullReturn \/ MarkFull
             \/ \E h \in toEmit : EmitGroup(h)
             \/ EmitEnd \/ FlushFull \/ FullDone \/ Release

\* What the process does by itself, until it exits.
Run  == ScanPhase \/ PartialPhase \/ FullPhase \/ Close
Next == Start \/ Run \/ Crash \/ Signal \/ Raise

Spec == Init /\ [][Next]_vars

(***************************************************************************)
(* The threads of a started process are scheduled until it exits: every    *)
(* step of Run is one the operating system lets happen, and a read ends.   *)
(* No step leaves "stuck".  Nothing obliges the user to start or resume a  *)
(* scan, and faults never have to occur.                                   *)
(***************************************************************************)
FairSpec == Spec /\ WF_vars(Run)

-----------------------------------------------------------------------------
(* Properties *)

Locations == {"off", "scan", "scanned", "links", "sizes", "size", "phash",
              "pmark", "pfail", "sweep", "pflush", "pdone", "hashes", "hash",
              "fhash", "stuck", "fmark", "emit", "fflush", "fdone", "release",
              "close"}

(* Every variable has the type its declaration gives. *)
TypeOK ==
  /\ fileStage \in [Files -> FileStages]
  /\ status \in {"running", "interrupted", "done"}
  /\ stage \in Stages
  /\ partialRows \subseteq Files /\ fullRows \subseteq Files
  /\ lines \in Seq(Line) /\ torn \in BOOLEAN
  /\ pc \in Locations /\ shutdown \in BOOLEAN
  /\ walked \subseteq Files /\ queued \subseteq Files
  /\ pendPartial \subseteq Files /\ pendFull \subseteq Files
  /\ emitted \subseteq Hashes
  /\ page \subseteq Nat /\ more \in BOOLEAN /\ cursor \in Nat
  /\ group \subseteq Files /\ todo \subseteq Files /\ results \subseteq Files
  /\ toEmit \subseteq Hashes
  /\ hashErrors \subseteq Files /\ unread \subseteq Hashes

HardLinked == {f \in Files : Inode[f] # 0 /\ \E g \in Files : g # f /\ Inode[g] = Inode[f]}

Twins(f, g) == f # g /\ FullHash[f] = FullHash[g]

\* A line of another content, made for another group, has a hash of f in its other
\* column, and _emitted holds both columns: emit_group, or the loop over the groups,
\* passes f over.  Only BLAKE3 gives both columns digests of one length.
Shadowed ==
  {f \in Files : \E x, y \in Files :
     /\ Twins(x, y) /\ FullHash[x] # FullHash[f]
     /\ \/ PartialHash[x] = FullHash[f]
        \/ FullHash[x] = PartialHash[f] /\ PartialHash[x] # PartialHash[f]}

\* What the report does not owe: unreadable files, hard links and shadowed files.
Excused == hashErrors \cup HardLinked \cup Shadowed

Reported(f, g) == \E i \in DOMAIN lines : {f, g} \subseteq lines[i].files

(* A session that ends as done has reported every pair of equal files that    *)
(* could be read: no drop on shutdown, paging, batching or resume loses one   *)
(* (run_pipeline may reach mark_complete only then).                          *)
ReportComplete ==
  status = "done" =>
    \A f, g \in Files \ Excused : Twins(f, g) => Reported(f, g)

(* No full hash is on two readable lines, whatever was killed and resumed     *)
(* between them: _load_emitted knows what every earlier process wrote, except *)
(* the lines that some process could not read back when it started.           *)
HashReportedOnce ==
  \A i, j \in DOMAIN lines :
    lines[i].hash = lines[j].hash => i = j \/ lines[i].hash \in unread

(* A line lists at least two files, all of the content its hash names, and no  *)
(* two of them are links of one inode: each copy listed takes space of its     *)
(* own, even after a batch of rows was lost or the process was killed.         *)
ReportSound ==
  \A i \in DOMAIN lines :
    LET S == lines[i].files
    IN /\ \E f, g \in S : f # g
       /\ \A f \in S : FullHash[f] = lines[i].hash
       /\ \A f, g \in S : f # g /\ Inode[f] = Inode[g] => Inode[f] = 0

(* Once the session is in full_hashing every candidate's partial hash is in   *)
(* the committed cache: iter_partial_hash_groups finds it there or never.     *)
PartialHashesDurable ==
  stage \in {"full_hashing", "done"} =>
    At("partial_done") \cup At("full_done") \subseteq partialRows

(* The sweep sets aside only files without a size peer, and the failed ones   *)
(* apart: no candidate is dropped unread (checkpoint.py, docstring of         *)
(* mark_files_stage_where_scanned_unique).                                    *)
SweptHaveNoPeers ==
  pc = "sweep" => \A f, g \in At("scanned") : f # g => Size[f] # Size[g]

StageRank == [s \in Stages |-> CASE s = "scanning" -> 0 [] s = "partial_hashing" -> 1
                                 [] s = "full_hashing" -> 2 [] s = "done" -> 3]

(* The session stage never goes back, and a file row never goes back after    *)
(* the walk: not scanned again, not un-hashed, and unique for good (resume     *)
(* starts at the stage it finds, run_pipeline).                               *)
StagesOnlyAdvance ==
  [][/\ StageRank[stage] <= StageRank[stage']
     /\ stage # "scanning" =>
          \A f \in Files :
            fileStage'[f] # fileStage[f] =>
              <<fileStage[f], fileStage'[f]>> \in
                {<<"scanned", "partial_done">>, <<"scanned", "unique">>,
                 <<"partial_done", "full_done">>}]_vars

(* After the flag is set no new group is taken up, no digest of the full hash  *)
(* stage is taken over (the pool may still read what was submitted) and the    *)
(* session is not completed: it ends interrupted unless the flag came after    *)
(* the last look at it.                                                        *)
ShutdownStopsWork ==
  [][shutdown => /\ todo' \subseteq todo
                 /\ (pc = "fhash" => results' \subseteq results)
                 /\ fullRows' \subseteq fullRows \cup pendFull
                 /\ (status' = "done" => status = "done")]_vars

(* A session whose stage is done is over: no process takes it up, no row and    *)
(* no line of it changes, and its status is still set only by the process that  *)
(* completed it, when an exception follows the commit (mark_interrupted then    *)
(* overwrites "done" and leaves the stage).                                     *)
DoneIsOver ==
  [][stage = "done" =>
       /\ fileStage' = fileStage /\ stage' = stage /\ lines' = lines
       /\ (pc' # "off" => pc # "off")
       /\ (status' # status => pc = "release" /\ status' = "interrupted")]_vars

(* A process that starts exits, or waits for ever for a slot in a group with    *)
(* more large files to hash than there are slots: nothing else keeps it, and    *)
(* the page loops of both iterators end even though marking files changes what  *)
(* their queries return.                                                        *)
ProcessEnds == pc # "off" ~> pc \in {"off", "stuck"}
-----------------------------------------------------------------------------
(* Refinement *)

Promise == INSTANCE DuplicateReport WITH
  Content  <- FullHash,
  outcome  <- status,
  reported <- {lines[i].files : i \in DOMAIN lines},
  excused  <- Excused

(* The pipeline implements DuplicateReport: whatever it appends is a new       *)
(* group of equal files, and mark_complete comes only when none is missing.    *)
KeepsPromise == Promise!Spec
=============================================================================
