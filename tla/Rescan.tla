------------------------------- MODULE Rescan -------------------------------
(***************************************************************************)
(* Scans of one root, one after the other, over one database, while files  *)
(* are written, touched, removed and put back at any moment, also in the   *)
(* middle of a scan, with any mtime, and `cache clean` runs beside them.   *)
(*                                                                         *)
(* What Pipeline leaves out is in here: contents and mtimes that change,   *)
(* the cache rows of earlier scans (HashCache), one report written to by   *)
(* several sessions, and the stored results of the last scans.  What       *)
(* Pipeline has in detail is coarse here: no kills, no page boundaries.    *)
(***************************************************************************)
EXTENDS HashCache

CONSTANTS
  Contents,      \* what a file can contain: numbers, which are the full hashes
  Size,          \* Size[c]: st_size of a file that contains c
  Sample,        \* Sample[c]: compute_partial_hash, a number not in Contents
  FirstContents, \* the contents the files may start with
  ReuseReport,   \* whether a scan may, or must, append to the report there is
  MTimes,        \* the mtimes that other programs give to files
  FirstMTime,    \* the one that the files have at the start
  MaxScans,      \* bound on the scans
  MaxChanges,    \* bound on the changes to files
  MaxCleans,     \* bound on the runs of `cache clean`
  MaxFaults,     \* bound on the reads and the batches that fail
  MaxEvents,     \* bound on the changes, cleans and faults together
  KeepScans,     \* the scans whose results are kept (5)
  ClockMaySkew   \* time.time() may be behind the earlier scans at a save

Gone   == 0
NoStat == [size |-> 0, mtime |-> 0]

ASSUME ContentsAssumption ==
  /\ Contents \subseteq Nat \ {Gone}
  /\ Size \in [Contents -> Nat \ {0}] /\ Sample \in [Contents -> Nat \ ({Null} \cup Contents)]
  /\ FirstContents \subseteq [Paths -> Contents \cup {Gone}]
  /\ MTimes \subseteq Nat /\ FirstMTime \in Nat
ASSUME BoundAssumption ==
  /\ MaxScans \in Nat /\ MaxChanges \in Nat /\ MaxCleans \in Nat
  /\ MaxFaults \in Nat /\ MaxEvents \in Nat /\ KeepScans \in Nat \ {0}
  /\ ReuseReport \subseteq BOOLEAN /\ ClockMaySkew \in BOOLEAN

VARIABLES
  content,    \* what each file contains, Gone when there is none
  mtime,      \* st_mtime of each file
  changes,    \* changes to files so far
  pc,         \* where the scan is, "idle" between scans
  scans,      \* scans started so far
  shutdown,   \* ShutdownFlag
  stat,       \* session_files: size and mtime from the walk, NoStat without a row
  fileStage,  \* session_files.stage
  todo,       \* files the phase has still to handle
  lastHash,   \* keyset cursor of iter_partial_hash_groups
  hashes,     \* digests of the group being hashed
  lines,      \* the lines of the report, each with the scan that wrote it
  results,    \* scan_results with their groups
  newest,     \* history: the clock had advanced when the last scan was saved
  cleans,     \* runs of `cache clean` so far
  faults,     \* reads and batches that have failed so far
  unread,     \* history: lines that _load_emitted did not come to
  had,        \* history: contents each file has had during the (last) scan
  reused,     \* history: files for which the scan took a carried-over full_hash
  wiped,      \* history: files whose row was cleaned away during the scan
  failed,     \* history: files the scan could not read, or lost the digest of
  lately,     \* history: the last content of each file and its stats under it
  former,     \* history: the stats of each file under the contents before
  doubtful,   \* history: files that were Mistakable when the walk came to them
  absent,     \* history: files gone, and their rows unwritten, since the clean began
  present     \* history: files that were there since the clean began

world  == <<content, mtime, changes, lately, former>>
report == <<lines, unread>>
stored == <<results, newest>>
memory == <<todo, lastHash, hashes>>
reasons == <<reused, wiped, failed, doubtful>>
cleanHist == <<absent, present>>
rescanVars == <<cacheVars, world, pc, scans, shutdown, stat, fileStage, memory, report,
                stored, cleans, faults, had, reasons, cleanHist>>

Exists(p) == content[p] # Gone
StatOf(p) == [size |-> Size[content[p]], mtime |-> mtime[p]]

MayHappen == changes + cleans + faults < MaxEvents
MayFail   == faults < MaxFaults /\ MayHappen

Init ==
  /\ CacheInit
  /\ content \in FirstContents
  /\ mtime = [p \in Paths |-> FirstMTime] /\ changes = 0
  /\ lately = [p \in Paths |-> [content |-> content[p],
                                stats |-> IF Exists(p) THEN {StatOf(p)} ELSE {}]]
  /\ former = [p \in Paths |-> {}]
  /\ pc = "idle" /\ scans = 0 /\ shutdown = FALSE
  /\ stat = [p \in Paths |-> NoStat] /\ fileStage = [p \in Paths |-> "none"]
  /\ todo = {} /\ lastHash = 0 /\ hashes = [p \in Paths |-> Null]
  /\ lines = {} /\ results = {} /\ newest = TRUE /\ cleans = 0 /\ faults = 0
  /\ unread = {} /\ had = [p \in Paths |-> {content[p]}]
  /\ reused = {} /\ wiped = {} /\ failed = {} /\ doubtful = {}
  /\ absent = {} /\ present = {}

-----------------------------------------------------------------------------
(* The files: other programs *)

Alike(s, t) == s.size = t.size /\ Distance(s.mtime, t.mtime) <= Tol

\* Since p has what it contains, the tolerance has taken a stat of it for one it
\* had with another content: after cp -p, rsync -t, a restored backup or writes
\* that followed on each other within the tolerance.
Mistakable(p) == \E s \in lately[p].stats, t \in former[p] : Alike(s, t)

\* What the histories remember of a file with content c and mtime m.
Dated(p, c, m) ==
  LET st == [size |-> Size[c], mtime |-> m]
  IN IF c = lately[p].content
     THEN /\ lately' = [lately EXCEPT ![p].stats = @ \cup {st}]
          /\ UNCHANGED former
     ELSE /\ lately' = [lately EXCEPT ![p] = [content |-> c, stats |-> {st}]]
          /\ former' = [former EXCEPT ![p] = @ \cup lately[p].stats]

Changed(p, c) ==
  /\ changes < MaxChanges /\ MayHappen
  /\ changes' = changes + 1
  /\ content' = [content EXCEPT ![p] = c]
  /\ had' = IF pc = "idle" THEN had ELSE [had EXCEPT ![p] = @ \cup {c}]
  /\ UNCHANGED <<cacheVars, pc, scans, shutdown, stat, fileStage, memory, report,
                 stored, cleans, faults, reasons>>

\* Any content under any mtime: an edit, a touch, a file copied or moved here.
Write(p) ==
  \E c \in Contents, m \in MTimes :
    /\ <<c, m>> # <<content[p], mtime[p]>>
    /\ Changed(p, c) /\ Dated(p, c, m)
    /\ mtime' = [mtime EXCEPT ![p] = m]
    /\ absent' = absent \ {p} /\ UNCHANGED present

Remove(p) ==
  /\ Exists(p) /\ Changed(p, Gone)
  /\ present' = present \ {p} /\ UNCHANGED <<absent, mtime, lately, former>>

-----------------------------------------------------------------------------
(* A scan: the walk *)

Emitted == LET read == lines \ unread
           IN {l.hash : l \in read} \cup {l.partial_hash : l \in read}

After(k, l) == k.scan > l.scan \/ (k.scan = l.scan /\ k.partial_hash > l.partial_hash)

\* _load_emitted comes to the end of the lines L, or to an OSError before it.
Loaded(L) ==
  /\ unread' \in {T \in SUBSET L : \A l \in T, k \in L : After(k, l) => k \in T}
  /\ IF unread' = {} THEN UNCHANGED faults
     ELSE MayFail /\ faults' = faults + 1

\* A new session, with the report of the scan before or another one.
Start ==
  /\ pc = "idle" /\ scans < MaxScans
  /\ pc' = "walk" /\ scans' = scans + 1
  /\ stat' = [p \in Paths |-> NoStat] /\ fileStage' = [p \in Paths |-> "none"]
  /\ todo' = Paths /\ lastHash' = 0
  /\ \E reuse \in ReuseReport : lines' = IF reuse THEN lines ELSE {}
  /\ Loaded(lines')
  /\ had' = [p \in Paths |-> {content[p]}]
  /\ reused' = {} /\ wiped' = {} /\ failed' = {} /\ doubtful' = {}
  /\ UNCHANGED <<cacheVars, world, shutdown, hashes, stored, cleans, cleanHist>>

\* The walk comes to p, whose row has the stat of this moment.
WalkFile(p) ==
  /\ pc = "walk" /\ ~shutdown /\ p \in todo
  /\ todo' = todo \ {p}
  /\ IF Exists(p)
     THEN /\ stat' = [stat EXCEPT ![p] = StatOf(p)]
          /\ fileStage' = [fileStage EXCEPT ![p] = "scanned"]
          /\ doubtful' = IF Mistakable(p) THEN doubtful \cup {p} ELSE doubtful
     ELSE UNCHANGED <<stat, fileStage, doubtful>>
  /\ UNCHANGED <<cacheVars, world, pc, scans, shutdown, lastHash, hashes, report, stored,
                 cleans, faults, had, reused, wiped, failed, cleanHist>>

HasSizePeer(p) ==
  /\ stat[p] # NoStat
  /\ \E q \in Paths \ {p} : stat[q] # NoStat /\ stat[q].size = stat[p].size

WalkEnd ==
  /\ pc = "walk"
  /\ todo = {} \/ shutdown
  /\ pc' = IF shutdown THEN "save" ELSE "partial"
  /\ todo' = IF shutdown THEN {} ELSE {p \in Paths : HasSizePeer(p)}
  /\ UNCHANGED <<cacheVars, world, scans, shutdown, stat, fileStage, lastHash, hashes,
                 report, stored, cleans, faults, had, reasons, cleanHist>>

-----------------------------------------------------------------------------
(* Partial hashing *)

\* A read finds what p contains by now; nothing when it is gone, or by an error.
Read(p, got) ==
  \/ got = content[p] /\ UNCHANGED <<faults, failed>>
  \/ /\ got = Gone /\ Exists(p)
     /\ MayFail /\ faults' = faults + 1
     /\ failed' = failed \cup {p}

\* A row that answers, or a digest of what is read.
PartialHash(p) ==
  /\ pc = "partial" /\ ~shutdown /\ p \in todo
  /\ todo' = todo \ {p}
  /\ IF GetPartialHash(p, stat[p]) # Null
     THEN /\ fileStage' = [fileStage EXCEPT ![p] = "partial_done"]
          /\ UNCHANGED <<pending, faults, failed>>
     ELSE \E got \in {content[p], Gone} :
            /\ Read(p, got)
            /\ fileStage' = [fileStage EXCEPT ![p] =
                               IF got = Gone THEN "unique" ELSE "partial_done"]
            /\ IF got = Gone THEN UNCHANGED pending
               ELSE QueueUpdate(p, stat[p], Sample[got], Null)
  /\ UNCHANGED <<rows, carried, cleaner, world, pc, scans, shutdown, stat, lastHash,
                 hashes, report, stored, cleans, had, reused, wiped, doubtful, cleanHist>>

Batched == {e.path : e \in pending}

Flushed ==
  \/ Flush /\ absent' = absent \ Batched /\ UNCHANGED faults
  \/ DropBatch /\ MayFail /\ faults' = faults + 1 /\ UNCHANGED absent

\* The sweep and the flush of the batch, after the last file or at the flag.
PartialEnd ==
  /\ pc = "partial"
  /\ todo = {} \/ shutdown
  /\ fileStage' = [p \in Paths |-> IF fileStage[p] = "scanned" THEN "unique"
                                   ELSE fileStage[p]]
  /\ Flushed
  /\ failed' = IF faults' = faults THEN failed ELSE failed \cup Batched
  /\ pc' = IF shutdown THEN "save" ELSE "groups"
  /\ todo' = {} /\ lastHash' = 0
  /\ UNCHANGED <<cleaner, world, scans, shutdown, stat, hashes, report, stored,
                 cleans, had, reused, wiped, doubtful, present>>

-----------------------------------------------------------------------------
(* Full hashing *)

HashGroup(h) ==
  {p \in Paths : /\ fileStage[p] = "partial_done"
                 /\ Joins(p, stat[p])
                 /\ rows[p].partial = h}

LaterHashes ==
  {h \in {Sample[c] : c \in Contents} : h > lastHash /\ Cardinality(HashGroup(h)) >= 2}

\* The next group; one whose partial hash is in the report is passed over.
NextGroup(h) ==
  /\ pc = "groups" /\ ~shutdown
  /\ h \in LaterHashes /\ \A k \in LaterHashes : h <= k
  /\ lastHash' = h
  /\ IF h \in Emitted
     THEN UNCHANGED <<pc, todo>>
     ELSE pc' = "full" /\ todo' = HashGroup(h)
  /\ hashes' = [p \in Paths |-> Null]
  /\ UNCHANGED <<cacheVars, world, scans, shutdown, stat, fileStage, report, stored,
                 cleans, faults, had, reasons, cleanHist>>

FullHash(p) ==
  /\ pc = "full" /\ ~shutdown /\ p \in todo
  /\ todo' = todo \ {p}
  /\ LET cached == GetFullHash(p, stat[p])
     IN IF cached # Null
        THEN /\ hashes' = [hashes EXCEPT ![p] = cached]
             /\ reused' = IF p \in carried THEN reused \cup {p} ELSE reused
             /\ UNCHANGED <<pending, faults, failed>>
        ELSE \E got \in {content[p], Gone} :
               /\ Read(p, got)
               /\ hashes' = [hashes EXCEPT ![p] = IF got = Gone THEN Null ELSE got]
               /\ IF got = Gone THEN UNCHANGED pending
                  ELSE QueueUpdate(p, stat[p], Null, got)
               /\ UNCHANGED reused
  /\ UNCHANGED <<rows, carried, cleaner, world, pc, scans, shutdown, stat, fileStage,
                 lastHash, report, stored, cleans, had, wiped, doubtful, cleanHist>>

Digested == {p \in Paths : hashes[p] # Null}

\* Mutated form: the group is reported as it was read.
WholeGroup(h) == Digested

\* group_by_hash
SameDigest(h) == {p \in Digested : hashes[p] = h}

\* full_done for what was hashed, then a line for every hash of two or more.
EmitGroups ==
  /\ pc = "full"
  /\ todo = {} \/ shutdown
  /\ fileStage' = [p \in Paths |-> IF p \in Digested THEN "full_done" ELSE fileStage[p]]
  /\ LET New == {h \in {hashes[p] : p \in Digested} :
                   Cardinality(SameDigest(h)) >= 2 /\ h \notin Emitted}
     IN lines' = lines \cup {[hash |-> h, partial_hash |-> lastHash,
                              files |-> SameDigest(h), scan |-> scans] : h \in New}
  /\ pc' = "groups" /\ todo' = {}
  /\ UNCHANGED <<cacheVars, world, scans, shutdown, stat, lastHash, hashes, unread,
                 stored, cleans, faults, had, reasons, cleanHist>>

GroupsEnd ==
  /\ pc = "groups"
  /\ LaterHashes = {} \/ shutdown
  /\ Flushed
  /\ pc' = "save"
  /\ UNCHANGED <<cleaner, world, scans, shutdown, stat, fileStage, memory, report,
                 stored, cleans, had, reasons, present>>

Signal ==
  /\ pc \notin {"idle", "save"} /\ ~shutdown
  /\ shutdown' = TRUE
  /\ UNCHANGED <<cacheVars, world, pc, scans, stat, fileStage, memory, report, stored,
                 cleans, faults, had, reasons, cleanHist>>

-----------------------------------------------------------------------------
(* Stored results *)

Newer(R, r) == {s \in R : s.time > r.time}

\* Mutated form: ORDER BY scan_time without DESC.
RetainOldest(R) ==
  {r \in R : Cardinality({s \in R : s.time < r.time}) < KeepScans}

\* Mutated form: one scan too many is kept.
RetainOneMore(R) == {r \in R : Cardinality(Newer(R, r)) <= KeepScans}

\* The KeepScans most recent by scan_time; the rest goes with all its groups.
Retain(R) == {r \in R : Cardinality(Newer(R, r)) < KeepScans}

\* _iter_groups_from_jsonl: every line of the report, whoever wrote it.
ReportedGroups == {[hash |-> l.hash, files |-> l.files] : l \in lines}

\* time.time(), one value a scan: after all the others, or before them.
SaveTimes ==
  {MaxScans + scans} \cup IF ClockMaySkew /\ results # {} THEN {MaxScans - scans} ELSE {}

\* save_scan_results, one transaction, also after an interrupted scan.  Nothing
\* reads the rows of the session again.
Save ==
  /\ pc = "save"
  /\ \E t \in SaveTimes :
       /\ results' = Retain(results \cup {[scan |-> scans, time |-> t,
                                           groups |-> ReportedGroups]})
       /\ newest' = \A r \in results : r.time < t
  /\ pc' = "idle" /\ shutdown' = FALSE
  /\ stat' = [p \in Paths |-> NoStat] /\ fileStage' = [p \in Paths |-> "none"]
  /\ hashes' = [p \in Paths |-> Null] /\ lastHash' = 0
  /\ UNCHANGED <<cacheVars, world, scans, todo, report, cleans, faults, had, reasons,
                 cleanHist>>

\* get_latest_scan: what list and delete work on.
Latest == CHOOSE r \in results : \A s \in results : s.time <= r.time

-----------------------------------------------------------------------------
(* cache clean *)

BeginClean ==
  /\ cleans < MaxCleans /\ MayHappen /\ StartClean
  /\ cleans' = cleans + 1
  /\ IF clean' = "off" THEN UNCHANGED cleanHist
     ELSE absent' = {p \in Paths : ~Exists(p)} /\ present' = {p \in Paths : Exists(p)}
  /\ UNCHANGED <<world, pc, scans, shutdown, stat, fileStage, memory, report, stored,
                 faults, had, reasons>>

Cleaning ==
  /\ CleanFetch \/ (\E p \in Paths : CleanLook(p, Exists(p))) \/ CleanDelete
  /\ wiped' = IF pc = "idle" THEN wiped
              ELSE wiped \cup {p \in Paths : rows[p] # NoRow /\ rows'[p] = NoRow}
  /\ IF clean' = "off" THEN absent' = {} /\ present' = {} ELSE UNCHANGED cleanHist
  /\ UNCHANGED <<world, pc, scans, shutdown, stat, fileStage, memory, report, stored,
                 cleans, faults, had, reused, failed, doubtful>>

-----------------------------------------------------------------------------

ScanStep ==
  \/ Start \/ WalkEnd \/ PartialEnd \/ EmitGroups \/ GroupsEnd \/ Save
  \/ \E p \in Paths : WalkFile(p) \/ PartialHash(p) \/ FullHash(p)
  \/ \E h \in {Sample[c] : c \in Contents} : NextGroup(h)

Next ==
  \/ ScanStep
  \/ \E p \in Paths : Write(p) \/ Remove(p)
  \/ Signal
  \/ BeginClean \/ Cleaning

Spec == Init /\ [][Next]_rescanVars

-----------------------------------------------------------------------------
(* Properties *)

Line == [hash : Contents, partial_hash : {Sample[c] : c \in Contents},
         files : SUBSET Paths, scan : 1..MaxScans]

(* Every variable has the type its declaration gives. *)
TypeOK ==
  /\ CacheTypeOK
  /\ content \in [Paths -> Contents \cup {Gone}] /\ mtime \in [Paths -> Nat]
  /\ pc \in {"idle", "walk", "partial", "groups", "full", "save"}
  /\ scans \in 0..MaxScans /\ changes \in 0..MaxChanges /\ cleans \in 0..MaxCleans
  /\ shutdown \in BOOLEAN
  /\ fileStage \in [Paths -> {"none", "scanned", "partial_done", "full_done", "unique"}]
  /\ todo \subseteq Paths /\ hashes \in [Paths -> Contents \cup {Null}]
  /\ lines \subseteq Line /\ unread \subseteq lines /\ faults \in 0..MaxFaults
  /\ \A p \in Paths : Exists(p) => StatOf(p) \in lately[p].stats
  /\ Cardinality(results) <= KeepScans

(* Whatever was written in the middle of whichever scan, with whatever mtime,  *)
(* a row that answers for a file's present stat has the partial hash of its    *)
(* present content, and so is its full hash unless the upsert carried it over: *)
(* but for files that the tolerance of cache.py:36-56 takes for themselves     *)
(* with an earlier content (get_cached_hashes, the upsert of _flush_locked).   *)
RowsTruthful ==
  \A p \in Paths : Exists(p) /\ ~Mistakable(p) =>
    /\ GetPartialHash(p, StatOf(p)) \in {Null, Sample[content[p]]}
    /\ p \notin carried => GetFullHash(p, StatOf(p)) \in {Null, content[p]}

FromThisScan == {l \in lines : l.scan = scans}

(* A line that this scan wrote gives the full hash of what each of its files   *)
(* has contained since the scan began (pipeline.py: "compute full content      *)
(* hashes").                                                                   *)
LinesTrue ==
  \A l \in FromThisScan : \A p \in l.files : l.hash \in had[p]

(* The same with its two exceptions: a file is on a line it does not belong to *)
(* only when the upsert carried its full hash over from an earlier content, or *)
(* when its mtime did not tell the walk that it has another content by now.    *)
LinesTrueUnlessMisled ==
  \A l \in FromThisScan : \A p \in l.files \ (reused \cup doubtful) : l.hash \in had[p]

Steady(p) == had[p] = {content[p]} /\ Exists(p)

\* The report has a line of an earlier scan with the sample of c.
ReportedBefore(c) == \E l \in lines : l.scan < scans /\ l.partial_hash = Sample[c]

\* The row answers get_partial_hash and not the JOIN.
AtTheEdge(p) ==
  /\ stat[p] # NoStat /\ rows[p] # NoRow
  /\ Distance(rows[p].mtime, stat[p].mtime) = Tol

\* A full hash that the upsert carried over has put the hash of c on the line of
\* a group that has another sample.
TakenByAnother(c) == \E l \in lines : l.hash = c /\ l.partial_hash # Sample[c]

(* When a scan ends undisturbed, two files that had one and the same content   *)
(* all along are on one line of that content, except for seven reasons, all in *)
(* the code: already_emitted finds their sample on a line of an earlier scan,  *)
(* or their hash on a line it does not belong to, the JOIN is stricter than    *)
(* the lookup, the upsert carried over a full hash, a clean that looked before *)
(* the file came back deleted its new row, a read or a batch failed, or the    *)
(* mtime of a file did not tell that it has another content by now.            *)
PairsReported ==
  pc = "save" /\ ~shutdown =>
    \A p, q \in Paths :
      p # q /\ Steady(p) /\ Steady(q) /\ content[p] = content[q] =>
        \/ \E l \in lines : l.hash = content[p] /\ {p, q} \subseteq l.files
        \/ ReportedBefore(content[p]) \/ TakenByAnother(content[p])
        \/ \E r \in {p, q} : AtTheEdge(r) \/ r \in reused \cup wiped \cup failed \cup doubtful

(* After every scan list and delete work on the results of that scan, which    *)
(* are the whole report, unless the clock was set back (save_scan_results,     *)
(* get_latest_scan).                                                           *)
LatestIsLast ==
  pc = "idle" /\ scans > 0 /\ newest =>
    Latest.scan = scans /\ Latest.groups = ReportedGroups

(* cache clean removes a row only of a file that was missing at some time      *)
(* since it began, and when it ends no row is left of a file that was missing  *)
(* and had no row written all along, however scans added other rows on either  *)
(* side of its cursor.                                                         *)
CleanExact ==
  [][/\ \A p \in present : rows[p] # NoRow => rows'[p] # NoRow
     /\ clean # "off" /\ clean' = "off" => \A p \in absent : rows'[p] = NoRow
    ]_rescanVars
=============================================================================
