------------------------ MODULE PipelinePromiseProofs ------------------------
(***************************************************************************)
(* That a session which ends as done has kept its promise: every pair of   *)
(* equal files it could read is in the report, for every set of files and  *)
(* every page and batch size, and so Pipeline implements DuplicateReport.  *)
(***************************************************************************)
EXTENDS PipelineProofs

USE FilesAssumption, MetadataAssumption, BatchAssumption, FaultAssumption

-----------------------------------------------------------------------------
(* After the flag *)

\* What a step may do once the flag is set.
Stopping ==
  shutdown => /\ todo' \subseteq todo
              /\ (pc = "fhash" => results' \subseteq results)
              /\ fullRows' \subseteq fullRows \cup pendFull
              /\ (status' = "done" => status = "done")

LEMMA StoppingStep == ASSUME [Next]_vars PROVE Stopping
<1> SUFFICES ASSUME shutdown
             PROVE  /\ todo' \subseteq todo
                    /\ (pc = "fhash" => results' \subseteq results)
                    /\ fullRows' \subseteq fullRows \cup pendFull
                    /\ (status' = "done" => status = "done")
  BY DEF Stopping
<1>1. CASE Start \/ Crash \/ Signal \/ Raise \/ Close \/ UNCHANGED vars
  BY <1>1 DEF Start, Crash, LoseMemory, Signal, Raise, Interrupt, Close, FlushCache, vars,
              session, rows, work
<1>2. CASE ScanPhase
  BY <1>2 DEF ScanPhase, ScanFile, ScanEnd, ScanDone, Interrupt, MarkLinks, LinksDone, rows, work
<1>3. CASE PartialPhase
  <2>1. ASSUME NEW s \in page, NextSize(s)
        PROVE  todo' = {} /\ pc = "size" /\ UNCHANGED <<rows, session>>
    BY <2>1 DEF NextSize
  <2>2. ASSUME NEW f \in todo, PartialWork(f)
        PROVE  /\ todo' \subseteq todo /\ fullRows' \subseteq fullRows \cup pendFull
               /\ pc = "phash" /\ UNCHANGED session
    BY <2>2 DEF PartialWork, QueueUpdate, FlushCache, rows
  <2>3. CASE FlushPartial
    BY <2>3 DEF FlushPartial, FlushCache, work, session
  <2>4. CASE FetchSizes \/ SizesEnd \/ PartialReturn \/ MarkPartial \/ MarkFailed \/ Sweep
             \/ PartialDone
    BY <2>4 DEF FetchSizes, SizesEnd, PartialReturn, MarkPartial, MarkFailed, Sweep, PartialDone,
                Interrupt, session, rows, work
  <2> QED BY <1>3, <2>1, <2>2, <2>3, <2>4 DEF PartialPhase, rows, session
<1>4. CASE FullPhase
  <2>1. ASSUME NEW h \in page, NextHash(h)
        PROVE  todo' = {} /\ pc = "hash" /\ UNCHANGED <<rows, session>>
    BY <2>1 DEF NextHash
  <2>2. ASSUME NEW f \in todo, FullWork(f)
        PROVE  todo' \subseteq todo /\ UNCHANGED <<results, rows, session>>
    BY <2>2 DEF FullWork
  <2>3. CASE FlushFull
    BY <2>3 DEF FlushFull, FlushCache, work, session
  <2>4. ASSUME NEW h \in toEmit, EmitGroup(h) PROVE UNCHANGED <<session, rows, work>>
    BY <2>4 DEF EmitGroup
  <2>5. CASE FetchHashes \/ HashesEnd \/ SlotWait \/ FullReturn \/ MarkFull \/ EmitEnd
             \/ FullDone \/ Release
    BY <2>5 DEF FetchHashes, HashesEnd, SlotWait, FullReturn, MarkFull, EmitEnd, FullDone,
                Complete, Interrupt, Release, session, rows, work
  <2> QED BY <1>4, <2>1, <2>2, <2>3, <2>4, <2>5 DEF FullPhase, rows, session, work
<1> QED BY <1>1, <1>2, <1>3, <1>4 DEF Next, Run

(* Once the flag is set no group is taken up, no digest is taken over by the  *)
(* full hash stage, and the session is not completed: for every fault, crash  *)
(* and batch size, and however many files the pool is still reading.          *)
THEOREM ShutdownStops == Spec => ShutdownStopsWork
<1>1. [Next]_vars =>
        [shutdown => /\ todo' \subseteq todo
                     /\ (pc = "fhash" => results' \subseteq results)
                     /\ fullRows' \subseteq fullRows \cup pendFull
                     /\ (status' = "done" => status = "done")]_vars
  BY StoppingStep DEF Stopping
<1> QED BY <1>1, PTL DEF Spec, ShutdownStopsWork

-----------------------------------------------------------------------------
(* The invariant *)

(***************************************************************************)
(* The conditions under which the promise is kept.  Each is needed: the    *)
(* runs pipeline_lost_emit and pipeline_paging show a session that breaks  *)
(* it without the second and the third, and a batch of rows that is logged *)
(* and dropped leaves a candidate without its hash.                        *)
(***************************************************************************)
RowsKept    == "db_error" \notin Faults
NotKilled   == CrashStages \subseteq {"scanning", "done"}
OneSizePage == Cardinality(Shared(Files, Size)) <= SizeFetch

\* Which process runs: a session that is still running and has no process is one
\* whose walk was cut short.
ProcInv ==
  /\ pc = "off" => walked = {} /\ queued = {} /\ (status = "running" => stage = "scanning")
  /\ pc = "close" => status # "running"
  /\ pc \in {"off", "scan", "scanned", "links"} => cursor = 0
  /\ pc \notin {"phash", "fhash", "stuck"} => todo = {}

\* The hashes on the lines of the report.
OnLines == {lines[i].hash : i \in DOMAIN lines} \cup {lines[i].partial_hash : i \in DOMAIN lines}

\* The report: no line is incomplete, the first one is written in full_hashing, none
\* was there to be read by a starting process, a process knows as emitted what the
\* lines hold, and a line's partial hash is the one of its files.
LinePartials ==
  \A i \in DOMAIN lines : \A f \in lines[i].files : PartialHash[f] = lines[i].partial_hash

LinesInv ==
  /\ ~torn
  /\ stage \in {"scanning", "partial_hashing"} => lines = <<>>
  /\ unread = {}
  /\ pc # "off" => emitted \subseteq OnLines
  /\ LinePartials

\* Every file walked is queued or in the session; links are all that is set aside.
WalkInv ==
  /\ queued \subseteq walked
  /\ pc = "scan" => walked \ queued \subseteq At("scanned")
  /\ pc = "scanned" /\ ~shutdown => At("scanned") = Files
  /\ pc = "links" =>
       /\ \A i \in page : i # 0 /\ \E f, g \in Files : f # g /\ Inode[f] = i /\ Inode[g] = i
       /\ Files \ HardLinked \subseteq At("scanned")

\* A candidate's partial hash is in the cache or in the batch, and in the cache
\* once the batch was flushed.
DurableInv ==
  /\ stage = "scanning" => At("partial_done") = {}
  /\ stage \in {"scanning", "partial_hashing"} => At("full_done") = {}
  /\ pc \in PartialPcs => At("partial_done") \cup results \subseteq partialRows \cup pendPartial
  /\ pc = "pdone" => At("partial_done") \subseteq partialRows
  /\ PartialHashesDurable

NoPeers == \A f, g \in At("scanned") : f # g => Size[f] # Size[g]

\* The size groups: a group is taken whole, and what is neither taken nor on the
\* page shares its size with no scanned file.
SizeInv ==
  /\ pc \notin {"phash", "pmark", "pfail"} => group = {}
  /\ pc \in {"phash", "pmark", "pfail"} => todo \cup results \subseteq group
  /\ pc \in {"phash", "pmark"} =>
       \A f \in At("scanned"), g \in group : Size[f] = Size[g] => f \in group
  /\ pc \in {"phash", "pmark", "pfail"} /\ ~shutdown =>
       group \subseteq todo \cup results \cup hashErrors
  /\ pc = "pfail" => results \subseteq At("partial_done")
  /\ pc = "sizes" => cursor = 0 \/ NoPeers
  /\ pc \in {"size", "phash", "pmark", "pfail"} =>
       \A f, g \in At("scanned") : f # g /\ Size[f] = Size[g] => Size[f] \in page \/ f \in group
  /\ pc = "sweep" /\ ~shutdown => NoPeers

\* Readable files of one size go through the partial hash stage together.
Readable == Files \ (hashErrors \cup HardLinked)

PeerStages ==
  IF pc \in {"pflush", "pdone"} THEN {"partial_done"} ELSE {"scanned", "partial_done"}

PeerInv ==
  pc \in PartialPcs /\ ~shutdown =>
    \A f, g \in Readable :
      f # g /\ Size[f] = Size[g] =>
        fileStage[f] = fileStage[g] /\ fileStage[f] \in PeerStages

\* The keyset cursor: what is at work and what is reported lies behind it, and no
\* line has a hash that is still to be emitted.
WorkPcs == {"hashes", "hash", "fhash", "fmark", "emit", "fflush", "fdone"}

Behind(p) == p <= cursor /\ p \notin page

KeysetInv ==
  pc \in WorkPcs =>
    /\ pc \in {"hash", "fhash", "fmark", "emit"} => \A k \in page : k <= cursor
    /\ \A i \in DOMAIN lines : Behind(lines[i].partial_hash)
    /\ \A f \in todo \cup results : Behind(PartialHash[f])
    /\ pc \in {"fhash", "fmark"} =>
         \A f \in todo \cup results, i \in DOMAIN lines : lines[i].partial_hash # PartialHash[f]
    /\ pc = "emit" => \A i \in DOMAIN lines : lines[i].hash \notin toEmit

\* Two readable equal files are reported, at work, or still ahead of the cursor.
Ahead(p) ==
  \/ pc = "hashes" /\ cursor < p
  \/ pc \in {"hash", "fhash", "fmark", "emit"} /\ (p \in page \/ (more /\ cursor < p))

AtWork(f, g) ==
  \/ pc \in {"fhash", "fmark"} /\ {f, g} \subseteq todo \cup results
  \/ pc = "emit" /\ {f, g} \subseteq results /\ FullHash[f] \in toEmit

Waiting(f, g) == {f, g} \subseteq At("partial_done") /\ Ahead(PartialHash[f])

PairInv ==
  pc \in WorkPcs /\ ~shutdown =>
    \A f, g \in Files \ Excused :
      Twins(f, g) => Reported(f, g) \/ AtWork(f, g) \/ Waiting(f, g)

-----------------------------------------------------------------------------
(* Helpers *)

\* A stage past partial_hashing does not go back to it.
LEMMA Ranks ==
  ASSUME NEW s \in Stages, NEW t \in Stages, StageRank[s] <= StageRank[t],
         t \in {"scanning", "partial_hashing"}
  PROVE  s \in {"scanning", "partial_hashing"} /\ (t = "scanning" => s = "scanning")
<1>1. \A r \in Stages : StageRank[r] = CASE r = "scanning" -> 0 [] r = "partial_hashing" -> 1
                                         [] r = "full_hashing" -> 2 [] r = "done" -> 3
  BY DEF StageRank
<1>2. /\ StageRank["scanning"] = 0 /\ StageRank["partial_hashing"] = 1
      /\ StageRank["full_hashing"] = 2 /\ StageRank["done"] = 3
  BY <1>1 DEF Stages
<1>3. s \in {"scanning", "partial_hashing", "full_hashing", "done"}
  BY DEF Stages
<1>4. CASE t = "scanning"
  BY <1>2, <1>3, <1>4
<1>5. CASE t = "partial_hashing"
  BY <1>2, <1>3, <1>5
<1> QED BY <1>4, <1>5

-----------------------------------------------------------------------------
(* Which process runs *)

LEMMA ProcStep ==
  ASSUME NotKilled, StageInv, ProcInv, [Next]_vars
  PROVE  ProcInv'
<1>1. CASE Start
  <2>1. stage = "scanning" /\ pc' = "scan" /\ UNCHANGED <<cursor, todo>> /\ pc = "off"
    BY <1>1 DEF Start, Resumable, FirstStep, ProcInv, iter, work
  <2> QED BY <2>1 DEF ProcInv
<1>2. CASE Crash
  <2>1. stage \in {"scanning", "done"} /\ UNCHANGED session
    BY <1>2 DEF Crash, NotKilled
  <2>2. status' = "running" => stage' = "scanning"
    BY <2>1 DEF session, StageInv, PhaseInv
  <2> QED BY <1>2, <2>2 DEF Crash, LoseMemory, ProcInv
<1>3. CASE Signal \/ UNCHANGED vars
  BY <1>3 DEF Signal, vars, session, scan, iter, work, ProcInv
<1>4. CASE Raise
  BY <1>4 DEF Raise, Interrupt, ProcInv
<1>5. CASE Close
  <2>1. pc' = "off" /\ walked' = {} /\ queued' = {} /\ cursor' = 0 /\ todo' = todo
        /\ status' = status /\ pc = "close"
    BY <1>5 DEF Close, FlushFiles, work
  <2> QED BY <2>1 DEF ProcInv
<1>6. CASE ScanPhase
  <2>1. /\ UNCHANGED <<cursor, todo>>
        /\ pc \in {"scan", "scanned", "links"}
        /\ pc' \in {"scan", "scanned", "links", "sizes", "close"}
        /\ pc' = "close" => status' # "running"
    BY <1>6 DEF ScanPhase, ScanFile, ScanEnd, ScanDone, Interrupt, MarkLinks, LinksDone, iter, work
  <2> QED BY <2>1 DEF ProcInv
<1>7. CASE PartialPhase
  <2>1. /\ pc' \in PartialPcs \cup {"hashes", "close"}
        /\ pc' = "close" => status' # "running"
    BY <1>7 DEF PartialPcs, PartialPhase, FetchSizes, NextSize, SizesEnd, PartialWork,
                PartialReturn, MarkPartial, MarkFailed, Sweep, FlushPartial, PartialDone, Interrupt
  <2>2. pc' \notin {"phash", "fhash", "stuck"} => todo' = {}
    BY <1>7 DEF ProcInv, PartialPhase, FetchSizes, NextSize, SizesEnd, PartialWork, PartialReturn,
                MarkPartial, MarkFailed, Sweep, FlushPartial, PartialDone, work
  <2> QED BY <2>1, <2>2 DEF ProcInv, PartialPcs
<1>8. CASE FullPhase
  <2>1. /\ pc' \in FullPcs \cup {"release", "close"}
        /\ pc' = "close" => status' # "running"
    BY <1>8 DEF StageInv, PhaseInv, session, FullPcs, FullPhase, FetchHashes, NextHash, HashesEnd, FullWork, SlotWait, FullReturn,
                MarkFull, EmitGroup, EmitEnd, FlushFull, FullDone, Complete, Release, Interrupt
  <2>2. pc' \notin {"phash", "fhash", "stuck"} => todo' = {}
    BY <1>8 DEF ProcInv, FullPhase, FetchHashes, NextHash, HashesEnd, FullWork, SlotWait, FullReturn,
                MarkFull, EmitGroup, EmitEnd, FlushFull, FullDone, Complete, Release, work
  <2> QED BY <2>1, <2>2 DEF ProcInv, FullPcs
<1> QED BY <1>1, <1>2, <1>3, <1>4, <1>5, <1>6, <1>7, <1>8 DEF Next, Run

-----------------------------------------------------------------------------
(* The report *)

\* Appending a line.
LEMMA Appended ==
  ASSUME lines \in Seq(Line), NEW L, lines' = Append(lines, L)
  PROVE  /\ DOMAIN lines' = DOMAIN lines \cup {Len(lines) + 1}
         /\ \A i \in DOMAIN lines : lines'[i] = lines[i]
         /\ lines'[Len(lines) + 1] = L
  OBVIOUS

\* What EmitGroup does, when nothing was torn.
LineOf(h, f) == [hash |-> h, partial_hash |-> PartialHash[f],
                 files |-> {g \in results : FullHash[g] = h}]

LEMMA EmitCases ==
  ASSUME ~torn, NEW h \in toEmit, EmitGroup(h)
  PROVE  \/ h \in emitted /\ UNCHANGED report
         \/ \E f \in results : /\ FullHash[f] = h
                               /\ h \notin emitted
                               /\ emitted' = emitted \cup {h, PartialHash[f]}
                               /\ lines' = Append(lines, LineOf(h, f))
                               /\ ~torn'
  BY DEF EmitGroup, LineOf

\* Every other step leaves the report alone, and what the process knows of it comes
\* from the report.
LEMMA OnlyEmits ==
  ASSUME lines \in Seq(Line), [Next]_vars, ~\E h \in toEmit : EmitGroup(h)
  PROVE  /\ lines' = lines
         /\ torn' = torn \/ (Crash /\ pc = "emit")
         /\ unread' = unread \/ Start
         /\ pc' = "off" \/ emitted' = emitted \/ emitted' \subseteq OnLines
         /\ pc = "off" => pc' = "off" \/ emitted' \subseteq OnLines
<1>0. ASSUME NEW n \in LinesRead PROVE EmittedHashes(n) \subseteq OnLines
  <2>1. 1..n \subseteq DOMAIN lines
    BY <1>0, LenProperties DEF LinesRead
  <2> QED BY <2>1 DEF EmittedHashes, OnLines
<1>5. CASE Start
  BY <1>0, <1>5 DEF Start
<1>1. CASE Crash \/ Signal \/ Raise \/ Close \/ UNCHANGED vars
  BY <1>1 DEF Crash, LoseMemory, Signal, Raise, Close, vars
<1>2. CASE ScanPhase
  BY <1>2 DEF ScanPhase, ScanFile, ScanEnd, ScanDone, MarkLinks, LinksDone
<1>3. CASE PartialPhase
  BY <1>3 DEF PartialPhase, FetchSizes, NextSize, SizesEnd, PartialWork, PartialReturn,
              MarkPartial, MarkFailed, Sweep, FlushPartial, PartialDone
<1>4. CASE FullPhase
  BY <1>4 DEF FullPhase, FetchHashes, NextHash, HashesEnd, FullWork, SlotWait, FullReturn, MarkFull,
              EmitEnd, FlushFull, FullDone, Complete, Release
<1> QED BY <1>1, <1>2, <1>3, <1>4, <1>5 DEF Next, Run

LEMMA LinesStep ==
  ASSUME NotKilled, StageInv, ProcInv, LinesInv, [Next]_vars
  PROVE  LinesInv'
<1>1. StageInv' /\ StageAdvances /\ lines \in Seq(Line)
  BY StageStep DEF StageInv, TypeOK
<1>2. ASSUME NEW h \in toEmit, EmitGroup(h) PROVE LinesInv'
  <2>1. stage = "full_hashing" /\ stage' = stage /\ pc' = pc /\ pc = "emit"
    BY <1>2 DEF EmitGroup, session, StageInv, PhaseInv, FullPcs
  <2> unread' = {}
    BY <1>2 DEF EmitGroup, LinesInv
  <2>2. CASE UNCHANGED report
    BY <2>1, <2>2 DEF report, LinesInv, LinePartials, OnLines
  <2>3. ASSUME NEW f \in results, FullHash[f] = h,
               emitted' = emitted \cup {h, PartialHash[f]},
               lines' = Append(lines, LineOf(h, f)), ~torn'
        PROVE  LinesInv'
    <3>1. /\ DOMAIN lines' = DOMAIN lines \cup {Len(lines) + 1}
          /\ \A i \in DOMAIN lines : lines'[i] = lines[i]
          /\ lines'[Len(lines) + 1] = LineOf(h, f)
      BY <1>1, <2>3, Appended
    <3>2. OnLines \subseteq OnLines'
      BY <3>1 DEF OnLines
    <3>3. h \in OnLines' /\ PartialHash[f] \in OnLines'
      BY <3>1 DEF OnLines, LineOf
    <3>4. \A g \in LineOf(h, f).files : PartialHash[g] = LineOf(h, f).partial_hash
      BY <2>3, HashAssumption DEF LineOf, StageInv, TypeOK
    <3>5. LinePartials'
      BY <3>1, <3>4 DEF LinesInv, LinePartials
    <3> QED BY <2>1, <2>3, <3>2, <3>3, <3>5 DEF LinesInv
  <2> QED BY <1>2, <2>2, <2>3, EmitCases DEF LinesInv
<1>3. ASSUME ~\E h \in toEmit : EmitGroup(h) PROVE LinesInv'
  <2>1. lines' = lines
    BY <1>1, <1>3, OnlyEmits
  <2>2. ~torn'
    <3>1. ~(Crash /\ pc = "emit")
      BY DEF Crash, NotKilled, StageInv, PhaseInv, FullPcs
    <3> QED BY <1>1, <1>3, <3>1, OnlyEmits DEF LinesInv
  <2>3. stage' \in {"scanning", "partial_hashing"} => stage \in {"scanning", "partial_hashing"}
    BY <1>1, Ranks DEF StageAdvances, StageInv, TypeOK
  <2>4. pc' # "off" => emitted' \subseteq OnLines
    BY <1>1, <1>3, OnlyEmits DEF LinesInv
  <2>5. unread' = {}
    <3>1. CASE Start
      <4>1. lines = <<>>
        BY <3>1 DEF Start, Resumable, ProcInv, LinesInv
      <4>2. Len(lines) = 0 /\ LinesRead = {0}
        BY <4>1 DEF LinesRead
      <4>3. EmittedHashes(0) = {}
        BY DEF EmittedHashes
      <4> QED BY <3>1, <4>2, <4>3 DEF Start, LinesInv
    <3>2. CASE ~Start
      BY <1>1, <1>3, <3>2, OnlyEmits DEF LinesInv
    <3> QED BY <3>1, <3>2
  <2> QED BY <2>1, <2>2, <2>3, <2>4, <2>5 DEF LinesInv, LinePartials, OnLines
<1> QED BY <1>2, <1>3

-----------------------------------------------------------------------------
(* The walk *)

\* Without dropped batches a flush writes what it is given.
LEMMA FilesWritten ==
  ASSUME RowsKept, NEW Q, FlushFiles(Q)
  PROVE  MarkFiles(Q, "scanned") /\ queued' = {}
<1>1. PICK ok \in Commits : MarkFiles(IF ok THEN Q ELSE {}, "scanned")
  BY DEF FlushFiles
<1>2. ok = TRUE
  BY DEF Commits, RowsKept
<1> QED BY <1>1, <1>2 DEF FlushFiles

LEMMA RowsWritten ==
  ASSUME RowsKept, NEW P, NEW F, FlushCache(P, F)
  PROVE  partialRows' = partialRows \cup P /\ pendPartial' = {}
  BY DEF FlushCache, Commits, RowsKept

LEMMA UpdateQueued ==
  ASSUME RowsKept, NEW P, NEW F, QueueUpdate(P, F)
  PROVE  /\ partialRows \subseteq partialRows'
         /\ partialRows' \cup pendPartial' = partialRows \cup pendPartial \cup P
<1>1. CASE FlushCache(pendPartial \cup P, pendFull \cup F)
  BY <1>1, RowsWritten
<1>2. CASE pendPartial' = pendPartial \cup P /\ UNCHANGED rows
  BY <1>2 DEF rows
<1> QED BY <1>1, <1>2 DEF QueueUpdate

LEMMA WalkScan ==
  ASSUME RowsKept, StageInv, WalkInv, NEW f \in Files, ScanFile(f)
  PROVE  WalkInv'
<1>1. /\ pc = "scan" /\ pc' = pc /\ walked' = walked \cup {f}
      /\ walked \ queued \subseteq At("scanned") /\ queued \subseteq walked
  BY DEF ScanFile, WalkInv
<1>2. CASE FlushFiles(queued \cup {f})
  <2>1. MarkFiles(queued \cup {f}, "scanned") /\ queued' = {}
    BY <1>2, FilesWritten
  <2>2. walked' \subseteq At("scanned")'
    BY <1>1, <2>1 DEF MarkFiles, At, StageInv, TypeOK
  <2> QED BY <1>1, <2>1, <2>2 DEF WalkInv
<1>3. CASE queued' = queued \cup {f} /\ UNCHANGED fileStage
  BY <1>1, <1>3 DEF WalkInv, At
<1> QED BY <1>2, <1>3 DEF ScanFile, QueueFile

LEMMA WalkStep ==
  ASSUME RowsKept, StageInv, ProcInv, WalkInv, [Next]_vars
  PROVE  WalkInv'
<1>1. CASE Start
  <2>1. walked' = {} /\ queued' = {} /\ pc' \notin {"scanned", "links"}
    BY <1>1 DEF Start, FirstStep, ProcInv, scan
  <2> QED BY <2>1 DEF WalkInv
<1>2. CASE Crash \/ Raise \/ Close
  <2>1. pc' \in {"off", "close"} /\ queued' \subseteq walked'
    BY <1>2 DEF Crash, LoseMemory, Raise, Interrupt, Close, FlushFiles, WalkInv, scan
  <2> QED BY <2>1 DEF WalkInv
<1>3. CASE Signal \/ UNCHANGED vars
  <2>1. UNCHANGED <<fileStage, walked, queued, page, pc>> /\ (shutdown => shutdown')
    BY <1>3 DEF Signal, vars, session, scan, iter
  <2> QED BY <2>1 DEF WalkInv, At
<1>4. ASSUME NEW f \in Files, ScanFile(f) PROVE WalkInv'
  BY <1>4, WalkScan
<1>5. CASE ScanEnd
  <2>1. MarkFiles(queued, "scanned") /\ queued' = {} /\ pc' = "scanned" /\ walked' = walked
    BY <1>5, FilesWritten DEF ScanEnd
  <2>2. ASSUME ~shutdown' PROVE At("scanned")' = Files
    <3>1. walked = Files /\ walked \ queued \subseteq At("scanned")
      BY <1>5, <2>2 DEF ScanEnd, WalkInv
    <3> QED BY <2>1, <3>1 DEF MarkFiles, At, StageInv, TypeOK
  <2> QED BY <2>1, <2>2 DEF WalkInv
<1>6. CASE ScanDone
  <2>1. UNCHANGED <<fileStage, walked, queued>> /\ pc = "scanned"
    BY <1>6 DEF ScanDone, Interrupt, scan
  <2>2. CASE shutdown
    BY <1>6, <2>1, <2>2 DEF ScanDone, Interrupt, WalkInv
  <2>3. CASE ~shutdown
    <3>1. page' = InodeGroups /\ pc' = "links" /\ At("scanned") = Files
      BY <1>6, <2>3 DEF ScanDone, WalkInv
    <3> DEFINE S == {f \in Files : fileStage[f] # "none" /\ Inode[f] # 0}
    <3>2. ASSUME NEW i \in InodeGroups
          PROVE  i # 0 /\ \E f, g \in Files : f # g /\ Inode[f] = i /\ Inode[g] = i
      <4>1. i \in {Inode[f] : f \in S} /\ Cardinality({f \in S : Inode[f] = i}) >= 2
        BY DEF InodeGroups, Shared
      <4>2. {f \in S : Inode[f] = i} \in SUBSET Files
        OBVIOUS
      <4>3. \E f, g \in {e \in S : Inode[e] = i} : f # g
        BY <4>1, <4>2, TwoMembers
      <4> QED BY <4>1, <4>3
    <3>3. Files \ HardLinked \subseteq At("scanned")'
      BY <2>1, <3>1 DEF At
    <3> QED BY <2>1, <3>1, <3>2, <3>3 DEF WalkInv
  <2> QED BY <2>2, <2>3
<1>7. ASSUME NEW i \in page, MarkLinks(i) PROVE WalkInv'
  <2> DEFINE S == {f \in Files : fileStage[f] # "none" /\ Inode[f] = i}
  <2>1. /\ pc = "links" /\ pc' = pc /\ page' \subseteq page /\ MarkFiles(S, "unique")
        /\ UNCHANGED <<walked, queued>>
    BY <1>7 DEF MarkLinks, scan
  <2>2. S \subseteq HardLinked
    <3>1. i # 0 /\ \E f, g \in Files : f # g /\ Inode[f] = i /\ Inode[g] = i
      BY <2>1 DEF WalkInv
    <3> QED BY <3>1 DEF HardLinked
  <2>3. Files \ HardLinked \subseteq At("scanned")
    BY <2>1 DEF WalkInv
  <2>4. Files \ HardLinked \subseteq At("scanned")'
    BY <2>1, <2>2, <2>3 DEF MarkFiles, At
  <2> QED BY <2>1, <2>4 DEF WalkInv
<1>8. CASE LinksDone \/ PartialPhase \/ FullPhase
  <2>1. UNCHANGED scan /\ pc' \notin {"scan", "scanned", "links"}
    BY <1>8 DEF LinksDone, PartialPhase, FetchSizes, NextSize, SizesEnd, PartialWork,
                PartialReturn, MarkPartial, MarkFailed, Sweep, FlushPartial, PartialDone,
                FullPhase, FetchHashes, NextHash, HashesEnd, FullWork, SlotWait, FullReturn, MarkFull,
                EmitGroup, EmitEnd, FlushFull, FullDone, Complete, Release, Interrupt
  <2> QED BY <2>1 DEF WalkInv, scan
<1> QED BY <1>1, <1>2, <1>3, <1>4, <1>5, <1>6, <1>7, <1>8 DEF Next, Run, ScanPhase

-----------------------------------------------------------------------------
(* Durable hashes *)

\* Steps that write no rows.
LEMMA DurableFrame ==
  ASSUME StageInv, StageInv', DurableInv, UNCHANGED <<fileStage, stage>>,
         pc' \in PartialPcs => pc \in PartialPcs /\ results' \subseteq results,
         pc' = "pdone" => pc = "pdone",
         pc' \in PartialPcs => partialRows \cup pendPartial \subseteq partialRows' \cup pendPartial',
         partialRows \subseteq partialRows'
  PROVE  DurableInv'
<1>1. \A st : At(st)' = At(st)
  BY DEF At
<1> QED BY <1>1 DEF DurableInv, PartialHashesDurable

\* Rows written as scanned or unique make no candidate.
LEMMA DurableWalk ==
  ASSUME StageInv, DurableInv, NEW S \in SUBSET Files, NEW st \in {"scanned", "unique"},
         MarkFiles(S, st), stage = "scanning", stage' = stage, pc' \notin PartialPcs
  PROVE  DurableInv'
<1>1. At("partial_done") = {} /\ At("full_done") = {}
  BY DEF DurableInv
<1>2. At("partial_done")' = {} /\ At("full_done")' = {}
  BY <1>1 DEF MarkFiles, At, StageInv, TypeOK
<1> QED BY <1>2 DEF DurableInv, PartialHashesDurable, PartialPcs

LEMMA DurableScan ==
  ASSUME RowsKept, StageInv, StageInv', DurableInv, ScanPhase
  PROVE  DurableInv'
<1>1. stage = "scanning"
  BY DEF StageInv, PhaseInv, ScanPhase, ScanFile, ScanEnd, ScanDone, MarkLinks, LinksDone
<1>2. ASSUME NEW f \in Files, ScanFile(f) PROVE DurableInv'
  <2>1. stage' = stage /\ pc' = "scan" /\ UNCHANGED rows
    BY <1>2 DEF ScanFile
  <2>2. CASE FlushFiles(queued \cup {f})
    <3>1. MarkFiles(queued \cup {f}, "scanned") /\ queued \cup {f} \in SUBSET Files
      BY <2>2, FilesWritten DEF StageInv, TypeOK
    <3> QED BY <1>1, <2>1, <3>1, DurableWalk DEF PartialPcs
  <2>3. CASE UNCHANGED fileStage
    BY <2>1, <2>3, DurableFrame DEF PartialPcs, rows
  <2> QED BY <1>2, <2>2, <2>3 DEF ScanFile, QueueFile
<1>3. CASE ScanEnd
  <2>1. MarkFiles(queued, "scanned") /\ queued \in SUBSET Files
    BY <1>3, FilesWritten DEF ScanEnd, StageInv, TypeOK
  <2>2. stage' = stage /\ pc' = "scanned"
    BY <1>3 DEF ScanEnd
  <2> QED BY <1>1, <2>1, <2>2, DurableWalk DEF PartialPcs
<1>4. CASE ScanDone
  <2>1. UNCHANGED <<fileStage, stage, rows>> /\ pc' \notin PartialPcs
    BY <1>4 DEF ScanDone, Interrupt, PartialPcs
  <2> QED BY <2>1, DurableFrame DEF rows, PartialPcs
<1>5. ASSUME NEW i \in page, MarkLinks(i) PROVE DurableInv'
  <2> DEFINE S == {f \in Files : fileStage[f] # "none" /\ Inode[f] = i}
  <2>1. MarkFiles(S, "unique") /\ S \in SUBSET Files /\ stage' = stage /\ pc' \notin PartialPcs
    BY <1>5 DEF MarkLinks, PartialPcs
  <2> QED BY <1>1, <2>1, DurableWalk
<1>6. CASE LinksDone
  <2>1. fileStage' = fileStage /\ results' = results /\ results = {} /\ stage' = "partial_hashing"
        /\ pc' = "sizes"
    BY <1>6 DEF LinksDone, StageInv, GroupInv, work
  <2>2. At("partial_done")' = {} /\ At("full_done")' = {}
    BY <1>1, <2>1 DEF DurableInv, At
  <2> QED BY <2>1, <2>2 DEF DurableInv, PartialHashesDurable
<1> QED BY <1>2, <1>3, <1>4, <1>5, <1>6 DEF ScanPhase

LEMMA DurablePartial ==
  ASSUME RowsKept, StageInv, StageInv', DurableInv, PartialPhase
  PROVE  DurableInv'
<1>1. /\ stage = "partial_hashing" /\ pc \in PartialPcs
      /\ At("full_done") = {} /\ At("partial_done") \cup results \subseteq partialRows \cup pendPartial
  BY DEF StageInv, PhaseInv, DurableInv, PartialPcs, PartialPhase, FetchSizes, NextSize,
         SizesEnd, PartialWork, PartialReturn, MarkPartial, MarkFailed, Sweep, FlushPartial,
         PartialDone
<1>2. CASE FetchSizes \/ SizesEnd \/ PartialReturn
  <2>1. UNCHANGED <<session, rows, batch>> /\ results' \subseteq results /\ pc' # "pdone"
    BY <1>2 DEF FetchSizes, SizesEnd, PartialReturn, work
  <2> QED BY <1>1, <2>1, DurableFrame DEF session, rows, batch
<1>3. ASSUME NEW s \in page, NextSize(s) PROVE DurableInv'
  <2>1. UNCHANGED <<session, rows, batch, results>> /\ pc' # "pdone"
    BY <1>3 DEF NextSize
  <2> QED BY <1>1, <2>1, DurableFrame DEF session, rows, batch
<1>4. ASSUME NEW f \in todo, PartialWork(f) PROVE DurableInv'
  <2>1. UNCHANGED session /\ pc' = "phash"
    BY <1>4 DEF PartialWork
  <2>2. partialRows \subseteq partialRows'
        /\ partialRows \cup pendPartial \subseteq partialRows' \cup pendPartial'
        /\ results' \subseteq results \cup (partialRows' \cup pendPartial')
    <3>1. CASE QueueUpdate({f}, {})
      <4>1. results' \subseteq results \cup {f}
        BY <1>4 DEF PartialWork
      <4> QED BY <3>1, <4>1, UpdateQueued
    <3>2. CASE ~QueueUpdate({f}, {})
      BY <1>4, <3>2 DEF PartialWork, CachedPartial, rows, batch
    <3> QED BY <3>1, <3>2
  <2>3. At("partial_done")' = At("partial_done") /\ At("full_done")' = At("full_done")
        /\ stage' = stage
    BY <2>1 DEF At, session
  <2> QED BY <1>1, <2>1, <2>2, <2>3 DEF DurableInv, PartialHashesDurable
<1>5. CASE MarkPartial
  <2>1. /\ MarkFiles(results, "partial_done") /\ pc' = "pfail" /\ UNCHANGED <<stage, rows, batch, results>>
    BY <1>5 DEF MarkPartial, work
  <2>2. At("partial_done")' \subseteq At("partial_done") \cup results
    BY <2>1 DEF MarkFiles, At
  <2>3. At("full_done")' = {}
    BY <1>1, <2>1 DEF MarkFiles, At
  <2> QED BY <1>1, <2>1, <2>2, <2>3 DEF DurableInv, PartialHashesDurable, rows, batch
<1>6. ASSUME NEW S, MarkFiles(S, "unique"), results' = {} \/ results' = results,
             pc' \in {"size", "pflush"}, UNCHANGED <<stage, rows, batch>>
      PROVE  DurableInv'
  <2>1. At("partial_done")' \subseteq At("partial_done") /\ At("full_done")' = {}
    BY <1>1, <1>6 DEF MarkFiles, At
  <2> QED BY <1>1, <1>6, <2>1 DEF DurableInv, PartialHashesDurable, rows, batch
<1>7. CASE MarkFailed
  BY <1>6, <1>7 DEF MarkFailed
<1>8. CASE Sweep
  BY <1>6, <1>8 DEF Sweep, work
<1>9. CASE FlushPartial
  <2>1. partialRows' = partialRows \cup pendPartial /\ pc' = "pdone" /\ results' = {} /\ UNCHANGED session
    BY <1>9, RowsWritten DEF FlushPartial, work, StageInv, GroupInv
  <2>2. At("partial_done")' = At("partial_done") /\ At("full_done")' = At("full_done")
        /\ stage' = stage
    BY <2>1 DEF At, session
  <2> QED BY <1>1, <2>1, <2>2 DEF DurableInv, PartialHashesDurable
<1>10. CASE PartialDone
  <2>1. UNCHANGED <<fileStage, rows>> /\ stage' \in {"partial_hashing", "full_hashing"}
        /\ pc' \notin PartialPcs /\ pc = "pdone"
    BY <1>1, <1>10 DEF PartialDone, Interrupt, PartialPcs
  <2>2. At("partial_done")' = At("partial_done") /\ At("full_done")' = At("full_done")
    BY <2>1 DEF At
  <2>3. At("partial_done") \subseteq partialRows
    BY <2>1 DEF DurableInv
  <2> QED BY <1>1, <2>1, <2>2, <2>3 DEF DurableInv, PartialHashesDurable, PartialPcs, rows
<1> QED BY <1>2, <1>3, <1>4, <1>5, <1>7, <1>8, <1>9, <1>10 DEF PartialPhase

LEMMA DurableFull ==
  ASSUME RowsKept, StageInv, StageInv', DurableInv, FullPhase
  PROVE  DurableInv'
<1>1. /\ stage \in {"full_hashing", "done"}
      /\ At("partial_done") \cup At("full_done") \subseteq partialRows
  <2>1. pc \in FullPcs \cup {"release"}
    BY DEF FullPcs, FullPhase, FetchHashes, NextHash, HashesEnd, FullWork, SlotWait, FullReturn,
           MarkFull, EmitGroup, EmitEnd, FlushFull, FullDone, Release
  <2>2. stage \in {"full_hashing", "done"}
    BY <2>1 DEF StageInv, PhaseInv, FullPcs
  <2> QED BY <2>2 DEF DurableInv, PartialHashesDurable
<1>2. stage' \in {"full_hashing", "done"} /\ pc' \notin PartialPcs
  BY <1>1 DEF PartialPcs, FullPhase, FetchHashes, NextHash, HashesEnd, FullWork, SlotWait, FullReturn,
              MarkFull, EmitGroup, EmitEnd, FlushFull, FullDone, Complete, Release, Interrupt, session
<1>3. fileStage' = fileStage \/ (MarkFiles(results, "full_done") /\ pc = "fmark")
  BY DEF FullPhase, FetchHashes, NextHash, HashesEnd, FullWork, SlotWait, FullReturn,
         MarkFull, EmitGroup, EmitEnd, FlushFull, FullDone, Complete, Release, session
<1>4. partialRows \subseteq partialRows'
  <2>1. ASSUME NEW f \in todo, FullWork(f) PROVE partialRows \subseteq partialRows'
    BY <2>1, UpdateQueued DEF FullWork, SlotWait, rows
  <2>2. CASE FlushFull
    BY <2>2, RowsWritten DEF FlushFull
  <2>3. CASE FullPhase /\ ~FlushFull /\ ~\E f \in todo : FullWork(f)
    BY <2>3 DEF FullPhase, FetchHashes, NextHash, HashesEnd, SlotWait, FullReturn, MarkFull,
                EmitGroup, EmitEnd, FullDone, Release, rows
  <2> QED BY <2>1, <2>2, <2>3
<1>5. At("partial_done")' \cup At("full_done")' \subseteq At("partial_done") \cup At("full_done")
  <2>1. CASE fileStage' = fileStage
    BY <2>1 DEF At
  <2>2. CASE MarkFiles(results, "full_done") /\ pc = "fmark"
    <3>1. results \subseteq At("partial_done")
      BY <2>2 DEF StageInv, GroupInv
    <3> QED BY <2>2, <3>1 DEF MarkFiles, At
  <2> QED BY <1>3, <2>1, <2>2
<1> QED BY <1>1, <1>2, <1>4, <1>5 DEF DurableInv, PartialHashesDurable, PartialPcs

LEMMA DurableStep ==
  ASSUME RowsKept, NotKilled, StageInv, ProcInv, DurableInv, [Next]_vars
  PROVE  DurableInv'
<1>1. StageInv'
  BY StageStep
<1>2. CASE Start \/ Crash \/ Signal \/ Raise \/ UNCHANGED vars
  <2>1. UNCHANGED <<session, rows>>
        \/ Raise
    BY <1>2 DEF Start, Crash, Signal, vars
  <2>2. UNCHANGED <<fileStage, stage, rows>>
    BY <1>2, <2>1 DEF Raise, Interrupt, session
  <2>3. pc' \in PartialPcs => pc' = pc /\ UNCHANGED <<results, batch>>
    <3>1. CASE Start
      BY <3>1 DEF Start, FirstStep, Resumable, ProcInv, PartialPcs
    <3>2. CASE ~Start
      BY <1>2, <3>2 DEF Crash, LoseMemory, Signal, Raise, Interrupt, vars, PartialPcs, work
    <3> QED BY <3>1, <3>2
  <2>4. pc' = "pdone" => pc = "pdone"
    BY <2>3 DEF PartialPcs
  <2> QED BY <1>1, <2>2, <2>3, <2>4, DurableFrame DEF rows, batch
<1>3. CASE Close
  <2>1. /\ partialRows \subseteq partialRows' /\ pc' = "off" /\ stage' = stage
        /\ MarkFiles(queued, "scanned") /\ queued \in SUBSET Files
    BY <1>3, RowsWritten, FilesWritten DEF Close, StageInv, TypeOK
  <2>2. CASE stage = "scanning"
    BY <2>1, <2>2, DurableWalk DEF PartialPcs
  <2>3. CASE stage # "scanning"
    <3>1. queued = {}
      BY <2>3 DEF StageInv, PhaseInv
    <3>2. fileStage' = fileStage
      BY <2>1, <3>1 DEF MarkFiles, StageInv, TypeOK
    <3> QED BY <1>1, <2>1, <3>2, DurableFrame DEF PartialPcs
  <2> QED BY <2>2, <2>3
<1> QED BY <1>1, <1>2, <1>3, DurableScan, DurablePartial, DurableFull DEF Next, Run

(* Where no batch is lost and no process is killed between the walk and the   *)
(* end, the hash of every candidate is in the committed cache by the time     *)
(* full_hashing asks for the groups, however the batches were cut.            *)
THEOREM CandidatesDurable ==
  ASSUME RowsKept, NotKilled
  PROVE  Spec => []PartialHashesDurable
<1>1. ASSUME Init PROVE StageInv /\ ProcInv /\ DurableInv
  <2>1. At("partial_done") = {} /\ At("full_done") = {}
    BY <1>1 DEF Init, At
  <2>2. ProcInv
    BY <1>1 DEF Init, ProcInv
  <2>3. DurableInv
    BY <1>1, <2>1 DEF Init, DurableInv, PartialHashesDurable, PartialPcs
  <2> QED BY <1>1, <2>2, <2>3, StageInit
<1>2. StageInv /\ ProcInv /\ DurableInv /\ [Next]_vars => (StageInv /\ ProcInv /\ DurableInv)'
  BY StageStep, ProcStep, DurableStep
<1>3. DurableInv => PartialHashesDurable
  BY DEF DurableInv
<1> QED BY <1>1, <1>2, <1>3, PTL DEF Spec

-----------------------------------------------------------------------------
(* The groups of equal size *)

LEMMA SharedFinite ==
  ASSUME NEW S \in SUBSET Files, NEW key \in [Files -> Nat]
  PROVE  IsFiniteSet(Shared(S, key)) /\ Shared(S, key) \subseteq Nat
<1> DEFINE T == {key[f] : f \in S}
           img == [f \in S |-> key[f]]
<1>1. IsFiniteSet(S)
  BY FS_Subset
<1>2. img \in Surjection(S, T)
  BY DEF Surjection
<1>3. IsFiniteSet(T)
  BY <1>1, <1>2, FS_Surjection
<1>4. Shared(S, key) \subseteq T /\ T \subseteq Nat
  BY DEF Shared
<1> QED BY <1>3, <1>4, FS_Subset

\* Two members with one key, and a key of two members.
LEMMA SharedKey ==
  ASSUME NEW S \in SUBSET Files, NEW key \in [Files -> Nat], NEW k
  PROVE  k \in Shared(S, key) <=> \E f, g \in S : f # g /\ key[f] = k /\ key[g] = k
<1> DEFINE T == {f \in S : key[f] = k}
<1>1. T \in SUBSET Files
  OBVIOUS
<1>2. Cardinality(T) >= 2 <=> \E f, g \in T : f # g
  BY <1>1, TwoMembers
<1>3. k \in Shared(S, key) <=> k \in {key[f] : f \in S} /\ Cardinality(T) >= 2
  BY DEF Shared
<1> HIDE DEF T
<1>4. \A f : f \in T <=> f \in S /\ key[f] = k
  BY DEF T
<1> QED BY <1>2, <1>3, <1>4

\* One page holds every shared size: the first page is all of them.
LEMMA WholePage ==
  ASSUME OneSizePage, NEW S \in SUBSET Files
  PROVE  Rows(Shared(S, Size), 0, SizeFetch) = Shared(S, Size)
<1> DEFINE K == Shared(S, Size)
           All == Shared(Files, Size)
<1>1. K \subseteq All
  <2> SUFFICES ASSUME NEW k \in K PROVE k \in All
    OBVIOUS
  <2>1. \E f, g \in S : f # g /\ Size[f] = k /\ Size[g] = k
    BY SharedKey
  <2> QED BY <2>1, SharedKey
<1>2. IsFiniteSet(K) /\ IsFiniteSet(All) /\ K \subseteq Nat
  BY SharedFinite
<1> HIDE DEF K, All
<1>3. Cardinality(K) <= SizeFetch /\ Cardinality(K) \in Nat
  <2>1. Cardinality(All) \in Nat /\ Cardinality(K) \in Nat /\ Cardinality(K) <= Cardinality(All)
    BY <1>1, <1>2, FS_Subset, FS_CardinalityType
  <2> QED BY <2>1 DEF OneSizePage, All
<1>4. ASSUME NEW k \in K PROVE Below(K, k) < SizeFetch /\ 0 <= Below(K, k)
  <2> DEFINE J == {j \in K : j < k}
  <2>1. J \subseteq K /\ k \notin J /\ Below(K, k) = Cardinality(J)
    BY <1>2 DEF Below
  <2> HIDE DEF J
  <2>2. Cardinality(J) \in Nat /\ Cardinality(J) <= Cardinality(K) /\ Cardinality(J) # Cardinality(K)
    BY <1>2, <1>4, <2>1, FS_Subset, FS_CardinalityType
  <2> QED BY <1>3, <2>1, <2>2
<1>5. Rows(K, 0, SizeFetch) = K
  BY <1>4 DEF Rows
<1> QED BY <1>5 DEF K

\* The parts of SizeInv that no page size touches.
LEMMA SizeFrame ==
  ASSUME SizeInv, pc' \notin {"sizes", "size", "phash", "pmark", "pfail", "sweep"}, group' = {}
  PROVE  SizeInv'
  BY DEF SizeInv

LEMMA SizeFetched ==
  ASSUME OneSizePage, StageInv, SizeInv, FetchSizes
  PROVE  SizeInv'
<1> DEFINE K == Shared(At("scanned"), Size)
<1>1. /\ pc = "sizes" /\ pc' = "size" /\ UNCHANGED <<fileStage, group>>
      /\ page' = Rows(K, cursor, SizeFetch) /\ At("scanned") \in SUBSET Files
  BY DEF FetchSizes, session, work, At
<1>2. page' = K
  <2>1. CASE cursor = 0
    BY <1>1, <2>1, WholePage
  <2>2. CASE NoPeers
    <3>1. K = {}
      BY <1>1, <2>2, SharedKey DEF NoPeers
    <3> QED BY <1>1, <3>1 DEF Rows
  <2> QED BY <1>1, <2>1, <2>2 DEF SizeInv
<1>3. ASSUME NEW f \in At("scanned")', NEW g \in At("scanned")', f # g, Size[f] = Size[g]
      PROVE  Size[f] \in page'
  <2>1. f \in At("scanned") /\ g \in At("scanned")
    BY <1>1 DEF At
  <2> QED BY <1>1, <1>2, <1>3, <2>1, SharedKey
<1> QED BY <1>1, <1>3 DEF SizeInv

LEMMA SizeTaken ==
  ASSUME StageInv, SizeInv, ProcInv, NEW s \in page, NextSize(s)
  PROVE  SizeInv'
<1>1. /\ pc = "size" /\ pc' \in {"size", "sweep", "phash"} /\ UNCHANGED <<fileStage, shutdown>>
      /\ pc' = "sweep" => shutdown
      /\ pc' # "sweep" => page' = page \ {s}
      /\ group' = IF pc' = "phash" THEN SizeGroup(s) ELSE {}
      /\ todo' = group' /\ results' = results
      /\ pc' = "size" => Cardinality(SizeGroup(s)) < 2
  BY DEF NextSize, session
<1>2. At("scanned")' = At("scanned") /\ SizeGroup(s) \in SUBSET Files
  BY <1>1 DEF At, SizeGroup
<1>3. CASE pc' = "sweep"
  BY <1>1, <1>3 DEF SizeInv
<1>4. CASE pc' = "size"
  <2>1. ASSUME NEW f \in At("scanned"), NEW g \in At("scanned"), f # g, Size[f] = Size[g]
        PROVE  Size[f] \in page'
    <3>1. Size[f] \in page
      BY <1>1, <2>1 DEF SizeInv
    <3>2. Size[f] # s
      <4> SUFFICES ASSUME Size[f] = s PROVE FALSE
        OBVIOUS
      <4>1. f \in SizeGroup(s) /\ g \in SizeGroup(s)
        BY <2>1 DEF SizeGroup
      <4>2. Cardinality(SizeGroup(s)) >= 2
        BY <1>2, <2>1, <4>1, TwoMembers
      <4>3. Cardinality(SizeGroup(s)) \in Nat
        BY <1>2, FS_Subset, FS_CardinalityType
      <4> QED BY <1>1, <1>4, <4>2, <4>3
    <3> QED BY <1>1, <1>4, <3>1, <3>2
  <2> QED BY <1>1, <1>2, <1>4, <2>1 DEF SizeInv
<1>5. CASE pc' = "phash"
  <2>1. group' = SizeGroup(s) /\ results' = {} /\ todo' = group'
    BY <1>1, <1>5 DEF StageInv, GroupInv
  <2>2. ASSUME NEW f \in At("scanned"), NEW g \in group', Size[f] = Size[g] PROVE f \in group'
    BY <2>1, <2>2 DEF SizeGroup
  <2>3. ASSUME NEW f \in At("scanned"), NEW g \in At("scanned"), f # g, Size[f] = Size[g]
        PROVE  Size[f] \in page' \/ f \in group'
    <3>1. Size[f] \in page
      BY <1>1, <2>3 DEF SizeInv
    <3>2. CASE Size[f] = s
      BY <2>1, <3>2 DEF SizeGroup
    <3> QED BY <1>1, <1>5, <3>1, <3>2
  <2> QED BY <1>2, <1>5, <2>1, <2>2, <2>3 DEF SizeInv
<1> QED BY <1>1, <1>3, <1>4, <1>5

LEMMA SizeHashed ==
  ASSUME StageInv, SizeInv, NEW f \in todo, PartialWork(f)
  PROVE  SizeInv'
<1>1. /\ pc = "phash" /\ pc' = pc /\ UNCHANGED <<fileStage, shutdown, group, page>>
      /\ todo' = todo \ {f} /\ results \subseteq results' /\ results' \subseteq results \cup {f}
      /\ hashErrors \subseteq hashErrors'
      /\ ~shutdown => f \in results' \cup hashErrors'
  BY DEF PartialWork, session, iter
<1>2. At("scanned")' = At("scanned")
  BY <1>1 DEF At
<1> QED BY <1>1, <1>2 DEF SizeInv

LEMMA SizePartial ==
  ASSUME OneSizePage, StageInv, ProcInv, SizeInv, PartialPhase
  PROVE  SizeInv'
<1>1. CASE FetchSizes
  BY <1>1, SizeFetched
<1>2. ASSUME NEW s \in page, NextSize(s) PROVE SizeInv'
  BY <1>2, SizeTaken
<1>3. CASE SizesEnd
  <2>1. /\ pc = "size" /\ page = {} /\ pc' \in {"sizes", "sweep"} /\ UNCHANGED <<fileStage, group>>
    BY <1>3 DEF SizesEnd, session, work
  <2>2. NoPeers /\ group = {}
    BY <2>1 DEF SizeInv, NoPeers
  <2>3. NoPeers' /\ group' = {}
    BY <2>1, <2>2 DEF NoPeers, At
  <2> QED BY <2>1, <2>3 DEF SizeInv
<1>4. ASSUME NEW f \in todo, PartialWork(f) PROVE SizeInv'
  BY <1>4, SizeHashed
<1>5. CASE PartialReturn
  <2>1. /\ pc = "phash" /\ pc' = "pmark" /\ todo = {} /\ results' \subseteq results
        /\ ~shutdown => results' = results
        /\ UNCHANGED <<fileStage, shutdown, group, todo, page, hashErrors>>
    BY <1>5 DEF PartialReturn, session, iter
  <2> QED BY <2>1 DEF SizeInv, At
<1>6. CASE MarkPartial
  <2>1. /\ pc = "pmark" /\ pc' = "pfail" /\ MarkFiles(results, "partial_done")
        /\ UNCHANGED <<shutdown, group, todo, results, page, hashErrors>>
    BY <1>6 DEF MarkPartial, work, iter
  <2>2. At("scanned")' \subseteq At("scanned") /\ results \subseteq At("partial_done")'
    BY <2>1 DEF MarkFiles, At, StageInv, TypeOK
  <2> QED BY <2>1, <2>2 DEF SizeInv
<1>7. CASE MarkFailed
  <2>1. /\ pc = "pfail" /\ pc' = "size" /\ MarkFiles(group \ results, "unique")
        /\ group' = {} /\ page' = page
    BY <1>7 DEF MarkFailed, iter
  <2>2. At("scanned")' \subseteq At("scanned") \ group
    <3>1. results \subseteq At("partial_done")
      BY <2>1 DEF SizeInv
    <3> QED BY <2>1, <3>1 DEF MarkFiles, At
  <2> QED BY <2>1, <2>2 DEF SizeInv
<1>8. CASE Sweep \/ FlushPartial \/ PartialDone
  <2>1. pc \in {"sweep", "pflush", "pdone"} /\ pc' \in {"pflush", "pdone", "hashes", "close"}
        /\ group' = group
    BY <1>8 DEF Sweep, FlushPartial, PartialDone, Interrupt, work
  <2>2. group = {}
    BY <2>1 DEF SizeInv
  <2> QED BY <2>1, <2>2, SizeFrame
<1> QED BY <1>1, <1>2, <1>3, <1>4, <1>5, <1>6, <1>7, <1>8 DEF PartialPhase

LEMMA SizeStep ==
  ASSUME OneSizePage, NotKilled, StageInv, ProcInv, SizeInv, [Next]_vars
  PROVE  SizeInv'
<1>1. CASE Start
  <2>1. pc' = "scan" /\ group' = group /\ group = {}
    BY <1>1 DEF Start, FirstStep, Resumable, ProcInv, SizeInv, work
  <2> QED BY <2>1, SizeFrame
<1>2. CASE Crash \/ Raise
  <2>1. pc' \in {"off", "close"} /\ group' = {}
    BY <1>2 DEF Crash, LoseMemory, Raise, Interrupt
  <2> QED BY <2>1, SizeFrame
<1>3. CASE Close
  <2>1. pc' = "off" /\ group' = group /\ pc = "close"
    BY <1>3 DEF Close, work
  <2> QED BY <2>1, SizeFrame DEF SizeInv
<1>4. CASE Signal \/ UNCHANGED vars
  <2>1. /\ UNCHANGED <<fileStage, pc, group, todo, results, page, cursor, hashErrors>>
        /\ shutdown => shutdown'
    BY <1>4 DEF Signal, vars, session, work, iter
  <2> QED BY <2>1 DEF SizeInv, At, NoPeers
<1>5. CASE ScanPhase
  <2>1. /\ pc \in {"scan", "scanned", "links"} /\ UNCHANGED <<group, cursor>>
        /\ pc' \in {"scan", "scanned", "links", "close", "sizes"}
    BY <1>5 DEF ScanPhase, ScanFile, ScanEnd, ScanDone, Interrupt, MarkLinks, LinksDone, work, iter
  <2>2. group' = {} /\ cursor' = 0
    BY <2>1 DEF SizeInv, ProcInv
  <2> QED BY <2>1, <2>2 DEF SizeInv
<1>6. CASE PartialPhase
  BY <1>6, SizePartial
<1>7. CASE FullPhase
  <2>1. /\ pc \in FullPcs \cup {"release"} /\ group' = group
        /\ pc' \in FullPcs \cup {"release", "close"}
    BY <1>7 DEF FullPcs, FullPhase, FetchHashes, NextHash, HashesEnd, FullWork, SlotWait, FullReturn,
                MarkFull, EmitGroup, EmitEnd, FlushFull, FullDone, Complete, Release, Interrupt, work
  <2> QED BY <2>1, SizeFrame DEF SizeInv, FullPcs
<1> QED BY <1>1, <1>2, <1>3, <1>4, <1>5, <1>6, <1>7 DEF Next, Run

-----------------------------------------------------------------------------
(* Files of one size *)

LEMMA PeerFrame ==
  ASSUME PeerInv, fileStage' = fileStage, hashErrors \subseteq hashErrors',
         ~shutdown' => ~shutdown,
         pc' \in PartialPcs => pc \in PartialPcs,
         pc' \in PartialPcs => (pc' \in {"pflush", "pdone"} <=> pc \in {"pflush", "pdone"})
  PROVE  PeerInv'
<1>1. Readable' \subseteq Readable
  BY DEF Readable
<1>2. pc' \in PartialPcs => PeerStages' = PeerStages
  BY DEF PeerStages
<1> QED BY <1>1, <1>2 DEF PeerInv

LEMMA PeerMarked ==
  ASSUME StageInv, ProcInv, SizeInv, PeerInv, MarkPartial
  PROVE  PeerInv'
<1>1. /\ pc = "pmark" /\ pc' = "pfail" /\ MarkFiles(results, "partial_done")
      /\ UNCHANGED <<shutdown, hashErrors>>
  BY DEF MarkPartial
<1> SUFFICES ASSUME ~shutdown, NEW f \in Readable, NEW g \in Readable, f # g, Size[f] = Size[g]
             PROVE  /\ fileStage'[f] = fileStage'[g]
                    /\ fileStage'[f] \in {"scanned", "partial_done"}
  BY <1>1 DEF PeerInv, PeerStages, Readable
<1>2. /\ fileStage[f] = fileStage[g] /\ fileStage[f] \in {"scanned", "partial_done"}
      /\ f \in Files /\ g \in Files
  BY <1>1 DEF PeerInv, PartialPcs, PeerStages, Readable
<1>3. /\ group \subseteq results \cup hashErrors /\ results \subseteq group
      /\ group \subseteq At("scanned")
  BY <1>1 DEF SizeInv, ProcInv, StageInv, GroupInv
<1>4. f \in group <=> g \in group
  <2>1. \A e \in At("scanned"), d \in group : Size[e] = Size[d] => e \in group
    BY <1>1 DEF SizeInv
  <2>2. f \in At("scanned") <=> g \in At("scanned")
    BY <1>2 DEF At
  <2> QED BY <1>3, <2>1, <2>2
<1>5. f \in results <=> g \in results
  BY <1>3, <1>4 DEF Readable
<1>6. \A e \in Files : fileStage'[e] = IF e \in results THEN "partial_done" ELSE fileStage[e]
  BY <1>1 DEF MarkFiles
<1> QED BY <1>2, <1>5, <1>6

LEMMA PeerSettled ==
  ASSUME StageInv, ProcInv, SizeInv, PeerInv, MarkFailed \/ Sweep
  PROVE  PeerInv'
<1>1. /\ pc \in {"pfail", "sweep"} /\ pc' \in {"size", "pflush"} /\ (pc' = "pflush" => pc = "sweep")
      /\ MarkFiles(IF pc = "pfail" THEN group \ results ELSE At("scanned"), "unique")
      /\ UNCHANGED <<shutdown, hashErrors>>
  BY DEF MarkFailed, Sweep
<1> SUFFICES ASSUME ~shutdown, NEW f \in Readable, NEW g \in Readable, f # g, Size[f] = Size[g]
             PROVE  /\ fileStage'[f] = fileStage'[g]
                    /\ fileStage'[f] \in PeerStages'
  BY <1>1 DEF PeerInv, Readable
<1>2. /\ fileStage[f] = fileStage[g] /\ fileStage[f] \in {"scanned", "partial_done"}
      /\ f \in Files /\ g \in Files
  BY <1>1 DEF PeerInv, PartialPcs, PeerStages, Readable
<1>3. CASE pc = "pfail"
  <2>1. group \subseteq results \cup hashErrors
    BY <1>3 DEF SizeInv, ProcInv
  <2>2. f \notin group \ results /\ g \notin group \ results
    BY <2>1 DEF Readable
  <2>3. fileStage'[f] = fileStage[f] /\ fileStage'[g] = fileStage[g]
    BY <1>1, <1>2, <1>3, <2>2 DEF MarkFiles
  <2>4. PeerStages' = {"scanned", "partial_done"}
    BY <1>1, <1>3 DEF PeerStages
  <2> QED BY <1>2, <2>3, <2>4
<1>4. CASE pc = "sweep"
  <2>1. f \notin At("scanned") /\ g \notin At("scanned")
    BY <1>2, <1>4 DEF SizeInv, NoPeers, At
  <2>2. fileStage'[f] = fileStage[f] /\ fileStage'[g] = fileStage[g]
    BY <1>1, <1>2, <1>4, <2>1 DEF MarkFiles
  <2>3. fileStage[f] = "partial_done"
    BY <1>2, <2>1 DEF At
  <2>4. "partial_done" \in PeerStages'
    BY DEF PeerStages
  <2> QED BY <1>2, <2>2, <2>3, <2>4
<1> QED BY <1>1, <1>3, <1>4

LEMMA PeerStep ==
  ASSUME NotKilled, StageInv, ProcInv, WalkInv, SizeInv, PeerInv, [Next]_vars
  PROVE  PeerInv'
<1>1. CASE Start \/ Crash \/ Raise \/ Close
  <2>1. pc' \notin PartialPcs
    BY <1>1 DEF Start, FirstStep, Resumable, ProcInv, Crash, LoseMemory, Raise, Interrupt, Close,
                PartialPcs
  <2> QED BY <2>1 DEF PeerInv
<1>2. CASE Signal \/ UNCHANGED vars
  <2>1. UNCHANGED <<fileStage, pc, hashErrors>> /\ (shutdown => shutdown')
    BY <1>2 DEF Signal, vars, session
  <2> QED BY <2>1, PeerFrame
<1>3. CASE ScanPhase /\ ~LinksDone
  <2>1. pc' \notin PartialPcs
    BY <1>3 DEF ScanPhase, ScanFile, ScanEnd, ScanDone, Interrupt, MarkLinks, PartialPcs
  <2> QED BY <2>1 DEF PeerInv
<1>4. CASE LinksDone
  <2>1. Files \ HardLinked \subseteq At("scanned") /\ fileStage' = fileStage
        /\ pc' = "sizes"
    BY <1>4 DEF LinksDone, WalkInv
  <2>2. \A f \in Readable' : fileStage'[f] = "scanned"
    BY <2>1 DEF Readable, At
  <2> QED BY <2>1, <2>2 DEF PeerInv, PeerStages
<1>5. ASSUME NEW s \in page, NextSize(s) PROVE PeerInv'
  <2>1. /\ UNCHANGED <<fileStage, shutdown, hashErrors>> /\ pc = "size"
        /\ pc' \in {"size", "sweep", "phash"}
    BY <1>5 DEF NextSize, session
  <2> QED BY <2>1, PeerFrame DEF PartialPcs
<1>6. ASSUME NEW f \in todo, PartialWork(f) PROVE PeerInv'
  <2>1. fileStage' = fileStage /\ hashErrors \subseteq hashErrors' /\ shutdown' = shutdown /\ pc' = pc
    BY <1>6 DEF PartialWork, session
  <2> QED BY <2>1, PeerFrame
<1>7. CASE FetchSizes \/ SizesEnd \/ PartialReturn \/ FlushPartial
  <2>1. /\ UNCHANGED <<fileStage, shutdown, hashErrors>>
        /\ \/ pc = "pflush" /\ pc' = "pdone"
           \/ pc \in {"sizes", "size", "phash"} /\ pc' \in {"sizes", "size", "sweep", "pmark"}
    BY <1>7 DEF FetchSizes, SizesEnd, PartialReturn, FlushPartial, session
  <2> QED BY <2>1, PeerFrame DEF PartialPcs
<1>8. CASE MarkPartial
  BY <1>8, PeerMarked
<1>9. CASE MarkFailed \/ Sweep
  BY <1>9, PeerSettled
<1>10. CASE PartialDone \/ FullPhase
  <2>1. pc' \notin PartialPcs
    BY <1>10 DEF PartialDone, FullPhase, FetchHashes, NextHash, HashesEnd, FullWork, SlotWait, FullReturn,
                 MarkFull, EmitGroup, EmitEnd, FlushFull, FullDone, Complete, Release, Interrupt, PartialPcs
  <2> QED BY <2>1 DEF PeerInv
<1> QED BY <1>1, <1>2, <1>3, <1>4, <1>5, <1>6, <1>7, <1>8, <1>9, <1>10
        DEF Next, Run, ScanPhase, PartialPhase

-----------------------------------------------------------------------------
(* The pages of partial hashes *)

\* A finite set has a member with the least value: a smallest set without one would
\* have a smaller set without one.
LEMMA LeastValue ==
  ASSUME NEW S, IsFiniteSet(S), S # {}, NEW f \in [S -> Int]
  PROVE  \E m \in S : \A n \in S : f[m] <= f[n]
<1> DEFINE First(T) == \E m \in T : \A n \in T : f[m] <= f[n]
           Without == {T \in FiniteSubsetsOf(S) : T # {} /\ ~First(T)}
<1>1. FiniteSubsetsOf(S) = SUBSET S
  BY FS_FiniteSubsetsOfFinite
<1>2. SUFFICES ASSUME ~First(S) PROVE FALSE
  OBVIOUS
<1>3. Without \subseteq FiniteSubsetsOf(S) /\ S \in Without
  BY <1>1, <1>2
<1>4. PICK T \in Without : \A U \in Without : <<U, T>> \notin StrictSubsetOrdering(S)
  <2> HIDE DEF Without
  <2> QED BY <1>3, FS_StrictSubsetOrderingWellFounded, WFMin
<1>5. T \subseteq S /\ T # {} /\ ~First(T)
  BY <1>1
<1>6. PICK x \in T : TRUE
  BY <1>5
<1>7. T \ {x} \notin Without
  <2>1. <<T \ {x}, T>> \in StrictSubsetOrdering(S)
    BY <1>5, <1>6 DEF StrictSubsetOrdering
  <2> QED BY <1>4, <2>1
<1>8. f[x] \in Int /\ f[x] <= f[x] /\ \A n \in T : f[n] \in Int
  BY <1>5, <1>6
<1>9. T \ {x} # {}
  BY <1>5, <1>6, <1>8
<1>10. PICK m \in T \ {x} : \A n \in T \ {x} : f[m] <= f[n]
  BY <1>1, <1>5, <1>7, <1>9
<1>11. CASE f[m] <= f[x]
  BY <1>5, <1>10, <1>11
<1>12. CASE f[x] < f[m]
  <2>1. \A n \in T : f[x] <= f[n]
    BY <1>8, <1>10, <1>12
  <2> QED BY <1>5, <1>6, <2>1
<1> QED BY <1>8, <1>10, <1>11, <1>12

\* The least and the greatest of a finite set of numbers.
LEMMA Ends ==
  ASSUME NEW S \in SUBSET Nat, IsFiniteSet(S), S # {}
  PROVE  /\ \E m \in S : \A n \in S : m <= n
         /\ \E m \in S : \A n \in S : n <= m
<1> DEFINE up   == [a \in S |-> a]
           down == [a \in S |-> 0 - a]
<1>1. up \in [S -> Int] /\ down \in [S -> Int]
  OBVIOUS
<1>2. PICK m \in S : \A n \in S : up[m] <= up[n]
  <2> HIDE DEF up
  <2> QED BY <1>1, LeastValue
<1>3. PICK g \in S : \A n \in S : down[g] <= down[n]
  <2> HIDE DEF down
  <2> QED BY <1>1, LeastValue
<1>4. \A n \in S : m <= n
  BY <1>2
<1>5. \A n \in S : n <= g
  <2> SUFFICES ASSUME NEW n \in S PROVE n <= g
    OBVIOUS
  <2>1. 0 - g <= 0 - n /\ n \in Nat /\ g \in Nat
    BY <1>3
  <2> QED BY <2>1
<1> QED BY <1>4, <1>5

\* A key that the first page does not reach comes after a full page.
LEMMA BeyondPage ==
  ASSUME NEW K \in SUBSET Nat, IsFiniteSet(K), NEW n \in Nat \ {0}, NEW p \in K,
         p \notin Rows(K, 0, n)
  PROVE  Cardinality(Rows(K, 0, n)) = n /\ \A k \in Rows(K, 0, n) : k < p
<1> DEFINE P == Rows(K, 0, n)
           J(a) == {j \in K : j < a}
<1>1. \A a \in K : J(a) \subseteq K /\ IsFiniteSet(J(a)) /\ Cardinality(J(a)) \in Nat
  BY FS_Subset, FS_CardinalityType
<1>2. \A a \in K : a \in P <=> Cardinality(J(a)) < n
  <2>1. \A a \in K : Below(K, a) = Cardinality(J(a))
    BY DEF Below
  <2> HIDE DEF J
  <2> QED BY <1>1, <2>1 DEF Rows
<1>3. P \subseteq K /\ IsFiniteSet(P) /\ Cardinality(P) \in Nat
  <2>1. P \subseteq K
    BY DEF Rows
  <2> QED BY <2>1, FS_Subset, FS_CardinalityType
<1>4. \A a, b \in K : a <= b => J(a) \subseteq J(b)
  <2> SUFFICES ASSUME NEW a \in K, NEW b \in K, a <= b, NEW j \in K, j < a PROVE j < b
    OBVIOUS
  <2>1. a \in Nat /\ b \in Nat /\ j \in Nat
    OBVIOUS
  <2> QED BY <2>1
<1>5. ASSUME NEW a \in K, NEW k \in P, a \notin P PROVE k < a
  <2> SUFFICES ASSUME a <= k PROVE FALSE
    <3>1. a \in Nat /\ k \in Nat
      BY <1>3
    <3> QED BY <3>1
  <2>1. J(a) \subseteq J(k) /\ k \in K
    BY <1>3, <1>4
  <2> HIDE DEF J, P
  <2>2. Cardinality(J(a)) <= Cardinality(J(k))
    BY <1>1, <2>1, FS_Subset
  <2>3. Cardinality(J(k)) < n /\ ~(Cardinality(J(a)) < n)
    BY <1>2, <1>5, <2>1
  <2> QED BY <1>1, <2>1, <2>2, <2>3
<1>6. Cardinality(P) >= n
  <2> DEFINE Out == K \ P
  <2>1. Out \in SUBSET Nat /\ IsFiniteSet(Out) /\ p \in Out
    BY FS_Subset
  <2> HIDE DEF Out
  <2>2. PICK m \in Out : \A o \in Out : m <= o
    BY <2>1, Ends
  <2> USE DEF Out
  <2>3. J(m) = P
    <3>1. ASSUME NEW k \in P PROVE k \in J(m)
      BY <1>3, <1>5
    <3>2. ASSUME NEW k \in J(m) PROVE k \in P
      <4>1. k \in Nat /\ m \in Nat /\ k < m /\ k \in K
        OBVIOUS
      <4>2. ~(m <= k)
        BY <4>1
      <4> QED BY <2>2, <4>1, <4>2
    <3> QED BY <3>1, <3>2
  <2>4. m \in K /\ m \notin P
    OBVIOUS
  <2> HIDE DEF J, P, Out
  <2> QED BY <1>1, <1>2, <2>3, <2>4
<1>7. Cardinality(P) <= n
  <2>1. P # {}
    <3> HIDE DEF J, P
    <3>1. Cardinality({}) = 0
      BY FS_EmptySet
    <3>2. ~(n <= 0)
      OBVIOUS
    <3> QED BY <1>6, <3>1, <3>2
  <2>2. PICK q \in P : \A k \in P : k <= q
    <3> HIDE DEF P
    <3> QED BY <1>3, <2>1, Ends
  <2>3. P \subseteq J(q) \cup {q}
    <3> SUFFICES ASSUME NEW k \in P, k # q PROVE k < q /\ k \in K
      OBVIOUS
    <3>1. k \in Nat /\ q \in Nat /\ k <= q /\ k \in K
      BY <1>3, <2>2
    <3> QED BY <3>1
  <2>4. q \in K /\ q \notin J(q)
    <3>1. q \in K /\ q \in Nat
      BY <1>3
    <3> QED BY <3>1
  <2> HIDE DEF J, P
  <2>5. /\ IsFiniteSet(J(q) \cup {q})
        /\ Cardinality(J(q) \cup {q}) = Cardinality(J(q)) + 1
    BY <1>1, <2>4, FS_AddElement
  <2>6. Cardinality(P) <= Cardinality(J(q) \cup {q})
    BY <2>3, <2>5, FS_Subset
  <2>7. Cardinality(J(q)) \in Nat /\ Cardinality(J(q)) < n
    BY <1>1, <1>2, <2>4
  <2> QED BY <1>3, <2>5, <2>6, <2>7
<1>8. \A k \in P : k < p
  BY <1>5
<1> HIDE DEF P
<1>9. Cardinality(P) = n
  BY <1>3, <1>6, <1>7
<1> QED BY <1>8, <1>9 DEF P

LEMMA KeysetFetched ==
  ASSUME StageInv, ProcInv, LinesInv, KeysetInv, FetchHashes
  PROVE  KeysetInv'
<1> DEFINE K == {h \in Shared(Confirmable, PartialHash) : h > cursor}
<1>1. /\ pc = "hashes" /\ pc' = "hash" /\ UNCHANGED <<lines, todo, results>>
      /\ page' = Rows(K, 0, HashFetch)
      /\ \/ page' = {} /\ cursor' = cursor
         \/ cursor' \in page' /\ \A h \in page' : h <= cursor'
  BY DEF FetchHashes, work
<1>2. page' \subseteq K /\ K \subseteq Nat
  BY <1>1, SharedFinite DEF Rows, Confirmable, At
<1>3. cursor \in Nat /\ cursor' \in Nat /\ cursor <= cursor'
      /\ \A k \in page' : k \in Nat /\ cursor < k
  <2>1. cursor \in Nat
    BY DEF StageInv, TypeOK
  <2>2. \A k \in page' : k \in Nat /\ k > cursor
    BY <1>2
  <2> QED BY <1>1, <2>1, <2>2
<1>4. todo = {} /\ results = {}
  BY <1>1 DEF ProcInv, StageInv, GroupInv
<1>5. ASSUME NEW i \in DOMAIN lines
      PROVE  lines[i].partial_hash <= cursor' /\ lines[i].partial_hash \notin page'
  <2>1. lines[i].partial_hash <= cursor
    BY <1>1 DEF KeysetInv, WorkPcs, Behind
  <2>2. lines[i].partial_hash \in Nat
    <3>1. lines[i] \in Line
      BY ElementOfSeq, LenProperties DEF StageInv, TypeOK
    <3> QED BY <3>1 DEF Line, Hashes
  <2> QED BY <1>3, <2>1, <2>2
<1>6. \A k \in page' : k <= cursor'
  BY <1>1
<1> QED BY <1>1, <1>4, <1>5, <1>6 DEF KeysetInv, Behind

LEMMA KeysetTaken ==
  ASSUME StageInv, KeysetInv, NEW h \in page, NextHash(h)
  PROVE  KeysetInv'
<1>1. /\ pc = "hash" /\ pc' \in {"hash", "fflush", "fhash"}
      /\ page' \subseteq page /\ UNCHANGED <<lines, cursor, results>> /\ results = {}
      /\ pc' = "fhash" => h \notin page'
      /\ todo' = IF pc' = "fhash" THEN HashGroup(h) ELSE {}
  BY DEF NextHash, StageInv, GroupInv
<1>2. \A f \in HashGroup(h) : PartialHash[f] = h
  BY DEF HashGroup
<1>3. h <= cursor
  BY <1>1 DEF KeysetInv, WorkPcs
<1>4. \A i \in DOMAIN lines : Behind(lines[i].partial_hash) /\ lines[i].partial_hash # h
  BY <1>1 DEF KeysetInv, WorkPcs, Behind
<1> QED BY <1>1, <1>2, <1>3, <1>4 DEF KeysetInv, WorkPcs, Behind

\* The hashes of a new group to emit are on no line.
LEMMA KeysetMarked ==
  ASSUME StageInv, LinesInv, ReportSound, KeysetInv, MarkFull
  PROVE  KeysetInv'
<1>1. /\ pc = "fmark" /\ pc' = "emit" /\ toEmit' = Shared(results, FullHash)
      /\ UNCHANGED <<lines, cursor, page, todo, results>> /\ results \subseteq Files
  BY DEF MarkFull, iter, work, StageInv, TypeOK
<1>2. ASSUME NEW i \in DOMAIN lines, lines[i].hash \in toEmit' PROVE FALSE
  <2>1. PICK e \in results : FullHash[e] = lines[i].hash
    BY <1>1, <1>2 DEF Shared
  <2>2. PICK x \in lines[i].files : FullHash[x] = lines[i].hash
    BY DEF ReportSound
  <2>3. x \in Files
    <3>1. lines[i] \in Line
      BY ElementOfSeq, LenProperties DEF StageInv, TypeOK
    <3> QED BY <2>2, <3>1 DEF Line
  <2>4. PartialHash[x] = lines[i].partial_hash
    BY <2>2 DEF LinesInv, LinePartials
  <2>5. PartialHash[e] = PartialHash[x]
    BY <1>1, <2>1, <2>2, <2>3, HashAssumption
  <2>6. lines[i].partial_hash # PartialHash[e]
    BY <1>1, <2>1 DEF KeysetInv, WorkPcs
  <2> QED BY <2>4, <2>5, <2>6
<1> QED BY <1>1, <1>2 DEF KeysetInv, WorkPcs, Behind

LEMMA KeysetEmitted ==
  ASSUME StageInv, LinesInv, KeysetInv, NEW h \in toEmit, EmitGroup(h)
  PROVE  KeysetInv'
<1>1. /\ pc = "emit" /\ pc' = pc /\ toEmit' = toEmit \ {h}
      /\ UNCHANGED <<cursor, page, todo, results>> /\ lines \in Seq(Line)
  BY DEF EmitGroup, iter, work, StageInv, TypeOK
<1>2. CASE UNCHANGED report
  BY <1>1, <1>2 DEF report, KeysetInv, WorkPcs, Behind
<1>3. ASSUME NEW f \in results, lines' = Append(lines, LineOf(h, f)) PROVE KeysetInv'
  <2>1. /\ DOMAIN lines' = DOMAIN lines \cup {Len(lines) + 1}
        /\ \A i \in DOMAIN lines : lines'[i] = lines[i]
        /\ lines'[Len(lines) + 1] = LineOf(h, f)
    BY <1>1, <1>3, Appended
  <2>2. LineOf(h, f).hash = h /\ LineOf(h, f).partial_hash = PartialHash[f]
    BY DEF LineOf
  <2>3. Behind(PartialHash[f])
    BY <1>1 DEF KeysetInv, WorkPcs
  <2>4. \A i \in DOMAIN lines' : Behind(lines'[i].partial_hash) /\ lines'[i].hash \notin toEmit'
    BY <1>1, <2>1, <2>2, <2>3 DEF KeysetInv, WorkPcs
  <2>5. pc' \in WorkPcs /\ pc \in WorkPcs
    BY <1>1 DEF WorkPcs
  <2> QED BY <1>1, <2>4, <2>5 DEF KeysetInv, Behind
<1> QED BY <1>2, <1>3, EmitCases DEF LinesInv

LEMMA KeysetStep ==
  ASSUME NotKilled, StageInv, ProcInv, LinesInv, ReportSound, KeysetInv, [Next]_vars
  PROVE  KeysetInv'
<1>1. CASE Start \/ Crash \/ Raise \/ Close \/ ScanPhase
  <2>1. pc' \notin WorkPcs
    BY <1>1 DEF Start, FirstStep, Resumable, ProcInv, Crash, LoseMemory, Raise, Interrupt, Close,
                ScanPhase, ScanFile, ScanEnd, ScanDone, MarkLinks, LinksDone, WorkPcs
  <2> QED BY <2>1 DEF KeysetInv
<1>2. CASE Signal \/ UNCHANGED vars
  <2>1. UNCHANGED <<pc, page, cursor, lines, todo, results, toEmit>>
    BY <1>2 DEF Signal, vars, iter, work
  <2> QED BY <2>1 DEF KeysetInv, Behind
<1>3. CASE PartialPhase /\ ~PartialDone
  <2>1. pc' \notin WorkPcs
    BY <1>3 DEF PartialPhase, FetchSizes, NextSize, SizesEnd, PartialWork, PartialReturn,
                MarkPartial, MarkFailed, Sweep, FlushPartial, WorkPcs
  <2> QED BY <2>1 DEF KeysetInv
<1>4. CASE PartialDone
  <2>1. lines = <<>> /\ todo = {} /\ results = {} /\ UNCHANGED <<lines, todo, results>>
        /\ pc' \in {"hashes", "close"}
    BY <1>4 DEF PartialDone, Interrupt, work, ProcInv, LinesInv, StageInv, PhaseInv, GroupInv,
                PartialPcs
  <2>2. DOMAIN lines = {}
    BY <2>1
  <2> QED BY <2>1, <2>2 DEF KeysetInv
<1>5. CASE FetchHashes
  BY <1>5, KeysetFetched
<1>6. ASSUME NEW h \in page, NextHash(h) PROVE KeysetInv'
  BY <1>6, KeysetTaken
<1>7. CASE MarkFull
  BY <1>7, KeysetMarked
<1>8. ASSUME NEW h \in toEmit, EmitGroup(h) PROVE KeysetInv'
  BY <1>8, KeysetEmitted
<1>9. ASSUME NEW f \in todo, FullWork(f) PROVE KeysetInv'
  <2>1. /\ pc = "fhash" /\ pc' = pc /\ UNCHANGED <<page, cursor, lines>>
        /\ todo' \cup results' \subseteq todo \cup results
    BY <1>9 DEF FullWork, SlotWait, iter
  <2> QED BY <2>1 DEF KeysetInv, Behind
<1>11. CASE SlotWait \/ Release
  <2>1. pc' \notin WorkPcs
    BY <1>11 DEF SlotWait, Release, WorkPcs
  <2> QED BY <2>1 DEF KeysetInv
<1>10. CASE HashesEnd \/ FullReturn \/ EmitEnd \/ FlushFull \/ FullDone
  <2>1. /\ UNCHANGED <<page, cursor, lines>> /\ pc \in WorkPcs
        /\ todo' \cup results' \subseteq todo \cup results
        /\ pc' \in {"hashes", "hash", "fmark", "fflush", "fdone", "release", "close"}
        /\ pc' = "fmark" => pc = "fhash"
        /\ pc' = "hash" => pc = "emit"
    BY <1>10 DEF HashesEnd, FullReturn, EmitEnd, FlushFull, FullDone, Complete, Release, Interrupt, WorkPcs, iter, work
  <2> QED BY <2>1 DEF KeysetInv, Behind
<1> QED BY <1>1, <1>2, <1>3, <1>4, <1>5, <1>6, <1>7, <1>8, <1>9, <1>10, <1>11
        DEF Next, Run, PartialPhase, FullPhase

-----------------------------------------------------------------------------
(* Every pair *)

\* An emitted hash is one of the two hashes of a line's duplicated content.
LEMMA EmittedLine ==
  ASSUME StageInv, LinesInv, ReportSound, pc # "off", NEW h \in emitted
  PROVE  \E i \in DOMAIN lines : \E x, y \in Files :
           /\ Twins(x, y)
           /\ FullHash[x] = lines[i].hash /\ PartialHash[x] = lines[i].partial_hash
           /\ h \in {lines[i].hash, lines[i].partial_hash}
<1>1. PICK i \in DOMAIN lines : h \in {lines[i].hash, lines[i].partial_hash}
  BY DEF LinesInv, OnLines
<1>2. lines[i].files \subseteq Files
  <2>1. lines[i] \in Line
    BY ElementOfSeq, LenProperties DEF StageInv, TypeOK
  <2> QED BY <2>1 DEF Line
<1>3. PICK x \in lines[i].files, y \in lines[i].files : x # y
  BY DEF ReportSound
<1>4. FullHash[x] = lines[i].hash /\ FullHash[y] = lines[i].hash
  BY DEF ReportSound
<1>5. PartialHash[x] = lines[i].partial_hash
  BY DEF LinesInv, LinePartials
<1> QED BY <1>1, <1>2, <1>3, <1>4, <1>5 DEF Twins

\* No line of the report is ever changed or removed: only emit_group writes it.
LEMMA LinesGrow ==
  ASSUME StageInv, [Next]_vars
  PROVE  /\ Len(lines) <= Len(lines')
         /\ \A i \in DOMAIN lines : lines'[i] = lines[i]
<1>1. lines \in Seq(Line)
  BY DEF StageInv, TypeOK
<1>2. lines' = lines \/ \E e : lines' = Append(lines, e)
  <2>1. CASE Start \/ Crash \/ Signal \/ Raise \/ Close \/ UNCHANGED vars
    BY <2>1 DEF Start, Crash, Signal, Raise, Close, vars
  <2>2. CASE ScanPhase
    BY <2>2 DEF ScanPhase, ScanFile, ScanEnd, ScanDone, MarkLinks, LinksDone
  <2>3. CASE PartialPhase
    BY <2>3 DEF PartialPhase, FetchSizes, NextSize, SizesEnd, PartialWork, PartialReturn,
                MarkPartial, MarkFailed, Sweep, FlushPartial, PartialDone
  <2>4. ASSUME NEW h \in toEmit, EmitGroup(h)
        PROVE  lines' = lines \/ \E e : lines' = Append(lines, e)
    BY <2>4 DEF EmitGroup, report
  <2>5. CASE FullPhase /\ ~\E h \in toEmit : EmitGroup(h)
    BY <2>5 DEF FullPhase, FetchHashes, NextHash, HashesEnd, FullWork, SlotWait, FullReturn,
                MarkFull, EmitEnd, FlushFull, FullDone, Release
  <2> QED BY <2>1, <2>2, <2>3, <2>4, <2>5 DEF Next, Run
<1>3. ASSUME NEW e, lines' = Append(lines, e)
      PROVE  Len(lines) <= Len(lines') /\ \A i \in DOMAIN lines : lines'[i] = lines[i]
  BY <1>1, <1>3
<1>4. Len(lines) <= Len(lines)
  BY <1>1
<1> QED BY <1>2, <1>3, <1>4

LEMMA ReportedStays ==
  ASSUME StageInv, [Next]_vars, NEW f, NEW g, Reported(f, g)
  PROVE  Reported(f, g)'
<1>1. PICK i \in DOMAIN lines : {f, g} \subseteq lines[i].files
  BY DEF Reported
<1>2. lines \in Seq(Line) /\ lines' \in Seq(Line)
  BY StageStep DEF StageInv, TypeOK
<1>3. lines'[i] = lines[i] /\ Len(lines) <= Len(lines')
  BY LinesGrow
<1>4. i \in DOMAIN lines'
  <2>1. DOMAIN lines = 1..Len(lines) /\ DOMAIN lines' = 1..Len(lines')
        /\ Len(lines) \in Nat /\ Len(lines') \in Nat
    BY <1>2, LenProperties
  <2> QED BY <1>3, <2>1
<1> QED BY <1>1, <1>3, <1>4 DEF Reported

\* A file that could not be read stays on the list.
LEMMA ErrorsStay == ASSUME [Next]_vars PROVE hashErrors \subseteq hashErrors' /\ Excused \subseteq Excused'
<1>1. hashErrors \subseteq hashErrors'
  <2>1. CASE Start \/ Crash \/ Signal \/ Raise \/ Close \/ UNCHANGED vars
    BY <2>1 DEF Start, Crash, Signal, Raise, Close, vars
  <2>2. CASE ScanPhase
    BY <2>2 DEF ScanPhase, ScanFile, ScanEnd, ScanDone, MarkLinks, LinksDone
  <2>3. CASE PartialPhase
    BY <2>3 DEF PartialPhase, FetchSizes, NextSize, SizesEnd, PartialWork, PartialReturn,
                MarkPartial, MarkFailed, Sweep, FlushPartial, PartialDone
  <2>4. CASE FullPhase
    BY <2>4 DEF FullPhase, FetchHashes, NextHash, HashesEnd, FullWork, SlotWait, FullReturn, MarkFull,
                EmitGroup, EmitEnd, FlushFull, FullDone, Complete, Release
  <2> QED BY <2>1, <2>2, <2>3, <2>4 DEF Next, Run
<1> QED BY <1>1 DEF Excused

\* A pair that a page may hold is on it or after it.
LEMMA PairFetched ==
  ASSUME StageInv, DurableInv, FetchHashes,
         NEW f \in Files, NEW g \in Files, Twins(f, g), Waiting(f, g)
  PROVE  Waiting(f, g)'
<1> DEFINE p == PartialHash[f]
           S == Shared(Confirmable, PartialHash)
           K == {h \in S : h > cursor}
<1>1. /\ pc = "hashes" /\ pc' = "hash" /\ UNCHANGED fileStage
      /\ page' = Rows(K, 0, HashFetch) /\ more' = (Cardinality(Rows(K, 0, HashFetch)) = HashFetch)
      /\ \/ page' = {} /\ cursor' = cursor
         \/ cursor' \in page' /\ \A h \in page' : h <= cursor'
  BY DEF FetchHashes, session
<1>2. stage = "full_hashing"
  BY <1>1 DEF StageInv, PhaseInv, FullPcs, WorkPcs
<1>3. f \in Confirmable /\ g \in Confirmable /\ Confirmable \in SUBSET Files
  BY <1>2 DEF Waiting, DurableInv, PartialHashesDurable, Confirmable, At
<1>4. PartialHash[g] = p /\ p > cursor /\ p \in Nat
  <2>1. cursor < p /\ p \in Nat /\ cursor \in Nat
    BY <1>1 DEF Waiting, Ahead, StageInv, TypeOK
  <2> QED BY <2>1, HashAssumption DEF Twins
<1>5. p \in S /\ IsFiniteSet(S) /\ S \subseteq Nat
  BY <1>3, <1>4, SharedKey, SharedFinite DEF Twins
<1>6. p \in K /\ IsFiniteSet(K) /\ K \in SUBSET Nat
  <2> HIDE DEF S
  <2>1. K \subseteq S
    OBVIOUS
  <2> QED BY <1>4, <1>5, <2>1, FS_Subset
<1>7. ASSUME p \notin page' PROVE more' /\ cursor' < p
  <2> HIDE DEF K, p
  <2>1. Cardinality(page') = HashFetch /\ \A k \in page' : k < p
    BY <1>1, <1>6, <1>7, BeyondPage
  <2>2. page' # {}
    BY <2>1, FS_EmptySet
  <2> QED BY <1>1, <2>1, <2>2
<1>8. Ahead(p)'
  BY <1>1, <1>7 DEF Ahead
<1> QED BY <1>1, <1>8 DEF Waiting, At

\* A pair whose group is taken up is at work; the group is not passed over.
LEMMA PairTaken ==
  ASSUME StageInv, DurableInv, LinesInv, ReportSound, KeysetInv,
         NEW h \in page, NextHash(h), ~shutdown,
         NEW f \in Files \ Excused, NEW g \in Files \ Excused, Twins(f, g), Waiting(f, g)
  PROVE  AtWork(f, g)' \/ Waiting(f, g)'
<1> DEFINE p == PartialHash[f]
<1>1. /\ pc = "hash" /\ UNCHANGED <<fileStage, partialRows, cursor, results>>
      /\ pc' = CASE Cardinality(HashGroup(h)) < 2 -> "hash"
                 [] shutdown                      -> "fflush"
                 [] h \in emitted                 -> "hash"
                 [] OTHER                         -> "fhash"
      /\ page' = IF pc' = "fflush" THEN {} ELSE page \ {h}
      /\ more' = (more /\ pc' # "fflush")
      /\ todo' = IF pc' = "fhash" THEN HashGroup(h) ELSE {}
  BY DEF NextHash, session, rows
<1>2. pc' \in {"hash", "fhash"} /\ page' = page \ {h} /\ more' = (more /\ TRUE)
  BY <1>1
<1>3. ASSUME p # h PROVE Waiting(f, g)'
  <2>1. Ahead(p)'
    BY <1>1, <1>2, <1>3 DEF Waiting, Ahead
  <2> QED BY <1>1, <2>1 DEF Waiting, At
<1>4. ASSUME p = h, f \in HashGroup(h), g \in HashGroup(h) PROVE AtWork(f, g)'
  <2>1. HashGroup(h) \in SUBSET Files
    BY DEF HashGroup, Confirmable, At
  <2>2. ~(Cardinality(HashGroup(h)) < 2)
    <3>1. Cardinality(HashGroup(h)) >= 2
      BY <1>4, <2>1, TwoMembers DEF Twins
    <3>2. Cardinality(HashGroup(h)) \in Nat
      BY <2>1, FS_Subset, FS_CardinalityType
    <3> QED BY <3>1, <3>2
  <2>3. h \notin emitted
    <3> SUFFICES ASSUME h \in emitted PROVE f \in Shadowed
      BY DEF Excused
    <3>1. PICK i \in DOMAIN lines : \E x, y \in Files :
            /\ Twins(x, y)
            /\ FullHash[x] = lines[i].hash /\ PartialHash[x] = lines[i].partial_hash
            /\ h \in {lines[i].hash, lines[i].partial_hash}
      BY <1>1, EmittedLine
    <3>2. PICK x \in Files, y \in Files :
            /\ Twins(x, y)
            /\ FullHash[x] = lines[i].hash /\ PartialHash[x] = lines[i].partial_hash
            /\ h \in {lines[i].hash, lines[i].partial_hash}
      BY <3>1
    <3>3. lines[i].partial_hash # h
      BY <1>1 DEF KeysetInv, WorkPcs, Behind
    <3>4. FullHash[x] = PartialHash[f] /\ PartialHash[x] # PartialHash[f]
      BY <1>4, <3>2, <3>3
    <3>5. FullHash[x] # FullHash[f]
      BY <3>4, HashAssumption
    <3> QED BY <3>2, <3>4, <3>5 DEF Shadowed
  <2>4. pc' = "fhash" /\ todo' = HashGroup(h)
    BY <1>1, <2>2, <2>3
  <2> QED BY <1>4, <2>4 DEF AtWork
<1>5. ASSUME p = h PROVE f \in HashGroup(h) /\ g \in HashGroup(h)
  <2>1. stage = "full_hashing"
    BY <1>1 DEF StageInv, PhaseInv, FullPcs, WorkPcs
  <2>2. f \in Confirmable /\ g \in Confirmable
    BY <2>1 DEF Waiting, DurableInv, PartialHashesDurable, Confirmable
  <2>3. PartialHash[g] = PartialHash[f]
    BY HashAssumption DEF Twins
  <2> QED BY <1>5, <2>2, <2>3 DEF HashGroup
<1> QED BY <1>3, <1>4, <1>5

\* A group that was hashed keeps its pairs; the groups ahead are left alone.
LEMMA PairMarked ==
  ASSUME StageInv, ProcInv, KeysetInv, MarkFull,
         NEW f \in Files, NEW g \in Files, Twins(f, g), AtWork(f, g) \/ Waiting(f, g)
  PROVE  AtWork(f, g)' \/ Waiting(f, g)'
<1>1. /\ pc = "fmark" /\ pc' = "emit" /\ MarkFiles(results, "full_done")
      /\ toEmit' = Shared(results, FullHash) /\ results \in SUBSET Files
      /\ UNCHANGED <<page, more, cursor, todo, results>>
  BY DEF MarkFull, iter, work, StageInv, TypeOK
<1>2. CASE AtWork(f, g)
  <2>1. f \in results /\ g \in results
    BY <1>1, <1>2 DEF AtWork, ProcInv
  <2>2. FullHash[f] \in toEmit'
    BY <1>1, <2>1, SharedKey DEF Twins
  <2> QED BY <1>1, <2>1, <2>2 DEF AtWork
<1>3. CASE Waiting(f, g)
  <2>1. PartialHash[f] \in page \/ cursor < PartialHash[f]
    BY <1>1, <1>3 DEF Waiting, Ahead
  <2>2. PartialHash[g] = PartialHash[f]
    BY HashAssumption DEF Twins
  <2>3. cursor \in Nat /\ PartialHash[f] \in Nat
    BY DEF StageInv, TypeOK
  <2>4. ~Behind(PartialHash[f])
    BY <2>1, <2>3 DEF Behind
  <2>5. \A e \in results : Behind(PartialHash[e])
    BY <1>1 DEF KeysetInv, WorkPcs
  <2>6. f \notin results /\ g \notin results
    BY <2>2, <2>4, <2>5
  <2>7. {f, g} \subseteq At("partial_done")'
    BY <1>1, <1>3, <2>6 DEF Waiting, MarkFiles, At
  <2>8. Ahead(PartialHash[f])'
    BY <1>1, <1>3 DEF Waiting, Ahead
  <2> QED BY <2>7, <2>8 DEF Waiting
<1> QED BY <1>2, <1>3

\* emit_group writes the line of a pair: no other line hides it.
LEMMA PairEmitted ==
  ASSUME StageInv, LinesInv, ReportSound, KeysetInv, NEW h \in toEmit, EmitGroup(h),
         NEW f \in Files \ Excused, NEW g \in Files \ Excused, Twins(f, g),
         AtWork(f, g) \/ Waiting(f, g)
  PROVE  Reported(f, g)' \/ AtWork(f, g)' \/ Waiting(f, g)'
<1>1. /\ pc = "emit" /\ pc' = pc /\ toEmit' = toEmit \ {h} /\ lines \in Seq(Line)
      /\ UNCHANGED <<fileStage, page, more, cursor, todo, results>>
  BY DEF EmitGroup, session, iter, work, StageInv, TypeOK
<1>2. CASE Waiting(f, g)
  BY <1>1, <1>2 DEF Waiting, Ahead, At
<1>3. CASE AtWork(f, g) /\ FullHash[f] # h
  BY <1>1, <1>3 DEF AtWork
<1>4. CASE AtWork(f, g) /\ FullHash[f] = h
  <2>1. {f, g} \subseteq results /\ FullHash[g] = h
    BY <1>1, <1>4 DEF AtWork, Twins
  <2>2. h \notin emitted
    <3> SUFFICES ASSUME h \in emitted PROVE f \in Shadowed
      BY DEF Excused
    <3>1. PICK i \in DOMAIN lines : \E x, y \in Files :
            /\ Twins(x, y)
            /\ FullHash[x] = lines[i].hash /\ PartialHash[x] = lines[i].partial_hash
            /\ h \in {lines[i].hash, lines[i].partial_hash}
      BY <1>1, EmittedLine
    <3>2. lines[i].hash \notin toEmit
      BY <1>1 DEF KeysetInv, WorkPcs
    <3>3. PICK x \in Files, y \in Files :
            Twins(x, y) /\ FullHash[x] # FullHash[f] /\ PartialHash[x] = FullHash[f]
      BY <1>4, <3>1, <3>2
    <3> QED BY <3>3 DEF Shadowed
  <2>3. PICK e \in results : lines' = Append(lines, LineOf(h, e))
    BY <2>2, EmitCases DEF LinesInv
  <2>4. Len(lines) + 1 \in DOMAIN lines' /\ lines'[Len(lines) + 1] = LineOf(h, e)
    BY <1>1, <2>3, Appended
  <2>5. {f, g} \subseteq LineOf(h, e).files
    BY <1>4, <2>1 DEF LineOf
  <2> QED BY <2>4, <2>5 DEF Reported
<1> QED BY <1>2, <1>3, <1>4

\* Past the last page nothing is left.
LEMMA PairStep ==
  ASSUME NotKilled, StageInv, ProcInv, LinesInv, ReportSound, DurableInv, PeerInv,
         KeysetInv, PairInv, [Next]_vars
  PROVE  PairInv'
<1> SUFFICES ASSUME pc' \in WorkPcs, ~shutdown',
                    NEW f \in Files \ Excused', NEW g \in Files \ Excused', Twins(f, g)
             PROVE  Reported(f, g)' \/ AtWork(f, g)' \/ Waiting(f, g)'
  BY DEF PairInv, Twins
<1>1. f \in Files \ Excused /\ g \in Files \ Excused
  BY ErrorsStay
<1>2. CASE PartialDone
  <2>1. /\ pc = "pdone" /\ pc' = "hashes" /\ cursor' = 0 /\ ~shutdown
        /\ fileStage' = fileStage
    BY <1>2 DEF PartialDone, Interrupt, WorkPcs
  <2>2. Size[f] = Size[g] /\ f # g /\ f \in Readable /\ g \in Readable
    BY <1>1, HashAssumption DEF Twins, Excused, Readable
  <2>3. fileStage[f] = "partial_done" /\ fileStage[g] = "partial_done"
    BY <2>1, <2>2 DEF PeerInv, PeerStages, PartialPcs
  <2>4. 0 < PartialHash[f]
    <3>1. PartialHash[f] \in Nat \ {0}
      OBVIOUS
    <3> QED BY <3>1
  <2>5. Ahead(PartialHash[f])'
    BY <2>1, <2>4 DEF Ahead
  <2> QED BY <1>1, <2>1, <2>3, <2>5 DEF Waiting, At
<1>3. ~PartialDone => pc \in WorkPcs /\ ~shutdown
  <2>1. ~(Start \/ Crash \/ Raise \/ Close \/ ScanPhase)
    BY DEF Start, FirstStep, Resumable, ProcInv, Crash, LoseMemory, Raise, Interrupt, Close,
           ScanPhase, ScanFile, ScanEnd, ScanDone, MarkLinks, LinksDone, WorkPcs
  <2>2. PartialPhase => PartialDone
    BY DEF PartialPhase, FetchSizes, NextSize, SizesEnd, PartialWork, PartialReturn,
           MarkPartial, MarkFailed, Sweep, FlushPartial, WorkPcs
  <2>3. ~Signal /\ (UNCHANGED vars => pc' = pc /\ shutdown' = shutdown)
    BY DEF Signal, vars
  <2>4. FullPhase => pc \in WorkPcs /\ shutdown' = shutdown
    BY DEF FullPhase, FetchHashes, NextHash, HashesEnd, FullWork, SlotWait, FullReturn, MarkFull, EmitGroup,
           EmitEnd, FlushFull, FullDone, Complete, Release, WorkPcs
  <2> QED BY <2>1, <2>2, <2>3, <2>4 DEF Next, Run
<1> SUFFICES ASSUME ~PartialDone PROVE Reported(f, g)' \/ AtWork(f, g)' \/ Waiting(f, g)'
  BY <1>2
<1>4. Reported(f, g) \/ AtWork(f, g) \/ Waiting(f, g)
  BY <1>1, <1>3 DEF PairInv
<1>5. CASE Reported(f, g)
  BY <1>5, ReportedStays
<1> SUFFICES ASSUME AtWork(f, g) \/ Waiting(f, g)
             PROVE  Reported(f, g)' \/ AtWork(f, g)' \/ Waiting(f, g)'
  BY <1>4, <1>5
<1>6. CASE FetchHashes
  <2>1. Waiting(f, g)
    BY <1>6 DEF FetchHashes, AtWork
  <2> QED BY <1>1, <1>6, <2>1, PairFetched
<1>7. ASSUME NEW h \in page, NextHash(h) PROVE AtWork(f, g)' \/ Waiting(f, g)'
  <2>1. Waiting(f, g)
    BY <1>7 DEF NextHash, AtWork
  <2> QED BY <1>1, <1>3, <1>7, <2>1, PairTaken
<1>8. CASE HashesEnd
  <2>1. /\ pc = "hash" /\ page = {} /\ pc' = (IF more THEN "hashes" ELSE "fflush")
        /\ UNCHANGED <<fileStage, cursor>>
    BY <1>8 DEF HashesEnd, session
  <2>2. Waiting(f, g) /\ more /\ cursor < PartialHash[f]
    BY <2>1 DEF AtWork, Waiting, Ahead
  <2> QED BY <2>1, <2>2 DEF Waiting, Ahead, At
<1>9. ASSUME NEW e \in todo, FullWork(e) PROVE AtWork(f, g)' \/ Waiting(f, g)'
  <2>1. /\ pc = "fhash" /\ pc' = pc /\ UNCHANGED <<fileStage, page, more, cursor>>
        /\ todo \cup results \subseteq todo' \cup results' \cup hashErrors'
    BY <1>3, <1>9 DEF FullWork, session, iter
  <2>2. f \notin hashErrors' /\ g \notin hashErrors'
    BY DEF Excused
  <2> QED BY <2>1, <2>2 DEF AtWork, Waiting, Ahead, At
<1>10. CASE FullReturn
  <2>1. /\ pc = "fhash" /\ pc' = "fmark" /\ todo = {}
        /\ UNCHANGED <<fileStage, page, more, cursor, results>>
    BY <1>3, <1>10 DEF FullReturn, session, iter, work
  <2> QED BY <2>1 DEF AtWork, Waiting, Ahead, At
<1>11. CASE MarkFull
  BY <1>1, <1>11, PairMarked
<1>12. ASSUME NEW h \in toEmit, EmitGroup(h)
       PROVE  Reported(f, g)' \/ AtWork(f, g)' \/ Waiting(f, g)'
  BY <1>1, <1>12, PairEmitted
<1>13. CASE EmitEnd
  <2>1. /\ pc = "emit" /\ pc' = "hash" /\ toEmit = {}
        /\ UNCHANGED <<fileStage, page, more, cursor>>
    BY <1>13 DEF EmitEnd, session, iter
  <2> QED BY <2>1 DEF AtWork, Waiting, Ahead, At
<1>14. ~FlushFull /\ ~FullDone /\ ~SlotWait /\ ~Release
  BY DEF FlushFull, FullDone, Complete, SlotWait, Release, WorkPcs, AtWork, Waiting, Ahead
<1>15. CASE UNCHANGED vars
  BY <1>15 DEF vars, session, iter, work, AtWork, Waiting, Ahead, At
<1>16. FullPhase \/ UNCHANGED vars
  <2>1. pc \in WorkPcs
    BY <1>3
  <2>2. ~(Start \/ Crash \/ Raise \/ Close \/ Signal)
    BY DEF Start, FirstStep, Resumable, ProcInv, Crash, LoseMemory, Raise, Interrupt, Close,
           Signal, WorkPcs
  <2>3. ~ScanPhase /\ ~PartialPhase
    BY <2>1 DEF ScanPhase, ScanFile, ScanEnd, ScanDone, MarkLinks, LinksDone, PartialPhase,
                FetchSizes, NextSize, SizesEnd, PartialWork, PartialReturn, MarkPartial,
                MarkFailed, Sweep, FlushPartial, PartialDone, WorkPcs
  <2> QED BY <2>2, <2>3 DEF Next, Run
<1> QED BY <1>6, <1>7, <1>8, <1>9, <1>10, <1>11, <1>12, <1>13, <1>14, <1>15, <1>16 DEF FullPhase

-----------------------------------------------------------------------------
(* The promise *)

(***************************************************************************)
(* ReportComplete speaks of the last step alone.  What makes it inductive: *)
(* peers of one size reach phase 3 together (PeerInv), for which the size  *)
(* groups are all read (SizeInv) from a whole walk (WalkInv); there they   *)
(* are in the cache (DurableInv), and from then on every pair is reported, *)
(* at work or ahead of the cursor (PairInv), while what is behind it is    *)
(* on no page again (KeysetInv).                                           *)
(***************************************************************************)
PromiseInv ==
  /\ SoundInv /\ OnceInv
  /\ ProcInv /\ LinesInv /\ WalkInv /\ DurableInv /\ SizeInv /\ PeerInv
  /\ KeysetInv /\ PairInv
  /\ ReportComplete

\* At the look at the flag that completes the session every pair is reported.
LEMMA NoneMissing ==
  ASSUME PairInv, pc = "fdone", ~shutdown
  PROVE  \A f, g \in Files \ Excused : Twins(f, g) => Reported(f, g)
<1>1. pc \in WorkPcs
  BY DEF WorkPcs
<1>2. \A f, g : ~AtWork(f, g) /\ ~Waiting(f, g)
  BY DEF AtWork, Waiting, Ahead
<1> QED BY <1>1, <1>2 DEF PairInv

\* Only FullDone completes a session.
LEMMA Completes ==
  ASSUME [Next]_vars, status' = "done", status # "done"
  PROVE  FullDone /\ ~shutdown
<1>1. ~(Start \/ Crash \/ Signal \/ Raise \/ Close \/ UNCHANGED vars)
  BY DEF Start, Crash, Signal, Raise, Interrupt, Close, vars, session
<1>2. ~ScanPhase
  BY DEF ScanPhase, ScanFile, ScanEnd, ScanDone, Interrupt, MarkLinks, LinksDone
<1>3. ~PartialPhase
  BY DEF PartialPhase, FetchSizes, NextSize, SizesEnd, PartialWork, PartialReturn,
         MarkPartial, MarkFailed, Sweep, FlushPartial, PartialDone, Interrupt, session
<1>4. FullPhase => FullDone /\ ~shutdown
  BY DEF FullPhase, FetchHashes, NextHash, HashesEnd, FullWork, SlotWait, FullReturn, MarkFull,
         EmitGroup, EmitEnd, FlushFull, FullDone, Complete, Release, Interrupt, session
<1> QED BY <1>1, <1>2, <1>3, <1>4 DEF Next, Run

LEMMA CompleteStep ==
  ASSUME StageInv, PairInv, ReportComplete, [Next]_vars
  PROVE  ReportComplete'
<1> SUFFICES ASSUME status' = "done", NEW f \in Files \ Excused', NEW g \in Files \ Excused',
                    Twins(f, g)
             PROVE  Reported(f, g)'
  BY DEF ReportComplete, Twins
<1>1. f \in Files \ Excused /\ g \in Files \ Excused
  BY ErrorsStay
<1>2. CASE status = "done"
  BY <1>1, <1>2, ReportedStays DEF ReportComplete
<1>3. CASE status # "done"
  <2>1. pc = "fdone" /\ ~shutdown
    BY <1>3, Completes DEF FullDone
  <2> QED BY <1>1, <2>1, NoneMissing, ReportedStays
<1> QED BY <1>2, <1>3

LEMMA PromiseInit == ASSUME Init PROVE PromiseInv
<1>1. StageInv /\ DOMAIN lines = {}
  <2>1. lines = <<>>
    BY DEF Init
  <2> QED BY <2>1, StageInit
<1>2. SoundInv /\ OnceInv
  BY <1>1 DEF Init, SoundInv, LinkInv, EmitInv, ReportSound, OnceInv, EmittedInv,
              HashReportedOnce, StageInv
<1>3. ProcInv /\ LinesInv /\ WalkInv
  BY <1>1 DEF Init, ProcInv, LinesInv, LinePartials, WalkInv
<1>4. At("partial_done") = {} /\ At("full_done") = {}
  BY DEF Init, At
<1>5. DurableInv
  BY <1>4 DEF Init, DurableInv, PartialHashesDurable, PartialPcs
<1>6. SizeInv /\ PeerInv /\ KeysetInv /\ PairInv /\ ReportComplete
  BY DEF Init, SizeInv, PeerInv, PartialPcs, KeysetInv, PairInv, WorkPcs, ReportComplete
<1> QED BY <1>2, <1>3, <1>5, <1>6 DEF PromiseInv

LEMMA PromiseStep ==
  ASSUME RowsKept, NotKilled, OneSizePage, PromiseInv, [Next]_vars
  PROVE  PromiseInv'
<1>1. StageInv /\ LinkInv /\ EmitInv /\ ReportSound
  BY DEF PromiseInv, SoundInv
<1>2. SoundInv'
  BY <1>1, StageStep, LinkStep, EmitStep, SoundStep DEF SoundInv
<1>3. OnceInv' /\ ProcInv' /\ LinesInv' /\ WalkInv'
  BY <1>1, OnceStep, ProcStep, LinesStep, WalkStep DEF PromiseInv
<1>4. DurableInv' /\ SizeInv' /\ PeerInv'
  BY <1>1, DurableStep, SizeStep, PeerStep DEF PromiseInv
<1>5. KeysetInv' /\ PairInv' /\ ReportComplete'
  BY <1>1, KeysetStep, PairStep, CompleteStep DEF PromiseInv
<1> QED BY <1>2, <1>3, <1>4, <1>5 DEF PromiseInv

(* A session that ends as done has reported every pair of equal files that    *)
(* could be read, were not links, and have no hash that another content's     *)
(* line shows: for every set of files, batch, and page of hashes, signals and *)
(* unreadable files included, where no batch is lost, no process is killed    *)
(* between the walk and the end, and one page holds the sizes.                *)
THEOREM EveryPairReported ==
  ASSUME RowsKept, NotKilled, OneSizePage
  PROVE  Spec => []ReportComplete
<1>1. PromiseInv /\ [Next]_vars => PromiseInv'
  BY PromiseStep
<1>2. Init => PromiseInv
  BY PromiseInit
<1>3. PromiseInv => ReportComplete
  BY DEF PromiseInv
<1> QED BY <1>1, <1>2, <1>3, PTL DEF Spec

-----------------------------------------------------------------------------
(* Refinement *)

\* Steps that leave outcome, report and excuses alone.
LEMMA PromiseStutters ==
  ASSUME UNCHANGED <<status, lines, hashErrors>>
  PROVE  UNCHANGED Promise!vars
  BY DEF Promise!vars, Excused

LEMMA PromiseReports ==
  ASSUME NEW T \in SUBSET Files, Promise!Report(T)
  PROVE  [Promise!Next]_(Promise!vars)
  BY DEF Promise!Next

LEMMA PromiseEmits ==
  ASSUME PromiseInv, NEW h \in toEmit, EmitGroup(h)
  PROVE  [Promise!Next]_(Promise!vars)
<1>0. PICK S \in SUBSET results : S = {g \in results : FullHash[g] = h}
  OBVIOUS
<1>1. /\ pc = "emit" /\ UNCHANGED <<status, hashErrors>> /\ ~torn /\ lines \in Seq(Line)
      /\ results \subseteq Files
  BY DEF EmitGroup, session, PromiseInv, LinesInv, SoundInv, StageInv, TypeOK
<1>2. CASE UNCHANGED report
  BY <1>1, <1>2, PromiseStutters DEF report
<1>3. ASSUME h \notin emitted, NEW f \in results, lines' = Append(lines, LineOf(h, f))
      PROVE  Promise!Report(S)
  <2>1. /\ DOMAIN lines' = DOMAIN lines \cup {Len(lines) + 1}
        /\ \A i \in DOMAIN lines : lines'[i] = lines[i]
        /\ lines'[Len(lines) + 1] = LineOf(h, f)
    BY <1>1, <1>3, Appended
  <2>2. LineOf(h, f).files = S
    BY <1>0 DEF LineOf
  <2>3. {lines'[i].files : i \in DOMAIN lines'} = {lines[i].files : i \in DOMAIN lines} \cup {S}
    <3> DEFINE n == Len(lines) + 1
    <3> HIDE DEF n
    <3>1. \A i \in DOMAIN lines : lines'[i].files = lines[i].files
      BY <2>1
    <3>2. DOMAIN lines' = DOMAIN lines \cup {n} /\ lines'[n].files = S
      BY <2>1, <2>2 DEF n
    <3> QED BY <3>1, <3>2
  <2>4. status = "running"
    BY <1>1 DEF PromiseInv, SoundInv, StageInv, PhaseInv
  <2>5. Cardinality(S) >= 2 /\ S # {}
    <3>1. Cardinality(S) >= 2
      BY <1>0, <1>1 DEF PromiseInv, SoundInv, EmitInv, Shared
    <3> QED BY <3>1, FS_EmptySet
  <2>6. Promise!Equal(S)
    BY <1>0 DEF Promise!Equal
  <2>7. ASSUME NEW i \in DOMAIN lines PROVE ~Promise!Equal(lines[i].files \cup S)
    <3>1. PICK x \in lines[i].files : FullHash[x] = lines[i].hash
      BY DEF PromiseInv, SoundInv, ReportSound
    <3>2. PICK y \in S : FullHash[y] = h
      BY <1>0, <2>5
    <3>3. lines[i].hash # h
      BY <1>1, <1>3 DEF PromiseInv, OnceInv, EmittedInv, LinesInv
    <3> QED BY <3>1, <3>2, <3>3 DEF Promise!Equal
  <2>8. Excused' = Excused
    BY <1>1 DEF Excused
  <2>9. \A R \in {lines[i].files : i \in DOMAIN lines} : ~Promise!Equal(R \cup S)
    BY <2>7
  <2>10. Promise!Cardinality(S) = Cardinality(S)
    BY DEF Promise!Cardinality, Cardinality
  <2> QED BY <1>1, <2>3, <2>4, <2>5, <2>6, <2>8, <2>9, <2>10 DEF Promise!Report
<1>4. S \in SUBSET Files
  BY <1>1
<1>5. \/ h \in emitted /\ UNCHANGED report
      \/ \E f \in results : h \notin emitted /\ lines' = Append(lines, LineOf(h, f))
  BY <1>1, EmitCases
<1>6. ASSUME Promise!Report(S) PROVE [Promise!Next]_(Promise!vars)
  BY <1>4, <1>6, PromiseReports
<1> QED BY <1>2, <1>3, <1>5, <1>6

LEMMA PromiseExcuses ==
  ASSUME NEW f \in Files, status = "running", UNCHANGED <<status, lines>>,
         hashErrors' = hashErrors \cup {f}
  PROVE  [Promise!Next]_(Promise!vars)
<1>1. Excused' = Excused \cup {f}
  BY DEF Excused
<1>2. Promise!Excuse(f)
  BY <1>1 DEF Promise!Excuse
<1> QED BY <1>2 DEF Promise!Next

LEMMA PromiseInterrupts ==
  ASSUME status # "interrupted", status' = "interrupted", UNCHANGED <<lines, hashErrors>>
  PROVE  [Promise!Next]_(Promise!vars)
<1>1. Promise!Interrupt
  BY DEF Promise!Interrupt, Excused
<1> QED BY <1>1 DEF Promise!Next

\* The look at the flag that completes the session: no pair is missing.
LEMMA PromiseCompletes ==
  ASSUME PromiseInv, FullDone, ~shutdown
  PROVE  [Promise!Next]_(Promise!vars)
<1>1. /\ pc = "fdone" /\ status' = "done" /\ UNCHANGED <<lines, hashErrors>>
      /\ status = "running"
  BY DEF FullDone, Complete, PromiseInv, SoundInv, StageInv, PhaseInv
<1>2. ASSUME NEW f \in Files \ Excused, NEW g \in Files \ Excused, f # g, Promise!Equal({f, g})
      PROVE  \E S \in {lines[i].files : i \in DOMAIN lines} : {f, g} \subseteq S
  <2>1. Twins(f, g)
    BY <1>2 DEF Promise!Equal, Twins
  <2> QED BY <1>1, <2>1, NoneMissing DEF Reported, PromiseInv
<1>3. UNCHANGED Excused
  BY <1>1 DEF Excused
<1>4. Promise!Complete
  BY <1>1, <1>2, <1>3 DEF Promise!Complete
<1> QED BY <1>4 DEF Promise!Next

\* How a step that emits no line moves the outcome and the excuses.
LEMMA OutcomeMoves ==
  ASSUME StageInv, [Next]_vars, ~\E h \in toEmit : EmitGroup(h)
  PROVE  \/ UNCHANGED <<status, hashErrors>>
         \/ status # "interrupted" /\ status' = "interrupted" /\ UNCHANGED hashErrors
         \/ /\ status = "running" /\ UNCHANGED status
            /\ \E f \in Files : hashErrors' = hashErrors \cup {f}
         \/ FullDone /\ ~shutdown
<1> USE DEF session
<1>1. pc \notin {"off", "release", "close"} => status = "running"
  BY DEF StageInv, PhaseInv
<1>2. CASE Start \/ Crash \/ Signal \/ Raise \/ Close \/ UNCHANGED vars
  BY <1>1, <1>2 DEF Start, Crash, Signal, Raise, Interrupt, Close, vars
<1>3. CASE ScanPhase
  BY <1>1, <1>3 DEF ScanPhase, ScanFile, ScanEnd, ScanDone, Interrupt, MarkLinks, LinksDone
<1>4. CASE PartialPhase
  <2>1. ASSUME NEW f \in todo, PartialWork(f)
        PROVE  /\ status = "running" /\ UNCHANGED status
               /\ UNCHANGED hashErrors \/ \E g \in Files : hashErrors' = hashErrors \cup {g}
    BY <1>1, <2>1 DEF PartialWork, StageInv, TypeOK
  <2>2. ASSUME PartialPhase, ~\E f \in todo : PartialWork(f)
        PROVE  \/ UNCHANGED <<status, hashErrors>>
               \/ status # "interrupted" /\ status' = "interrupted" /\ UNCHANGED hashErrors
    BY <1>1, <2>2 DEF PartialPhase, FetchSizes, NextSize, SizesEnd, PartialReturn, MarkPartial,
                      MarkFailed, Sweep, FlushPartial, PartialDone, Interrupt
  <2> QED BY <1>4, <2>1, <2>2
<1>5. CASE FullPhase
  <2>1. ASSUME NEW f \in todo, FullWork(f)
        PROVE  /\ status = "running" /\ UNCHANGED status
               /\ UNCHANGED hashErrors \/ \E g \in Files : hashErrors' = hashErrors \cup {g}
    BY <1>1, <2>1 DEF FullWork, SlotWait, StageInv, TypeOK
  <2>2. ASSUME FullPhase, ~\E f \in todo : FullWork(f)
        PROVE  \/ UNCHANGED <<status, hashErrors>>
               \/ status # "interrupted" /\ status' = "interrupted" /\ UNCHANGED hashErrors
               \/ FullDone /\ ~shutdown
    BY <1>1, <2>2 DEF FullPhase, FetchHashes, NextHash, HashesEnd, SlotWait, FullReturn, MarkFull,
                      EmitEnd, FlushFull, FullDone, Complete, Release, Interrupt
  <2> QED BY <1>5, <2>1, <2>2
<1> QED BY <1>2, <1>3, <1>4, <1>5 DEF Next, Run

LEMMA PromiseRefines ==
  ASSUME PromiseInv, [Next]_vars
  PROVE  [Promise!Next]_(Promise!vars)
<1>1. CASE \E h \in toEmit : EmitGroup(h)
  BY <1>1, PromiseEmits
<1>2. CASE ~\E h \in toEmit : EmitGroup(h)
  <2>1. lines' = lines /\ StageInv
    BY <1>2, OnlyEmits DEF PromiseInv, SoundInv, StageInv, TypeOK
  <2>2. CASE UNCHANGED <<status, hashErrors>>
    BY <2>1, <2>2, PromiseStutters
  <2>3. CASE status # "interrupted" /\ status' = "interrupted" /\ UNCHANGED hashErrors
    BY <2>1, <2>3, PromiseInterrupts
  <2>4. CASE /\ status = "running" /\ UNCHANGED status
             /\ \E f \in Files : hashErrors' = hashErrors \cup {f}
    BY <2>1, <2>4, PromiseExcuses
  <2>5. CASE FullDone /\ ~shutdown
    BY <2>5, PromiseCompletes
  <2> QED BY <1>2, <2>1, <2>2, <2>3, <2>4, <2>5, OutcomeMoves
<1> QED BY <1>1, <1>2

LEMMA PromiseBegins == ASSUME Init PROVE Promise!Init
<1>1. lines = <<>> /\ status = "running" /\ hashErrors = {}
  BY DEF Init
<1>2. {lines[i].files : i \in DOMAIN lines} = {}
  BY <1>1
<1>3. Excused \subseteq Files
  BY <1>1 DEF Excused, HardLinked, Shadowed
<1> QED BY <1>1, <1>2, <1>3 DEF Promise!Init

(* The scan pipeline implements DuplicateReport: every line is a new group of *)
(* equal files, a file is excused only where its hash fails, and a session    *)
(* completes only when no pair is missing.                                    *)
THEOREM ImplementsReport ==
  ASSUME RowsKept, NotKilled, OneSizePage
  PROVE  Spec => KeepsPromise
<1>1. PromiseInv /\ [Next]_vars => PromiseInv'
  BY PromiseStep
<1>2. Init => PromiseInv
  BY PromiseInit
<1>3. PromiseInv /\ [Next]_vars => [Promise!Next]_(Promise!vars)
  BY PromiseRefines
<1>4. Init => Promise!Init
  BY PromiseBegins
<1> QED BY <1>1, <1>2, <1>3, <1>4, PTL DEF Spec, KeepsPromise, Promise!Spec
=============================================================================
