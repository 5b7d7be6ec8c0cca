---------------------------- MODULE PipelineProofs ----------------------------
(***************************************************************************)
(* What Pipeline promises for every set of files, every batch and page     *)
(* size, and every combination of faults and crashes.                      *)
(***************************************************************************)
EXTENDS Pipeline, FiniteSetTheorems, SequenceTheorems, TLAPS

USE FilesAssumption, MetadataAssumption, BatchAssumption, FaultAssumption

-----------------------------------------------------------------------------
(* Helpers *)

\* The operators that write file rows and cache rows keep their types.
LEMMA MarkType ==
  ASSUME fileStage \in [Files -> FileStages], NEW S, NEW st \in FileStages, MarkFiles(S, st)
  PROVE  fileStage' \in [Files -> FileStages]
  BY DEF MarkFiles

LEMMA FlushFilesType ==
  ASSUME fileStage \in [Files -> FileStages], NEW Q \in SUBSET Files, FlushFiles(Q)
  PROVE  fileStage' \in [Files -> FileStages] /\ queued' \subseteq Files
  BY DEF FlushFiles, MarkFiles, FileStages

LEMMA FlushCacheType ==
  ASSUME partialRows \subseteq Files, fullRows \subseteq Files,
         NEW P \in SUBSET Files, NEW F \in SUBSET Files, FlushCache(P, F)
  PROVE  /\ partialRows' \subseteq Files /\ fullRows' \subseteq Files
         /\ pendPartial' \subseteq Files /\ pendFull' \subseteq Files
  BY DEF FlushCache

LEMMA QueueUpdateType ==
  ASSUME TypeOK, NEW P \in SUBSET Files, NEW F \in SUBSET Files, QueueUpdate(P, F)
  PROVE  /\ partialRows' \subseteq Files /\ fullRows' \subseteq Files
         /\ pendPartial' \subseteq Files /\ pendFull' \subseteq Files
<1> DEFINE P2 == pendPartial \cup P
           F2 == pendFull \cup F
<1>1. P2 \in SUBSET Files /\ F2 \in SUBSET Files
  BY DEF TypeOK
<1>2. \/ FlushCache(P2, F2)
      \/ pendPartial' = P2 /\ pendFull' = F2 /\ UNCHANGED rows
  BY DEF QueueUpdate
<1>3. CASE FlushCache(P2, F2)
  BY <1>1, <1>3, FlushCacheType DEF TypeOK
<1> QED BY <1>1, <1>2, <1>3 DEF TypeOK, rows

\* A page is a finite set of numbers.
LEMMA PageType ==
  ASSUME NEW S \in SUBSET Files, NEW key \in [Files -> Nat], NEW K \in SUBSET Shared(S, key),
         NEW offset, NEW fetch
  PROVE  /\ Rows(K, offset, fetch) \subseteq Nat
         /\ Cardinality(Rows(K, offset, fetch)) \in Nat
<1>1. IsFiniteSet(S)
  BY FS_Subset
<1>2. IsFiniteSet({key[f] : f \in S})
  <2> DEFINE T == {key[f] : f \in S}
             img == [f \in S |-> key[f]]
  <2>1. img \in Surjection(S, T)
    BY DEF Surjection
  <2> QED BY <1>1, <2>1, FS_Surjection
<1>3. Rows(K, offset, fetch) \subseteq {key[f] : f \in S}
  BY DEF Rows, Shared
<1>4. {key[f] : f \in S} \subseteq Nat
  OBVIOUS
<1> QED BY <1>2, <1>3, <1>4, FS_Subset, FS_CardinalityType

\* Reading the report back gives hashes.
LEMMA EmittedType ==
  ASSUME lines \in Seq(Line), NEW n \in LinesRead \cup {Len(lines)}
  PROVE  EmittedHashes(n) \subseteq Hashes
<1> n \in Nat /\ 1..n \subseteq DOMAIN lines
  BY LenProperties DEF LinesRead
<1>1. \A i \in DOMAIN lines : lines[i] \in Line
  BY ElementOfSeq, LenProperties
<1>2. \A i \in DOMAIN lines : lines[i].hash \in Hashes /\ lines[i].partial_hash \in Hashes
  BY <1>1 DEF Line
<1> QED BY <1>2 DEF EmittedHashes

-----------------------------------------------------------------------------
(* Type correctness *)

LEMMA TypeInit == ASSUME Init PROVE TypeOK
<1>1. lines \in Seq(Line)
  BY EmptySeq DEF Init
<1>2. partialRows \subseteq Files /\ fullRows \subseteq Files
  BY CacheAssumption DEF Init
<1>3. fileStage \in [Files -> FileStages] /\ stage \in Stages /\ pc \in Locations
  BY DEF Init, FileStages, Stages, Locations
<1> QED BY <1>1, <1>2, <1>3 DEF Init, TypeOK

LEMMA TypeProcess ==
  ASSUME TypeOK, Start \/ Crash \/ Signal \/ Raise \/ Close
  PROVE  TypeOK'
<1>1. CASE Start
  <2>1. pc' \in Locations
    BY <1>1 DEF Start, FirstStep, Locations
  <2>2. emitted' \subseteq Hashes /\ unread' \subseteq Hashes
    BY <1>1, EmittedType DEF TypeOK, Start
  <2> QED BY <1>1, <2>1, <2>2
          DEF TypeOK, Start, session, rows, scan, batch, iter, work
<1>2. CASE Crash
  BY <1>2 DEF TypeOK, Crash, LoseMemory, Locations, session, rows
<1>3. CASE Signal
  BY <1>3 DEF TypeOK, Signal, session, rows, scan, batch, iter, work
<1>4. CASE Raise
  BY <1>4 DEF TypeOK, Raise, Interrupt, Locations, rows, scan, batch
<1>5. CASE Close
  <2>1. fileStage' \in [Files -> FileStages] /\ queued' \subseteq Files
    BY <1>5, FlushFilesType DEF TypeOK, Close
  <2>2. /\ partialRows' \subseteq Files /\ fullRows' \subseteq Files
        /\ pendPartial' \subseteq Files /\ pendFull' \subseteq Files
    BY <1>5, FlushCacheType DEF TypeOK, Close
  <2> QED BY <1>5, <2>1, <2>2 DEF TypeOK, Close, Locations, work
<1> QED BY <1>1, <1>2, <1>3, <1>4, <1>5

LEMMA TypeScan == ASSUME TypeOK, ScanPhase PROVE TypeOK'
<1>1. ASSUME NEW f \in Files, ScanFile(f) PROVE TypeOK'
  <2>1. fileStage' \in [Files -> FileStages] /\ queued' \subseteq Files
    BY <1>1, FlushFilesType DEF TypeOK, ScanFile, QueueFile
  <2> QED BY <1>1, <2>1 DEF TypeOK, ScanFile, rows, batch, iter, work
<1>2. CASE ScanEnd
  <2>1. fileStage' \in [Files -> FileStages] /\ queued' \subseteq Files
    BY <1>2, FlushFilesType DEF TypeOK, ScanEnd
  <2> QED BY <1>2, <2>1 DEF TypeOK, ScanEnd, Locations, rows, batch, iter, work
<1>3. CASE ScanDone
  <2>1. InodeGroups \subseteq Nat
    BY DEF InodeGroups, Shared
  <2> QED BY <1>3, <2>1
          DEF TypeOK, ScanDone, Interrupt, Locations, rows, scan, batch, work
<1>4. ASSUME NEW i \in page, MarkLinks(i) PROVE TypeOK'
  <2>1. fileStage' \in [Files -> FileStages]
    BY <1>4, MarkType DEF TypeOK, MarkLinks, FileStages
  <2> QED BY <1>4, <2>1 DEF TypeOK, MarkLinks, rows, scan, batch, work
<1>5. CASE LinksDone
  BY <1>5 DEF TypeOK, LinksDone, Stages, Locations, rows, scan, batch, iter, work
<1> QED BY <1>1, <1>2, <1>3, <1>4, <1>5 DEF ScanPhase

LEMMA TypePartial == ASSUME TypeOK, PartialPhase PROVE TypeOK'
<1>1. CASE FetchSizes
  <2> DEFINE K == Shared(At("scanned"), Size)
  <2>1. At("scanned") \in SUBSET Files
    BY DEF At
  <2>2. /\ Rows(K, cursor, SizeFetch) \subseteq Nat
        /\ Cardinality(Rows(K, cursor, SizeFetch)) \in Nat
    BY <2>1, PageType
  <2>3. page' \subseteq Nat /\ more' \in BOOLEAN /\ cursor' \in Nat
    BY <1>1, <2>2 DEF TypeOK, FetchSizes
  <2> QED BY <1>1, <2>3 DEF TypeOK, FetchSizes, Locations, session, rows, scan, batch, work
<1>2. ASSUME NEW s \in page, NextSize(s) PROVE TypeOK'
  <2>1. pc' \in Locations
    BY <1>2 DEF NextSize, Locations
  <2>2. SizeGroup(s) \subseteq Files
    BY DEF SizeGroup, At
  <2>3. group' \subseteq Files /\ todo' \subseteq Files /\ page' \subseteq Nat /\ more' \in BOOLEAN
    BY <1>2, <2>2 DEF TypeOK, NextSize
  <2> QED BY <1>2, <2>1, <2>3 DEF TypeOK, NextSize, session, rows, scan, batch
<1>3. CASE SizesEnd
  BY <1>3 DEF TypeOK, SizesEnd, Locations, session, rows, scan, batch, work
<1>4. ASSUME NEW f \in todo, PartialWork(f) PROVE TypeOK'
  <2>1. f \in Files
    BY DEF TypeOK
  <2>2. /\ partialRows' \subseteq Files /\ fullRows' \subseteq Files
        /\ pendPartial' \subseteq Files /\ pendFull' \subseteq Files
    <3>1. CASE QueueUpdate({f}, {})
      BY <2>1, <3>1, QueueUpdateType
    <3>2. CASE UNCHANGED <<rows, batch>>
      BY <3>2 DEF TypeOK, rows, batch
    <3> QED BY <1>4, <3>1, <3>2 DEF PartialWork
  <2>3. results' \subseteq Files /\ hashErrors' \subseteq Files /\ todo' \subseteq Files
    BY <1>4, <2>1 DEF TypeOK, PartialWork
  <2> QED BY <1>4, <2>2, <2>3 DEF TypeOK, PartialWork, session, scan, iter
<1>5. CASE PartialReturn
  <2>1. results' \subseteq Files
    BY <1>5 DEF TypeOK, PartialReturn
  <2> QED BY <1>5, <2>1
          DEF TypeOK, PartialReturn, Locations, session, rows, scan, batch, iter
<1>6. CASE MarkPartial
  <2>1. fileStage' \in [Files -> FileStages]
    BY <1>6, MarkType DEF TypeOK, MarkPartial, FileStages
  <2> QED BY <1>6, <2>1 DEF TypeOK, MarkPartial, Locations, rows, scan, batch, iter, work
<1>7. CASE MarkFailed
  <2>1. fileStage' \in [Files -> FileStages]
    BY <1>7, MarkType DEF TypeOK, MarkFailed, FileStages
  <2> QED BY <1>7, <2>1 DEF TypeOK, MarkFailed, Locations, rows, scan, batch, iter
<1>8. CASE Sweep
  <2>1. fileStage' \in [Files -> FileStages]
    BY <1>8, MarkType DEF TypeOK, Sweep, FileStages
  <2> QED BY <1>8, <2>1 DEF TypeOK, Sweep, Locations, rows, scan, batch, iter, work
<1>9. CASE FlushPartial
  <2>1. /\ partialRows' \subseteq Files /\ fullRows' \subseteq Files
        /\ pendPartial' \subseteq Files /\ pendFull' \subseteq Files
    BY <1>9, FlushCacheType DEF TypeOK, FlushPartial
  <2> QED BY <1>9, <2>1 DEF TypeOK, FlushPartial, Locations, session, scan, iter, work
<1>10. CASE PartialDone
  BY <1>10 DEF TypeOK, PartialDone, Interrupt, Stages, Locations, rows, scan, batch, work
<1> QED BY <1>1, <1>2, <1>3, <1>4, <1>5, <1>6, <1>7, <1>8, <1>9, <1>10 DEF PartialPhase

LEMMA TypeFull == ASSUME TypeOK, FullPhase PROVE TypeOK'
<1>1. CASE FetchHashes
  <2> DEFINE K == {h \in Shared(Confirmable, PartialHash) : h > cursor}
  <2>1. Confirmable \in SUBSET Files /\ K \in SUBSET Shared(Confirmable, PartialHash)
    BY DEF Confirmable, At
  <2>2. Rows(K, 0, HashFetch) \subseteq Nat
    BY <2>1, PageType
  <2>3. page' \subseteq Nat /\ more' \in BOOLEAN /\ cursor' \in Nat
    BY <1>1, <2>2 DEF TypeOK, FetchHashes
  <2> QED BY <1>1, <2>3 DEF TypeOK, FetchHashes, Locations, session, rows, scan, batch, work
<1>2. ASSUME NEW h \in page, NextHash(h) PROVE TypeOK'
  <2>1. pc' \in Locations
    BY <1>2 DEF NextHash, Locations
  <2>2. HashGroup(h) \subseteq Files
    BY DEF HashGroup, Confirmable, At
  <2>3. todo' \subseteq Files /\ page' \subseteq Nat /\ more' \in BOOLEAN
    BY <1>2, <2>2 DEF TypeOK, NextHash
  <2> QED BY <1>2, <2>1, <2>3 DEF TypeOK, NextHash, session, rows, scan, batch
<1>3. CASE HashesEnd
  BY <1>3 DEF TypeOK, HashesEnd, Locations, session, rows, scan, batch, work
<1>4. ASSUME NEW f \in todo, FullWork(f) PROVE TypeOK'
  <2>1. f \in Files
    BY DEF TypeOK
  <2>2. /\ partialRows' \subseteq Files /\ fullRows' \subseteq Files
        /\ pendPartial' \subseteq Files /\ pendFull' \subseteq Files
    <3>1. CASE QueueUpdate({}, {f})
      BY <2>1, <3>1, QueueUpdateType
    <3>2. CASE UNCHANGED <<rows, batch>>
      BY <3>2 DEF TypeOK, rows, batch
    <3> QED BY <1>4, <3>1, <3>2 DEF FullWork
  <2>3. results' \subseteq Files /\ hashErrors' \subseteq Files /\ todo' \subseteq Files
    BY <1>4, <2>1 DEF TypeOK, FullWork
  <2> QED BY <1>4, <2>2, <2>3 DEF TypeOK, FullWork, SlotWait, session, scan, iter
<1>5. CASE SlotWait \/ FullReturn \/ Release
  BY <1>5 DEF TypeOK, SlotWait, FullReturn, Release, Locations, session, rows, scan, batch,
              iter, work
<1>6. CASE MarkFull
  <2>1. fileStage' \in [Files -> FileStages]
    BY <1>6, MarkType DEF TypeOK, MarkFull, FileStages
  <2>2. toEmit' \subseteq Hashes
    BY <1>6 DEF TypeOK, MarkFull, Shared, Hashes
  <2> QED BY <1>6, <2>1, <2>2 DEF TypeOK, MarkFull, Locations, rows, scan, batch, iter, work
<1>7. ASSUME NEW h \in toEmit, EmitGroup(h) PROVE TypeOK'
  <2>1. emitted' \subseteq Hashes /\ lines' \in Seq(Line) /\ torn' \in BOOLEAN
    <3>1. CASE h \in emitted
      BY <1>7, <3>1 DEF TypeOK, EmitGroup, report
    <3>2. CASE h \notin emitted
      <4> DEFINE line(f) == [hash |-> h, partial_hash |-> PartialHash[f],
                             files |-> {g \in results : FullHash[g] = h}]
      <4>1. PICK f \in results : /\ FullHash[f] = h
                                 /\ emitted' = emitted \cup {h, PartialHash[f]}
                                 /\ lines' = IF torn THEN lines ELSE Append(lines, line(f))
                                 /\ torn' = FALSE
        BY <1>7, <3>2 DEF EmitGroup
      <4>2. f \in Files /\ h \in Hashes /\ PartialHash[f] \in Hashes
        BY DEF TypeOK, Hashes
      <4>3. line(f) \in Line
        BY <4>2 DEF TypeOK, Line
      <4>4. Append(lines, line(f)) \in Seq(Line)
        BY <4>3, AppendProperties DEF TypeOK
      <4> QED BY <4>1, <4>2, <4>4 DEF TypeOK
    <3> QED BY <3>1, <3>2
  <2> QED BY <1>7, <2>1 DEF TypeOK, EmitGroup, session, rows, scan, batch, iter, work
<1>8. CASE EmitEnd
  BY <1>8 DEF TypeOK, EmitEnd, Locations, session, rows, scan, batch, iter
<1>9. CASE FlushFull
  <2>1. /\ partialRows' \subseteq Files /\ fullRows' \subseteq Files
        /\ pendPartial' \subseteq Files /\ pendFull' \subseteq Files
    BY <1>9, FlushCacheType DEF TypeOK, FlushFull
  <2> QED BY <1>9, <2>1 DEF TypeOK, FlushFull, Locations, session, scan, iter, work
<1>10. CASE FullDone
  BY <1>10 DEF TypeOK, FullDone, Complete, Interrupt, Stages, Locations, rows, scan, batch, iter, work
<1> QED BY <1>1, <1>2, <1>3, <1>4, <1>5, <1>6, <1>7, <1>8, <1>9, <1>10 DEF FullPhase

LEMMA TypeStep == ASSUME TypeOK, [Next]_vars PROVE TypeOK'
<1>1. CASE UNCHANGED vars
  BY <1>1 DEF TypeOK, vars, session, rows, scan, batch, iter, work
<1> QED BY <1>1, TypeProcess, TypeScan, TypePartial, TypeFull DEF Next, Run

(* Every variable keeps the type its declaration gives.                       *)
THEOREM TypeCorrect == Spec => []TypeOK
<1>1. Init => TypeOK
  BY TypeInit
<1>2. TypeOK /\ [Next]_vars => TypeOK'
  BY TypeStep
<1> QED BY <1>1, <1>2, PTL DEF Spec

-----------------------------------------------------------------------------
(* No hash twice *)

(***************************************************************************)
(* While a process runs it knows the hash of every readable line, its own  *)
(* and those of the processes before it, but for lines some process could  *)
(* not read back.  HashReportedOnce is not inductive without this:         *)
(* emit_group only looks at the emitted set.                               *)
(***************************************************************************)
EmittedInv == pc # "off" => \A i \in DOMAIN lines : lines[i].hash \in emitted \cup unread

OnceInv == TypeOK /\ EmittedInv /\ HashReportedOnce

LEMMA OnceEmit ==
  ASSUME OnceInv, NEW h \in toEmit, EmitGroup(h)
  PROVE  EmittedInv' /\ HashReportedOnce'
<1>1. pc = "emit" /\ pc' = pc
  BY DEF EmitGroup
<1>2. CASE UNCHANGED report
  <2> unread' = unread
    BY DEF EmitGroup
  <2> QED BY <1>1, <1>2 DEF OnceInv, EmittedInv, HashReportedOnce, report
<1>3. CASE h \notin emitted
  <2> DEFINE line(f) == [hash |-> h, partial_hash |-> PartialHash[f],
                         files |-> {g \in results : FullHash[g] = h}]
  <2>1. PICK f \in results : /\ emitted' = emitted \cup {h, PartialHash[f]}
                             /\ lines' = IF torn THEN lines ELSE Append(lines, line(f))
    BY <1>3 DEF EmitGroup
  <2> unread' = unread
    BY DEF EmitGroup
  <2>2. CASE torn
    BY <1>1, <2>1, <2>2 DEF OnceInv, EmittedInv, HashReportedOnce
  <2>3. CASE ~torn
    <3>1. lines' = Append(lines, line(f)) /\ lines \in Seq(Line)
      BY <2>1, <2>3 DEF OnceInv, TypeOK
    <3>2. /\ DOMAIN lines' = DOMAIN lines \cup {Len(lines) + 1}
          /\ \A i \in DOMAIN lines : lines'[i] = lines[i]
          /\ lines'[Len(lines) + 1].hash = h
      BY <3>1
    <3>3. \A i \in DOMAIN lines : lines[i].hash # h \/ h \in unread
      BY <1>1, <1>3 DEF OnceInv, EmittedInv
    <3>4. EmittedInv'
      BY <1>1, <2>1, <3>2 DEF OnceInv, EmittedInv
    <3>5. HashReportedOnce'
      BY <3>2, <3>3 DEF OnceInv, HashReportedOnce
    <3> QED BY <3>4, <3>5
  <2> QED BY <2>2, <2>3
<1> QED BY <1>2, <1>3 DEF EmitGroup

\* Everything but EmitGroup leaves the report alone; Start reads it back.
LEMMA OnceStep ==
  ASSUME OnceInv, [Next]_vars
  PROVE  OnceInv'
<1>1. TypeOK'
  BY TypeStep DEF OnceInv
<1>2. CASE Start
  <2>1. \A i \in DOMAIN lines : lines[i].hash \in EmittedHashes(Len(lines))
    BY DEF EmittedHashes, OnceInv, TypeOK
  <2>2. /\ lines' = lines /\ unread \subseteq unread'
        /\ EmittedHashes(Len(lines)) \subseteq emitted' \cup unread'
    BY <1>2 DEF Start
  <2> QED BY <1>1, <2>1, <2>2 DEF OnceInv, EmittedInv, HashReportedOnce
<1>3. CASE Crash \/ Close
  <2>1. pc' = "off" /\ lines' = lines /\ unread' = unread
    BY <1>3 DEF Crash, LoseMemory, Close
  <2> QED BY <1>1, <2>1 DEF OnceInv, EmittedInv, HashReportedOnce
<1>4. ASSUME NEW h \in toEmit, EmitGroup(h) PROVE OnceInv'
  BY <1>1, <1>4, OnceEmit DEF OnceInv
<1>5. ASSUME \/ Signal \/ Raise \/ ScanPhase \/ PartialPhase \/ UNCHANGED vars
             \/ FullPhase /\ ~\E h \in toEmit : EmitGroup(h)
      PROVE  OnceInv'
  <2>1. /\ lines' = lines /\ emitted' = emitted /\ unread' = unread
        /\ (pc' # "off" => pc # "off")
    <3>1. CASE Signal \/ Raise \/ UNCHANGED vars
      BY <3>1 DEF Signal, Raise, Interrupt, vars
    <3>2. CASE ScanPhase
      BY <3>2 DEF ScanPhase, ScanFile, ScanEnd, ScanDone, Interrupt, MarkLinks, LinksDone
    <3>3. CASE PartialPhase
      BY <3>3 DEF PartialPhase, FetchSizes, NextSize, SizesEnd, PartialWork, PartialReturn,
                  MarkPartial, MarkFailed, Sweep, FlushPartial, PartialDone, Interrupt
    <3>4. CASE FullPhase /\ ~\E h \in toEmit : EmitGroup(h)
      BY <3>4 DEF FullPhase, FetchHashes, NextHash, HashesEnd, FullWork, SlotWait, FullReturn, MarkFull,
                  EmitEnd, FlushFull, FullDone, Complete, Release, Interrupt
    <3> QED BY <1>5, <3>1, <3>2, <3>3, <3>4
  <2> QED BY <1>1, <2>1 DEF OnceInv, EmittedInv, HashReportedOnce
<1> QED BY <1>2, <1>3, <1>4, <1>5 DEF Next, Run

(* No full hash is on two readable lines of the report: not after crashes in  *)
(* any stage, lost batches, torn lines and any number of resumes, unless a    *)
(* process that started could not read the line back (_load_emitted).         *)
THEOREM ReportedOnce == Spec => []HashReportedOnce
<1>1. ASSUME Init PROVE OnceInv
  <2>1. TypeOK
    BY <1>1, TypeInit
  <2>2. lines = <<>> /\ pc = "off"
    BY <1>1 DEF Init
  <2>3. DOMAIN lines = {}
    BY <2>2
  <2> QED BY <2>1, <2>2, <2>3 DEF OnceInv, EmittedInv, HashReportedOnce
<1>2. OnceInv /\ [Next]_vars => OnceInv'
  BY OnceStep
<1>3. OnceInv => HashReportedOnce
  BY DEF OnceInv
<1> QED BY <1>1, <1>2, <1>3, PTL DEF Spec

-----------------------------------------------------------------------------
(* Stages and outcomes *)

PartialPcs == {"sizes", "size", "phash", "pmark", "pfail", "sweep", "pflush", "pdone"}
FullPcs    == {"hashes", "hash", "fhash", "stuck", "fmark", "emit", "fflush", "fdone"}

(***************************************************************************)
(* A process is in the phase that the session row names, a settled session *)
(* has no process but one on its way out, and once the walk is flushed no  *)
(* row waits to be written as scanned.                                     *)
(***************************************************************************)
PhaseInv ==
  /\ pc \in {"scan", "scanned", "links"} => stage = "scanning"
  /\ pc \in PartialPcs => stage = "partial_hashing"
  /\ pc \in FullPcs => stage = "full_hashing"
  /\ status # "running" => pc \in {"off", "release", "close"}
  /\ pc = "release" => stage = "done"
  /\ stage = "done" => status # "running"
  /\ pc \in {"scanned", "links"} \/ stage # "scanning" => queued = {}

\* The files a phase is about to mark are still in the stage it read them in.
GroupInv ==
  /\ pc \in {"phash", "pmark", "pfail", "fhash", "stuck", "fmark", "emit"} \/ results = {}
  /\ pc \in {"phash", "pmark"} =>
       group \cup todo \cup results \subseteq At("scanned")
  /\ pc = "pfail" => group \ results \subseteq At("scanned")
  /\ pc \in {"fhash", "fmark"} => todo \cup results \subseteq At("partial_done")

StageInv == TypeOK /\ PhaseInv /\ GroupInv

\* What a step may do to the row of a file once the walk is over.
FilesAdvance ==
  \A f \in Files :
    fileStage'[f] # fileStage[f] =>
      <<fileStage[f], fileStage'[f]>> \in
        {<<"scanned", "partial_done">>, <<"scanned", "unique">>,
         <<"partial_done", "full_done">>}

StageAdvances ==
  /\ StageRank[stage] <= StageRank[stage']
  /\ stage # "scanning" => FilesAdvance

-----------------------------------------------------------------------------
(* Helpers *)

\* One UPDATE changes the rows of its set only, and to the stage it names.
LEMMA MarkAdvances ==
  ASSUME TypeOK, NEW S \in SUBSET Files, NEW st, MarkFiles(S, st),
         \/ S \subseteq At("scanned") /\ st \in {"partial_done", "unique"}
         \/ S \subseteq At("partial_done") /\ st = "full_done"
  PROVE  FilesAdvance
  BY DEF MarkFiles, FilesAdvance, At, TypeOK

\* Writing no rows changes none.
LEMMA NothingMarked ==
  ASSUME TypeOK, FlushFiles({})
  PROVE  fileStage' = fileStage /\ queued' = {}
<1>1. \E ok \in Commits : MarkFiles(IF ok THEN {} ELSE {}, "scanned")
  BY DEF FlushFiles
<1>2. MarkFiles({}, "scanned")
  BY <1>1
<1>3. fileStage' = fileStage
  BY <1>2 DEF MarkFiles, TypeOK
<1> QED BY <1>3 DEF FlushFiles

LEMMA RankOrder ==
  /\ \A s \in Stages : StageRank[s] <= StageRank[s]
  /\ StageRank["scanning"] <= StageRank["partial_hashing"]
  /\ StageRank["partial_hashing"] <= StageRank["full_hashing"]
  /\ \A s \in Stages : StageRank[s] <= StageRank["done"]
<1>1. \A s \in Stages : StageRank[s] = CASE s = "scanning" -> 0 [] s = "partial_hashing" -> 1
                                         [] s = "full_hashing" -> 2 [] s = "done" -> 3
  BY DEF StageRank
<1> QED BY <1>1 DEF Stages

\* A step that leaves the session's rows and the group alone keeps everything.
LEMMA QuietStep ==
  ASSUME StageInv, UNCHANGED session
  PROVE  StageAdvances
<1>1. stage' = stage /\ fileStage' = fileStage
  BY DEF session
<1> QED BY <1>1, RankOrder DEF StageAdvances, FilesAdvance, StageInv, TypeOK

-----------------------------------------------------------------------------
(* One lemma per part of Next *)

LEMMA StageProcess ==
  ASSUME StageInv, Start \/ Crash \/ Signal \/ Raise \/ Close
  PROVE  PhaseInv' /\ GroupInv' /\ StageAdvances
<1>1. CASE Start
  <2>1. UNCHANGED <<session, queued, results>>
    BY <1>1 DEF Start, scan, work
  <2>2. stage # "done" /\ stage \in Stages /\ status = "running" /\ results = {}
    BY <1>1 DEF Start, Resumable, StageInv, GroupInv, TypeOK
  <2>3. PhaseInv'
    BY <1>1, <2>1, <2>2
       DEF Start, FirstStep, StageInv, PhaseInv, PartialPcs, FullPcs, session, Stages
  <2>4. GroupInv'
    BY <1>1, <2>1, <2>2 DEF Start, FirstStep, GroupInv
  <2> QED BY <2>1, <2>3, <2>4, QuietStep
<1>2. CASE Crash
  <2>1. UNCHANGED session /\ pc' = "off" /\ results' = {} /\ queued' = {}
    BY <1>2 DEF Crash, LoseMemory
  <2>2. PhaseInv' /\ GroupInv'
    BY <2>1 DEF PhaseInv, GroupInv, PartialPcs, FullPcs, StageInv, session
  <2> QED BY <2>1, <2>2, QuietStep
<1>3. CASE Signal
  <2>1. UNCHANGED <<session, pc, queued, group, todo, results>>
    BY <1>3 DEF Signal, scan, work
  <2>2. PhaseInv' /\ GroupInv'
    BY <2>1 DEF PhaseInv, GroupInv, At, StageInv, session
  <2> QED BY <2>1, <2>2, QuietStep
<1>4. CASE Raise
  <2>1. /\ stage' = stage /\ fileStage' = fileStage /\ queued' = queued
        /\ pc' = "close" /\ results' = {} /\ status' = "interrupted"
    BY <1>4 DEF Raise, Interrupt, scan, StageInv, PhaseInv
  <2>2. PhaseInv' /\ GroupInv'
    BY <2>1 DEF PhaseInv, GroupInv, PartialPcs, FullPcs, StageInv
  <2> QED BY <2>1, <2>2, RankOrder DEF StageAdvances, FilesAdvance, StageInv, TypeOK
<1>5. CASE Close
  <2>1. /\ stage' = stage /\ status' = status /\ pc' = "off" /\ results' = results
        /\ FlushFiles(queued) /\ queued' = {} /\ results = {}
    BY <1>5 DEF Close, FlushFiles, work, StageInv, GroupInv
  <2>2. PhaseInv' /\ GroupInv'
    BY <2>1 DEF PhaseInv, GroupInv, PartialPcs, FullPcs, StageInv
  <2>3. stage # "scanning" => fileStage' = fileStage
    BY <2>1, NothingMarked DEF StageInv, PhaseInv
  <2> QED BY <2>1, <2>2, <2>3, RankOrder DEF StageAdvances, FilesAdvance, StageInv, TypeOK
<1> QED BY <1>1, <1>2, <1>3, <1>4, <1>5

LEMMA StageScan ==
  ASSUME StageInv, ScanPhase
  PROVE  PhaseInv' /\ GroupInv' /\ StageAdvances
<1>1. /\ stage = "scanning" /\ stage' \in {"scanning", "partial_hashing"}
      /\ results = {} /\ results' = {}
  BY DEF StageInv, PhaseInv, GroupInv, ScanPhase, ScanFile, ScanEnd, ScanDone, Interrupt,
         MarkLinks, LinksDone, work
<1>2. stage' = "scanning" => pc' \in {"scan", "scanned", "links", "close"}
  BY <1>1 DEF ScanPhase, ScanFile, ScanEnd, ScanDone, Interrupt, MarkLinks, LinksDone
<1>3. stage' = "partial_hashing" => pc' = "sizes"
  BY <1>1 DEF ScanPhase, ScanFile, ScanEnd, ScanDone, Interrupt, MarkLinks, LinksDone
<1>4. pc' \in {"scanned", "links", "sizes"} => queued' = {}
  BY DEF StageInv, PhaseInv, ScanPhase, ScanFile, ScanEnd, ScanDone, MarkLinks, LinksDone,
         Interrupt, FlushFiles, scan
<1>5. status = "running" /\ stage' # "done" /\ (status' = "running" \/ pc' = "close")
  BY DEF StageInv, PhaseInv, TypeOK, ScanPhase, ScanFile, ScanEnd, ScanDone, Interrupt,
         MarkLinks, LinksDone
<1> QED BY <1>1, <1>2, <1>3, <1>4, <1>5, RankOrder
        DEF PhaseInv, GroupInv, PartialPcs, FullPcs, StageAdvances, Stages

\* The steps of phase 2 that write file rows, and those that only read them.
LEMMA StagePartial ==
  ASSUME StageInv, PartialPhase
  PROVE  PhaseInv' /\ GroupInv' /\ StageAdvances
<1>1. /\ stage = "partial_hashing" /\ stage' \in {"partial_hashing", "full_hashing"}
      /\ status = "running" /\ queued = {} /\ queued' = {}
  BY DEF StageInv, PhaseInv, PartialPcs, PartialPhase, FetchSizes, NextSize, SizesEnd,
         PartialWork, PartialReturn, MarkPartial, MarkFailed, Sweep, FlushPartial, PartialDone,
         Interrupt, session, scan
<1>2. /\ stage' = "partial_hashing" => pc' \in PartialPcs \cup {"close"}
      /\ stage' = "full_hashing" => pc' = "hashes"
      /\ status' = "running" \/ pc' = "close"
  BY <1>1 DEF PartialPcs, PartialPhase, FetchSizes, NextSize, SizesEnd, PartialWork,
         PartialReturn, MarkPartial, MarkFailed, Sweep, FlushPartial, PartialDone, Interrupt,
         session
<1>3. PhaseInv'
  BY <1>1, <1>2 DEF PhaseInv, PartialPcs, FullPcs
<1>4. StageRank[stage] <= StageRank[stage']
  BY <1>1, RankOrder DEF Stages
<1>5. ASSUME FetchSizes \/ SizesEnd \/ FlushPartial \/ PartialDone
      PROVE  GroupInv' /\ FilesAdvance
  <2>1. fileStage' = fileStage /\ results' = results /\ results = {}
    BY <1>5 DEF FetchSizes, SizesEnd, FlushPartial, PartialDone, session, work, StageInv, GroupInv
  <2>2. pc' \in {"size", "sizes", "sweep", "pdone", "hashes", "close"}
    BY <1>5 DEF FetchSizes, SizesEnd, FlushPartial, PartialDone, Interrupt
  <2> QED BY <2>1, <2>2 DEF GroupInv, FilesAdvance
<1>6. ASSUME NEW s \in page, NextSize(s) PROVE GroupInv' /\ FilesAdvance
  <2>1. fileStage' = fileStage /\ results' = {} /\ pc' \in {"size", "sweep", "phash"}
    BY <1>6 DEF NextSize, session, StageInv, GroupInv
  <2>2. group' \subseteq At("scanned") /\ todo' = group'
    BY <1>6 DEF NextSize, SizeGroup
  <2> QED BY <2>1, <2>2 DEF GroupInv, FilesAdvance, At
<1>7. ASSUME NEW f \in todo, PartialWork(f) PROVE GroupInv' /\ FilesAdvance
  <2>1. /\ fileStage' = fileStage /\ pc = "phash" /\ pc' = pc /\ group' = group
        /\ todo' \subseteq todo /\ results' \subseteq results \cup {f}
    BY <1>7 DEF PartialWork, session
  <2> QED BY <2>1 DEF GroupInv, FilesAdvance, At, StageInv
<1>8. ASSUME PartialReturn PROVE GroupInv' /\ FilesAdvance
  <2>1. /\ fileStage' = fileStage /\ pc = "phash" /\ pc' = "pmark"
        /\ UNCHANGED <<group, todo>> /\ results' \subseteq results
    BY <1>8 DEF PartialReturn, session
  <2> QED BY <2>1 DEF GroupInv, FilesAdvance, At, StageInv
<1>9. ASSUME MarkPartial PROVE GroupInv' /\ FilesAdvance
  <2>1. /\ MarkFiles(results, "partial_done") /\ pc = "pmark" /\ pc' = "pfail"
        /\ UNCHANGED <<group, results>>
    BY <1>9 DEF MarkPartial, work
  <2>2. group \cup results \subseteq At("scanned")
    BY <2>1 DEF StageInv, GroupInv
  <2>3. FilesAdvance
    BY <2>1, <2>2, MarkAdvances DEF StageInv, TypeOK
  <2>4. group' \ results' \subseteq At("scanned")'
    BY <2>1, <2>2 DEF MarkFiles, At
  <2> QED BY <2>1, <2>3, <2>4 DEF GroupInv
<1>10. ASSUME MarkFailed PROVE GroupInv' /\ FilesAdvance
  <2>1. /\ MarkFiles(group \ results, "unique") /\ pc = "pfail" /\ pc' = "size"
        /\ results' = {}
    BY <1>10 DEF MarkFailed
  <2>2. group \ results \subseteq At("scanned") /\ group \ results \subseteq Files
    BY <2>1 DEF StageInv, GroupInv, TypeOK
  <2> QED BY <2>1, <2>2, MarkAdvances DEF GroupInv, StageInv
<1>11. ASSUME Sweep PROVE GroupInv' /\ FilesAdvance
  <2>1. /\ MarkFiles(At("scanned"), "unique") /\ pc' = "pflush"
        /\ results' = {} /\ At("scanned") \subseteq Files
    BY <1>11 DEF Sweep, work, At, StageInv, GroupInv
  <2> QED BY <2>1, MarkAdvances DEF GroupInv, StageInv
<1> QED BY <1>3, <1>4, <1>5, <1>6, <1>7, <1>8, <1>9, <1>10, <1>11
        DEF PartialPhase, StageAdvances

\* The way out of a completed session changes no row.
LEMMA StageRelease ==
  ASSUME StageInv, Release
  PROVE  PhaseInv' /\ GroupInv' /\ StageAdvances
<1>1. /\ UNCHANGED <<session, queued, results>> /\ pc = "release" /\ pc' = "close"
  BY DEF Release, scan, work
<1>2. PhaseInv' /\ GroupInv'
  BY <1>1 DEF PhaseInv, GroupInv, PartialPcs, FullPcs, StageInv, session
<1> QED BY <1>1, <1>2, QuietStep

LEMMA StageFull ==
  ASSUME StageInv, FullPhase, ~Release
  PROVE  PhaseInv' /\ GroupInv' /\ StageAdvances
<1>1. /\ stage = "full_hashing" /\ stage' \in {"full_hashing", "done"}
      /\ status = "running" /\ queued = {} /\ queued' = {}
  BY DEF StageInv, PhaseInv, FullPcs, FullPhase, FetchHashes, NextHash, HashesEnd, FullWork, SlotWait,
         FullReturn, MarkFull, EmitGroup, EmitEnd, FlushFull, FullDone, Complete, Interrupt, session, scan
<1>2. /\ stage' = "full_hashing" => pc' \in FullPcs \cup {"close"}
      /\ stage' = "done" => pc' = "release" /\ status' = "done"
      /\ status' = "running" \/ pc' \in {"release", "close"}
  BY <1>1 DEF FullPcs, FullPhase, FetchHashes, NextHash, HashesEnd, FullWork, SlotWait, FullReturn,
         MarkFull, EmitGroup, EmitEnd, FlushFull, FullDone, Complete, Interrupt, session
<1>3. PhaseInv'
  BY <1>1, <1>2 DEF PhaseInv, PartialPcs, FullPcs
<1>4. StageRank[stage] <= StageRank[stage']
  BY <1>1, RankOrder DEF Stages
<1>5. ASSUME FetchHashes \/ HashesEnd \/ FlushFull \/ FullDone
      PROVE  GroupInv' /\ FilesAdvance
  <2>1. fileStage' = fileStage /\ results' = results /\ results = {}
    BY <1>5 DEF FetchHashes, HashesEnd, FlushFull, FullDone, Complete, session, work, StageInv, GroupInv
  <2>2. pc' \in {"hash", "hashes", "fflush", "fdone", "release", "close"}
    BY <1>5 DEF FetchHashes, HashesEnd, FlushFull, FullDone, Complete, Interrupt
  <2> QED BY <2>1, <2>2 DEF GroupInv, FilesAdvance
<1>6. ASSUME NEW h \in page, NextHash(h) PROVE GroupInv' /\ FilesAdvance
  <2>1. fileStage' = fileStage /\ results' = {} /\ pc' \in {"hash", "fflush", "fhash"}
    BY <1>6 DEF NextHash, session, StageInv, GroupInv
  <2>2. todo' \subseteq At("partial_done")
    BY <1>6 DEF NextHash, HashGroup, Confirmable
  <2> QED BY <2>1, <2>2 DEF GroupInv, FilesAdvance, At
<1>7. ASSUME NEW f \in todo, FullWork(f) PROVE GroupInv' /\ FilesAdvance
  <2>1. /\ fileStage' = fileStage /\ pc = "fhash" /\ pc' = pc
        /\ todo' \subseteq todo /\ results' \subseteq results \cup {f}
    BY <1>7 DEF FullWork, SlotWait, session
  <2> QED BY <2>1 DEF GroupInv, FilesAdvance, At, StageInv
<1>8. ASSUME FullReturn PROVE GroupInv' /\ FilesAdvance
  <2>1. /\ fileStage' = fileStage /\ pc = "fhash" /\ pc' = "fmark"
        /\ todo' = {} /\ results' = results
    BY <1>8 DEF FullReturn, session, work
  <2> QED BY <2>1 DEF GroupInv, FilesAdvance, At, StageInv
<1>12. ASSUME SlotWait PROVE GroupInv' /\ FilesAdvance
  <2>1. /\ fileStage' = fileStage /\ pc = "fhash" /\ pc' = "stuck"
        /\ todo' = todo /\ results' = results
    BY <1>12 DEF SlotWait, session, work
  <2> QED BY <2>1 DEF GroupInv, FilesAdvance, At, StageInv
<1>9. ASSUME MarkFull PROVE GroupInv' /\ FilesAdvance
  <2>1. MarkFiles(results, "full_done") /\ pc = "fmark" /\ pc' = "emit"
    BY <1>9 DEF MarkFull
  <2>2. results \subseteq At("partial_done") /\ results \subseteq Files
    BY <2>1 DEF StageInv, GroupInv, TypeOK
  <2> QED BY <2>1, <2>2, MarkAdvances DEF GroupInv, StageInv
<1>10. ASSUME NEW h \in toEmit, EmitGroup(h) PROVE GroupInv' /\ FilesAdvance
  BY <1>10 DEF EmitGroup, GroupInv, FilesAdvance, session
<1>11. ASSUME EmitEnd PROVE GroupInv' /\ FilesAdvance
  BY <1>11 DEF EmitEnd, GroupInv, FilesAdvance, session
<1> QED BY <1>3, <1>4, <1>5, <1>6, <1>7, <1>8, <1>9, <1>10, <1>11, <1>12
        DEF FullPhase, StageAdvances

-----------------------------------------------------------------------------
(* The theorems *)

LEMMA StageInit == ASSUME Init PROVE StageInv
<1>1. TypeOK
  BY TypeInit
<1> QED BY <1>1 DEF Init, StageInv, PhaseInv, GroupInv, PartialPcs, FullPcs

LEMMA StageStep ==
  ASSUME StageInv, [Next]_vars
  PROVE  StageInv' /\ StageAdvances
<1>1. TypeOK'
  BY TypeStep DEF StageInv
<1>2. CASE UNCHANGED vars
  <2>1. PhaseInv' /\ GroupInv'
    BY <1>2 DEF StageInv, PhaseInv, GroupInv, At, vars, session, scan, work
  <2> QED BY <1>1, <1>2, <2>1, QuietStep DEF StageInv, vars
<1>3. CASE Next
  BY <1>1, <1>3, StageProcess, StageScan, StagePartial, StageFull, StageRelease DEF Next, Run, StageInv
<1> QED BY <1>2, <1>3

(* The stage of a session never goes back, and neither does the stage of a    *)
(* file once the walk is over: no resume, page, batch or kill makes a file    *)
(* that was settled a candidate again.                                        *)
THEOREM StagesAdvance == Spec => StagesOnlyAdvance
<1>1. Init => StageInv
  BY StageInit
<1>2. StageInv /\ [Next]_vars => StageInv'
  BY StageStep
<1>3. StageInv /\ [Next]_vars =>
        [/\ StageRank[stage] <= StageRank[stage']
         /\ stage # "scanning" =>
              \A f \in Files :
                fileStage'[f] # fileStage[f] =>
                  <<fileStage[f], fileStage'[f]>> \in
                    {<<"scanned", "partial_done">>, <<"scanned", "unique">>,
                     <<"partial_done", "full_done">>}]_vars
  BY StageStep DEF StageAdvances, FilesAdvance
<1> QED BY <1>1, <1>2, <1>3, PTL DEF Spec, StagesOnlyAdvance

\* A completed session has no process but the one on its way out.
LEMMA DoneStep ==
  ASSUME StageInv, [Next]_vars, stage = "done"
  PROVE  /\ fileStage' = fileStage /\ stage' = stage /\ lines' = lines
         /\ (pc' # "off" => pc # "off")
         /\ (status' # status => pc = "release" /\ status' = "interrupted")
<1>1. status # "running" /\ pc \in {"off", "release", "close"} /\ queued = {}
  BY DEF StageInv, PhaseInv
<1>2. ~Start
  BY <1>1 DEF Start, Resumable
<1>3. ~ScanPhase
  BY <1>1 DEF ScanPhase, ScanFile, ScanEnd, ScanDone, MarkLinks, LinksDone
<1>4. ~PartialPhase
  BY <1>1 DEF PartialPhase, FetchSizes, NextSize, SizesEnd, PartialWork, PartialReturn,
              MarkPartial, MarkFailed, Sweep, FlushPartial, PartialDone
<1>5. FullPhase => Release
  BY <1>1 DEF FullPhase, FetchHashes, NextHash, HashesEnd, FullWork, SlotWait, FullReturn,
              MarkFull, EmitGroup, EmitEnd, FlushFull, FullDone
<1>6. CASE Release \/ Crash \/ Signal \/ UNCHANGED vars
  BY <1>6 DEF Release, Crash, LoseMemory, Signal, vars, session
<1>7. CASE Raise
  BY <1>1, <1>7 DEF Raise, Interrupt
<1>8. CASE Close
  <2>1. FlushFiles({})
    BY <1>1, <1>8 DEF Close
  <2>2. fileStage' = fileStage
    BY <2>1, NothingMarked DEF StageInv
  <2> QED BY <1>8, <2>2 DEF Close
<1> QED BY <1>2, <1>3, <1>4, <1>5, <1>6, <1>7, <1>8 DEF Next, Run

(* Once the stage of a session is done nothing takes it up again: no row and  *)
(* no line changes, whatever is killed, and only an exception on the way out  *)
(* of the process that completed it rewrites its status.                      *)
THEOREM DoneSessionOver == Spec => DoneIsOver
<1>1. Init => StageInv
  BY StageInit
<1>2. StageInv /\ [Next]_vars => StageInv'
  BY StageStep
<1>3. StageInv /\ [Next]_vars =>
        [stage = "done" =>
           /\ fileStage' = fileStage /\ stage' = stage /\ lines' = lines
           /\ (pc' # "off" => pc # "off")
           /\ (status' # status => pc = "release" /\ status' = "interrupted")]_vars
  BY DoneStep
<1> QED BY <1>1, <1>2, <1>3, PTL DEF Spec, DoneIsOver

-----------------------------------------------------------------------------
(* Right lines *)

Linked(f, g) == f # g /\ Inode[f] = Inode[g] /\ Inode[f] # 0

\* The files that are candidates, or were reported on.
Live == {f \in Files : fileStage[f] \notin {"none", "unique"}}

(***************************************************************************)
(* Past the walk no two candidates are links of one inode; until then the  *)
(* ones that are have their inode on the page of _detect_and_report_       *)
(* hardlinks.  What waits to be emitted is a hash that two hashed files    *)
(* share.                                                                  *)
(***************************************************************************)
LinkInv ==
  /\ stage # "scanning" => \A f, g \in Live : ~Linked(f, g)
  /\ pc = "links" => \A f, g \in Live : Linked(f, g) => Inode[f] \in page

EmitInv ==
  pc = "emit" => /\ results \subseteq At("full_done")
                 /\ toEmit \subseteq Shared(results, FullHash)

SoundInv == StageInv /\ LinkInv /\ EmitInv /\ ReportSound

-----------------------------------------------------------------------------
(* Helpers *)

\* A set counted as two or more has two members, and the other way round.
LEMMA TwoMembers ==
  ASSUME NEW S \in SUBSET Files
  PROVE  Cardinality(S) >= 2 <=> \E f, g \in S : f # g
<1>1. IsFiniteSet(S) /\ Cardinality(S) \in Nat
  BY FilesAssumption, FS_Subset, FS_CardinalityType
<1>2. ASSUME NEW f \in S, NEW g \in S, f # g PROVE Cardinality(S) >= 2
  <2>1. IsFiniteSet({f}) /\ Cardinality({f}) = 1
    BY FS_Singleton
  <2>2. IsFiniteSet({f, g}) /\ Cardinality({f, g}) = 2
    <3>1. {f} \cup {g} = {f, g} /\ g \notin {f}
      BY <1>2
    <3>2. /\ IsFiniteSet({f} \cup {g})
          /\ Cardinality({f} \cup {g}) = IF g \in {f} THEN Cardinality({f})
                                         ELSE Cardinality({f}) + 1
      BY <2>1, FS_AddElement, Zenon
    <3> QED BY <2>1, <3>1, <3>2
  <2>3. {f, g} \subseteq S
    OBVIOUS
  <2> QED BY <1>1, <2>2, <2>3, FS_Subset
<1>3. ASSUME ~\E f, g \in S : f # g PROVE ~(Cardinality(S) >= 2)
  <2>1. S = {} \/ \E f \in S : S = {f}
    BY <1>3
  <2>2. Cardinality(S) = 0 \/ Cardinality(S) = 1
    BY <2>1, FS_EmptySet, FS_Singleton
  <2> QED BY <2>2
<1> QED BY <1>2, <1>3

\* Past the walk nothing becomes a candidate that was none, and no way leads back.
LEMMA LiveShrinks ==
  ASSUME StageInv, StageInv', StageAdvances, stage # "scanning"
  PROVE  stage' # "scanning" /\ Live' \subseteq Live
<1>1. stage' # "scanning"
  <2>1. \A s \in Stages : StageRank[s] = CASE s = "scanning" -> 0 [] s = "partial_hashing" -> 1
                                           [] s = "full_hashing" -> 2 [] s = "done" -> 3
    BY DEF StageRank
  <2>2. /\ StageRank["scanning"] = 0 /\ StageRank["partial_hashing"] = 1
        /\ StageRank["full_hashing"] = 2 /\ StageRank["done"] = 3
    BY <2>1 DEF Stages
  <2>3. stage \in {"partial_hashing", "full_hashing", "done"}
    BY DEF StageInv, TypeOK, Stages
  <2>4. StageRank[stage] <= StageRank[stage']
    BY DEF StageAdvances
  <2>5. StageRank[stage] \in {1, 2, 3}
    BY <2>2, <2>3
  <2>6. ASSUME stage' = "scanning" PROVE FALSE
    BY <2>2, <2>4, <2>5, <2>6
  <2> QED BY <2>6
<1>2. Live' \subseteq Live
  <2> SUFFICES ASSUME NEW f \in Files, fileStage'[f] \notin {"none", "unique"},
                      fileStage[f] \in {"none", "unique"}
               PROVE  FALSE
    BY DEF Live
  <2> QED BY DEF StageAdvances, FilesAdvance
<1> QED BY <1>1, <1>2

-----------------------------------------------------------------------------
(* Preservation *)

LEMMA LinkStep ==
  ASSUME StageInv, LinkInv, [Next]_vars
  PROVE  LinkInv'
<1>1. StageInv' /\ StageAdvances
  BY StageStep
<1>2. CASE stage # "scanning"
  <2>1. pc' # "links"
    BY <1>1, <1>2, LiveShrinks DEF StageInv, PhaseInv
  <2> QED BY <1>1, <1>2, <2>1, LiveShrinks DEF LinkInv, Linked
<1>3. CASE stage = "scanning" /\ stage' # "scanning"
  <2>1. LinksDone
    <3>1. pc \notin PartialPcs /\ pc \notin FullPcs /\ pc # "release"
      BY <1>3 DEF StageInv, PhaseInv
    <3>2. ~PartialPhase
      BY <3>1 DEF PartialPcs, PartialPhase, FetchSizes, NextSize, SizesEnd, PartialWork,
                  PartialReturn, MarkPartial, MarkFailed, Sweep, FlushPartial, PartialDone
    <3>3. ~FullPhase
      BY <3>1 DEF FullPcs, FullPhase, FetchHashes, NextHash, HashesEnd, FullWork, SlotWait, FullReturn,
                  MarkFull, EmitGroup, EmitEnd, FlushFull, FullDone, Complete, Release
    <3>4. CASE ScanPhase
      BY <1>3, <3>4 DEF ScanPhase, ScanFile, ScanEnd, ScanDone, Interrupt, MarkLinks
    <3>5. CASE Start \/ Crash \/ Signal \/ Raise \/ Close \/ UNCHANGED vars
      BY <1>3, <3>5 DEF Start, Crash, Signal, Raise, Interrupt, Close, vars, session
    <3> QED BY <3>2, <3>3, <3>4, <3>5 DEF Next, Run
  <2>2. pc = "links" /\ page = {} /\ fileStage' = fileStage /\ pc' = "sizes"
    BY <2>1 DEF LinksDone
  <2> QED BY <2>2 DEF LinkInv, Live, Linked
<1>4. CASE stage = "scanning" /\ stage' = "scanning"
  <2> SUFFICES ASSUME pc' = "links", NEW f \in Live', NEW g \in Live', Linked(f, g)
               PROVE  Inode[f] \in page'
    BY <1>4 DEF LinkInv, Linked
  <2>1. CASE ScanDone
    <3> DEFINE S == {e \in Files : fileStage[e] # "none" /\ Inode[e] # 0}
    <3>1. page' = InodeGroups /\ fileStage' = fileStage
      BY <2>1 DEF ScanDone, Interrupt
    <3>2. f \in S /\ g \in S
      BY <3>1 DEF Live, Linked
    <3>3. Cardinality({e \in S : Inode[e] = Inode[f]}) >= 2
      BY <3>2, TwoMembers DEF Linked
    <3>4. Inode[f] \in {Inode[e] : e \in S}
      BY <3>2
    <3>5. Inode[f] \in Shared(S, Inode)
      BY <3>3, <3>4 DEF Shared
    <3> QED BY <3>1, <3>5 DEF InodeGroups
  <2>2. ASSUME NEW i \in page, MarkLinks(i) PROVE Inode[f] \in page'
    <3>1. /\ MarkFiles({e \in Files : fileStage[e] # "none" /\ Inode[e] = i}, "unique")
          /\ page' = page \ {i} /\ pc = "links"
      BY <2>2 DEF MarkLinks
    <3>2. f \in Files /\ g \in Files /\ fileStage'[f] \notin {"none", "unique"}
          /\ fileStage'[g] \notin {"none", "unique"}
      BY DEF Live
    <3>3. fileStage'[f] = fileStage[f] /\ fileStage'[g] = fileStage[g] /\ Inode[f] # i
      BY <3>1, <3>2 DEF MarkFiles
    <3>4. f \in Live /\ g \in Live
      BY <3>2, <3>3 DEF Live
    <3> QED BY <3>1, <3>3, <3>4 DEF LinkInv
  <2>3. CASE Signal \/ UNCHANGED vars
    <3>1. fileStage' = fileStage /\ pc' = pc /\ page' = page
      BY <2>3 DEF Signal, vars, session, iter
    <3> QED BY <3>1 DEF LinkInv, Live
  <2>4. ~(Start \/ Crash \/ Raise \/ Close)
    BY DEF Start, FirstStep, Crash, LoseMemory, Raise, Interrupt, Close
  <2>5. ~PartialPhase
    BY DEF PartialPhase, FetchSizes, NextSize, SizesEnd, PartialWork, PartialReturn,
           MarkPartial, MarkFailed, Sweep, FlushPartial, PartialDone, Interrupt
  <2>6. ~FullPhase
    BY DEF FullPhase, FetchHashes, NextHash, HashesEnd, FullWork, SlotWait, FullReturn, MarkFull,
           EmitGroup, EmitEnd, FlushFull, FullDone, Complete, Release, Interrupt
  <2>7. ~(ScanEnd \/ LinksDone \/ \E e \in Files : ScanFile(e))
    BY DEF ScanEnd, LinksDone, ScanFile
  <2> QED BY <2>1, <2>2, <2>3, <2>4, <2>5, <2>6, <2>7 DEF Next, Run, ScanPhase
<1> QED BY <1>2, <1>3, <1>4

LEMMA EmitStep ==
  ASSUME StageInv, EmitInv, [Next]_vars
  PROVE  EmitInv'
<1> SUFFICES ASSUME pc' = "emit"
             PROVE  /\ results' \subseteq At("full_done")'
                    /\ toEmit' \subseteq Shared(results', FullHash)
  BY DEF EmitInv, Shared
<1>1. CASE MarkFull
  <2>1. /\ MarkFiles(results, "full_done") /\ results' = results
        /\ toEmit' = Shared(results, FullHash) /\ results \subseteq Files
    BY <1>1 DEF MarkFull, work, StageInv, TypeOK
  <2> QED BY <2>1 DEF MarkFiles, At
<1>2. ASSUME NEW h \in toEmit, EmitGroup(h)
      PROVE  results' \subseteq At("full_done")' /\ toEmit' \subseteq Shared(results', FullHash)
  <2>1. /\ fileStage' = fileStage /\ results' = results /\ toEmit' \subseteq toEmit
        /\ pc = "emit"
    BY <1>2 DEF EmitGroup, session, work
  <2> QED BY <2>1 DEF EmitInv, At
<1>3. CASE Signal \/ UNCHANGED vars
  <2>1. fileStage' = fileStage /\ results' = results /\ toEmit' = toEmit /\ pc' = pc
    BY <1>3 DEF Signal, vars, session, work
  <2> QED BY <2>1 DEF EmitInv, At
<1>4. ~(Start \/ Crash \/ Raise \/ Close)
  BY DEF Start, FirstStep, Crash, LoseMemory, Raise, Interrupt, Close
<1>5. ~ScanPhase
  BY DEF ScanPhase, ScanFile, ScanEnd, ScanDone, Interrupt, MarkLinks, LinksDone
<1>6. ~PartialPhase
  BY DEF PartialPhase, FetchSizes, NextSize, SizesEnd, PartialWork, PartialReturn,
         MarkPartial, MarkFailed, Sweep, FlushPartial, PartialDone, Interrupt
<1>7. ~(FetchHashes \/ HashesEnd \/ SlotWait \/ FullReturn \/ EmitEnd \/ FlushFull \/ FullDone
        \/ Release)
  BY DEF FetchHashes, HashesEnd, SlotWait, FullReturn, EmitEnd, FlushFull, FullDone, Complete, Release, Interrupt
<1>8. ~\E h \in page : NextHash(h)
  BY DEF NextHash
<1>9. ~\E f \in todo : FullWork(f)
  BY DEF FullWork
<1> QED BY <1>1, <1>2, <1>3, <1>4, <1>5, <1>6, <1>7, <1>8, <1>9 DEF Next, Run, FullPhase

\* A line that emit_group adds is right.
LEMMA SoundStep ==
  ASSUME SoundInv, [Next]_vars
  PROVE  ReportSound'
<1> DEFINE Right(L) == /\ \E f, g \in L.files : f # g
                       /\ \A f \in L.files : FullHash[f] = L.hash
                       /\ \A f, g \in L.files :
                            f # g /\ Inode[f] = Inode[g] => Inode[f] = 0
<1>1. \A i \in DOMAIN lines : Right(lines[i])
  BY DEF SoundInv, ReportSound
<1>2. lines \in Seq(Line)
  BY DEF SoundInv, StageInv, TypeOK
<1>3. CASE lines' = lines
  BY <1>1, <1>3 DEF ReportSound
<1>4. ASSUME NEW h \in toEmit, EmitGroup(h), lines' # lines PROVE ReportSound'
  <2> DEFINE S == {g \in results : FullHash[g] = h}
  <2>1. pc = "emit" /\ results \subseteq At("full_done") /\ results \subseteq Files
        /\ h \in Shared(results, FullHash)
    BY <1>4 DEF EmitGroup, SoundInv, EmitInv, StageInv, TypeOK
  <2>2. PICK e \in results :
          lines' = Append(lines, [hash |-> h, partial_hash |-> PartialHash[e], files |-> S])
    BY <1>4 DEF EmitGroup, report
  <2> DEFINE L == [hash |-> h, partial_hash |-> PartialHash[e], files |-> S]
  <2>3. \E f, g \in S : f # g
    BY <2>1, TwoMembers DEF Shared
  <2>4. S \subseteq Live
    BY <2>1 DEF At, Live
  <2>5. stage # "scanning"
    BY <2>1 DEF SoundInv, StageInv, PhaseInv, FullPcs
  <2>6. \A f, g \in S : f # g /\ Inode[f] = Inode[g] => Inode[f] = 0
    BY <2>4, <2>5 DEF SoundInv, LinkInv, Linked
  <2>7. Right(L)
    BY <2>3, <2>6
  <2>8. /\ DOMAIN lines' = DOMAIN lines \cup {Len(lines) + 1}
        /\ \A i \in DOMAIN lines : lines'[i] = lines[i]
        /\ lines'[Len(lines) + 1] = L
    BY <1>2, <2>2
  <2>9. \A i \in DOMAIN lines' : Right(lines'[i])
    <3> HIDE DEF Right, L
    <3>1. ASSUME NEW i \in DOMAIN lines PROVE Right(lines'[i])
      BY <1>1, <2>8
    <3>2. Right(lines'[Len(lines) + 1])
      BY <2>7, <2>8
    <3> QED BY <2>8, <3>1, <3>2
  <2> QED BY <2>9 DEF ReportSound
<1>5. ASSUME ~\E h \in toEmit : EmitGroup(h) PROVE lines' = lines
  <2>1. CASE Start \/ Crash \/ Signal \/ Raise \/ Close \/ UNCHANGED vars
    BY <2>1 DEF Start, Crash, Signal, Raise, Close, vars
  <2>2. CASE ScanPhase
    BY <2>2 DEF ScanPhase, ScanFile, ScanEnd, ScanDone, MarkLinks, LinksDone
  <2>3. CASE PartialPhase
    BY <2>3 DEF PartialPhase, FetchSizes, NextSize, SizesEnd, PartialWork, PartialReturn,
                MarkPartial, MarkFailed, Sweep, FlushPartial, PartialDone
  <2>4. CASE FullPhase
    BY <1>5, <2>4 DEF FullPhase, FetchHashes, NextHash, HashesEnd, FullWork, SlotWait, FullReturn,
                      MarkFull, EmitEnd, FlushFull, FullDone, Complete, Release
  <2> QED BY <2>1, <2>2, <2>3, <2>4 DEF Next, Run
<1> QED BY <1>3, <1>4, <1>5

-----------------------------------------------------------------------------

(* Every line of the report lists two files or more, all of the content it    *)
(* names, no two of them links of one inode: after any kills, resumes, and    *)
(* lost batches.                                                              *)
THEOREM LinesSound == Spec => []ReportSound
<1>1. ASSUME Init PROVE SoundInv
  <2>1. StageInv
    BY <1>1, StageInit
  <2>2. pc = "off" /\ stage = "scanning" /\ lines = <<>>
    BY <1>1 DEF Init
  <2>3. DOMAIN lines = {}
    BY <2>2
  <2> QED BY <2>1, <2>2, <2>3 DEF SoundInv, LinkInv, EmitInv, ReportSound
<1>2. SoundInv /\ [Next]_vars => SoundInv'
  BY StageStep, LinkStep, EmitStep, SoundStep DEF SoundInv
<1>3. SoundInv => ReportSound
  BY DEF SoundInv
<1> QED BY <1>1, <1>2, <1>3, PTL DEF Spec
=============================================================================
