---------------------------- MODULE RescanProofs ----------------------------
(***************************************************************************)
(* The cache tells the truth, but for files that the tolerance takes for   *)
(* their earlier selves: for every number of files, scans and changes to   *)
(* the files, with whatever mtimes and at whatever moment of any scan.     *)
(***************************************************************************)
EXTENDS Rescan, Integers, FiniteSetTheorems, TLAPS

Stat  == [size : Nat, mtime : Nat]
Entry == [path : Paths, size : Nat, mtime : Nat, partial : Nat, full : Nat]
Phase == {"partial", "groups", "full"}

Typed ==
  /\ rows \in [Paths -> Row] /\ carried \subseteq Paths /\ pending \subseteq Entry
  /\ content \in [Paths -> Contents \cup {Gone}] /\ mtime \in [Paths -> Nat]
  /\ stat \in [Paths -> Stat] /\ hashes \in [Paths -> Nat]
  /\ fileStage \in [Paths -> {"none", "scanned", "partial_done", "full_done", "unique"}]
  /\ todo \subseteq Paths
  /\ lately \in [Paths -> [content : Contents \cup {Gone}, stats : SUBSET Stat]]
  /\ former \in [Paths -> SUBSET Stat]

RowStat(p) == [size |-> rows[p].size, mtime |-> rows[p].mtime]

(***************************************************************************)
(* What rows and the walk remember are stats that the file has had, and    *)
(* the present one is among those of its last content.                     *)
(***************************************************************************)
DatesInv ==
  \A p \in Paths :
    /\ Exists(p) => lately[p].content = content[p] /\ StatOf(p) \in lately[p].stats
    /\ stat[p] # NoStat => stat[p] \in lately[p].stats \cup former[p]
    /\ rows[p] # NoRow => RowStat(p) \in lately[p].stats \cup former[p]
    /\ lately[p].content = Gone => lately[p].stats = {} /\ former[p] = {}

\* The stat st of p was taken of its last content.
Recent(p, st) == ~Mistakable(p) /\ st \notin former[p]

RowInv ==
  \A p \in Paths : rows[p] # NoRow /\ Recent(p, RowStat(p)) =>
    /\ rows[p].partial \in {Null, Sample[lately[p].content]}
    /\ p \notin carried => rows[p].full \in {Null, lately[p].content}

\* The batch holds the stats of the walk and digests read after it.
EntryInv ==
  \A e \in pending :
    /\ pc \in Phase /\ stat[e.path] # NoStat
    /\ e.size = stat[e.path].size /\ e.mtime = stat[e.path].mtime
    /\ Recent(e.path, stat[e.path]) =>
         /\ e.partial \in {Null, Sample[lately[e.path].content]}
         /\ e.full \in {Null, lately[e.path].content}

\* The row of p is the one that the JOIN found, or was cleaned away.
Joined(p) == stat[p] # NoStat /\ (rows[p] = NoRow \/ Joins(p, stat[p]))

\* A phase puts a path into the batch once.
PhaseInv ==
  /\ \A d, e \in pending : d.path = e.path => d = e
  /\ pc = "partial" =>
       \A e \in pending : e.partial # Null /\ e.full = Null /\ e.path \notin todo
  /\ pc \in {"groups", "full"} =>
       \A e \in pending : /\ e.partial = Null /\ e.full # Null /\ Joined(e.path)
                          /\ \/ fileStage[e.path] = "full_done"
                             \/ pc = "full" /\ e.path \notin todo /\ hashes[e.path] # Null
  /\ pc = "full" => /\ \A p \in todo : fileStage[p] = "partial_done" /\ Joined(p)
                    /\ \A p \in Paths : hashes[p] # Null => stat[p] # NoStat
  /\ pc = "partial" => \A p \in todo : stat[p] # NoStat
  /\ \A p \in Paths : fileStage[p] # "none" => stat[p] # NoStat

TruthInv == Typed /\ DatesInv /\ RowInv /\ EntryInv /\ PhaseInv

LEMMA Sorts ==
  /\ Tol \in Nat \ {0} /\ Paths \subseteq Nat
  /\ Contents \subseteq Nat \ {0} /\ Gone = 0 /\ Null = 0
  /\ \A c \in Contents : Size[c] \in Nat \ {0} /\ Sample[c] \in Nat \ {0}
BY HashCacheAssumption, ContentsAssumption DEF Paths, Gone, Null

\* The stat of a file there is.
LEMMA PresentStat ==
  ASSUME Typed, NEW p \in Paths, Exists(p)
  PROVE  StatOf(p) \in Stat /\ StatOf(p) # NoStat
<1>1. content[p] \in Contents /\ mtime[p] \in Nat
  BY DEF Typed, Exists
<1>2. StatOf(p).size # 0 /\ StatOf(p) \in Stat
  BY <1>1, Sorts DEF StatOf, Stat
<1> QED BY <1>2 DEF NoStat

LEMMA TruthInit == ASSUME Init PROVE TruthInv
<1>1. /\ content \in [Paths -> Contents \cup {Gone}] /\ mtime \in [Paths -> Nat]
      /\ stat = [p \in Paths |-> NoStat] /\ rows = [p \in Paths |-> NoRow] /\ pending = {}
      /\ pc = "idle" /\ fileStage = [p \in Paths |-> "none"]
      /\ former = [p \in Paths |-> {}]
      /\ lately = [p \in Paths |-> [content |-> content[p],
                                    stats |-> IF Exists(p) THEN {StatOf(p)} ELSE {}]]
  BY ContentsAssumption DEF Init, CacheInit
<1>2. \A p \in Paths : Exists(p) => StatOf(p) \in Stat
  <2> SUFFICES ASSUME NEW p \in Paths, Exists(p) PROVE StatOf(p) \in Stat
    OBVIOUS
  <2>1. content[p] \in Contents /\ mtime[p] \in Nat
    BY <1>1 DEF Exists
  <2> QED BY <2>1, Sorts DEF StatOf, Stat
<1>3. /\ lately \in [Paths -> [content : Contents \cup {Gone}, stats : SUBSET Stat]]
      /\ former \in [Paths -> SUBSET Stat]
  BY <1>1, <1>2
<1>4. Typed
  BY <1>1, <1>3 DEF Init, CacheInit, Typed, NoRow, NoStat, Row, Stat, Null
<1>5. DatesInv
  BY <1>1 DEF DatesInv, Exists
<1>6. RowInv /\ EntryInv /\ PhaseInv
  BY <1>1 DEF RowInv, EntryInv, PhaseInv
<1> QED BY <1>4, <1>5, <1>6 DEF TruthInv

\* A row that answers for a stat of the last content has a stat of it.
LEMMA HitIsRecent ==
  ASSUME Typed, DatesInv, NEW p \in Paths, NEW st \in lately[p].stats, ~Mistakable(p), Hit(p, st)
  PROVE  rows[p] # NoRow /\ Recent(p, RowStat(p))
<1>1. rows[p] # NoRow /\ rows[p].size = st.size /\ Distance(rows[p].mtime, st.mtime) <= Tol
  BY DEF Hit
<1>2. st \in Stat /\ rows[p] \in Row
  BY DEF Typed
<1>3. Distance(st.mtime, rows[p].mtime) <= Tol
  BY <1>1, <1>2, Sorts DEF Distance, Stat, Row
<1>4. Alike(st, RowStat(p))
  BY <1>1, <1>3 DEF Alike, RowStat
<1>5. RowStat(p) \notin former[p]
  BY <1>4 DEF Mistakable
<1> QED BY <1>1, <1>5 DEF Recent

-----------------------------------------------------------------------------
(* Steps that change no row and no entry of the batch *)

\* What other programs do to a file.
LEMMA Change ==
  ASSUME TruthInv, NEW p \in Paths, Write(p) \/ Remove(p)
  PROVE  /\ UNCHANGED <<rows, carried, pending, stat, hashes, fileStage, todo, pc, scans, lines,
                        shutdown, lastHash, results, newest, faults, unread, cleaner, reasons>>
         /\ \A q \in Paths \ {p} : /\ content'[q] = content[q] /\ mtime'[q] = mtime[q]
                                   /\ lately'[q] = lately[q] /\ former'[q] = former[q]
         /\ content' \in [Paths -> Contents \cup {Gone}] /\ mtime' \in [Paths -> Nat]
         /\ \/ /\ content'[p] = Gone /\ lately'[p] = lately[p] /\ former'[p] = former[p]
            \/ /\ content'[p] \in Contents /\ content'[p] = lately[p].content
               /\ lately'[p].content = content'[p] /\ former'[p] = former[p]
               /\ lately'[p].stats = lately[p].stats \cup {StatOf(p)'}
            \/ /\ content'[p] \in Contents /\ lately'[p].content = content'[p]
               /\ lately'[p].stats = {StatOf(p)'}
               /\ former'[p] = former[p] \cup lately[p].stats
         /\ lately' \in [Paths -> [content : Contents \cup {Gone}, stats : SUBSET Stat]]
         /\ former' \in [Paths -> SUBSET Stat]
<1>1. UNCHANGED <<rows, carried, pending, stat, hashes, fileStage, todo, pc, scans, lines,
                  shutdown, lastHash, results, newest, faults, unread, cleaner, reasons>>
  BY DEF Write, Remove, Changed, cacheVars, memory, report, stored
<1>2. CASE Remove(p)
  BY <1>1, <1>2 DEF Remove, Changed, TruthInv, Typed
<1>3. CASE Write(p)
  <2>1. PICK c \in Contents, m \in MTimes :
          Changed(p, c) /\ Dated(p, c, m) /\ mtime' = [mtime EXCEPT ![p] = m]
    BY <1>3 DEF Write
  <2> DEFINE st == [size |-> Size[c], mtime |-> m]
  <2>2. m \in Nat /\ st \in Stat
    BY Sorts, ContentsAssumption DEF Stat
  <2>3. content' = [content EXCEPT ![p] = c]
    BY <2>1 DEF Changed
  <2>4. StatOf(p)' = st /\ content'[p] = c
    BY <2>1, <2>3 DEF TruthInv, Typed, StatOf
  <2>5. content' \in [Paths -> Contents \cup {Gone}] /\ mtime' \in [Paths -> Nat]
    BY <2>1, <2>2, <2>3 DEF TruthInv, Typed
  <2>6. \A q \in Paths \ {p} : /\ content'[q] = content[q] /\ mtime'[q] = mtime[q]
                                /\ lately'[q] = lately[q] /\ former'[q] = former[q]
    BY <2>1, <2>3 DEF TruthInv, Typed, Dated
  <2> HIDE DEF st
  <2>7. CASE c = lately[p].content
    <3>1. lately' = [lately EXCEPT ![p].stats = @ \cup {st}] /\ former' = former
      BY <2>1, <2>7 DEF Dated, st
    <3>2. lately'[p].content = lately[p].content /\ lately'[p].stats = lately[p].stats \cup {st}
      BY <3>1 DEF TruthInv, Typed
    <3>3. lately' \in [Paths -> [content : Contents \cup {Gone}, stats : SUBSET Stat]]
      BY <2>2, <3>1 DEF TruthInv, Typed
    <3> QED BY <1>1, <2>4, <2>5, <2>6, <2>7, <3>1, <3>2, <3>3 DEF TruthInv, Typed
  <2>8. CASE c # lately[p].content
    <3>1. /\ lately' = [lately EXCEPT ![p] = [content |-> c, stats |-> {st}]]
          /\ former' = [former EXCEPT ![p] = @ \cup lately[p].stats]
      BY <2>1, <2>8 DEF Dated, st
    <3>2. lately'[p] = [content |-> c, stats |-> {st}] /\ former'[p] = former[p] \cup lately[p].stats
      BY <3>1 DEF TruthInv, Typed
    <3>3. lately' \in [Paths -> [content : Contents \cup {Gone}, stats : SUBSET Stat]]
      BY <2>2, <3>1 DEF TruthInv, Typed
    <3>4. former' \in [Paths -> SUBSET Stat]
      BY <3>1 DEF TruthInv, Typed
    <3> QED BY <1>1, <2>4, <2>5, <2>6, <3>2, <3>3, <3>4
  <2> QED BY <2>7, <2>8
<1> QED BY <1>2, <1>3

\* Nothing that is remembered becomes recent by a change.
LEMMA StaysRecent ==
  ASSUME TruthInv, NEW p \in Paths, Write(p) \/ Remove(p), NEW q \in Paths,
         NEW st \in lately[q].stats \cup former[q], ~Mistakable(q)', st \notin former'[q]
  PROVE  Recent(q, st) /\ lately'[q].content = lately[q].content
<1>1. CASE q # p
  <2>1. lately'[q] = lately[q] /\ former'[q] = former[q]
    BY <1>1, Change
  <2> QED BY <2>1 DEF Mistakable, Recent
<1>2. CASE q = p
  <2>1. /\ former'[p] = former[p] /\ lately'[p].content = lately[p].content
        /\ lately[p].stats \subseteq lately'[p].stats
    <3>1. \/ lately'[p] = lately[p] /\ former'[p] = former[p]
          \/ /\ lately'[p].content = lately[p].content /\ former'[p] = former[p]
             /\ lately'[p].stats = lately[p].stats \cup {StatOf(p)'}
          \/ former'[p] = former[p] \cup lately[p].stats
      BY Change
    <3> QED BY <1>2, <3>1
  <2> QED BY <1>2, <2>1 DEF Mistakable, Recent
<1> QED BY <1>1, <1>2

LEMMA WorldStep ==
  ASSUME TruthInv, NEW p \in Paths, Write(p) \/ Remove(p)
  PROVE  TruthInv'
<1>1. UNCHANGED <<rows, carried, pending, stat, hashes, fileStage, todo, pc>>
  BY Change
<1>2. Typed'
  BY <1>1, Change DEF TruthInv, Typed
<1>3. DatesInv'
  <2> SUFFICES ASSUME NEW q \in Paths
               PROVE  /\ Exists(q)' => lately'[q].content = content'[q] /\ StatOf(q)' \in lately'[q].stats
                      /\ lately[q].stats \cup former[q] \subseteq lately'[q].stats \cup former'[q]
                      /\ lately'[q].content = Gone => lately'[q].stats = {} /\ former'[q] = {}
    BY <1>1 DEF TruthInv, DatesInv, RowStat
  <2>1. CASE q # p
    <3>1. /\ content'[q] = content[q] /\ mtime'[q] = mtime[q]
          /\ lately'[q] = lately[q] /\ former'[q] = former[q]
      BY <2>1, Change
    <3> QED BY <3>1 DEF TruthInv, DatesInv, Exists, StatOf
  <2>2. CASE q = p
    <3>1. Gone \notin Contents
      BY Sorts
    <3>2. \/ /\ content'[p] = Gone /\ lately'[p] = lately[p] /\ former'[p] = former[p]
          \/ /\ content'[p] \in Contents /\ content'[p] = lately[p].content
             /\ lately'[p].content = content'[p] /\ former'[p] = former[p]
             /\ lately'[p].stats = lately[p].stats \cup {StatOf(p)'}
          \/ /\ content'[p] \in Contents /\ lately'[p].content = content'[p]
             /\ lately'[p].stats = {StatOf(p)'}
             /\ former'[p] = former[p] \cup lately[p].stats
      BY Change
    <3> QED BY <2>2, <3>1, <3>2 DEF TruthInv, DatesInv, Exists
  <2> QED BY <2>1, <2>2
<1>4. RowInv'
  <2> SUFFICES ASSUME NEW q \in Paths, rows[q] # NoRow, Recent(q, RowStat(q))'
               PROVE  /\ rows[q].partial \in {Null, Sample[lately'[q].content]}
                      /\ q \notin carried => rows[q].full \in {Null, lately'[q].content}
    BY <1>1 DEF RowInv
  <2>1. ~Mistakable(q)' /\ RowStat(q) \notin former'[q] /\ RowStat(q) \in lately[q].stats \cup former[q]
    BY <1>1 DEF Recent, RowStat, TruthInv, DatesInv
  <2>2. Recent(q, RowStat(q)) /\ lately'[q].content = lately[q].content
    BY <2>1, StaysRecent
  <2> QED BY <2>2 DEF TruthInv, RowInv
<1>5. EntryInv'
  <2> SUFFICES ASSUME NEW e \in pending, Recent(e.path, stat[e.path])'
               PROVE  /\ e.partial \in {Null, Sample[lately'[e.path].content]}
                      /\ e.full \in {Null, lately'[e.path].content}
    BY <1>1 DEF TruthInv, EntryInv
  <2>1. e.path \in Paths /\ stat[e.path] \in lately[e.path].stats \cup former[e.path]
    BY DEF TruthInv, Typed, Entry, DatesInv, EntryInv
  <2>2. ~Mistakable(e.path)' /\ stat[e.path] \notin former'[e.path]
    BY <1>1 DEF Recent
  <2>3. Recent(e.path, stat[e.path]) /\ lately'[e.path].content = lately[e.path].content
    BY <2>1, <2>2, StaysRecent
  <2> QED BY <2>3 DEF TruthInv, EntryInv
<1>6. PhaseInv'
  BY <1>1 DEF TruthInv, PhaseInv, Joined, Joins
<1> QED BY <1>2, <1>3, <1>4, <1>5, <1>6 DEF TruthInv

\* Between the phases, and the cleaner when it deletes nothing.
LEMMA QuietStep ==
  ASSUME TruthInv,
         \/ Start \/ WalkEnd \/ Save \/ Signal \/ BeginClean \/ UNCHANGED rescanVars
         \/ \E p \in Paths : WalkFile(p)
  PROVE  TruthInv'
<1>1. UNCHANGED <<rows, carried, pending, content, mtime, lately, former>>
  BY DEF Start, WalkEnd, Save, Signal, BeginClean, StartClean, FetchPage, rescanVars, WalkFile,
         cacheVars, world
<1>2. RowInv'
  BY <1>1 DEF TruthInv, RowInv, RowStat, Recent, Mistakable
<1>3. \A p \in Paths : /\ Exists(p)' <=> Exists(p)
                       /\ StatOf(p)' = StatOf(p) /\ RowStat(p)' = RowStat(p)
  BY <1>1 DEF Exists, StatOf, RowStat
<1>4. CASE Start \/ Save
  <2>1. /\ pending = {} /\ stat' = [p \in Paths |-> NoStat]
        /\ fileStage' = [p \in Paths |-> "none"] /\ pc' \in {"walk", "idle"}
        /\ todo' \in {Paths, todo}
    BY <1>4 DEF TruthInv, EntryInv, Phase, Start, Save
  <2>2. hashes' \in [Paths -> Nat]
    <3>1. CASE Start
      BY <3>1 DEF Start, TruthInv, Typed
    <3>2. CASE Save
      BY <3>2, Sorts DEF Save
    <3> QED BY <1>4, <3>1, <3>2
  <2>3. Typed'
    BY <1>1, <2>1, <2>2 DEF TruthInv, Typed, NoStat, Stat
  <2>4. DatesInv'
    BY <1>1, <1>3, <2>1 DEF TruthInv, DatesInv
  <2>5. EntryInv' /\ PhaseInv'
    BY <1>1, <2>1 DEF TruthInv, EntryInv, PhaseInv
  <2> QED BY <1>2, <2>3, <2>4, <2>5 DEF TruthInv
<1>5. ASSUME NEW p \in Paths, WalkFile(p) PROVE TruthInv'
  <2>1. /\ pending = {} /\ pc' = "walk" /\ UNCHANGED hashes /\ todo' \subseteq todo
        /\ \A q \in Paths \ {p} : stat'[q] = stat[q] /\ fileStage'[q] = fileStage[q]
        /\ \/ UNCHANGED <<stat, fileStage>>
           \/ /\ Exists(p) /\ stat' = [stat EXCEPT ![p] = StatOf(p)]
              /\ fileStage' = [fileStage EXCEPT ![p] = "scanned"]
    BY <1>5 DEF TruthInv, Typed, EntryInv, Phase, WalkFile
  <2>2. Exists(p) => StatOf(p) \in Stat /\ StatOf(p) # NoStat
    BY PresentStat DEF TruthInv
  <2>3. \/ stat'[p] = stat[p] /\ fileStage'[p] = fileStage[p]
        \/ Exists(p) /\ stat'[p] = StatOf(p) /\ stat'[p] # NoStat
    BY <2>1, <2>2 DEF TruthInv, Typed
  <2>4. Typed'
    <3>1. \/ UNCHANGED <<stat, fileStage>>
          \/ /\ StatOf(p) \in Stat /\ stat' = [stat EXCEPT ![p] = StatOf(p)]
             /\ fileStage' = [fileStage EXCEPT ![p] = "scanned"]
      BY <2>1, <2>2
    <3>2. stat' \in [Paths -> Stat]
      BY <3>1 DEF TruthInv, Typed
    <3>3. fileStage' \in [Paths -> {"none", "scanned", "partial_done", "full_done", "unique"}]
      BY <3>1 DEF TruthInv, Typed
    <3> QED BY <1>1, <2>1, <3>2, <3>3 DEF TruthInv, Typed
  <2>5. DatesInv'
    <3> SUFFICES ASSUME NEW q \in Paths, stat'[q] # NoStat
                 PROVE  stat'[q] \in lately[q].stats \cup former[q]
      BY <1>1, <1>3 DEF TruthInv, DatesInv
    <3>1. stat'[q] = stat[q] \/ (Exists(q) /\ stat'[q] = StatOf(q))
      BY <2>1, <2>3
    <3> QED BY <3>1 DEF TruthInv, DatesInv
  <2>6. EntryInv' /\ PhaseInv'
    BY <1>1, <2>1, <2>3 DEF TruthInv, EntryInv, PhaseInv
  <2> QED BY <1>2, <2>4, <2>5, <2>6 DEF TruthInv
<1>6. CASE WalkEnd
  <2>1. /\ pending = {} /\ pc' \in {"save", "partial"}
        /\ UNCHANGED <<stat, fileStage, hashes>> /\ todo' \subseteq Paths
        /\ \A p \in todo' : stat[p] # NoStat
    BY <1>6 DEF TruthInv, EntryInv, Phase, WalkEnd, HasSizePeer
  <2>2. Typed' /\ DatesInv'
    BY <1>1, <1>3, <2>1 DEF TruthInv, Typed, DatesInv
  <2>3. EntryInv' /\ PhaseInv'
    BY <1>1, <2>1 DEF TruthInv, EntryInv, PhaseInv
  <2> QED BY <1>2, <2>2, <2>3 DEF TruthInv
<1>7. CASE Signal \/ BeginClean \/ UNCHANGED rescanVars
  <2>1. UNCHANGED <<stat, fileStage, hashes, todo, pc>>
    BY <1>7 DEF Signal, BeginClean, rescanVars, memory
  <2>2. Typed' /\ DatesInv'
    BY <1>1, <1>3, <2>1 DEF TruthInv, Typed, DatesInv
  <2>3. EntryInv' /\ PhaseInv'
    BY <1>1, <2>1 DEF TruthInv, EntryInv, PhaseInv, Recent, Mistakable, Joined, Joins
  <2> QED BY <1>2, <2>2, <2>3 DEF TruthInv
<1> QED BY <1>4, <1>5, <1>6, <1>7

\* cache clean only takes rows away.
LEMMA CleanStep == ASSUME TruthInv, Cleaning PROVE TruthInv'
<1>1. UNCHANGED <<pending, content, mtime, lately, former, stat, fileStage, hashes, todo, pc>>
  BY DEF Cleaning, CleanFetch, FetchPage, CleanLook, CleanDelete, world, memory
<1>2. /\ rows' \in [Paths -> Row] /\ carried' \subseteq Paths
      /\ \A p \in Paths : \/ rows'[p] = rows[p] /\ (p \in carried' <=> p \in carried)
                         \/ rows'[p] = NoRow
  <2>1. NoRow \in Row
    BY Sorts DEF NoRow, Row
  <2>2. CASE UNCHANGED <<rows, carried>>
    BY <2>2 DEF TruthInv, Typed
  <2>3. CASE CleanDelete
    BY <2>1, <2>3 DEF TruthInv, Typed, CleanDelete
  <2> QED BY <2>2, <2>3 DEF Cleaning, CleanFetch, FetchPage, CleanLook
<1>3. Typed'
  BY <1>1, <1>2 DEF TruthInv, Typed
<1>4. DatesInv' /\ RowInv'
  <2>1. DatesInv'
    <3> SUFFICES ASSUME NEW p \in Paths
                 PROVE  /\ Exists(p)' => lately[p].content = content[p] /\ StatOf(p)' \in lately[p].stats
                        /\ stat[p] # NoStat => stat[p] \in lately[p].stats \cup former[p]
                        /\ rows'[p] # NoRow => RowStat(p)' \in lately[p].stats \cup former[p]
                        /\ lately[p].content = Gone => lately[p].stats = {} /\ former[p] = {}
      BY <1>1 DEF DatesInv
    <3>1. Exists(p)' => lately[p].content = content[p] /\ StatOf(p)' \in lately[p].stats
      BY <1>1 DEF TruthInv, DatesInv, Exists, StatOf
    <3>2. rows'[p] # NoRow => RowStat(p)' \in lately[p].stats \cup former[p]
      BY <1>2 DEF TruthInv, DatesInv, RowStat
    <3> QED BY <3>1, <3>2 DEF TruthInv, DatesInv
  <2>2. RowInv'
    <3> SUFFICES ASSUME NEW p \in Paths, rows'[p] # NoRow, Recent(p, RowStat(p))'
                 PROVE  /\ rows'[p].partial \in {Null, Sample[lately'[p].content]}
                        /\ p \notin carried' => rows'[p].full \in {Null, lately'[p].content}
      BY DEF RowInv
    <3>1. rows'[p] = rows[p] /\ RowStat(p)' = RowStat(p) /\ (p \in carried' <=> p \in carried)
      BY <1>2 DEF RowStat
    <3>2. (Mistakable(p)' <=> Mistakable(p)) /\ former' = former /\ lately' = lately
      BY <1>1 DEF Mistakable
    <3>3. Recent(p, RowStat(p))
      BY <3>1, <3>2 DEF Recent
    <3> QED BY <3>1, <3>2, <3>3 DEF TruthInv, RowInv
  <2> QED BY <2>1, <2>2
<1>5. EntryInv'
  BY <1>1 DEF TruthInv, EntryInv, Recent, Mistakable
<1>6. \A p \in Paths : Joined(p) => Joined(p)'
  BY <1>1, <1>2 DEF Joined, Joins
<1>7. PhaseInv'
  <2>1. \A e \in pending : e.path \in Paths
    BY DEF TruthInv, Typed, Entry
  <2> QED BY <1>1, <1>6, <2>1 DEF TruthInv, Typed, PhaseInv
<1> QED BY <1>3, <1>4, <1>5, <1>7 DEF TruthInv

-----------------------------------------------------------------------------
(* The batch *)

LEMMA UpsertFields ==
  ASSUME NEW row \in Row, NEW e \in Entry
  PROVE  /\ Upsert(row, e) \in Row
         /\ Upsert(row, e).size = e.size /\ Upsert(row, e).mtime = e.mtime
         /\ Upsert(row, e).partial = Coalesce(e.partial, row.partial)
         /\ Upsert(row, e).full = Coalesce(e.full, row.full)
BY DEF Row, Entry, Upsert, Coalesce

(* What flush leaves: the row of an entry has its stat and its digests, and   *)
(* where the entry has none, those of the row the JOIN found under that stat. *)
LEMMA FlushRows ==
  ASSUME TruthInv, Flush, pc \in {"partial", "groups"},
         UNCHANGED <<content, mtime, stat, lately, former>>
  PROVE  /\ rows' \in [Paths -> Row] /\ carried' \subseteq Paths /\ pending' = {}
         /\ DatesInv' /\ RowInv'
<1>1. pending' = {} /\ carried' \subseteq Paths
  BY DEF Flush
<1>2. ASSUME NEW p \in Paths, \A e \in pending : e.path # p
      PROVE  rows'[p] = rows[p] /\ (p \in carried' <=> p \in carried)
  BY <1>2 DEF Flush
<1>3. ASSUME NEW e \in pending
      PROVE  /\ rows'[e.path] = Upsert(rows[e.path], e) /\ rows[e.path] \in Row
             /\ e.path \in carried' <=> \/ e.path \in carried /\ e.full = Null
                                       \/ CarriesOver(rows[e.path], e)
  <2>1. e.path \in Paths /\ {d \in pending : d.path = e.path} = {e}
    BY DEF TruthInv, Typed, Entry, PhaseInv
  <2> QED BY <2>1 DEF Flush, TruthInv, Typed
<1>4. rows' \in [Paths -> Row]
  <2>1. DOMAIN rows' = Paths /\ rows' = [p \in Paths |-> rows'[p]]
    BY DEF Flush
  <2>2. ASSUME NEW p \in Paths PROVE rows'[p] \in Row
    <3>1. CASE \A e \in pending : e.path # p
      BY <1>2, <3>1 DEF TruthInv, Typed
    <3>2. ASSUME NEW e \in pending, e.path = p PROVE rows'[p] \in Row
      BY <1>3, <3>2, UpsertFields DEF TruthInv, Typed
    <3> QED BY <3>1, <3>2
  <2> QED BY <2>1, <2>2
<1>5. ASSUME NEW p \in Paths
      PROVE  /\ (Exists(p)' <=> Exists(p)) /\ StatOf(p)' = StatOf(p)
             /\ Mistakable(p)' <=> Mistakable(p)
  BY DEF Exists, StatOf, Mistakable
<1>6. ASSUME NEW p \in Paths, NEW e \in pending, e.path = p
      PROVE  /\ RowStat(p)' = stat[p] /\ stat[p] # NoStat
             /\ e.size = stat[p].size /\ e.mtime = stat[p].mtime
             /\ rows'[p].partial = Coalesce(e.partial, rows[p].partial)
             /\ rows'[p].full = Coalesce(e.full, rows[p].full)
  <2>1. rows'[p] = Upsert(rows[p], e) /\ rows[p] \in Row /\ e \in Entry /\ stat[p] \in Stat
    BY <1>3, <1>6 DEF TruthInv, Typed
  <2>2. e.size = stat[p].size /\ e.mtime = stat[p].mtime /\ stat[p] # NoStat
    BY <1>6 DEF TruthInv, EntryInv
  <2>3. rows'[p].size = stat[p].size /\ rows'[p].mtime = stat[p].mtime
    BY <2>1, <2>2, UpsertFields
  <2>4. RowStat(p)' = stat[p]
    BY <2>1, <2>3 DEF RowStat, Stat
  <2> QED BY <2>1, <2>2, <2>4, UpsertFields
<1>7. DatesInv'
  <2> SUFFICES ASSUME NEW p \in Paths, rows'[p] # NoRow
               PROVE  RowStat(p)' \in lately[p].stats \cup former[p]
    BY <1>5 DEF TruthInv, DatesInv
  <2>1. CASE \A e \in pending : e.path # p
    BY <1>2, <2>1 DEF TruthInv, DatesInv, RowStat
  <2>2. ASSUME NEW e \in pending, e.path = p PROVE RowStat(p)' \in lately[p].stats \cup former[p]
    BY <1>6, <2>2 DEF TruthInv, DatesInv
  <2> QED BY <2>1, <2>2
<1>8. RowInv'
  <2> SUFFICES ASSUME NEW p \in Paths, rows'[p] # NoRow, Recent(p, RowStat(p))'
               PROVE  /\ rows'[p].partial \in {Null, Sample[lately[p].content]}
                      /\ p \notin carried' => rows'[p].full \in {Null, lately[p].content}
    BY DEF RowInv
  <2>0. ~Mistakable(p) /\ RowStat(p)' \notin former[p]
    BY <1>5 DEF Recent
  <2>1. CASE \A e \in pending : e.path # p
    <3>1. RowStat(p)' = RowStat(p) /\ rows'[p] = rows[p] /\ (p \in carried' <=> p \in carried)
      BY <1>2, <2>1 DEF RowStat
    <3> QED BY <2>0, <3>1 DEF TruthInv, RowInv, Recent
  <2>2. ASSUME NEW e \in pending, e.path = p
        PROVE  /\ rows'[p].partial \in {Null, Sample[lately[p].content]}
               /\ p \notin carried' => rows'[p].full \in {Null, lately[p].content}
    <3>1. /\ stat[p] # NoStat /\ e.size = stat[p].size /\ e.mtime = stat[p].mtime
          /\ rows'[p].partial = Coalesce(e.partial, rows[p].partial)
          /\ rows'[p].full = Coalesce(e.full, rows[p].full)
          /\ stat[p] \notin former[p] /\ Recent(p, stat[p])
      BY <1>6, <2>0, <2>2 DEF Recent
    <3>2. e.partial \in {Null, Sample[lately[p].content]} /\ e.full \in {Null, lately[p].content}
      BY <2>2, <3>1 DEF TruthInv, EntryInv
    <3>3. CASE pc = "partial"
      <4>1. e.partial # Null /\ e.full = Null
        BY <3>3 DEF TruthInv, PhaseInv
      <4>2. p \notin carried' /\ rows[p].full # Null /\ rows[p] # NoRow =>
              p \notin carried /\ rows[p].mtime = e.mtime /\ rows[p].size = e.size
        BY <1>3, <2>2, <4>1 DEF CarriesOver
      <4>3. rows[p] = NoRow => rows[p].full = Null
        BY DEF NoRow
      <4>4. rows[p].mtime = e.mtime /\ rows[p].size = e.size => RowStat(p) = stat[p]
        BY <3>1 DEF RowStat, Stat, TruthInv, Typed
      <4>5. p \notin carried' => rows[p].full \in {Null, lately[p].content}
        BY <3>1, <4>2, <4>3, <4>4 DEF TruthInv, RowInv
      <4> QED BY <3>1, <3>2, <4>1, <4>5 DEF Coalesce
    <3>4. CASE pc = "groups"
      <4>1. e.partial = Null /\ e.full # Null /\ Joined(p)
        BY <2>2, <3>4 DEF TruthInv, PhaseInv
      <4>2. rows[p] # NoRow => Recent(p, RowStat(p))
        <5> SUFFICES ASSUME rows[p] # NoRow PROVE Recent(p, RowStat(p))
          OBVIOUS
        <5>1. rows[p].size = stat[p].size /\ Distance(rows[p].mtime, stat[p].mtime) < Tol
          BY <4>1 DEF Joined, Joins
        <5>2. rows[p].mtime \in Nat /\ stat[p].mtime \in Nat
          BY DEF TruthInv, Typed, Row, Stat
        <5>3. Hit(p, stat[p])
          BY <5>1, <5>2, Sorts DEF Hit, Distance
        <5>4. stat[p] \in lately[p].stats
          BY <3>1 DEF TruthInv, DatesInv
        <5> QED BY <2>0, <5>3, <5>4, HitIsRecent DEF TruthInv
      <4>3. rows[p] = NoRow => rows[p].partial = Null
        BY DEF NoRow
      <4>4. rows[p].partial \in {Null, Sample[lately[p].content]}
        BY <4>2, <4>3 DEF TruthInv, RowInv
      <4> QED BY <3>1, <3>2, <4>1, <4>4 DEF Coalesce
    <3> QED BY <3>3, <3>4
  <2> QED BY <2>1, <2>2
<1> QED BY <1>1, <1>4, <1>7, <1>8

LEMMA FlushStep == ASSUME TruthInv, PartialEnd \/ GroupsEnd PROVE TruthInv'
<1>1. /\ Flush \/ DropBatch
      /\ pc \in {"partial", "groups"} /\ UNCHANGED <<content, mtime, stat, hashes, lately, former>>
      /\ pc' \in {"save", "groups"} /\ todo' \subseteq todo
      /\ fileStage' \in [Paths -> {"none", "scanned", "partial_done", "full_done", "unique"}]
      /\ \A p \in Paths : fileStage'[p] # "none" => fileStage[p] # "none"
  BY DEF PartialEnd, GroupsEnd, Flushed, world, memory, TruthInv, Typed
<1>2. rows' \in [Paths -> Row] /\ carried' \subseteq Paths /\ pending' = {} /\ DatesInv' /\ RowInv'
  <2>1. CASE Flush
    BY <1>1, <2>1, FlushRows
  <2>2. CASE DropBatch
    <3>1. UNCHANGED <<rows, carried>> /\ pending' = {}
      BY <2>2 DEF DropBatch
    <3>2. DatesInv'
      BY <1>1, <3>1 DEF TruthInv, DatesInv, Exists, StatOf, RowStat
    <3>3. RowInv'
      BY <1>1, <3>1 DEF TruthInv, RowInv, RowStat, Recent, Mistakable
    <3> QED BY <3>1, <3>2, <3>3 DEF TruthInv, Typed
  <2> QED BY <1>1, <2>1, <2>2
<1>3. Typed'
  BY <1>1, <1>2 DEF TruthInv, Typed
<1>4. EntryInv' /\ PhaseInv'
  BY <1>1, <1>2 DEF TruthInv, EntryInv, PhaseInv
<1> QED BY <1>2, <1>3, <1>4 DEF TruthInv

-----------------------------------------------------------------------------
(* Hashing *)

\* The ways to handle a file: its row answers, nothing is read, or what it contains.
LEMMA PartialOutcome ==
  ASSUME NEW p \in Paths, PartialHash(p)
  PROVE  \/ /\ GetPartialHash(p, stat[p]) # Null
            /\ fileStage' = [fileStage EXCEPT ![p] = "partial_done"]
            /\ UNCHANGED <<pending, faults, failed>>
         \/ /\ GetPartialHash(p, stat[p]) = Null /\ UNCHANGED pending
            /\ fileStage' = [fileStage EXCEPT ![p] = "unique"]
            /\ \/ ~Exists(p) /\ UNCHANGED <<faults, failed>>
               \/ MayFail /\ faults' = faults + 1 /\ failed' = failed \cup {p}
         \/ /\ GetPartialHash(p, stat[p]) = Null /\ Exists(p)
            /\ QueueUpdate(p, stat[p], Sample[content[p]], Null)
            /\ fileStage' = [fileStage EXCEPT ![p] = "partial_done"]
            /\ UNCHANGED <<faults, failed>>
<1>1. CASE GetPartialHash(p, stat[p]) # Null
  BY <1>1 DEF PartialHash
<1>2. CASE GetPartialHash(p, stat[p]) = Null
  <2>1. PICK got \in {content[p], Gone} :
          /\ Read(p, got)
          /\ fileStage' = [fileStage EXCEPT ![p] = IF got = Gone THEN "unique" ELSE "partial_done"]
          /\ IF got = Gone THEN UNCHANGED pending ELSE QueueUpdate(p, stat[p], Sample[got], Null)
    BY <1>2 DEF PartialHash
  <2>2. CASE got = Gone
    BY <1>2, <2>1, <2>2 DEF Read, Exists
  <2>3. CASE got # Gone
    BY <1>2, <2>1, <2>3 DEF Read, Exists
  <2> QED BY <2>2, <2>3
<1> QED BY <1>1, <1>2

LEMMA FullOutcome ==
  ASSUME NEW p \in Paths, FullHash(p)
  PROVE  \/ /\ GetFullHash(p, stat[p]) # Null
            /\ hashes' = [hashes EXCEPT ![p] = GetFullHash(p, stat[p])]
            /\ reused' = IF p \in carried THEN reused \cup {p} ELSE reused
            /\ UNCHANGED <<pending, faults, failed>>
         \/ /\ GetFullHash(p, stat[p]) = Null /\ UNCHANGED <<pending, reused>>
            /\ hashes' = [hashes EXCEPT ![p] = Null]
            /\ \/ ~Exists(p) /\ UNCHANGED <<faults, failed>>
               \/ MayFail /\ faults' = faults + 1 /\ failed' = failed \cup {p}
         \/ /\ GetFullHash(p, stat[p]) = Null /\ Exists(p) /\ UNCHANGED reused
            /\ QueueUpdate(p, stat[p], Null, content[p])
            /\ hashes' = [hashes EXCEPT ![p] = content[p]]
            /\ UNCHANGED <<faults, failed>>
<1>1. CASE GetFullHash(p, stat[p]) # Null
  BY <1>1 DEF FullHash
<1>2. CASE GetFullHash(p, stat[p]) = Null
  <2>1. PICK got \in {content[p], Gone} :
          /\ Read(p, got) /\ UNCHANGED reused
          /\ hashes' = [hashes EXCEPT ![p] = IF got = Gone THEN Null ELSE got]
          /\ IF got = Gone THEN UNCHANGED pending ELSE QueueUpdate(p, stat[p], Null, got)
    BY <1>2 DEF FullHash
  <2>2. CASE got = Gone
    BY <1>2, <2>1, <2>2 DEF Read, Exists
  <2>3. CASE got # Gone
    BY <1>2, <2>1, <2>3 DEF Read, Exists
  <2> QED BY <2>2, <2>3
<1> QED BY <1>1, <1>2

\* A digest is of the content at this moment, and so later than the stat.
LEMMA QueueFields ==
  ASSUME TruthInv, NEW p \in Paths, stat[p] # NoStat, NEW a \in Nat, NEW f \in Nat,
         QueueUpdate(p, stat[p], a, f), UNCHANGED <<lately, former, stat>>, pc' = pc, pc \in Phase,
         Exists(p), a \in {Null, Sample[content[p]]}, f \in {Null, content[p]}
  PROVE  /\ EntryInv' /\ pending' \subseteq Entry
         /\ \A e \in pending' : \/ e \in pending
                                \/ e.path = p /\ e.partial = a /\ e.full = f
<1> DEFINE new == [path |-> p, size |-> stat[p].size, mtime |-> stat[p].mtime,
                   partial |-> a, full |-> f]
<1>1. pending' = pending \cup {new}
  BY DEF QueueUpdate
<1>2. new \in Entry
  BY DEF TruthInv, Typed, Stat, Entry
<1>3. pending' \subseteq Entry
  BY <1>1, <1>2 DEF TruthInv, Typed
<1>4. lately[p].content = content[p]
  BY DEF TruthInv, DatesInv
<1>5. EntryInv'
  <2>1. \A e \in pending : Recent(e.path, stat[e.path])' <=> Recent(e.path, stat[e.path])
    BY DEF Recent, Mistakable
  <2> QED BY <1>1, <1>4, <2>1 DEF TruthInv, EntryInv
<1> QED BY <1>1, <1>3, <1>5

\* What hashing leaves alone.
LEMMA HashFrame ==
  ASSUME TruthInv, UNCHANGED <<rows, carried, content, mtime, lately, former, stat>>
  PROVE  DatesInv' /\ RowInv' /\ (UNCHANGED <<pending, pc>> => EntryInv')
<1>1. \A p \in Paths : /\ (Exists(p)' <=> Exists(p)) /\ (Mistakable(p)' <=> Mistakable(p))
                       /\ StatOf(p)' = StatOf(p) /\ RowStat(p)' = RowStat(p)
  BY DEF Exists, Mistakable, StatOf, RowStat
<1>2. DatesInv'
  BY <1>1 DEF TruthInv, DatesInv
<1>3. RowInv'
  BY <1>1 DEF TruthInv, RowInv, Recent
<1>4. UNCHANGED <<pending, pc>> => EntryInv'
  BY DEF TruthInv, EntryInv, Recent, Mistakable
<1> QED BY <1>2, <1>3, <1>4

LEMMA PartialStep == ASSUME TruthInv, NEW p \in Paths, PartialHash(p) PROVE TruthInv'
<1>1. /\ pc = "partial" /\ p \in todo /\ todo' = todo \ {p} /\ stat[p] # NoStat
      /\ UNCHANGED <<rows, carried, content, mtime, lately, former, stat, hashes, pc>>
      /\ \E s \in {"partial_done", "unique"} : fileStage' = [fileStage EXCEPT ![p] = s]
  BY PartialOutcome DEF PartialHash, world, TruthInv, PhaseInv
<1>2. DatesInv' /\ RowInv' /\ (UNCHANGED pending => EntryInv')
  BY <1>1, HashFrame
<1>3. ASSUME pending' \subseteq Entry PROVE Typed'
  BY <1>1, <1>3 DEF TruthInv, Typed
<1>4. \A q \in Paths : fileStage'[q] # "none" => stat[q] # NoStat
  BY <1>1 DEF TruthInv, Typed, PhaseInv
<1>5. CASE UNCHANGED pending
  <2>1. Typed'
    BY <1>3, <1>5 DEF TruthInv, Typed
  <2>2. PhaseInv'
    BY <1>1, <1>4, <1>5 DEF TruthInv, PhaseInv
  <2> QED BY <1>2, <1>5, <2>1, <2>2 DEF TruthInv
<1>6. CASE Exists(p) /\ QueueUpdate(p, stat[p], Sample[content[p]], Null)
  <2>1. Sample[content[p]] \in Nat \ {0} /\ Null = 0
    BY <1>6, Sorts DEF TruthInv, Typed, Exists
  <2>2. /\ EntryInv' /\ pending' \subseteq Entry
        /\ \A e \in pending' : \/ e \in pending
                               \/ e.path = p /\ e.partial = Sample[content[p]] /\ e.full = Null
    BY <1>1, <1>6, <2>1, QueueFields DEF Phase
  <2>3. \A d, e \in pending' : d.path = e.path => d = e
    BY <1>1, <1>6 DEF QueueUpdate, TruthInv, PhaseInv
  <2>4. PhaseInv'
    BY <1>1, <1>4, <2>1, <2>2, <2>3 DEF TruthInv, PhaseInv
  <2> QED BY <1>2, <1>3, <2>2, <2>4 DEF TruthInv
<1> QED BY <1>5, <1>6, PartialOutcome

LEMMA FullStep == ASSUME TruthInv, NEW p \in Paths, FullHash(p) PROVE TruthInv'
<1>1. /\ pc = "full" /\ p \in todo /\ todo' = todo \ {p}
      /\ fileStage[p] = "partial_done" /\ Joined(p) /\ stat[p] # NoStat
      /\ UNCHANGED <<rows, carried, content, mtime, lately, former, stat, fileStage, pc>>
  BY DEF FullHash, world, TruthInv, PhaseInv, Joined
<1>2. PICK digest \in Nat : hashes' = [hashes EXCEPT ![p] = digest]
  <2>1. content[p] \in Nat /\ Null \in Nat /\ rows[p].full \in Nat
    <3>1. content[p] \in Contents \cup {Gone}
      BY DEF TruthInv, Typed
    <3>2. rows[p].full \in Nat
      BY DEF TruthInv, Typed, Row
    <3>3. Contents \cup {Gone} \subseteq Nat /\ Null \in Nat
      BY Sorts
    <3> QED BY <3>1, <3>2, <3>3
  <2>2. GetFullHash(p, stat[p]) \in Nat
    BY <2>1 DEF GetFullHash
  <2>3. \/ hashes' = [hashes EXCEPT ![p] = GetFullHash(p, stat[p])]
        \/ hashes' = [hashes EXCEPT ![p] = Null]
        \/ hashes' = [hashes EXCEPT ![p] = content[p]]
    BY FullOutcome
  <2> QED BY <2>1, <2>2, <2>3
<1>3. DatesInv' /\ RowInv' /\ (UNCHANGED pending => EntryInv')
  BY <1>1, HashFrame
<1>4. ASSUME pending' \subseteq Entry PROVE Typed'
  BY <1>1, <1>2, <1>4 DEF TruthInv, Typed
<1>5. /\ \A q \in todo' : fileStage[q] = "partial_done" /\ Joined(q)
      /\ \A q \in Paths : hashes'[q] # Null => stat[q] # NoStat
      /\ \A q \in Paths \ {p} : hashes'[q] = hashes[q]
  BY <1>1, <1>2 DEF TruthInv, Typed, PhaseInv
<1>6. \A e \in pending : /\ e.path # p /\ e.path \in Paths
                         /\ e.partial = Null /\ e.full # Null /\ Joined(e.path)
                         /\ \/ fileStage[e.path] = "full_done"
                            \/ e.path \notin todo' /\ hashes'[e.path] # Null
  BY <1>1, <1>5 DEF TruthInv, Typed, PhaseInv, Entry
<1>7. \A q \in Paths : Joined(q)' <=> Joined(q)
  BY <1>1 DEF Joined, Joins
<1>8. CASE UNCHANGED pending
  <2>1. Typed'
    BY <1>4, <1>8 DEF TruthInv, Typed
  <2>2. PhaseInv'
    BY <1>1, <1>5, <1>6, <1>7, <1>8 DEF TruthInv, Typed, PhaseInv
  <2> QED BY <1>3, <1>8, <2>1, <2>2 DEF TruthInv
<1>9. CASE /\ Exists(p) /\ QueueUpdate(p, stat[p], Null, content[p])
           /\ hashes' = [hashes EXCEPT ![p] = content[p]]
  <2>1. content[p] \in Nat \ {0} /\ Null \in Nat /\ Null = 0
    <3>1. content[p] \in Contents
      BY <1>9 DEF TruthInv, Typed, Exists
    <3> QED BY <3>1, Sorts
  <2>2. /\ EntryInv' /\ pending' \subseteq Entry
        /\ \A e \in pending' : \/ e \in pending
                               \/ e.path = p /\ e.partial = Null /\ e.full = content[p]
    BY <1>1, <1>9, <2>1, QueueFields DEF Phase
  <2>3. \A d, e \in pending' : d.path = e.path => d = e
    BY <1>6, <1>9 DEF QueueUpdate, TruthInv, PhaseInv
  <2>4. hashes'[p] # Null
    BY <1>1, <1>9, <2>1 DEF TruthInv, Typed
  <2>5. PhaseInv'
    BY <1>1, <1>5, <1>6, <1>7, <2>1, <2>2, <2>3, <2>4 DEF TruthInv, Typed, PhaseInv
  <2> QED BY <1>3, <1>4, <2>2, <2>5 DEF TruthInv
<1> QED BY <1>8, <1>9, FullOutcome

LEMMA GroupStep == ASSUME TruthInv, EmitGroups \/ \E h \in Nat : NextGroup(h) PROVE TruthInv'
<1>1. /\ pc \in {"groups", "full"} /\ pc' \in {"groups", "full"}
      /\ UNCHANGED <<rows, carried, pending, content, mtime, lately, former, stat>>
  BY DEF EmitGroups, NextGroup, cacheVars, world
<1>2. DatesInv' /\ RowInv' /\ EntryInv'
  <2>1. EntryInv'
    BY <1>1 DEF TruthInv, EntryInv, Recent, Mistakable, Phase
  <2> QED BY <1>1, <2>1, HashFrame
<1>3. \A q \in Paths : Joined(q)' <=> Joined(q)
  BY <1>1 DEF Joined, Joins
<1>4. \A e \in pending : e.path \in Paths
  BY DEF TruthInv, Typed, Entry
<1>5. CASE EmitGroups
  <2>1. /\ pc = "full" /\ pc' = "groups" /\ todo' = {} /\ UNCHANGED hashes
        /\ fileStage' = [p \in Paths |-> IF hashes[p] # Null THEN "full_done" ELSE fileStage[p]]
        /\ todo = {} \/ shutdown
    BY <1>5 DEF EmitGroups, Digested
  <2>2. Typed'
    BY <1>1, <2>1 DEF TruthInv, Typed
  <2>3. PhaseInv'
    BY <1>1, <1>3, <1>4, <2>1 DEF TruthInv, Typed, PhaseInv
  <2> QED BY <1>2, <2>2, <2>3 DEF TruthInv
<1>6. ASSUME NEW h \in Nat, NextGroup(h) PROVE TruthInv'
  <2>1. /\ pc = "groups" /\ hashes' = [p \in Paths |-> Null] /\ UNCHANGED fileStage
        /\ \/ UNCHANGED <<pc, todo>>
           \/ pc' = "full" /\ todo' = HashGroup(h)
    BY <1>6 DEF NextGroup
  <2>2. /\ HashGroup(h) \subseteq Paths
        /\ \A p \in HashGroup(h) : fileStage[p] = "partial_done" /\ Joined(p)
    BY DEF HashGroup, Joined, TruthInv, PhaseInv
  <2>3. Typed'
    BY <1>1, <2>1, <2>2, Sorts DEF TruthInv, Typed
  <2>4. PhaseInv'
    BY <1>1, <1>3, <1>4, <2>1, <2>2 DEF TruthInv, PhaseInv
  <2> QED BY <1>2, <2>3, <2>4 DEF TruthInv
<1> QED BY <1>5, <1>6

-----------------------------------------------------------------------------

LEMMA TruthStep == ASSUME TruthInv, [Next]_rescanVars PROVE TruthInv'
<1>1. CASE Next
  <2>1. \A h \in {Sample[c] : c \in Contents} : h \in Nat
    BY Sorts
  <2>2. CASE ScanStep
    BY <2>1, <2>2, QuietStep, FlushStep, PartialStep, FullStep, GroupStep DEF ScanStep
  <2>3. CASE \E p \in Paths : Write(p) \/ Remove(p)
    BY <2>3, WorldStep
  <2>4. CASE Signal \/ BeginClean
    BY <2>4, QuietStep
  <2>5. CASE Cleaning
    BY <2>5, CleanStep
  <2> QED BY <1>1, <2>2, <2>3, <2>4, <2>5 DEF Next
<1>2. CASE UNCHANGED rescanVars
  BY <1>2, QuietStep
<1> QED BY <1>1, <1>2

(* A row that answers for the present stat of a file was written under that  *)
(* stat or one the tolerance takes for it, after the last write of the file. *)
LEMMA TruthImplies == TruthInv => RowsTruthful
<1> SUFFICES ASSUME TruthInv, NEW p \in Paths, Exists(p), ~Mistakable(p)
             PROVE  /\ GetPartialHash(p, StatOf(p)) \in {Null, Sample[content[p]]}
                    /\ p \notin carried => GetFullHash(p, StatOf(p)) \in {Null, content[p]}
  BY DEF RowsTruthful
<1>1. lately[p].content = content[p] /\ StatOf(p) \in lately[p].stats
  BY DEF TruthInv, DatesInv
<1>2. CASE Hit(p, StatOf(p))
  <2>1. rows[p] # NoRow /\ Recent(p, RowStat(p))
    BY <1>1, <1>2, HitIsRecent DEF TruthInv
  <2> QED BY <1>1, <2>1 DEF TruthInv, RowInv, GetPartialHash, GetFullHash
<1>3. CASE ~Hit(p, StatOf(p))
  BY <1>3 DEF GetPartialHash, GetFullHash
<1> QED BY <1>2, <1>3

-----------------------------------------------------------------------------
(* What each file has contained since the scan began *)

Samples(p) == {Sample[c] : c \in had[p] \ {Gone}}

(***************************************************************************)
(* A row that answers for the stat of the walk has digests of contents that *)
(* the file has had since: the walk finds the content it has, and an entry *)
(* gets the content it has later; but for the files that were Mistakable.  *)
(***************************************************************************)
HadInv ==
  /\ had \in [Paths -> SUBSET (Contents \cup {Gone})]
  /\ pc # "idle" => \A p \in Paths : content[p] \in had[p]
  /\ \A p \in Paths \ doubtful : stat[p] # NoStat /\ Hit(p, stat[p]) =>
         /\ rows[p].partial \in {Null} \cup Samples(p)
         /\ p \notin carried => rows[p].full \in {Null} \cup had[p]
  /\ \A e \in pending : /\ e.partial \in {Null} \cup Samples(e.path)
                        /\ e.full \in {Null} \cup had[e.path]
  /\ pc = "full" => \A p \in Paths \ (reused \cup doubtful) : hashes[p] \in {Null} \cup had[p]

LineInv ==
  /\ \A l \in lines : l.scan <= scans
  /\ LinesTrueUnlessMisled

LEMMA HadInit == ASSUME Init PROVE HadInv
<1>1. \A p \in Paths : content[p] \in Contents \cup {Gone} /\ stat[p] = NoStat
  BY ContentsAssumption DEF Init
<1>2. had \in [Paths -> SUBSET (Contents \cup {Gone})]
  BY <1>1 DEF Init
<1> QED BY <1>1, <1>2 DEF Init, CacheInit, HadInv

\* Steps that change no row, no entry, no content and no history.
LEMMA HadFrame ==
  ASSUME HadInv, UNCHANGED <<rows, carried, pending, content, had>>, reused \subseteq reused',
         doubtful \subseteq doubtful',
         \A p \in Paths : stat'[p] \in {stat[p], NoStat},
         pc' = "idle" \/ pc # "idle",
         pc' = "full" => \A p \in Paths : \/ hashes'[p] = Null
                                          \/ pc = "full" /\ hashes'[p] = hashes[p]
  PROVE  HadInv'
<1>1. \A p \in Paths : Samples(p)' = Samples(p)
  BY DEF Samples
<1>2. \A e \in pending : Samples(e.path)' = Samples(e.path)
  BY DEF Samples
<1>3. \A p \in Paths : stat'[p] # NoStat => /\ stat'[p] = stat[p]
                                           /\ Hit(p, stat[p])' <=> Hit(p, stat[p])
  BY DEF Hit
<1> QED BY <1>1, <1>2, <1>3 DEF HadInv

LEMMA HadWorld ==
  ASSUME TruthInv, HadInv, NEW p \in Paths, Write(p) \/ Remove(p)
  PROVE  HadInv'
<1>1. PICK c \in Contents \cup {Gone} :
        /\ content' = [content EXCEPT ![p] = c]
        /\ had' = IF pc = "idle" THEN had ELSE [had EXCEPT ![p] = had[p] \cup {c}]
        /\ UNCHANGED <<rows, carried, pending, stat, hashes, reused, doubtful, pc>>
  BY DEF TruthInv, Typed, Write, Remove, Changed, cacheVars, memory, reasons
<1>2. had' \in [Paths -> SUBSET (Contents \cup {Gone})]
  BY <1>1 DEF HadInv
<1>3. \A q \in Paths : had[q] \subseteq had'[q] /\ Samples(q) \subseteq Samples(q)'
  BY <1>1 DEF HadInv, Samples
<1>4. pc # "idle" => \A q \in Paths : content'[q] \in had'[q]
  BY <1>1 DEF HadInv, TruthInv, Typed
<1>5. \A e \in pending : e.path \in Paths
  BY DEF TruthInv, Typed, Entry
<1>6. \A q \in Paths : Hit(q, stat[q])' <=> Hit(q, stat[q])
  BY <1>1 DEF Hit
<1> QED BY <1>1, <1>2, <1>3, <1>4, <1>5, <1>6 DEF HadInv

LEMMA HadStart == ASSUME TruthInv, HadInv, Start PROVE HadInv'
<1>1. /\ pending = {} /\ stat' = [p \in Paths |-> NoStat] /\ UNCHANGED <<content, pending>>
      /\ had' = [p \in Paths |-> {content[p]}] /\ pc' = "walk"
  BY DEF TruthInv, EntryInv, Phase, Start, cacheVars, world
<1>2. had' \in [Paths -> SUBSET (Contents \cup {Gone})]
  BY <1>1 DEF TruthInv, Typed
<1> QED BY <1>1, <1>2 DEF HadInv

LEMMA HadWalk == ASSUME TruthInv, HadInv, NEW p \in Paths, WalkFile(p) PROVE HadInv'
<1>1. /\ UNCHANGED <<rows, carried, pending, content, had, reused, hashes>> /\ pc = "walk" /\ pc' = "walk"
      /\ \A q \in Paths : \/ stat'[q] = stat[q]
                          \/ /\ q = p /\ Exists(p) /\ stat'[q] = StatOf(p)
                             /\ Mistakable(p) => p \in doubtful'
      /\ doubtful \subseteq doubtful'
  BY DEF WalkFile, cacheVars, world, TruthInv, Typed
<1>2. \A q \in Paths : Samples(q)' = Samples(q)
  BY <1>1 DEF Samples
<1>3. \A e \in pending : e.path \in Paths
  BY DEF TruthInv, Typed, Entry
<1>4. ASSUME Exists(p), ~Mistakable(p), Hit(p, StatOf(p))
      PROVE  /\ rows[p].partial \in {Null} \cup Samples(p)
             /\ p \notin carried => rows[p].full \in {Null} \cup had[p]
  <2>1. lately[p].content = content[p] /\ StatOf(p) \in lately[p].stats
    BY <1>4 DEF TruthInv, DatesInv
  <2>2. rows[p] # NoRow /\ Recent(p, RowStat(p))
    BY <1>4, <2>1, HitIsRecent DEF TruthInv
  <2>3. content[p] \in had[p] \ {Gone}
    BY <1>1, <1>4 DEF HadInv, Exists
  <2> QED BY <2>1, <2>2, <2>3 DEF TruthInv, RowInv, Samples
<1>5. ASSUME NEW q \in Paths \ doubtful', stat'[q] # NoStat, Hit(q, stat[q])'
      PROVE  /\ rows[q].partial \in {Null} \cup Samples(q)
             /\ q \notin carried => rows[q].full \in {Null} \cup had[q]
  <2>1. Hit(q, stat'[q])
    BY <1>1, <1>5 DEF Hit
  <2>2. CASE stat'[q] = stat[q]
    BY <1>1, <1>5, <2>1, <2>2 DEF HadInv
  <2>3. CASE q = p /\ Exists(p) /\ stat'[q] = StatOf(p) /\ (Mistakable(p) => p \in doubtful')
    BY <1>4, <1>5, <2>1, <2>3
  <2> QED BY <1>1, <2>2, <2>3
<1>6. \A q \in Paths \ doubtful' : stat'[q] # NoStat /\ Hit(q, stat[q])' =>
        /\ rows'[q].partial \in {Null} \cup Samples(q)'
        /\ q \notin carried' => rows'[q].full \in {Null} \cup had'[q]
  BY <1>1, <1>2, <1>5
<1> QED BY <1>1, <1>2, <1>3, <1>6 DEF HadInv

\* cache clean only takes rows away.
LEMMA RowsTakenAway ==
  ASSUME TruthInv, Cleaning
  PROVE  /\ UNCHANGED <<pending, content, mtime, changes, stat, fileStage, todo, hashes, lastHash,
                        pc, scans, shutdown, lines, unread, results, newest, cleans, faults, had,
                        reused, failed, doubtful>>
         /\ \A p \in Paths : \/ rows'[p] = rows[p] /\ (p \in carried' <=> p \in carried)
                             \/ rows'[p] = NoRow /\ p \notin carried'
<1>1. UNCHANGED <<pending, content, mtime, changes, stat, fileStage, todo, hashes, lastHash, pc, scans,
                  shutdown, lines, unread, results, newest, cleans, faults, had, reused, failed,
                  doubtful>>
  BY DEF Cleaning, CleanFetch, FetchPage, CleanLook, CleanDelete, world, memory, report, stored
<1>2. CASE UNCHANGED <<rows, carried>>
  BY <1>1, <1>2
<1>3. CASE CleanDelete
  BY <1>1, <1>3 DEF CleanDelete
<1> QED BY <1>2, <1>3 DEF Cleaning, CleanFetch, FetchPage, CleanLook

LEMMA HadClean == ASSUME TruthInv, HadInv, Cleaning PROVE HadInv'
<1>1. /\ UNCHANGED <<pending, content, stat, hashes, pc, had, reused, doubtful>>
      /\ \A p \in Paths : \/ rows'[p] = rows[p] /\ (p \in carried' <=> p \in carried)
                         \/ rows'[p] = NoRow
  BY RowsTakenAway
<1>2. \A p \in Paths : Samples(p)' = Samples(p)
  BY <1>1 DEF Samples
<1>3. \A e \in pending : e.path \in Paths
  BY DEF TruthInv, Typed, Entry
<1>4. \A p \in Paths \ doubtful' : stat'[p] # NoStat /\ Hit(p, stat[p])' =>
        /\ rows'[p].partial \in {Null} \cup Samples(p)'
        /\ p \notin carried' => rows'[p].full \in {Null} \cup had'[p]
  <2> SUFFICES ASSUME NEW p \in Paths \ doubtful, stat[p] # NoStat, Hit(p, stat[p])'
               PROVE  /\ rows'[p].partial \in {Null} \cup Samples(p)
                      /\ p \notin carried' => rows'[p].full \in {Null} \cup had[p]
    BY <1>1, <1>2
  <2>1. Hit(p, stat[p]) /\ rows'[p] = rows[p] /\ (p \in carried' <=> p \in carried)
    BY <1>1 DEF Hit
  <2> QED BY <2>1 DEF HadInv
<1>5. \A e \in pending' : /\ e.partial \in {Null} \cup Samples(e.path)'
                          /\ e.full \in {Null} \cup had'[e.path]
  BY <1>1, <1>2, <1>3 DEF HadInv
<1> QED BY <1>1, <1>4, <1>5 DEF HadInv

\* What the flush makes of the row of each file.
LEMMA FlushedRow ==
  ASSUME TruthInv, Flush, pc \in {"partial", "groups"}, NEW p \in Paths
  PROVE  \/ /\ \A e \in pending : e.path # p
            /\ rows'[p] = rows[p] /\ (p \in carried' <=> p \in carried)
         \/ \E e \in pending :
              /\ e.path = p /\ rows'[p] # NoRow /\ stat[p] # NoStat
              /\ rows'[p].size = stat[p].size /\ rows'[p].mtime = stat[p].mtime
              /\ e.size = stat[p].size /\ e.mtime = stat[p].mtime
              /\ rows'[p].partial = Coalesce(e.partial, rows[p].partial)
              /\ rows'[p].full = Coalesce(e.full, rows[p].full)
              /\ p \in carried' <=> \/ p \in carried /\ e.full = Null
                                    \/ CarriesOver(rows[p], e)
<1>1. CASE \A e \in pending : e.path # p
  BY <1>1 DEF Flush
<1>2. ASSUME NEW e \in pending, e.path = p
      PROVE  /\ rows'[p] # NoRow /\ stat[p] # NoStat
             /\ rows'[p].size = stat[p].size /\ rows'[p].mtime = stat[p].mtime
             /\ e.size = stat[p].size /\ e.mtime = stat[p].mtime
             /\ rows'[p].partial = Coalesce(e.partial, rows[p].partial)
             /\ rows'[p].full = Coalesce(e.full, rows[p].full)
             /\ p \in carried' <=> \/ p \in carried /\ e.full = Null
                                   \/ CarriesOver(rows[p], e)
  <2>1. {d \in pending : d.path = p} = {e}
    BY <1>2 DEF TruthInv, PhaseInv
  <2>2. rows'[p] = Upsert(rows[p], e) /\ rows[p] \in Row /\ e \in Entry
    BY <2>1 DEF Flush, TruthInv, Typed
  <2>3. stat[p] # NoStat /\ e.size = stat[p].size /\ e.mtime = stat[p].mtime /\ stat[p] \in Stat
    BY <1>2 DEF TruthInv, EntryInv, Typed
  <2>4. rows'[p].size = stat[p].size /\ rows'[p].mtime = stat[p].mtime
    BY <2>2, <2>3, UpsertFields
  <2>5. rows'[p] # NoRow
    BY <2>3, <2>4 DEF NoRow, NoStat, Stat
  <2>6. p \in carried' <=> (p \in carried /\ e.full = Null) \/ CarriesOver(rows[p], e)
    BY <2>1 DEF Flush
  <2> QED BY <2>2, <2>3, <2>4, <2>5, <2>6, UpsertFields
<1> QED BY <1>1, <1>2

LEMMA HadFlush == ASSUME TruthInv, HadInv, PartialEnd \/ GroupsEnd PROVE HadInv'
<1>1. /\ Flush \/ DropBatch
      /\ pc \in {"partial", "groups"} /\ UNCHANGED <<content, stat, had, doubtful>>
      /\ pc' \in {"save", "groups"} /\ pending' = {}
  BY DEF PartialEnd, GroupsEnd, Flushed, Flush, DropBatch, world, memory, reasons
<1>2. \A p \in Paths : Samples(p)' = Samples(p)
  BY <1>1 DEF Samples
<1>3. ASSUME NEW p \in Paths \ doubtful, stat[p] # NoStat, Hit(p, stat[p])'
      PROVE  /\ rows'[p].partial \in {Null} \cup Samples(p)
             /\ p \notin carried' => rows'[p].full \in {Null} \cup had[p]
  <2>1. CASE rows'[p] = rows[p] /\ (p \in carried' <=> p \in carried)
    <3>1. Hit(p, stat[p])
      BY <1>1, <1>3, <2>1 DEF Hit
    <3> QED BY <1>3, <2>1, <3>1 DEF HadInv
  <2>2. ASSUME NEW e \in pending, e.path = p,
               e.size = stat[p].size, e.mtime = stat[p].mtime,
               rows'[p].partial = Coalesce(e.partial, rows[p].partial),
               rows'[p].full = Coalesce(e.full, rows[p].full),
               p \in carried' <=> (p \in carried /\ e.full = Null) \/ CarriesOver(rows[p], e)
        PROVE  /\ rows'[p].partial \in {Null} \cup Samples(p)
               /\ p \notin carried' => rows'[p].full \in {Null} \cup had[p]
    <3>1. e.partial \in {Null} \cup Samples(p) /\ e.full \in {Null} \cup had[p]
      BY <2>2 DEF HadInv
    <3>2. rows[p].mtime \in Nat /\ stat[p].mtime \in Nat
      BY DEF TruthInv, Typed, Row, Stat
    <3>3. Hit(p, stat[p]) =>
            /\ rows[p].partial \in {Null} \cup Samples(p)
            /\ p \notin carried => rows[p].full \in {Null} \cup had[p]
      BY <1>3 DEF HadInv
    <3>4. rows[p] = NoRow => rows[p].partial = Null /\ rows[p].full = Null
      BY DEF NoRow
    <3>5. CASE pc = "partial"
      <4>1. e.partial # Null /\ e.full = Null
        BY <3>5 DEF TruthInv, PhaseInv
      <4>2. ASSUME p \notin carried', rows[p].full # Null
            PROVE  p \notin carried /\ Hit(p, stat[p])
        <5>1. /\ rows[p] # NoRow /\ p \notin carried
              /\ rows[p].size = stat[p].size /\ rows[p].mtime = stat[p].mtime
          BY <2>2, <3>4, <4>1, <4>2 DEF CarriesOver
        <5>2. Distance(stat[p].mtime, stat[p].mtime) <= Tol
          BY <3>2, Sorts DEF Distance
        <5> QED BY <5>1, <5>2 DEF Hit
      <4> QED BY <2>2, <3>1, <3>3, <4>1, <4>2 DEF Coalesce
    <3>6. CASE pc = "groups"
      <4>1. e.partial = Null /\ e.full # Null /\ Joined(p)
        BY <2>2, <3>6 DEF TruthInv, PhaseInv
      <4>2. rows[p] # NoRow => Hit(p, stat[p])
        <5> SUFFICES ASSUME rows[p] # NoRow PROVE Hit(p, stat[p])
          OBVIOUS
        <5>1. rows[p].size = stat[p].size /\ Distance(rows[p].mtime, stat[p].mtime) < Tol
          BY <4>1 DEF Joined, Joins
        <5>2. Distance(rows[p].mtime, stat[p].mtime) <= Tol
          BY <3>2, <5>1, Sorts DEF Distance
        <5> QED BY <5>1, <5>2 DEF Hit
      <4>3. rows[p].partial \in {Null} \cup Samples(p)
        BY <3>3, <3>4, <4>2
      <4> QED BY <2>2, <3>1, <4>1, <4>3 DEF Coalesce
    <3> QED BY <1>1, <3>5, <3>6
  <2>3. CASE Flush
    BY <1>1, <2>1, <2>2, <2>3, FlushedRow
  <2>4. CASE DropBatch
    BY <2>1, <2>4 DEF DropBatch
  <2> QED BY <1>1, <2>3, <2>4
<1> QED BY <1>1, <1>2, <1>3 DEF HadInv

LEMMA HadHash ==
  ASSUME TruthInv, HadInv, NEW p \in Paths, PartialHash(p) \/ FullHash(p)
  PROVE  HadInv'
<1>1. /\ UNCHANGED <<rows, carried, content, stat, had, doubtful, pc>> /\ pc \in {"partial", "full"}
      /\ reused \subseteq reused' /\ p \in todo
  BY FullOutcome DEF PartialHash, FullHash, world
<1>2. \A q \in Paths : Samples(q)' = Samples(q)
  BY <1>1 DEF Samples
<1>3. \A e \in pending : e.path \in Paths
  BY DEF TruthInv, Typed, Entry
<1>4. content[p] \in had[p] /\ stat[p] # NoStat
  BY <1>1 DEF HadInv, TruthInv, PhaseInv, Joined
<1>5. \A e \in pending' : /\ e.path \in Paths
                          /\ e.partial \in {Null} \cup Samples(e.path)
                          /\ e.full \in {Null} \cup had[e.path]
  <2>1. CASE UNCHANGED pending
    BY <1>3, <2>1 DEF HadInv
  <2>2. CASE /\ Exists(p)
             /\ \/ QueueUpdate(p, stat[p], Sample[content[p]], Null)
                \/ QueueUpdate(p, stat[p], Null, content[p])
    <3>1. Sample[content[p]] \in Samples(p)
      BY <1>4, <2>2 DEF Samples, Exists
    <3> QED BY <1>3, <1>4, <2>2, <3>1 DEF HadInv, QueueUpdate
  <2> QED BY <2>1, <2>2, PartialOutcome, FullOutcome
<1>6. \A q \in Paths : Hit(q, stat[q])' <=> Hit(q, stat[q])
  BY <1>1 DEF Hit
<1>7. CASE PartialHash(p)
  <2>1. pc # "full"
    BY <1>7 DEF PartialHash
  <2> QED BY <1>1, <1>2, <1>5, <1>6, <2>1 DEF HadInv
<1>8. CASE FullHash(p)
  <2>1. pc = "full"
    BY <1>8 DEF FullHash
  <2>2. \A q \in Paths \ {p} : hashes'[q] = hashes[q]
    BY <1>8, FullOutcome DEF TruthInv, Typed
  <2>3. \/ hashes'[p] \in {Null, content[p]}
        \/ /\ GetFullHash(p, stat[p]) # Null /\ hashes'[p] = GetFullHash(p, stat[p])
           /\ p \in carried => p \in reused'
    BY <1>8, FullOutcome DEF TruthInv, Typed
  <2>4. p \notin carried \cup doubtful => GetFullHash(p, stat[p]) \in {Null} \cup had[p]
    BY <1>4 DEF HadInv, GetFullHash
  <2>5. p \notin reused' \cup doubtful => hashes'[p] \in {Null} \cup had[p]
    BY <1>4, <2>3, <2>4
  <2> QED BY <1>1, <1>2, <1>5, <1>6, <2>1, <2>2, <2>5 DEF HadInv
<1> QED BY <1>7, <1>8

LEMMA HadStep == ASSUME TruthInv, HadInv, [Next]_rescanVars PROVE HadInv'
<1>1. CASE \/ WalkEnd \/ Save \/ Signal \/ BeginClean \/ EmitGroups \/ UNCHANGED rescanVars
           \/ \E h \in {Sample[c] : c \in Contents} : NextGroup(h)
  <2>1. /\ UNCHANGED <<rows, carried, pending, content, had, reused, doubtful>>
        /\ \A p \in Paths : stat'[p] \in {stat[p], NoStat}
        /\ pc' = "idle" \/ pc # "idle" \/ pc' = pc
        /\ pc' = "full" => \A p \in Paths : \/ hashes'[p] = Null
                                            \/ pc = "full" /\ hashes'[p] = hashes[p]
    BY <1>1 DEF WalkEnd, Save, Signal, BeginClean, StartClean, FetchPage, EmitGroups, rescanVars,
                cacheVars, world, memory, reasons, NextGroup
  <2> QED BY <2>1, HadFrame
<1> QED BY <1>1, HadStart, HadWalk, HadFlush, HadHash, HadWorld, HadClean DEF Next, ScanStep


-----------------------------------------------------------------------------
(* Types *)

Digest == Contents \cup {Null}

TypeInv ==
  /\ pc \in {"idle", "walk", "partial", "groups", "full", "save"}
  /\ scans \in 0..MaxScans /\ changes \in 0..MaxChanges /\ cleans \in 0..MaxCleans
  /\ shutdown \in BOOLEAN
  /\ pc # "idle" => scans >= 1
  /\ \A p \in Paths : rows[p].full \in Digest /\ hashes[p] \in Digest
  /\ \A e \in pending : e.full \in Digest
  /\ lastHash \in Nat /\ (pc = "full" => lastHash \in {Sample[c] : c \in Contents})
  /\ lines \subseteq Line /\ unread \subseteq lines /\ faults \in 0..MaxFaults
  /\ carried \subseteq Cached

LEMMA TypeInit == ASSUME Init PROVE TypeInv /\ LineInv
<1>1. 0 \in 0..MaxScans /\ 0 \in 0..MaxChanges /\ 0 \in 0..MaxCleans /\ 0 \in 0..MaxFaults
  BY BoundAssumption
<1> QED BY <1>1 DEF Init, CacheInit, TypeInv, LineInv, LinesTrueUnlessMisled, FromThisScan, Digest,
                   NoRow, Cached

LEMMA TypeStep == ASSUME TruthInv, HadInv, TypeInv, [Next]_rescanVars PROVE TypeInv'
<1> USE BoundAssumption
<1>1. \A p \in Paths : content[p] \in Digest
  BY DEF TruthInv, Typed, Digest, Null, Gone
<1>2. MayFail /\ faults' = faults + 1 => faults' \in 0..MaxFaults
  BY DEF MayFail, TypeInv
<1>3. CASE UNCHANGED rescanVars
  BY <1>3 DEF rescanVars, cacheVars, world, memory, report, stored, TypeInv, Cached
<1>4. ASSUME NEW p \in Paths, Write(p) \/ Remove(p) PROVE TypeInv'
  <2>1. /\ UNCHANGED <<rows, carried, pending, pc, scans, shutdown, hashes, lastHash, lines, unread,
                       cleans, faults>>
        /\ changes' \in 0..MaxChanges
    BY <1>4 DEF Write, Remove, Changed, cacheVars, memory, report, TypeInv
  <2> QED BY <2>1 DEF TypeInv, Cached
<1>5. CASE Signal \/ WalkEnd \/ Save \/ BeginClean
  <2>1. /\ UNCHANGED <<rows, carried, pending, lines, unread, scans, changes, faults>>
        /\ pc' \in {"idle", "walk", "partial", "groups", "full", "save"}
        /\ pc' # "idle" => pc # "idle"
        /\ pc' = "full" => pc = "full" /\ lastHash' = lastHash
        /\ lastHash' \in {0, lastHash}
        /\ shutdown' \in BOOLEAN /\ cleans' \in 0..MaxCleans
    <3>1. CASE Signal
      BY <3>1 DEF Signal, cacheVars, world, memory, report, TypeInv
    <3>2. CASE WalkEnd
      BY <3>2 DEF WalkEnd, cacheVars, world, report, TypeInv
    <3>3. CASE Save
      BY <3>3 DEF Save, cacheVars, world, report, TypeInv
    <3>4. CASE BeginClean
      <4>1. cleans' = cleans + 1 /\ cleans < MaxCleans
        BY <3>4 DEF BeginClean
      <4>2. cleans' \in 0..MaxCleans
        BY <4>1 DEF TypeInv
      <4> QED BY <3>4, <4>2 DEF BeginClean, StartClean, FetchPage, world, memory, report, TypeInv
    <3> QED BY <1>5, <3>1, <3>2, <3>3, <3>4
  <2>2. \A p \in Paths : hashes'[p] \in Digest
    BY <1>5 DEF Signal, WalkEnd, Save, BeginClean, memory, TypeInv, Digest
  <2> QED BY <2>1, <2>2 DEF TypeInv, Cached
<1>6. CASE Start
  <2>1. /\ UNCHANGED <<rows, carried, pending, hashes, changes, cleans, shutdown>> /\ pc' = "walk"
        /\ scans' = scans + 1 /\ scans' \in 0..MaxScans /\ scans' >= 1 /\ lines' \subseteq lines
        /\ lastHash' \in Nat
    BY <1>6 DEF Start, cacheVars, world, TypeInv
  <2>2. unread' \subseteq lines' /\ faults' \in 0..MaxFaults
    BY <1>2, <1>6 DEF Start, Loaded, TypeInv
  <2> QED BY <2>1, <2>2 DEF TypeInv, Cached
<1>7. ASSUME NEW p \in Paths, WalkFile(p) PROVE TypeInv'
  BY <1>7 DEF WalkFile, cacheVars, world, report, TypeInv, Cached
<1>8. ASSUME NEW p \in Paths, PartialHash(p) \/ FullHash(p) PROVE TypeInv'
  <2>1. /\ UNCHANGED <<rows, carried, world, pc, scans, shutdown, lines, unread, cleans, lastHash>>
        /\ pc \in {"partial", "full"}
    BY <1>8 DEF PartialHash, FullHash, report
  <2>2. faults' \in 0..MaxFaults
    <3>1. faults' = faults \/ (MayFail /\ faults' = faults + 1)
      BY <1>8, PartialOutcome, FullOutcome
    <3> QED BY <1>2, <3>1 DEF TypeInv
  <2>3. \A e \in pending' : e.full \in Digest
    <3>1. \/ UNCHANGED pending
          \/ QueueUpdate(p, stat[p], Sample[content[p]], Null)
          \/ QueueUpdate(p, stat[p], Null, content[p])
      BY <1>8, PartialOutcome, FullOutcome
    <3> QED BY <1>1, <3>1 DEF QueueUpdate, TypeInv, Digest
  <2>4. GetFullHash(p, stat[p]) \in Digest
    BY DEF GetFullHash, TypeInv, Digest
  <2>5. \A q \in Paths : hashes'[q] \in Digest
    <3>1. \/ UNCHANGED hashes
          \/ \E d \in Digest : hashes' = [hashes EXCEPT ![p] = d]
      BY <1>1, <1>8, <2>4, FullOutcome DEF PartialHash, Digest
    <3> QED BY <3>1 DEF TruthInv, Typed, TypeInv
  <2> QED BY <2>1, <2>2, <2>3, <2>5 DEF world, TypeInv, Cached
<1>9. CASE PartialEnd \/ GroupsEnd
  <2>1. /\ Flush \/ DropBatch
        /\ pc \in {"partial", "groups"} /\ pc' \in {"save", "groups"}
        /\ UNCHANGED <<world, scans, shutdown, hashes, lines, unread, cleans>> /\ pending' = {}
        /\ lastHash' \in {0, lastHash}
    BY <1>9 DEF PartialEnd, GroupsEnd, Flushed, Flush, DropBatch, memory, report
  <2>2. faults' \in 0..MaxFaults
    BY <1>2, <1>9 DEF PartialEnd, GroupsEnd, Flushed, TypeInv
  <2>3. CASE DropBatch
    BY <2>1, <2>2, <2>3 DEF DropBatch, world, TypeInv, Cached
  <2>4. CASE Flush
    <3>1. ASSUME NEW p \in Paths PROVE rows'[p].full \in Digest
      BY <2>1, <2>4, FlushedRow DEF Coalesce, TypeInv
    <3>2. ASSUME NEW p \in Paths, p \in carried' PROVE rows'[p] # NoRow
      <4>1. CASE rows'[p] = rows[p] /\ (p \in carried' <=> p \in carried)
        BY <3>2, <4>1 DEF TypeInv, Cached
      <4> QED BY <2>1, <2>4, <4>1, FlushedRow
    <3>3. carried' \subseteq Paths
      BY <2>4 DEF Flush
    <3> QED BY <2>1, <2>2, <3>1, <3>2, <3>3 DEF world, TypeInv, Cached
  <2> QED BY <2>1, <2>3, <2>4
<1>10. ASSUME NEW h \in {Sample[c] : c \in Contents}, NextGroup(h) PROVE TypeInv'
  <2>1. /\ UNCHANGED <<rows, carried, pending, world, scans, shutdown, lines, unread, cleans, faults>>
        /\ lastHash' = h
        /\ hashes' = [p \in Paths |-> Null] /\ pc' \in {"groups", "full"} /\ pc = "groups"
    BY <1>10 DEF NextGroup, cacheVars, report
  <2>2. h \in Nat
    BY Sorts
  <2> QED BY <2>1, <2>2 DEF world, TypeInv, Cached, Digest
<1>11. CASE EmitGroups
  <2>1. /\ UNCHANGED <<rows, carried, pending, world, scans, shutdown, hashes, lastHash, unread, cleans,
                       faults>>
        /\ pc' = "groups" /\ pc = "full" /\ lines \subseteq lines'
    BY <1>11 DEF EmitGroups, cacheVars
  <2>2. lines' \subseteq Line
    <3> SUFFICES ASSUME NEW l \in lines', l \notin lines PROVE l \in Line
      BY DEF TypeInv
    <3>1. PICK h \in {hashes[p] : p \in Digested} :
            l = [hash |-> h, partial_hash |-> lastHash, files |-> SameDigest(h), scan |-> scans]
      BY <1>11 DEF EmitGroups
    <3>2. h \in Contents /\ SameDigest(h) \subseteq Paths
      BY DEF Digested, TypeInv, Digest, SameDigest
    <3>3. scans \in 1..MaxScans /\ lastHash \in {Sample[c] : c \in Contents}
      BY <2>1 DEF TypeInv
    <3> QED BY <3>1, <3>2, <3>3 DEF Line
  <2> QED BY <2>1, <2>2 DEF world, TypeInv, Cached
<1>12. CASE Cleaning
  <2>1. carried' \subseteq Paths
    <3>1. carried' \subseteq carried
      BY <1>12 DEF Cleaning, CleanFetch, FetchPage, CleanLook, CleanDelete
    <3> QED BY <3>1 DEF TypeInv, Cached
  <2>2. \A p \in Paths : rows'[p].full \in Digest /\ (p \in carried' => rows'[p] # NoRow)
    BY <1>12, RowsTakenAway DEF NoRow, Digest, TypeInv, Cached
  <2> QED BY <1>12, <2>1, <2>2, RowsTakenAway DEF TypeInv, Cached
<1> QED BY <1>3, <1>4, <1>5, <1>6, <1>7, <1>8, <1>9, <1>10, <1>11, <1>12 DEF Next, ScanStep

-----------------------------------------------------------------------------
(* Lines *)

\* The lines and the histories that they are measured by stay, or grow.
LEMMA LineFrame ==
  ASSUME LineInv, lines' = lines, scans' = scans, reused \subseteq reused', doubtful \subseteq doubtful',
         \A p \in Paths : had[p] \subseteq had'[p], \A l \in lines : l.files \subseteq Paths
  PROVE  LineInv'
  BY DEF LineInv, LinesTrueUnlessMisled, FromThisScan

LEMMA LineStep ==
  ASSUME TruthInv, HadInv, TypeInv, LineInv, [Next]_rescanVars
  PROVE  LineInv'
<1>1. \A l \in lines : l.files \subseteq Paths /\ l.scan \in Nat
  BY BoundAssumption DEF TypeInv, Line
<1>2. CASE /\ UNCHANGED <<lines, scans>> /\ reused \subseteq reused' /\ doubtful \subseteq doubtful'
           /\ \A p \in Paths : had[p] \subseteq had'[p]
  BY <1>1, <1>2, LineFrame
<1>3. CASE Start
  <2>1. lines' \subseteq lines /\ scans' = scans + 1 /\ scans \in Nat
    BY <1>3, BoundAssumption DEF Start, TypeInv
  <2>2. \A l \in lines' : l.scan <= scans' /\ l.scan # scans'
    BY <1>1, <2>1 DEF LineInv
  <2> QED BY <2>2 DEF LineInv, LinesTrueUnlessMisled, FromThisScan
<1>4. CASE EmitGroups
  <2>1. /\ pc = "full" /\ UNCHANGED <<scans, had, reused, doubtful, hashes>>
        /\ \A l \in lines' : \/ l \in lines
                             \/ /\ l.scan = scans /\ l.hash # Null
                                /\ \A p \in l.files : p \in Paths /\ hashes[p] = l.hash
    <3>1. pc = "full" /\ UNCHANGED <<scans, had, reused, doubtful, hashes>>
      BY <1>4 DEF EmitGroups, reasons
    <3>2. ASSUME NEW l \in lines', l \notin lines
          PROVE  \E h \in {hashes[p] : p \in Digested} :
                   l = [hash |-> h, partial_hash |-> lastHash, files |-> SameDigest(h), scan |-> scans]
      BY <1>4, <3>2 DEF EmitGroups
    <3> QED BY <3>1, <3>2 DEF SameDigest, Digested
  <2>2. \A p \in Paths \ (reused \cup doubtful) : hashes[p] \in {Null} \cup had[p]
    BY <2>1 DEF HadInv
  <2>3. scans \in Nat
    BY BoundAssumption DEF TypeInv
  <2> QED BY <2>1, <2>2, <2>3 DEF LineInv, LinesTrueUnlessMisled, FromThisScan
<1>5. ASSUME NEW p \in Paths, Write(p) \/ Remove(p)
      PROVE  UNCHANGED <<lines, scans, reused, doubtful>> /\ \A q \in Paths : had[q] \subseteq had'[q]
  BY <1>5 DEF Write, Remove, Changed, report, reasons, HadInv
<1>6. CASE Cleaning
  BY <1>2, <1>6, RowsTakenAway
<1>7. CASE \/ WalkEnd \/ Save \/ Signal \/ BeginClean \/ UNCHANGED rescanVars \/ PartialEnd \/ GroupsEnd
           \/ \E p \in Paths : WalkFile(p) \/ PartialHash(p) \/ FullHash(p)
           \/ \E h \in {Sample[c] : c \in Contents} : NextGroup(h)
  <2>1. UNCHANGED <<lines, scans, had>> /\ reused \subseteq reused' /\ doubtful \subseteq doubtful'
    BY <1>7, FullOutcome DEF WalkEnd, Save, Signal, BeginClean, rescanVars, PartialEnd, GroupsEnd,
                WalkFile, PartialHash, FullHash, NextGroup, report, reasons
  <2> QED BY <1>2, <2>1
<1> QED BY <1>2, <1>3, <1>4, <1>5, <1>6, <1>7 DEF Next, ScanStep


-----------------------------------------------------------------------------
(* Results *)

ResultsInv ==
  /\ IsFiniteSet(results) /\ Cardinality(results) <= KeepScans
  /\ \A r \in results : /\ r.scan \in 1..scans
                        /\ pc # "idle" => r.scan < scans
                        /\ r.time \in {MaxScans + r.scan, MaxScans - r.scan}
  /\ \A r, s \in results : r.scan = s.scan => r = s
  /\ (pc = "idle" /\ scans > 0 /\ newest) =>
       \E r \in results : /\ r.scan = scans /\ r.groups = ReportedGroups
                          /\ \A s \in results \ {r} : s.time < r.time

\* A finite set has a least element: a smallest set without one would have a
\* smaller set without one.
LEMMA Least ==
  ASSUME NEW S, IsFiniteSet(S), S # {}, NEW f \in [S -> Int]
  PROVE  \E m \in S : \A n \in S : f[m] <= f[n]
<1> DEFINE First(T) == \E m \in T : \A n \in T : f[m] <= f[n]
           Bad == {T \in FiniteSubsetsOf(S) : T # {} /\ ~First(T)}
<1>1. FiniteSubsetsOf(S) = SUBSET S
  BY FS_FiniteSubsetsOfFinite
<1>2. SUFFICES ASSUME ~First(S) PROVE FALSE
  OBVIOUS
<1>3. Bad \subseteq FiniteSubsetsOf(S) /\ S \in Bad
  BY <1>1, <1>2
<1>4. PICK T \in Bad : \A U \in Bad : <<U, T>> \notin StrictSubsetOrdering(S)
  <2> HIDE DEF Bad
  <2> QED BY <1>3, FS_StrictSubsetOrderingWellFounded, WFMin
<1>5. T \subseteq S /\ T # {} /\ ~First(T)
  BY <1>1
<1>6. PICK x \in T : TRUE
  BY <1>5
<1>7. T \ {x} \notin Bad
  <2>1. <<T \ {x}, T>> \in StrictSubsetOrdering(S)
    BY <1>5, <1>6 DEF StrictSubsetOrdering
  <2> QED BY <1>4, <2>1
<1>8. f[x] \in Int /\ f[x] <= f[x] /\ \A n \in T : f[n] \in Int
  BY <1>5, <1>6
<1>9. T \ {x} # {}
  BY <1>5, <1>6, <1>8
<1>10. PICK m \in T \ {x} : \A n \in T \ {x} : f[m] <= f[n]
  BY <1>1, <1>5, <1>7, <1>9
<1>11. CASE f[m] <= f[x]
  BY <1>5, <1>10, <1>11
<1>12. CASE f[x] < f[m]
  <2>1. \A n \in T : f[x] <= f[n]
    BY <1>8, <1>10, <1>12
  <2> QED BY <1>5, <1>6, <2>1
<1> QED BY <1>8, <1>10, <1>11, <1>12

\* Scans with different times: no more than KeepScans are kept.
LEMMA RetainBound ==
  ASSUME NEW R, IsFiniteSet(R), \A r \in R : r.time \in Nat,
         \A r, s \in R : r.time = s.time => r = s
  PROVE  IsFiniteSet(Retain(R)) /\ Cardinality(Retain(R)) <= KeepScans
<1> DEFINE S == Retain(R)
<1>1. S \subseteq R /\ IsFiniteSet(S) /\ KeepScans \in Nat \ {0}
  BY FS_Subset, BoundAssumption DEF Retain
<1>2. CASE S = {}
  BY <1>1, <1>2, FS_EmptySet
<1>3. CASE S # {}
  <2> DEFINE f == [r \in S |-> r.time]
  <2>1. f \in [S -> Int]
    BY <1>1
  <2>2. PICK m \in S : \A n \in S : f[m] <= f[n]
    <3> HIDE DEF S, f
    <3> QED BY <1>1, <1>3, <2>1, Least
  <2>3. S \ {m} \subseteq Newer(R, m)
    BY <1>1, <2>2 DEF Newer
  <2>4. IsFiniteSet(Newer(R, m)) /\ Cardinality(Newer(R, m)) < KeepScans
    BY <2>2, FS_Subset DEF Retain, Newer
  <2>5. Cardinality(S \ {m}) = Cardinality(S) - 1 /\ IsFiniteSet(S \ {m})
    <3> HIDE DEF S
    <3> QED BY <1>1, <2>2, FS_RemoveElement
  <2>6. Cardinality(S \ {m}) <= Cardinality(Newer(R, m))
    <3> HIDE DEF S
    <3> QED BY <2>3, <2>4, FS_Subset
  <2>7. Cardinality(S) \in Nat /\ Cardinality(Newer(R, m)) \in Nat
    BY <1>1, <2>4, FS_CardinalityType
  <2> HIDE DEF S
  <2>8. Cardinality(S) <= KeepScans
    BY <1>1, <2>4, <2>5, <2>6, <2>7
  <2> QED BY <1>1, <2>8 DEF S
<1> QED BY <1>2, <1>3

LEMMA ResultsInit == ASSUME Init PROVE ResultsInv
<1>1. IsFiniteSet({}) /\ Cardinality({}) = 0 /\ 0 <= KeepScans
  BY FS_EmptySet, BoundAssumption
<1> QED BY <1>1 DEF Init, ResultsInv

LEMMA SaveStep == ASSUME TypeInv, ResultsInv, Save PROVE ResultsInv'
<1>1. /\ pc = "save" /\ pc' = "idle" /\ UNCHANGED <<scans, lines>>
      /\ scans \in 1..MaxScans /\ MaxScans \in Nat
  BY BoundAssumption DEF Save, report, TypeInv
<1>2. PICK t \in SaveTimes :
        /\ results' = Retain(results \cup {[scan |-> scans, time |-> t, groups |-> ReportedGroups]})
        /\ newest' = \A r \in results : r.time < t
  BY DEF Save
<1> DEFINE new == [scan |-> scans, time |-> t, groups |-> ReportedGroups]
           R == results \cup {new}
<1>3. t \in {MaxScans + scans, MaxScans - scans} /\ t \in Nat
  BY <1>1 DEF SaveTimes
<1>4. \A r \in R : /\ r.scan \in 1..scans
                   /\ r.time \in {MaxScans + r.scan, MaxScans - r.scan} /\ r.time \in Nat
  <2>1. \A r \in results : r.scan \in 1..scans /\ r.time \in {MaxScans + r.scan, MaxScans - r.scan}
    BY <1>1 DEF ResultsInv
  <2>2. \A r \in results : r.time \in Nat
    BY <1>1, <2>1
  <2> QED BY <1>1, <1>3, <2>1, <2>2
<1>5. \A r, s \in R : r.scan = s.scan => r = s
  BY <1>1 DEF ResultsInv
<1>6. \A r, s \in R : r.time = s.time => r = s
  <2> SUFFICES ASSUME NEW r \in R, NEW s \in R, r.time = s.time PROVE r.scan = s.scan
    BY <1>5
  <2> HIDE DEF R
  <2> QED BY <1>1, <1>4
<1>7. IsFiniteSet(R)
  BY FS_AddElement DEF ResultsInv
<1>8. IsFiniteSet(results') /\ Cardinality(results') <= KeepScans
  <2> HIDE DEF R
  <2>1. IsFiniteSet(Retain(R)) /\ Cardinality(Retain(R)) <= KeepScans
    BY <1>4, <1>6, <1>7, RetainBound
  <2> QED BY <1>2, <2>1 DEF R
<1>9. results' \subseteq R
  BY <1>2 DEF Retain
<1>10. ASSUME newest'
       PROVE  new \in results' /\ \A s \in results' \ {new} : s.time < new.time
  <2>1. \A s \in R \ {new} : s.time < t
    BY <1>2, <1>10
  <2>2. Newer(R, new) = {}
    BY <1>3, <1>4, <2>1 DEF Newer
  <2>3. new \in Retain(R)
    BY <2>2, FS_EmptySet, BoundAssumption DEF Retain
  <2> QED BY <1>2, <1>9, <2>1, <2>3
<1>11. newest' => \E r \in results' : /\ r.scan = scans /\ r.groups = ReportedGroups'
                                     /\ \A s \in results' \ {r} : s.time < r.time
  BY <1>1, <1>10 DEF ReportedGroups
<1> QED BY <1>1, <1>4, <1>5, <1>8, <1>9, <1>11 DEF ResultsInv

LEMMA ResultsStep == ASSUME TruthInv, TypeInv, ResultsInv, [Next]_rescanVars PROVE ResultsInv'
<1>1. CASE /\ UNCHANGED <<results, newest, scans, lines>>
           /\ pc' = pc \/ (pc # "idle" /\ pc' # "idle")
  BY <1>1 DEF ResultsInv, ReportedGroups
<1>2. CASE Start
  <2>1. UNCHANGED results /\ pc' = "walk" /\ scans' = scans + 1 /\ scans \in Nat
    BY <1>2, BoundAssumption DEF Start, stored, TypeInv
  <2>2. \A r \in results : r.scan \in 1..scans' /\ r.scan < scans'
    BY <2>1 DEF ResultsInv
  <2> QED BY <2>1, <2>2 DEF ResultsInv
<1>3. CASE EmitGroups
  BY <1>3 DEF EmitGroups, stored, ResultsInv
<1>4. CASE Cleaning
  BY <1>1, <1>4, RowsTakenAway
<1>5. CASE \/ WalkEnd \/ Signal \/ BeginClean \/ UNCHANGED rescanVars \/ PartialEnd \/ GroupsEnd
           \/ \E p \in Paths : \/ WalkFile(p) \/ PartialHash(p) \/ FullHash(p)
                               \/ Write(p) \/ Remove(p)
           \/ \E h \in {Sample[c] : c \in Contents} : NextGroup(h)
  <2>1. /\ UNCHANGED <<results, newest, scans, lines>>
        /\ pc' = pc \/ (pc # "idle" /\ pc' # "idle")
    BY <1>5 DEF WalkEnd, Signal, BeginClean, rescanVars, PartialEnd, GroupsEnd, WalkFile, PartialHash,
                FullHash, Write, Remove, Changed, NextGroup, report, stored
  <2> QED BY <1>1, <2>1
<1> QED BY <1>2, <1>3, <1>4, <1>5, SaveStep DEF Next, ScanStep

LEMMA LatestFromInv == ASSUME TypeInv, ResultsInv PROVE LatestIsLast
<1> SUFFICES ASSUME pc = "idle", scans > 0, newest
             PROVE  Latest.scan = scans /\ Latest.groups = ReportedGroups
  BY DEF LatestIsLast
<1>1. PICK r \in results : /\ r.scan = scans /\ r.groups = ReportedGroups
                           /\ \A s \in results \ {r} : s.time < r.time
  BY DEF ResultsInv
<1>2. \A s \in results : s.time \in Int
  <2>1. scans \in Nat /\ MaxScans \in Nat
    BY BoundAssumption DEF TypeInv
  <2>2. \A s \in results : s.scan \in 1..scans /\ s.time \in {MaxScans + s.scan, MaxScans - s.scan}
    BY DEF ResultsInv
  <2> QED BY <2>1, <2>2
<1>3. Latest = r
  <2>1. \A s \in results : s.time <= r.time
    BY <1>1, <1>2
  <2>2. \A q \in results : (\A s \in results : s.time <= q.time) => q = r
    BY <1>1, <1>2
  <2> QED BY <2>1, <2>2 DEF Latest
<1> QED BY <1>1, <1>3


-----------------------------------------------------------------------------
(* cache clean *)

CleanInv ==
  /\ clean \in {"off", "fetch", "look"} /\ last \in 0..NumPaths
  /\ looked \subseteq paths /\ missing \subseteq looked /\ paths \subseteq Paths
  /\ clean = "look" <=> paths # {}
  /\ \A p \in present : p \in Paths /\ Exists(p) /\ p \notin missing
  /\ absent \subseteq {p \in Paths : ~Exists(p)}
  /\ absent \cap looked \subseteq missing
  /\ clean = "fetch" => \A p \in absent : rows[p] # NoRow => p > last
  /\ clean = "look" => \A p \in absent : rows[p] # NoRow =>
       p \in paths \/ ((\A q \in paths : q < p) /\ Cardinality(paths) >= CleanBatch)

LEMMA PathsFinite == ASSUME NEW S \in SUBSET Paths PROVE IsFiniteSet(S) /\ Cardinality(S) \in Nat
<1>1. IsFiniteSet(Paths)
  BY FS_Interval, HashCacheAssumption DEF Paths
<1> QED BY <1>1, FS_Subset, FS_CardinalityType

LEMMA GreatestPath ==
  ASSUME NEW S \in SUBSET Paths, S # {}
  PROVE  GreatestOf(S) \in S /\ \A q \in S : q <= GreatestOf(S)
<1> DEFINE f == [p \in S |-> -p]
<1>1. S \subseteq Nat /\ f \in [S -> Int]
  BY Sorts
<1>2. PICK m \in S : \A n \in S : f[m] <= f[n]
  <2> HIDE DEF f
  <2> QED BY <1>1, PathsFinite, Least
<1>3. \A n \in S : n <= m
  BY <1>1, <1>2
<1> QED BY <1>3 DEF GreatestOf

\* A cached path that a page does not reach comes after a full page.
LEMMA BeyondPage ==
  ASSUME NEW k \in Nat, NEW p \in Cached, p > k, p \notin PageAfter(k)
  PROVE  (\A q \in PageAfter(k) : q < p) /\ Cardinality(PageAfter(k)) >= CleanBatch
<1> DEFINE Between(a) == {q \in Cached : k < q /\ q < a}
<1>1. CleanBatch \in Nat /\ \A a \in Cached : a \in Paths /\ a \in Nat
  BY Sorts, HashCacheAssumption DEF Cached
<1>2. \A a \in Cached : Between(a) \in SUBSET Paths
  BY <1>1
<1>3. ASSUME NEW a \in Cached, a > k
      PROVE  a \in PageAfter(k) <=> Cardinality(Between(a)) < CleanBatch
  BY <1>3 DEF PageAfter
<1>4. \A q \in PageAfter(k) : q \in Cached /\ q > k
  BY DEF PageAfter
<1>5. ASSUME NEW a \in Cached, NEW b \in Cached, a <= b
      PROVE  Cardinality(Between(a)) <= Cardinality(Between(b))
  <2>1. Between(a) \subseteq Between(b)
    <3>1. \A q \in Cached : q < a => q < b
      BY <1>1, <1>5
    <3> QED BY <3>1
  <2> HIDE DEF Between
  <2> QED BY <1>2, <2>1, PathsFinite, FS_Subset
<1>6. \A a \in Cached : Cardinality(Between(a)) \in Nat
  <2> HIDE DEF Between
  <2> QED BY <1>2, PathsFinite
<1>7. ASSUME NEW q \in PageAfter(k), q >= p PROVE FALSE
  <2> HIDE DEF Between
  <2>1. q \in Cached /\ q > k /\ p <= q
    BY <1>1, <1>4, <1>7
  <2>2. Cardinality(Between(p)) <= Cardinality(Between(q))
    BY <1>5, <2>1
  <2>3. Cardinality(Between(q)) < CleanBatch /\ ~(Cardinality(Between(p)) < CleanBatch)
    BY <1>3, <2>1
  <2>4. Cardinality(Between(p)) \in Nat /\ Cardinality(Between(q)) \in Nat
    BY <1>6, <2>1
  <2> QED BY <1>1, <2>2, <2>3, <2>4
<1>8. ASSUME NEW a \in Cached, a > k, a \notin PageAfter(k), Between(a) \subseteq PageAfter(k)
      PROVE  Cardinality(PageAfter(k)) >= CleanBatch
  <2> HIDE DEF Between
  <2>1. Cardinality(Between(a)) >= CleanBatch
    BY <1>1, <1>3, <1>6, <1>8
  <2>2. PageAfter(k) \in SUBSET Paths
    BY <1>1, <1>4
  <2>3. Cardinality(Between(a)) <= Cardinality(PageAfter(k))
    BY <1>8, <2>2, PathsFinite, FS_Subset
  <2> QED BY <1>1, <1>6, <2>1, <2>2, <2>3, PathsFinite
<1>9. Cardinality(PageAfter(k)) >= CleanBatch
  <2> DEFINE Out == {a \in Cached : a > k /\ a \notin PageAfter(k)}
             f == [a \in Out |-> a]
  <2>1. Out \in SUBSET Paths /\ Out # {} /\ f \in [Out -> Int]
    <3>1. p \in Out
      OBVIOUS
    <3>2. \A a \in Out : a \in Paths /\ a \in Int
      BY <1>1
    <3> HIDE DEF Out
    <3> QED BY <3>1, <3>2
  <2>2. PICK m \in Out : \A n \in Out : f[m] <= f[n]
    <3>1. IsFiniteSet(Out)
      <4> HIDE DEF Out
      <4> QED BY <2>1, PathsFinite
    <3> HIDE DEF Out, f
    <3> QED BY <2>1, <3>1, Least
  <2>3. Between(m) \subseteq PageAfter(k)
    <3> SUFFICES ASSUME NEW q \in Cached, k < q, q < m, q \notin PageAfter(k) PROVE FALSE
      OBVIOUS
    <3>1. q \in Out /\ f[q] = q /\ f[m] = m
      OBVIOUS
    <3>2. m <= q /\ m \in Nat /\ q \in Nat
      BY <1>1, <2>2, <3>1
    <3> QED BY <3>2
  <2> QED BY <1>8, <2>2, <2>3
<1>10. ASSUME NEW q \in PageAfter(k) PROVE q < p
  <2>1. q \in Nat /\ p \in Nat
    BY <1>1, <1>4
  <2> QED BY <1>7, <2>1
<1> QED BY <1>9, <1>10

\* What the cleaner knows of the absent files once a page is fetched.
LEMMA FetchedPage ==
  ASSUME CleanInv, NEW k \in 0..NumPaths, FetchPage(k),
         present' \subseteq {p \in Paths : Exists(p)'}, absent' \subseteq {p \in Paths : ~Exists(p)'},
         \A p \in absent' : rows[p] # NoRow => p > k
  PROVE  CleanInv' /\ (clean' = "off" => \A p \in absent' : rows'[p] = NoRow)
<1>1. /\ paths' = PageAfter(k) /\ last' = k /\ looked' = {} /\ missing' = {} /\ rows' = rows
      /\ clean' = IF paths' = {} THEN "off" ELSE "look"
  BY DEF FetchPage
<1>2. paths' \subseteq Paths
  BY <1>1 DEF PageAfter, Cached
<1>3. ASSUME NEW p \in absent', rows[p] # NoRow
      PROVE  p \in paths' \/ ((\A q \in paths' : q < p) /\ Cardinality(paths') >= CleanBatch)
  <2>1. p \in Cached /\ p > k /\ k \in Nat
    BY <1>3, HashCacheAssumption DEF Cached
  <2> QED BY <1>1, <2>1, BeyondPage
<1>4. ASSUME clean' = "off", NEW p \in absent' PROVE rows'[p] = NoRow
  <2>1. paths' = {} /\ Cardinality({}) = 0
    BY <1>1, <1>4, FS_EmptySet
  <2> QED BY <1>1, <1>3, <2>1, HashCacheAssumption
<1> QED BY <1>1, <1>2, <1>3, <1>4 DEF CleanInv

\* The promise of CleanExact, as a step keeps it.
CleanPromise ==
  /\ \A p \in present : rows[p] # NoRow => rows'[p] # NoRow
  /\ clean # "off" /\ clean' = "off" => \A p \in absent : rows'[p] = NoRow

LEMMA CleanerInit == ASSUME Init PROVE CleanInv
  BY HashCacheAssumption DEF Init, CacheInit, CleanInv

\* Steps of scans and of other programs.
LEMMA CleanerFrame ==
  ASSUME CleanInv, UNCHANGED cleaner,
         \A p \in present' : p \in present /\ Exists(p)',
         \A p \in absent' : p \in absent /\ ~Exists(p)' /\ rows'[p] = rows[p],
         \A p \in present : rows[p] # NoRow => rows'[p] # NoRow
  PROVE  CleanInv' /\ CleanPromise
  BY DEF cleaner, CleanInv, CleanPromise

LEMMA CleanerWork == ASSUME TypeInv, CleanInv, Cleaning PROVE CleanInv' /\ CleanPromise
<1>1. \A p \in Paths : Exists(p)' <=> Exists(p)
  BY DEF Cleaning, world, Exists
<1>2. /\ clean' = "off" => absent' = {} /\ present' = {}
      /\ clean' # "off" => UNCHANGED cleanHist
  BY DEF Cleaning
<1>3. /\ present' \subseteq present /\ absent' \subseteq absent
      /\ present' \subseteq {p \in Paths : Exists(p)'} /\ absent' \subseteq {p \in Paths : ~Exists(p)'}
  BY <1>1, <1>2 DEF CleanInv, cleanHist
<1>4. CASE CleanFetch
  <2>1. clean = "fetch" /\ FetchPage(last) /\ last \in 0..NumPaths
    BY <1>4 DEF CleanFetch, CleanInv
  <2>2. \A p \in absent' : rows[p] # NoRow => p > last
    BY <1>3, <2>1 DEF CleanInv
  <2>3. CleanInv'
    BY <1>3, <2>1, <2>2, FetchedPage
  <2>4. ASSUME clean' = "off" PROVE \A p \in absent : rows'[p] = NoRow
    <3>1. paths' = {} /\ rows' = rows /\ paths' = PageAfter(last)
      BY <2>1, <2>4 DEF FetchPage
    <3>2. \A p \in absent : rows[p] # NoRow => p \in Cached /\ p > last /\ last \in Nat
      BY <2>1, HashCacheAssumption DEF CleanInv, Cached
    <3>3. Cardinality({}) = 0
      BY FS_EmptySet
    <3> QED BY <3>1, <3>2, <3>3, BeyondPage, HashCacheAssumption
  <2>5. \A p \in present : rows[p] # NoRow => rows'[p] # NoRow
    BY <2>1 DEF FetchPage
  <2> QED BY <2>3, <2>4, <2>5 DEF CleanPromise
<1>5. ASSUME NEW p \in Paths, CleanLook(p, Exists(p)) PROVE CleanInv' /\ CleanPromise
  <2>1. /\ clean = "look" /\ p \in paths /\ looked' = looked \cup {p}
        /\ missing' = IF Exists(p) THEN missing ELSE missing \cup {p}
        /\ UNCHANGED <<rows, clean, last, paths>>
    BY <1>5 DEF CleanLook
  <2>2. UNCHANGED <<present, absent>>
    BY <1>2, <2>1 DEF cleanHist
  <2> QED BY <1>1, <2>1, <2>2 DEF CleanInv, CleanPromise
<1>6. CASE CleanDelete
  <2>1. /\ clean = "look" /\ looked = paths /\ last' = GreatestOf(paths)
        /\ rows' = [p \in Paths |-> IF p \in missing THEN NoRow ELSE rows[p]]
        /\ clean' = IF Cardinality(paths) < CleanBatch THEN "off" ELSE "fetch"
        /\ paths' = {} /\ looked' = {} /\ missing' = {}
    BY <1>6 DEF CleanDelete
  <2>2. last' \in paths /\ last' \in 0..NumPaths
    <3>1. paths \in SUBSET Paths /\ paths # {}
      BY <2>1 DEF CleanInv
    <3>2. last' \in paths
      BY <2>1, <3>1, GreatestPath
    <3> QED BY <3>1, <3>2, HashCacheAssumption DEF Paths
  <2>3. ASSUME NEW p \in absent, rows'[p] # NoRow
        PROVE  p > last' /\ clean' = "fetch"
    <3>1. p \in Paths /\ p \notin missing /\ rows[p] # NoRow
      BY <2>1, <2>3 DEF CleanInv
    <3>2. p \notin paths
      BY <2>1, <3>1 DEF CleanInv
    <3>3. (\A q \in paths : q < p) /\ Cardinality(paths) >= CleanBatch
      BY <2>1, <3>1, <3>2 DEF CleanInv
    <3>4. Cardinality(paths) \in Nat /\ CleanBatch \in Nat /\ p \in Nat /\ last' \in Nat
      BY <2>2, <3>1, PathsFinite, HashCacheAssumption, Sorts DEF CleanInv
    <3> QED BY <2>1, <2>2, <3>3, <3>4
  <2>4. \A p \in present : rows'[p] = rows[p]
    BY <2>1 DEF CleanInv, Exists
  <2>5. CleanInv'
    BY <1>3, <2>1, <2>2, <2>3 DEF CleanInv
  <2> QED BY <2>1, <2>3, <2>4, <2>5 DEF CleanPromise
<1> QED BY <1>4, <1>5, <1>6 DEF Cleaning

LEMMA CleanerStep ==
  ASSUME TruthInv, TypeInv, CleanInv, [Next]_rescanVars
  PROVE  CleanInv' /\ CleanPromise
<1>1. CASE UNCHANGED <<cleaner, cleanHist, rows, content>>
  <2>1. \A p \in Paths : Exists(p)' <=> Exists(p)
    BY <1>1 DEF Exists
  <2> QED BY <1>1, <2>1, CleanerFrame DEF CleanInv, cleanHist
<1>2. CASE BeginClean
  <2>1. /\ clean = "off" /\ FetchPage(0) /\ UNCHANGED <<rows, content>>
        /\ IF clean' = "off" THEN UNCHANGED cleanHist
           ELSE absent' = {p \in Paths : ~Exists(p)} /\ present' = {p \in Paths : Exists(p)}
    BY <1>2 DEF BeginClean, StartClean, FetchPage, world
  <2>2. \A p \in Paths : Exists(p)' <=> Exists(p)
    BY <2>1 DEF Exists
  <2>3. /\ present' \subseteq {p \in Paths : Exists(p)'}
        /\ absent' \subseteq {p \in Paths : ~Exists(p)'}
    BY <2>1, <2>2 DEF CleanInv, cleanHist
  <2>4. 0 \in 0..NumPaths /\ \A p \in absent' : p > 0
    BY <2>3, HashCacheAssumption DEF Paths
  <2> QED BY <2>1, <2>3, <2>4, FetchedPage DEF CleanPromise
<1>3. ASSUME NEW p \in Paths, Write(p) \/ Remove(p) PROVE CleanInv' /\ CleanPromise
  <2>0. Gone \notin Contents
    BY Sorts
  <2>1. PICK c \in Contents \cup {Gone} :
          /\ content' = [content EXCEPT ![p] = c]
          /\ absent' = IF c = Gone THEN absent ELSE absent \ {p}
          /\ present' = IF c = Gone THEN present \ {p} ELSE present
          /\ UNCHANGED <<rows, cleaner>>
    BY <1>3, <2>0 DEF Write, Remove, Changed, cacheVars, TruthInv, Typed
  <2>2. \A q \in Paths : content'[q] = IF q = p THEN c ELSE content[q]
    BY <2>1 DEF TruthInv, Typed
  <2>3. /\ \A q \in present' : q \in present /\ Exists(q)'
        /\ \A q \in absent' : q \in absent /\ ~Exists(q)'
    BY <2>1, <2>2 DEF CleanInv, Exists
  <2> QED BY <2>1, <2>3, CleanerFrame
<1>4. CASE PartialEnd \/ GroupsEnd
  <2>1. /\ pc \in {"partial", "groups"} /\ UNCHANGED <<cleaner, content, present>>
        /\ \/ Flush /\ absent' = absent \ Batched
           \/ DropBatch /\ absent' = absent
    BY <1>4 DEF PartialEnd, GroupsEnd, Flushed, world
  <2>2. \A p \in Paths : Exists(p)' <=> Exists(p)
    BY <2>1 DEF Exists
  <2>3. \A p \in absent' : p \in absent /\ rows'[p] = rows[p]
    BY <2>1, FlushedRow DEF CleanInv, Batched, DropBatch
  <2>4. \A p \in present : rows[p] # NoRow => rows'[p] # NoRow
    BY <2>1, FlushedRow DEF CleanInv, DropBatch
  <2> QED BY <2>1, <2>2, <2>3, <2>4, CleanerFrame DEF CleanInv
<1>5. CASE Cleaning
  BY <1>5, CleanerWork
<1>6. CASE \/ Start \/ WalkEnd \/ Save \/ EmitGroups \/ Signal \/ UNCHANGED rescanVars
           \/ \E p \in Paths : WalkFile(p) \/ PartialHash(p) \/ FullHash(p)
           \/ \E h \in {Sample[c] : c \in Contents} : NextGroup(h)
  <2>1. UNCHANGED <<cleaner, cleanHist, rows, content>>
    BY <1>6 DEF Start, WalkEnd, Save, EmitGroups, Signal, rescanVars, WalkFile, PartialHash, FullHash,
                NextGroup, cacheVars, world, cleanHist
  <2> QED BY <1>1, <2>1
<1> QED BY <1>2, <1>3, <1>4, <1>5, <1>6 DEF Next, ScanStep


-----------------------------------------------------------------------------
(* Pairs *)

\* A file that had one content all along, which another such file had too.
Twin(p) == Steady(p) /\ \E q \in Paths \ {p} : Steady(q) /\ content[q] = content[p]

Walked(p) == stat[p] # NoStat /\ stat[p].size = Size[content[p]]

Excused(p) == AtTheEdge(p) \/ p \in reused \cup wiped \cup failed \cup doubtful

\* The JOIN finds p under the sample of its content.
Found(p) == Joins(p, stat[p]) /\ rows[p].partial = Sample[content[p]]

\* The keyset cursor has left the group of h behind.
Passed(h) == h < lastHash \/ (h = lastHash /\ pc = "groups")

Reported(p, q) ==
  \/ \E l \in lines : l.hash = content[p] /\ {p, q} \subseteq l.files
  \/ ReportedBefore(content[p]) \/ TakenByAnother(content[p])

Pair(p, q) == p # q /\ Steady(p) /\ Steady(q) /\ content[p] = content[q]

Settled(p, q) == Reported(p, q) \/ Excused(p) \/ Excused(q)

\* The walk gives each file that does not change the stat of its content.
WalkInv ==
  /\ pc \in {"walk", "partial"} => FromThisScan = {}
  /\ pc = "walk" => \A p \in Paths \ todo : Steady(p) => Walked(p) /\ fileStage[p] = "scanned"

\* Partial hashing leaves a twin with a row that the JOIN will find.
PeerInv ==
  pc = "partial" =>
    \A p \in Paths : Twin(p) =>
      /\ Walked(p)
      /\ \/ p \in todo \cup failed
         \/ /\ fileStage[p] = "partial_done"
            /\ Excused(p) \/ Found(p) \/ \E e \in pending : e.path = p

\* The cursor passes a group when it is settled.
CursorInv ==
  pc \in {"groups", "full"} =>
    /\ \A l \in FromThisScan : Passed(l.partial_hash)
    /\ \A p \in Paths : Twin(p) /\ ~Excused(p) =>
         /\ Found(p)
         /\ \/ fileStage[p] = "partial_done"
            \/ fileStage[p] = "full_done" /\ Passed(Sample[content[p]])
    /\ \A p, q \in Paths : Pair(p, q) /\ Passed(Sample[content[p]]) => Settled(p, q)

\* A group that is being hashed holds the twins of its sample.
GroupInv ==
  pc = "full" =>
    \A p \in Paths :
      /\ Steady(p) /\ p \notin doubtful /\ (p \in todo \/ hashes[p] # Null) =>
           Sample[content[p]] = lastHash
      /\ Twin(p) /\ Sample[content[p]] = lastHash =>
           Excused(p) \/ p \in todo \/ hashes[p] = content[p]

SettledInv == pc = "save" => \A p, q \in Paths : Pair(p, q) => Settled(p, q)

PairInv == ~shutdown => WalkInv /\ PeerInv /\ CursorInv /\ GroupInv /\ SettledInv

LEMMA PairsFromInv == ASSUME PairInv PROVE PairsReported
  BY DEF PairInv, SettledInv, PairsReported, Pair, Settled, Reported, Excused

LEMMA TwinOfPair ==
  ASSUME NEW p \in Paths, NEW q \in Paths, Pair(p, q)
  PROVE  Twin(p) /\ Twin(q)
  BY DEF Pair, Twin

\* A row that is about as old as the walk has the sample of a file that does not change.
LEMMA SteadySample ==
  ASSUME TruthInv, HadInv, NEW p \in Paths, Steady(p), NEW h \in {Null} \cup Samples(p), h # Null
  PROVE  h = Sample[content[p]]
  BY DEF Steady, Samples

LEMMA SampleSorts ==
  ASSUME TruthInv, NEW p \in Paths, Steady(p)
  PROVE  /\ content[p] \in Contents /\ content[p] # Null
         /\ Sample[content[p]] \in Nat \ {0} /\ Sample[content[p]] \notin Contents
<1>1. content[p] \in Contents
  BY DEF TruthInv, Typed, Steady, Exists
<1> QED BY <1>1, Sorts, ContentsAssumption

-----------------------------------------------------------------------------
(* Steps beside the scan *)

LEMMA PairFrame ==
  ASSUME PairInv, UNCHANGED <<pending, stat, fileStage, todo, hashes, lines, pc, scans, shutdown,
                              lastHash, reused, failed, doubtful>>,
         wiped \subseteq wiped',
         pc # "idle" => \A p \in Paths : /\ Steady(p)' => Steady(p) /\ content'[p] = content[p]
                                         /\ rows'[p] = rows[p] \/ p \in wiped'
  PROVE  PairInv'
<1> SUFFICES ASSUME ~shutdown, pc # "idle"
             PROVE  WalkInv' /\ PeerInv' /\ CursorInv' /\ GroupInv' /\ SettledInv'
  BY DEF PairInv, WalkInv, PeerInv, CursorInv, GroupInv, SettledInv
<1>1. ASSUME NEW p \in Paths
      PROVE  /\ Steady(p)' => Steady(p) /\ content'[p] = content[p]
             /\ Twin(p)' => Twin(p) /\ Steady(p)'
             /\ Excused(p) => Excused(p)'
             /\ Steady(p)' /\ Found(p) => Excused(p)' \/ Found(p)'
             /\ Steady(p)' /\ Walked(p) => Walked(p)'
  <2>1. Twin(p)' => Twin(p) /\ Steady(p)'
    BY DEF Twin
  <2>2. rows'[p] = rows[p] \/ Excused(p)'
    BY DEF Excused
  <2>3. Excused(p) => Excused(p)'
    BY <2>2 DEF Excused, AtTheEdge
  <2>4. Steady(p)' /\ Found(p) => Excused(p)' \/ Found(p)'
    BY <2>2 DEF Found, Joins
  <2> QED BY <2>1, <2>3, <2>4 DEF Walked
<1>2. ASSUME NEW p \in Paths, NEW q \in Paths, Pair(p, q)'
      PROVE  /\ Pair(p, q) /\ content'[p] = content[p]
             /\ Settled(p, q) => Settled(p, q)'
  <2>1. Pair(p, q) /\ content'[p] = content[p]
    BY <1>1, <1>2 DEF Pair
  <2>2. Reported(p, q) => Reported(p, q)'
    BY <2>1 DEF Reported, ReportedBefore, TakenByAnother
  <2> QED BY <1>1, <2>1, <2>2 DEF Settled
<1>3. \A h : Passed(h)' <=> Passed(h)
  BY DEF Passed
<1>4. WalkInv'
  BY <1>1 DEF PairInv, WalkInv, FromThisScan
<1>5. PeerInv'
  BY <1>1 DEF PairInv, PeerInv
<1>6. CursorInv'
  <2> SUFFICES ASSUME pc \in {"groups", "full"} PROVE CursorInv'
    BY DEF CursorInv
  <2>1. \A l \in FromThisScan' : Passed(l.partial_hash)'
    BY <1>3 DEF PairInv, CursorInv, FromThisScan
  <2>2. ASSUME NEW p \in Paths, Twin(p)'
        PROVE  ~Excused(p)' =>
                 /\ Found(p)'
                 /\ \/ fileStage'[p] = "partial_done"
                    \/ fileStage'[p] = "full_done" /\ Passed(Sample[content[p]])'
    <3>1. Twin(p) /\ content'[p] = content[p] /\ Steady(p)'
      BY <1>1, <2>2
    <3>2. Passed(Sample[content[p]]) => Passed(Sample[content[p]])'
      BY <3>1 DEF Passed
    <3> QED BY <1>1, <3>1, <3>2 DEF PairInv, CursorInv
  <2>3. ASSUME NEW p \in Paths, NEW q \in Paths, Pair(p, q)', Passed(Sample[content[p]])'
        PROVE  Settled(p, q)'
    <3>1. Passed(Sample[content[p]])
      BY <1>2, <2>3 DEF Passed
    <3> QED BY <1>2, <2>3, <3>1 DEF PairInv, CursorInv
  <2> QED BY <2>1, <2>2, <2>3 DEF CursorInv
<1>7. GroupInv'
  BY <1>1 DEF PairInv, GroupInv
<1>8. SettledInv'
  BY <1>2 DEF PairInv, SettledInv
<1> QED BY <1>4, <1>5, <1>6, <1>7, <1>8

LEMMA PairBeside ==
  ASSUME TruthInv, HadInv, PairInv,
         \/ \E p \in Paths : Write(p) \/ Remove(p)
         \/ BeginClean \/ Cleaning \/ UNCHANGED rescanVars
  PROVE  PairInv'
<1>1. ASSUME NEW p \in Paths, Write(p) \/ Remove(p) PROVE PairInv'
  <2>1. PICK c \in Contents \cup {Gone} :
          /\ content' = [content EXCEPT ![p] = c]
          /\ pc # "idle" => had' = [had EXCEPT ![p] = had[p] \cup {c}]
          /\ UNCHANGED <<rows, pending, stat, fileStage, todo, hashes, lines, pc, scans, shutdown,
                         lastHash, reasons>>
    BY <1>1 DEF Write, Remove, Changed, cacheVars, memory, report, TruthInv, Typed
  <2>2. ASSUME pc # "idle", NEW q \in Paths, Steady(q)'
        PROVE  Steady(q) /\ content'[q] = content[q]
    <3>1. content[q] \in had[q] /\ had'[q] = {content'[q]} /\ content'[q] # Gone
      BY <2>2 DEF HadInv, Steady, Exists
    <3>2. CASE q # p
      <4>1. content'[q] = content[q] /\ had'[q] = had[q]
        BY <2>1, <2>2, <3>2 DEF TruthInv, Typed, HadInv
      <4> QED BY <3>1, <4>1 DEF Steady, Exists
    <3>3. CASE q = p
      <4>1. content'[p] = c /\ had'[p] = had[p] \cup {c}
        BY <2>1, <2>2 DEF TruthInv, Typed, HadInv
      <4> QED BY <3>1, <3>3, <4>1 DEF Steady, Exists
    <3> QED BY <3>2, <3>3
  <2> QED BY <2>1, <2>2, PairFrame DEF reasons
<1>2. CASE BeginClean \/ UNCHANGED rescanVars
  <2>1. UNCHANGED <<rows, content, had, pending, stat, fileStage, todo, hashes, lines, pc, scans,
                    shutdown, lastHash, reasons>>
    BY <1>2 DEF BeginClean, StartClean, FetchPage, rescanVars, cacheVars, world, memory, report
  <2>2. \A p \in Paths : Steady(p)' => Steady(p) /\ content'[p] = content[p]
    BY <2>1 DEF Steady, Exists
  <2> QED BY <2>1, <2>2, PairFrame DEF reasons
<1>3. CASE Cleaning
  <2>1. /\ UNCHANGED <<content, had, pending, stat, fileStage, todo, hashes, lines, pc, scans,
                       shutdown, lastHash, reused, failed, doubtful>>
        /\ \A p \in Paths : rows'[p] = rows[p] \/ rows'[p] = NoRow
    BY <1>3, RowsTakenAway
  <2>2. wiped' = IF pc = "idle" THEN wiped
                 ELSE wiped \cup {p \in Paths : rows[p] # NoRow /\ rows'[p] = NoRow}
    BY <1>3 DEF Cleaning
  <2>3. wiped \subseteq wiped' /\ (pc # "idle" => \A p \in Paths : rows'[p] = rows[p] \/ p \in wiped')
    BY <2>1, <2>2
  <2>4. \A p \in Paths : Steady(p)' => Steady(p) /\ content'[p] = content[p]
    BY <2>1 DEF Steady, Exists
  <2> QED BY <2>1, <2>3, <2>4, PairFrame
<1> QED BY <1>1, <1>2, <1>3


-----------------------------------------------------------------------------
(* The walk and the partial phase *)

LEMMA PairWalk ==
  ASSUME TruthInv, LineInv, TypeInv, PairInv, Start \/ WalkEnd \/ \E p \in Paths : WalkFile(p)
  PROVE  PairInv'
<1>1. CASE Start
  <2>1. pc' = "walk" /\ todo' = Paths /\ lines' \subseteq lines /\ scans' = scans + 1
    BY <1>1 DEF Start
  <2>2. \A l \in lines : l.scan \in Nat /\ l.scan <= scans /\ scans \in Nat
    BY BoundAssumption DEF LineInv, TypeInv, Line
  <2>3. FromThisScan' = {}
    BY <2>1, <2>2 DEF FromThisScan
  <2> QED BY <2>1, <2>3 DEF PairInv, WalkInv, PeerInv, CursorInv, GroupInv, SettledInv
<1>2. ASSUME NEW p \in Paths, WalkFile(p) PROVE PairInv'
  <2>1. /\ pc = "walk" /\ pc' = "walk" /\ ~shutdown /\ todo' = todo \ {p}
        /\ UNCHANGED <<content, had, lines, scans>>
        /\ \A q \in Paths \ {p} : stat'[q] = stat[q] /\ fileStage'[q] = fileStage[q]
        /\ Exists(p) => stat'[p] = StatOf(p) /\ fileStage'[p] = "scanned"
    BY <1>2 DEF WalkFile, world, report, TruthInv, Typed
  <2>2. FromThisScan' = {}
    BY <2>1 DEF PairInv, WalkInv, FromThisScan
  <2>3. \A q \in Paths : Steady(q)' => Steady(q)
    BY <2>1 DEF Steady, Exists
  <2>4. Steady(p) => stat'[p] # NoStat /\ stat'[p].size = Size[content[p]] /\ fileStage'[p] = "scanned"
    <3> SUFFICES ASSUME Steady(p) PROVE stat'[p].size # 0 /\ stat'[p] = StatOf(p) /\ fileStage'[p] = "scanned"
      BY DEF NoStat, StatOf
    <3>1. Size[content[p]] \in Nat \ {0}
      BY SampleSorts, Sorts
    <3> QED BY <2>1, <3>1 DEF Steady, StatOf
  <2>5. \A q \in Paths \ todo' : Steady(q)' => Walked(q)' /\ fileStage'[q] = "scanned"
    BY <2>1, <2>3, <2>4 DEF PairInv, WalkInv, Walked
  <2> QED BY <2>1, <2>2, <2>5 DEF PairInv, WalkInv, PeerInv, CursorInv, GroupInv, SettledInv
<1>3. CASE WalkEnd
  <2> SUFFICES ASSUME ~shutdown PROVE PairInv'
    BY <1>3 DEF WalkEnd, PairInv
  <2>1. /\ pc = "walk" /\ pc' = "partial" /\ todo = {} /\ todo' = {p \in Paths : HasSizePeer(p)}
        /\ UNCHANGED <<content, had, lines, scans, stat>>
    BY <1>3 DEF WalkEnd, world, report
  <2>2. \A p \in Paths : Steady(p) => Walked(p)
    BY <2>1 DEF PairInv, WalkInv
  <2>3. ASSUME NEW p \in Paths, Twin(p) PROVE HasSizePeer(p) /\ Walked(p)
    <3>1. PICK q \in Paths \ {p} : Steady(p) /\ Steady(q) /\ content[q] = content[p]
      BY <2>3 DEF Twin
    <3> QED BY <2>2, <3>1 DEF Walked, HasSizePeer
  <2>4. \A p \in Paths : (Twin(p)' => Twin(p)) /\ (Walked(p) => Walked(p)')
    BY <2>1 DEF Twin, Steady, Exists, Walked
  <2>5. FromThisScan' = {}
    BY <2>1 DEF PairInv, WalkInv, FromThisScan
  <2> QED BY <2>1, <2>3, <2>4, <2>5 DEF PairInv, WalkInv, PeerInv, CursorInv, GroupInv, SettledInv
<1> QED BY <1>1, <1>2, <1>3

LEMMA PairPartial ==
  ASSUME TruthInv, HadInv, PairInv, NEW p \in Paths, PartialHash(p)
  PROVE  PairInv'
<1>1. /\ pc = "partial" /\ pc' = "partial" /\ ~shutdown /\ p \in todo /\ todo' = todo \ {p}
      /\ UNCHANGED <<rows, content, had, lines, scans, stat, reused, wiped, doubtful>>
      /\ pending \subseteq pending' /\ failed \subseteq failed'
      /\ \A q \in Paths \ {p} : fileStage'[q] = fileStage[q]
      /\ Exists(p) => fileStage'[p] = "partial_done" \/ p \in failed'
  BY PartialOutcome DEF PartialHash, world, report, TruthInv, Typed, QueueUpdate
<1>2. \A q \in Paths : /\ Twin(q)' => Twin(q)
                       /\ (Walked(q)' <=> Walked(q)) /\ (Excused(q) => Excused(q)')
                       /\ (Found(q)' <=> Found(q))
  BY <1>1 DEF Twin, Steady, Exists, Walked, Excused, AtTheEdge, Found, Joins
<1>3. ASSUME Twin(p)
      PROVE  \/ p \in failed'
             \/ /\ fileStage'[p] = "partial_done"
                /\ Excused(p)' \/ Found(p) \/ \E e \in pending' : e.path = p
  <2>1. Steady(p) /\ Exists(p) /\ Walked(p)
    BY <1>1, <1>3 DEF Twin, Steady, PairInv, PeerInv
  <2> SUFFICES ASSUME ~Excused(p)'
               PROVE  Found(p) \/ \E e \in pending' : e.path = p
    BY <1>1, <2>1
  <2>2. ~Excused(p) /\ p \notin doubtful /\ p \notin failed'
    BY <1>1, <1>2 DEF Excused
  <2>3. CASE GetPartialHash(p, stat[p]) = Null
    <3>1. QueueUpdate(p, stat[p], Sample[content[p]], Null)
      BY <2>1, <2>3, <2>2, PartialOutcome
    <3> DEFINE new == [path |-> p, size |-> stat[p].size, mtime |-> stat[p].mtime,
                       partial |-> Sample[content[p]], full |-> Null]
    <3>2. new \in pending' /\ new.path = p
      BY <3>1 DEF QueueUpdate
    <3> QED BY <3>2
  <2>4. CASE GetPartialHash(p, stat[p]) # Null
    <3>1. Hit(p, stat[p]) /\ rows[p].partial # Null
      BY <2>4 DEF GetPartialHash
    <3>2. rows[p].partial \in {Null} \cup Samples(p)
      BY <2>1, <2>2, <3>1 DEF HadInv, Walked
    <3>3. rows[p].partial = Sample[content[p]]
      BY <2>1, <3>1, <3>2, SteadySample
    <3>4. rows[p].mtime \in Nat /\ stat[p].mtime \in Nat /\ Tol \in Nat
      BY Sorts DEF TruthInv, Typed, Row, Stat
    <3>5. \/ Distance(rows[p].mtime, stat[p].mtime) = Tol
          \/ Distance(rows[p].mtime, stat[p].mtime) < Tol
      BY <3>1, <3>4 DEF Hit, Distance
    <3> QED BY <2>1, <2>2, <3>1, <3>3, <3>5 DEF Hit, Joins, Found, Excused, AtTheEdge, Walked
  <2> QED BY <2>3, <2>4
<1>4. PeerInv'
  <2> SUFFICES ASSUME NEW q \in Paths, Twin(q)
               PROVE  /\ Walked(q)
                      /\ \/ q \in todo' \cup failed'
                         \/ /\ fileStage'[q] = "partial_done"
                            /\ Excused(q)' \/ Found(q) \/ \E e \in pending' : e.path = q
    BY <1>2 DEF PeerInv
  <2>1. CASE q = p
    BY <1>1, <1>3, <2>1 DEF PairInv, PeerInv
  <2>2. CASE q # p
    BY <1>1, <1>2, <2>2 DEF PairInv, PeerInv
  <2> QED BY <2>1, <2>2
<1>5. FromThisScan' = {}
  BY <1>1 DEF PairInv, WalkInv, FromThisScan
<1> QED BY <1>1, <1>4, <1>5 DEF PairInv, WalkInv, CursorInv, GroupInv, SettledInv

LEMMA PairPartialEnd == ASSUME TruthInv, HadInv, TypeInv, PairInv, PartialEnd PROVE PairInv'
<1> SUFFICES ASSUME ~shutdown PROVE PairInv'
  BY DEF PartialEnd, PairInv
<1>1. /\ pc = "partial" /\ pc' = "groups" /\ todo = {} /\ lastHash' = 0
      /\ UNCHANGED <<content, had, lines, scans, stat, reused, wiped, doubtful>>
      /\ \A p \in Paths : fileStage[p] = "partial_done" => fileStage'[p] = "partial_done"
      /\ failed \subseteq failed'
      /\ Flush \/ (rows' = rows /\ Batched \subseteq failed')
  <2>1. faults \in Nat
    BY BoundAssumption DEF TypeInv
  <2> QED BY <2>1 DEF PartialEnd, Flushed, DropBatch, world, report
<1>2. \A p \in Paths : /\ Twin(p)' => Twin(p)
                       /\ Steady(p)' => Steady(p)
  BY <1>1 DEF Twin, Steady, Exists
<1>3. ASSUME NEW p \in Paths, Twin(p)
      PROVE  Excused(p)' \/ (fileStage'[p] = "partial_done" /\ Found(p)')
  <2>1. /\ Walked(p)
        /\ \/ p \in failed
           \/ /\ fileStage[p] = "partial_done"
              /\ Excused(p) \/ Found(p) \/ \E e \in pending : e.path = p
    BY <1>1, <1>3 DEF PairInv, PeerInv
  <2>2. CASE rows'[p] = rows[p] /\ \A e \in pending : e.path # p
    BY <1>1, <2>1, <2>2 DEF Excused, AtTheEdge, Found, Joins
  <2>3. CASE rows' = rows /\ Batched \subseteq failed' /\ \E e \in pending : e.path = p
    BY <2>3 DEF Excused, Batched
  <2>4. ASSUME NEW e \in pending, e.path = p, rows'[p] # NoRow,
               rows'[p].size = stat[p].size, rows'[p].mtime = stat[p].mtime,
               rows'[p].partial = Coalesce(e.partial, rows[p].partial)
        PROVE  Found(p)'
    <3>1. e.partial # Null /\ e.partial \in {Null} \cup Samples(p) /\ Steady(p)
      BY <1>1, <1>3, <2>4 DEF TruthInv, PhaseInv, HadInv, Twin
    <3>2. rows'[p].partial = Sample[content[p]]
      BY <2>4, <3>1, SteadySample DEF Coalesce
    <3>3. Distance(stat[p].mtime, stat[p].mtime) < Tol
      <4>1. stat[p].mtime \in Nat
        BY DEF TruthInv, Typed, Stat
      <4> QED BY <4>1, Sorts DEF Distance
    <3> QED BY <1>1, <2>4, <3>2, <3>3 DEF Found, Joins
  <2>5. CASE p \in failed
    BY <1>1, <2>5 DEF Excused
  <2> QED BY <1>1, <2>1, <2>2, <2>3, <2>4, <2>5, FlushedRow
<1>4. FromThisScan' = {}
  BY <1>1 DEF PairInv, WalkInv, FromThisScan
<1>5. ASSUME NEW p \in Paths, Steady(p)' PROVE ~Passed(Sample[content[p]])'
  <2>1. Sample[content[p]] \in Nat \ {0} /\ content' = content
    BY <1>1, <1>2, <1>5, SampleSorts
  <2> QED BY <1>1, <2>1 DEF Passed
<1>6. CursorInv'
  BY <1>2, <1>3, <1>4, <1>5 DEF CursorInv, Pair
<1> QED BY <1>1, <1>6 DEF PairInv, WalkInv, PeerInv, GroupInv, SettledInv

-----------------------------------------------------------------------------
(* The groups *)

\* Twins whose group lies ahead are in it, if nothing excuses them.
LEMMA AheadTogether ==
  ASSUME TruthInv, TypeInv, CursorInv, pc = "groups",
         NEW p \in Paths, NEW q \in Paths, Pair(p, q), ~Passed(Sample[content[p]]),
         ~Excused(p), ~Excused(q)
  PROVE  Sample[content[p]] \in LaterHashes
<1> DEFINE h == Sample[content[p]]
<1>1. Twin(p) /\ Twin(q) /\ content[p] = content[q] /\ p # q /\ Steady(p)
  BY TwinOfPair DEF Pair
<1>2. Found(p) /\ Found(q) /\ fileStage[p] = "partial_done" /\ fileStage[q] = "partial_done"
  BY <1>1 DEF CursorInv
<1>3. {p, q} \subseteq HashGroup(h)
  BY <1>1, <1>2 DEF Found, HashGroup
<1>4. Cardinality(HashGroup(h)) >= 2
  <2>1. HashGroup(h) \in SUBSET Paths
    BY DEF HashGroup
  <2>2. IsFiniteSet({p}) /\ Cardinality({p}) = 1
    BY FS_Singleton
  <2>3. Cardinality({p} \cup {q}) = 2
    <3>1. q \notin {p}
      BY <1>1
    <3>2. Cardinality({p} \cup {q}) = Cardinality({p}) + 1
      BY <2>2, <3>1, FS_AddElement
    <3> QED BY <2>2, <3>2
  <2>4. {p} \cup {q} \subseteq HashGroup(h)
    BY <1>3
  <2>5. Cardinality({p} \cup {q}) <= Cardinality(HashGroup(h))
    <3> HIDE DEF h
    <3> QED BY <2>1, <2>4, PathsFinite, FS_Subset
  <2>6. Cardinality(HashGroup(h)) \in Nat
    <3> HIDE DEF h
    <3> QED BY <2>1, PathsFinite
  <2> HIDE DEF h
  <2> QED BY <2>3, <2>5, <2>6
<1>5. h > lastHash
  <2>1. h \in Nat /\ lastHash \in Nat /\ ~(h < lastHash) /\ h # lastHash
    BY <1>1, SampleSorts DEF Passed, TypeInv
  <2> QED BY <2>1
<1>6. h \in {Sample[c] : c \in Contents}
  BY <1>1, SampleSorts
<1> QED BY <1>4, <1>5, <1>6 DEF LaterHashes

LEMMA PairNext ==
  ASSUME TruthInv, HadInv, TypeInv, LineInv, PairInv,
         NEW h \in {Sample[c] : c \in Contents}, NextGroup(h)
  PROVE  PairInv'
<1>1. /\ pc = "groups" /\ ~shutdown /\ h \in LaterHashes /\ \A k \in LaterHashes : h <= k
      /\ lastHash' = h /\ hashes' = [p \in Paths |-> Null] /\ pc' \in {"groups", "full"}
      /\ UNCHANGED <<rows, content, had, lines, scans, stat, fileStage, reasons>>
      /\ pc' = "groups" => h \in Emitted
      /\ pc' = "full" => todo' = HashGroup(h)
  BY DEF NextGroup, cacheVars, world, report
<1>2. h > lastHash /\ lastHash \in Nat /\ h \in Nat \ {0} /\ h \notin Contents
  BY <1>1, Sorts, ContentsAssumption DEF LaterHashes, TypeInv
<1>3. CursorInv
  BY <1>1 DEF PairInv
<1>4. \A k : (Passed(k) <=> k <= lastHash) \/ k \notin Nat
  BY <1>1, <1>2 DEF Passed
<1>5. \A k \in Nat : Passed(k) => Passed(k)'
  BY <1>1, <1>2 DEF Passed
<1>6. \A p \in Paths : /\ (Steady(p)' <=> Steady(p)) /\ (Twin(p)' <=> Twin(p))
                       /\ (Excused(p)' <=> Excused(p)) /\ (Found(p)' <=> Found(p))
  BY <1>1 DEF Steady, Exists, Twin, Excused, AtTheEdge, Found, Joins, reasons
<1>7. \A p, q \in Paths : (Pair(p, q)' <=> Pair(p, q)) /\ (Settled(p, q) => Settled(p, q)')
  BY <1>1, <1>6 DEF Pair, Settled, Reported, ReportedBefore, TakenByAnother
<1>8. \A l \in lines : l.partial_hash \in Nat /\ l.hash \in Contents
  <2>1. \A k \in {Sample[c] : c \in Contents} : k \in Nat
    BY Sorts
  <2> QED BY <2>1 DEF TypeInv, Line
<1>9. \A l \in FromThisScan' : Passed(l.partial_hash)'
  BY <1>1, <1>3, <1>5, <1>8 DEF CursorInv, FromThisScan
<1>10. ASSUME NEW p \in Paths, Twin(p), ~Excused(p)
       PROVE  /\ Found(p)
              /\ \/ fileStage[p] = "partial_done"
                 \/ fileStage[p] = "full_done" /\ Passed(Sample[content[p]])'
  <2>1. Sample[content[p]] \in Nat /\ content' = content
    BY <1>1, <1>10, SampleSorts DEF Twin
  <2> QED BY <1>1, <1>3, <1>5, <1>10, <2>1 DEF CursorInv, Passed
<1>11. ASSUME NEW p \in Paths, NEW q \in Paths, Pair(p, q), Passed(Sample[content[p]])'
       PROVE  Settled(p, q)
  <2> DEFINE k == Sample[content[p]]
  <2>1. k \in Nat \ {0} /\ k \notin Contents /\ content' = content
    BY <1>1, <1>11, SampleSorts DEF Pair
  <2>2. CASE Passed(k)
    BY <1>1, <1>3, <1>11, <2>2 DEF CursorInv
  <2>3. CASE ~Passed(k) /\ ~Excused(p) /\ ~Excused(q)
    <3>1. k \in LaterHashes
      BY <1>1, <1>3, <1>11, <2>3, AheadTogether
    <3>2. h <= k /\ ~(k < h)
      BY <1>1, <1>2, <2>1, <3>1
    <3>3. k = h /\ pc' = "groups"
      BY <1>1, <1>11, <2>1, <3>2 DEF Passed
    <3>4. PICK l \in lines : l.partial_hash = k
      BY <1>1, <1>2, <1>8, <3>3 DEF Emitted
    <3>5. l.scan # scans
      BY <1>1, <1>3, <2>3, <3>4 DEF CursorInv, FromThisScan
    <3>6. l.scan < scans
      BY <3>5, BoundAssumption DEF LineInv, TypeInv, Line
    <3> QED BY <3>4, <3>6 DEF Settled, Reported, ReportedBefore
  <2> QED BY <2>2, <2>3 DEF Settled
<1>12. CursorInv'
  BY <1>1, <1>6, <1>7, <1>9, <1>10, <1>11 DEF CursorInv
<1>13. GroupInv'
  <2> SUFFICES ASSUME pc' = "full", NEW p \in Paths
               PROVE  /\ Steady(p) /\ p \notin doubtful /\ p \in todo' => Sample[content[p]] = h
                      /\ Twin(p) /\ Sample[content[p]] = h => Excused(p) \/ p \in todo'
    BY <1>1, <1>6 DEF GroupInv, reasons
  <2>1. ASSUME Steady(p), p \notin doubtful, p \in HashGroup(h) PROVE Sample[content[p]] = h
    <3>1. Joins(p, stat[p]) /\ rows[p].partial = h /\ stat[p] # NoStat
      BY <2>1 DEF HashGroup, TruthInv, PhaseInv
    <3>2. rows[p].mtime \in Nat /\ stat[p].mtime \in Nat /\ Tol \in Nat
      BY Sorts DEF TruthInv, Typed, Row, Stat
    <3>3. Hit(p, stat[p])
      BY <3>1, <3>2 DEF Joins, Distance, Hit
    <3>4. h \in {Null} \cup Samples(p) /\ h # Null
      BY <1>2, <2>1, <3>1, <3>3 DEF HadInv, Null
    <3> QED BY <2>1, <3>4, SteadySample
  <2>2. ASSUME Twin(p), Sample[content[p]] = h, ~Excused(p) PROVE p \in HashGroup(h)
    <3>1. ~Passed(h)
      BY <1>1, <1>2, <1>4
    <3>2. Found(p) /\ fileStage[p] = "partial_done"
      BY <1>1, <1>3, <2>2, <3>1 DEF CursorInv
    <3> QED BY <2>2, <3>2 DEF Found, HashGroup
  <2> QED BY <1>1, <2>1, <2>2
<1> QED BY <1>1, <1>12, <1>13 DEF PairInv, WalkInv, PeerInv, SettledInv

LEMMA PairFull ==
  ASSUME TruthInv, HadInv, PairInv, NEW p \in Paths, FullHash(p)
  PROVE  PairInv'
<1>1. /\ pc = "full" /\ pc' = "full" /\ ~shutdown /\ p \in todo /\ todo' = todo \ {p}
      /\ UNCHANGED <<rows, content, had, lines, scans, stat, fileStage, lastHash, wiped, doubtful>>
      /\ reused \subseteq reused' /\ failed \subseteq failed'
      /\ \A q \in Paths \ {p} : hashes'[q] = hashes[q]
      /\ \/ /\ GetFullHash(p, stat[p]) # Null /\ hashes'[p] = GetFullHash(p, stat[p])
            /\ p \in carried => p \in reused'
         \/ hashes'[p] = Null /\ (Exists(p) => p \in failed')
         \/ hashes'[p] = content[p]
  BY FullOutcome DEF FullHash, world, report, TruthInv, Typed
<1>2. CursorInv /\ GroupInv
  BY <1>1 DEF PairInv
<1>3. \A q \in Paths : /\ (Steady(q)' <=> Steady(q)) /\ (Twin(q)' <=> Twin(q))
                       /\ (Excused(q) => Excused(q)') /\ (Found(q)' <=> Found(q))
  BY <1>1 DEF Steady, Exists, Twin, Excused, AtTheEdge, Found, Joins
<1>4. \A q, r \in Paths : (Pair(q, r)' <=> Pair(q, r)) /\ (Settled(q, r) => Settled(q, r)')
  BY <1>1, <1>3 DEF Pair, Settled, Reported, ReportedBefore, TakenByAnother
<1>5. \A k : Passed(k)' <=> Passed(k)
  BY <1>1 DEF Passed
<1>6. CursorInv'
  <2>1. \A l \in FromThisScan' : Passed(l.partial_hash)'
    BY <1>1, <1>2, <1>5 DEF CursorInv, FromThisScan
  <2>2. \A q \in Paths : Passed(Sample[content[q]])' <=> Passed(Sample[content[q]])
    BY <1>1 DEF Passed
  <2> QED BY <1>1, <1>2, <1>3, <1>4, <2>1, <2>2 DEF CursorInv
<1>7. ASSUME Steady(p) PROVE Excused(p)' \/ hashes'[p] = content[p]
  <2>1. p \notin carried \cup doubtful => GetFullHash(p, stat[p]) \in {Null} \cup had[p]
    <3>1. stat[p] # NoStat
      BY <1>1 DEF TruthInv, PhaseInv, Joined
    <3> QED BY <3>1 DEF HadInv, GetFullHash
  <2>2. had[p] = {content[p]} /\ Exists(p)
    BY <1>7 DEF Steady
  <2> QED BY <1>1, <2>1, <2>2 DEF Excused
<1>8. GroupInv'
  <2> SUFFICES ASSUME NEW q \in Paths
               PROVE  /\ Steady(q) /\ q \notin doubtful /\ (q \in todo' \/ hashes'[q] # Null) =>
                           Sample[content[q]] = lastHash
                      /\ Twin(q) /\ Sample[content[q]] = lastHash =>
                           Excused(q)' \/ q \in todo' \/ hashes'[q] = content[q]
    BY <1>1, <1>3 DEF GroupInv
  <2>1. CASE q = p
    BY <1>1, <1>2, <1>7, <2>1 DEF GroupInv, Twin
  <2>2. CASE q # p
    BY <1>1, <1>2, <1>3, <2>2 DEF GroupInv
  <2> QED BY <2>1, <2>2
<1> QED BY <1>1, <1>6, <1>8 DEF PairInv, WalkInv, PeerInv, SettledInv

LEMMA PairEmit ==
  ASSUME TruthInv, HadInv, TypeInv, LineInv, PairInv, EmitGroups
  PROVE  PairInv'
<1> SUFFICES ASSUME ~shutdown PROVE PairInv'
  BY DEF EmitGroups, PairInv
<1> DEFINE New == {h \in {hashes[p] : p \in Digested} : Cardinality(SameDigest(h)) >= 2 /\ h \notin Emitted}
           LineOf(h) == [hash |-> h, partial_hash |-> lastHash, files |-> SameDigest(h), scan |-> scans]
<1>1. /\ pc = "full" /\ pc' = "groups" /\ todo = {}
      /\ UNCHANGED <<rows, content, had, scans, stat, lastHash, hashes, reasons>>
      /\ fileStage' = [p \in Paths |-> IF hashes[p] # Null THEN "full_done" ELSE fileStage[p]]
      /\ lines' = lines \cup {LineOf(h) : h \in New}
  BY DEF EmitGroups, world, cacheVars, Digested
<1>2. CursorInv /\ GroupInv
  BY <1>1 DEF PairInv
<1>3. \A p \in Paths : /\ (Steady(p)' <=> Steady(p)) /\ (Twin(p)' <=> Twin(p))
                       /\ (Excused(p)' <=> Excused(p)) /\ (Found(p)' <=> Found(p))
  BY <1>1 DEF Steady, Exists, Twin, Excused, AtTheEdge, Found, Joins, reasons
<1>4. \A p, q \in Paths : (Pair(p, q)' <=> Pair(p, q)) /\ (Settled(p, q) => Settled(p, q)')
  BY <1>1, <1>3 DEF Pair, Settled, Reported, ReportedBefore, TakenByAnother
<1>5. \A k : Passed(k)' <=> Passed(k) \/ k = lastHash
  BY <1>1 DEF Passed
<1>6. lastHash \in Nat /\ ~Passed(lastHash)
  BY <1>1 DEF TypeInv, Passed
<1>7. \A l \in FromThisScan' : Passed(l.partial_hash)'
  BY <1>1, <1>2, <1>5 DEF CursorInv, FromThisScan
<1>8. ASSUME NEW p \in Paths, Twin(p), ~Excused(p)
      PROVE  /\ Found(p)
             /\ \/ fileStage'[p] = "partial_done"
                \/ fileStage'[p] = "full_done" /\ Passed(Sample[content[p]])'
  <2>1. hashes[p] # Null => Sample[content[p]] = lastHash
    BY <1>1, <1>2, <1>8 DEF GroupInv, Twin, Excused
  <2>2. Passed(Sample[content[p]]) \/ Sample[content[p]] = lastHash => Passed(Sample[content[p]])'
    BY <1>1 DEF Passed
  <2> QED BY <1>1, <1>2, <1>8, <2>1, <2>2 DEF CursorInv
<1>9. ASSUME NEW p \in Paths, NEW q \in Paths, Pair(p, q), Sample[content[p]] = lastHash,
             ~Excused(p), ~Excused(q)
      PROVE  Reported(p, q)'
  <2> DEFINE c == content[p]
  <2>1. Twin(p) /\ Twin(q) /\ content[q] = c /\ p # q /\ Steady(p)
    BY <1>9, TwinOfPair DEF Pair
  <2>2. hashes[p] = c /\ hashes[q] = c
    BY <1>1, <1>2, <1>9, <2>1 DEF GroupInv
  <2>3. c \in Contents /\ c # Null /\ Sample[c] \notin Contents /\ \A l \in lines : l.partial_hash # c
    <3>1. \A k \in {Sample[d] : d \in Contents} : k \notin Contents
      BY ContentsAssumption
    <3> QED BY <2>1, <3>1, SampleSorts DEF TypeInv, Line
  <2>4. {p, q} \subseteq SameDigest(c) /\ c \in {hashes[r] : r \in Digested}
    BY <2>2, <2>3 DEF SameDigest, Digested
  <2>5. CASE c \in Emitted
    <3>1. PICK l \in lines : l.hash = c
      BY <2>3, <2>5 DEF Emitted
    <3>2. CASE l.partial_hash # Sample[c]
      BY <1>1, <3>1, <3>2 DEF Reported, TakenByAnother
    <3>3. CASE l.partial_hash = Sample[c]
      <4>1. l.scan # scans
        BY <1>1, <1>2, <1>6, <1>9, <3>3 DEF CursorInv, FromThisScan
      <4>2. l.scan < scans
        BY <4>1, BoundAssumption DEF LineInv, TypeInv, Line
      <4> QED BY <1>1, <3>3, <4>2 DEF Reported, ReportedBefore
    <3> QED BY <3>2, <3>3
  <2>6. CASE c \notin Emitted
    <3>1. Cardinality(SameDigest(c)) >= 2
      <4>1. SameDigest(c) \in SUBSET Paths /\ {p} \cup {q} \subseteq SameDigest(c)
        BY <2>4 DEF SameDigest, Digested
      <4>2. IsFiniteSet({p}) /\ Cardinality({p}) = 1
        BY FS_Singleton
      <4>3. Cardinality({p} \cup {q}) = 2
        BY <2>1, <4>2, FS_AddElement
      <4> HIDE DEF c
      <4>4. Cardinality({p} \cup {q}) <= Cardinality(SameDigest(c)) /\ Cardinality(SameDigest(c)) \in Nat
        BY <4>1, PathsFinite, FS_Subset
      <4> QED BY <4>3, <4>4
    <3>2. c \in New
      BY <2>4, <2>6, <3>1
    <3>3. LineOf(c) \in lines' /\ LineOf(c).hash = c /\ {p, q} \subseteq LineOf(c).files
      BY <1>1, <2>4, <3>2
    <3> QED BY <1>1, <3>3 DEF Reported
  <2> QED BY <2>5, <2>6
<1>10. ASSUME NEW p \in Paths, NEW q \in Paths, Pair(p, q), Passed(Sample[content[p]])'
       PROVE  Settled(p, q)'
  <2>1. Passed(Sample[content[p]]) \/ Sample[content[p]] = lastHash
    BY <1>1, <1>10 DEF Passed
  <2>2. Passed(Sample[content[p]]) => Settled(p, q)'
    BY <1>1, <1>2, <1>4, <1>10 DEF CursorInv
  <2>3. Sample[content[p]] = lastHash => Settled(p, q)'
    BY <1>3, <1>9, <1>10 DEF Settled
  <2> QED BY <2>1, <2>2, <2>3
<1>11. CursorInv'
  BY <1>1, <1>3, <1>4, <1>7, <1>8, <1>10 DEF CursorInv
<1> QED BY <1>1, <1>11 DEF PairInv, WalkInv, PeerInv, GroupInv, SettledInv

LEMMA PairGroupsEnd == ASSUME TruthInv, TypeInv, PairInv, GroupsEnd PROVE PairInv'
<1> SUFFICES ASSUME ~shutdown PROVE PairInv'
  BY DEF GroupsEnd, PairInv
<1>1. /\ pc = "groups" /\ pc' = "save" /\ LaterHashes = {} /\ (Flush \/ UNCHANGED rows)
      /\ UNCHANGED <<content, had, scans, lines, stat, reasons>>
  BY DEF GroupsEnd, Flushed, DropBatch, world, report
<1>2. CursorInv
  BY <1>1 DEF PairInv
<1>3. \A p, q \in Paths : Pair(p, q) => Settled(p, q)
  <2> SUFFICES ASSUME NEW p \in Paths, NEW q \in Paths, Pair(p, q) PROVE Settled(p, q)
    OBVIOUS
  <2>1. CASE Passed(Sample[content[p]])
    BY <1>1, <1>2, <2>1 DEF CursorInv
  <2>2. CASE ~Passed(Sample[content[p]])
    BY <1>1, <1>2, <2>2, AheadTogether DEF Settled
  <2> QED BY <2>1, <2>2
<1>4. ASSUME NEW p \in Paths, AtTheEdge(p) PROVE AtTheEdge(p)'
  <2>1. \A e \in pending : e.path # p
    <3> SUFFICES ASSUME NEW e \in pending, e.path = p PROVE FALSE
      OBVIOUS
    <3>1. rows[p] = NoRow \/ Joins(p, stat[p])
      BY <1>1 DEF TruthInv, PhaseInv, Joined
    <3>2. rows[p] # NoRow /\ Distance(rows[p].mtime, stat[p].mtime) = Tol /\ ~(Tol < Tol)
      BY <1>4, Sorts DEF AtTheEdge
    <3> QED BY <3>1, <3>2 DEF Joins
  <2>2. rows'[p] = rows[p]
    BY <1>1, <2>1, FlushedRow
  <2> QED BY <1>1, <1>4, <2>2 DEF AtTheEdge
<1>5. \A p, q \in Paths : (Pair(p, q)' <=> Pair(p, q)) /\ (Settled(p, q) => Settled(p, q)')
  <2>1. \A p \in Paths : (Steady(p)' <=> Steady(p)) /\ (Excused(p) => Excused(p)')
    BY <1>1, <1>4 DEF Steady, Exists, Excused, reasons
  <2> QED BY <1>1, <2>1 DEF Pair, Settled, Reported, ReportedBefore, TakenByAnother
<1> QED BY <1>1, <1>3, <1>5 DEF PairInv, WalkInv, PeerInv, CursorInv, GroupInv, SettledInv

LEMMA PairStep ==
  ASSUME TruthInv, HadInv, TypeInv, LineInv, PairInv, [Next]_rescanVars
  PROVE  PairInv'
<1>1. CASE Save
  BY <1>1 DEF Save, PairInv, WalkInv, PeerInv, CursorInv, GroupInv, SettledInv
<1>2. CASE Signal
  BY <1>2 DEF Signal, PairInv
<1> QED BY <1>1, <1>2, PairWalk, PairPartial, PairPartialEnd, PairNext, PairFull, PairEmit, PairGroupsEnd,
           PairBeside DEF Next, ScanStep

-----------------------------------------------------------------------------
(* The theorems *)

RescanInv == TruthInv /\ HadInv /\ TypeInv /\ LineInv /\ ResultsInv /\ CleanInv /\ PairInv

LEMMA RescanInit == ASSUME Init PROVE RescanInv
<1>1. PairInv
  BY DEF Init, PairInv, WalkInv, PeerInv, CursorInv, GroupInv, SettledInv
<1> QED BY <1>1, TruthInit, HadInit, TypeInit, ResultsInit, CleanerInit DEF RescanInv

LEMMA RescanStep == ASSUME RescanInv, [Next]_rescanVars PROVE RescanInv'
  BY TruthStep, HadStep, TypeStep, LineStep, ResultsStep, CleanerStep, PairStep DEF RescanInv

LEMMA RescanAlways == Spec => []RescanInv
  BY RescanInit, RescanStep, PTL DEF Spec

(***************************************************************************)
(* Every reachable state has the declared types, and no more than          *)
(* KeepScans results are stored.                                           *)
(***************************************************************************)
THEOREM Types == Spec => []TypeOK
<1>1. ASSUME RescanInv PROVE TypeOK
  <2>1. CacheTypeOK
    BY <1>1 DEF RescanInv, TruthInv, Typed, TypeInv, CleanInv, CacheTypeOK, Entry
  <2>2. hashes \in [Paths -> Contents \cup {Null}]
    BY <1>1 DEF RescanInv, TruthInv, Typed, TypeInv, Digest
  <2>3. \A p \in Paths : Exists(p) => StatOf(p) \in lately[p].stats
    BY <1>1 DEF RescanInv, TruthInv, DatesInv
  <2> QED BY <1>1, <2>1, <2>2, <2>3 DEF RescanInv, TruthInv, Typed, TypeInv, ResultsInv, TypeOK
<1> QED BY <1>1, RescanAlways, PTL

(* A cache row that answers for what a file is now has the partial hash of   *)
(* its present content, and its full hash is the present one or was carried  *)
(* over by the upsert, unless the tolerance takes the file for an earlier    *)
(* self: for every number of files, scans, changes, faults and cleans, and   *)
(* whatever mtimes the changes give.                                         *)
THEOREM RowsTruth == Spec => []RowsTruthful
<1>1. RescanInv => RowsTruthful
  BY TruthImplies DEF RescanInv
<1> QED BY <1>1, RescanAlways, PTL


(***************************************************************************)
(* Every line that a scan writes has, for each of its files, the hash of a *)
(* content that the file had during that scan, unless the upsert carried a *)
(* full hash over to it or the tolerance took the file for an earlier self *)
(* at the walk: whenever files are written, with whatever mtimes, whatever *)
(* reads and batches fail, and by whatever runs of cache clean beside.     *)
(***************************************************************************)
THEOREM LinesHonest == Spec => []LinesTrueUnlessMisled
<1>1. RescanInv => LinesTrueUnlessMisled
  BY DEF RescanInv, LineInv
<1> QED BY <1>1, RescanAlways, PTL

(***************************************************************************)
(* A scan that ends undisturbed has reported every two files that had one  *)
(* content all along, but for the seven reasons PairsReported lists: no    *)
(* other interleaving of writes, phases, faults and cleans loses a pair.   *)
(***************************************************************************)
THEOREM PairsFound == Spec => []PairsReported
<1>1. RescanInv => PairsReported
  BY PairsFromInv DEF RescanInv
<1> QED BY <1>1, RescanAlways, PTL

(***************************************************************************)
(* After a scan whose clock was not set back, list and delete work on its  *)
(* results, which are the whole report.                                    *)
(***************************************************************************)
THEOREM LatestWins == Spec => []LatestIsLast
<1>1. RescanInv => LatestIsLast
  BY LatestFromInv DEF RescanInv
<1> QED BY <1>1, RescanAlways, PTL

(***************************************************************************)
(* cache clean deletes the row of no file that was there all along, and    *)
(* when it ends it has left the row of no file that was missing all along: *)
(* for every page size, and whatever scans write on either side of its     *)
(* cursor.                                                                 *)
(***************************************************************************)
THEOREM CleansExactly == Spec => CleanExact
<1>1. ASSUME RescanInv, [Next]_rescanVars PROVE CleanPromise
  BY <1>1, CleanerStep DEF RescanInv
<1>2. RescanInv /\ [Next]_rescanVars =>
        [/\ \A p \in present : rows[p] # NoRow => rows'[p] # NoRow
         /\ clean # "off" /\ clean' = "off" => \A p \in absent : rows'[p] = NoRow]_rescanVars
  BY <1>1 DEF CleanPromise
<1> QED BY <1>2, RescanAlways, PTL DEF Spec, CleanExact
=============================================================================
