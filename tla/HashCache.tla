------------------------------ MODULE HashCache ------------------------------
(***************************************************************************)
(* The file_cache table of HashCache (cache.py) while files change: the    *)
(* read-through lookup with its mtime tolerance, the batched upsert, the   *)
(* JOIN that ScanSession makes with the table (checkpoint.py), and the     *)
(* process of `cache clean`.                                               *)
(*                                                                         *)
(* A path is a number in the order of its string.  Sizes, mtimes and       *)
(* digests are numbers; a digest of 0 is NULL.                             *)
(***************************************************************************)
EXTENDS Naturals, FiniteSets

CONSTANTS
  NumPaths,   \* the paths are 1..NumPaths
  Tol,        \* MTIME_TOLERANCE
  CleanBatch  \* batch_size of clean_missing_files

Paths == 1..NumPaths

ASSUME HashCacheAssumption ==
  NumPaths \in Nat /\ Tol \in Nat \ {0} /\ CleanBatch \in Nat \ {0}

Null  == 0
\* Every row has a digest and, with the default --min-size, a size.
NoRow == [size |-> 0, mtime |-> 0, partial |-> Null, full |-> Null]

VARIABLES
  rows,     \* the committed row of each path
  pending,  \* HashCache._pending of the running scan
  carried,  \* history: paths whose row got a new stat and kept its full_hash
  clean,    \* where `cache clean` is: "off", "fetch" or "look"
  last,     \* last_path
  paths,    \* the fetched page
  looked,   \* the paths of it that lexists was asked for
  missing   \* those that were missing

cleaner == <<clean, last, paths, looked, missing>>
cacheVars == <<rows, pending, carried, cleaner>>

CacheInit ==
  /\ rows = [p \in Paths |-> NoRow]
  /\ pending = {} /\ carried = {}
  /\ clean = "off" /\ last = 0
  /\ paths = {} /\ looked = {} /\ missing = {}

-----------------------------------------------------------------------------
(* Lookup *)

Distance(a, b) == IF a <= b THEN b - a ELSE a - b

\* Mutated form: the size is taken to vouch for the content.
HitBySize(p, st) == rows[p] # NoRow /\ rows[p].size = st.size

\* get_cached_hashes: the row answers for a stat of its size and about its mtime.
Hit(p, st) ==
  /\ rows[p] # NoRow
  /\ rows[p].size = st.size
  /\ Distance(rows[p].mtime, st.mtime) <= Tol

GetPartialHash(p, st) == IF Hit(p, st) THEN rows[p].partial ELSE Null
GetFullHash(p, st)    == IF Hit(p, st) THEN rows[p].full ELSE Null

\* The ON clause of iter_partial_hash_groups: strictly within the tolerance.
Joins(p, st) ==
  /\ rows[p] # NoRow
  /\ rows[p].size = st.size
  /\ Distance(rows[p].mtime, st.mtime) < Tol

-----------------------------------------------------------------------------
(* Batched upsert *)

\* Mutated form: the arguments of COALESCE are swapped.
CoalesceOld(new, old) == IF old # Null THEN old ELSE new

Coalesce(new, old) == IF new # Null THEN new ELSE old

\* INSERT ... ON CONFLICT(path) DO UPDATE: a NULL digest leaves the old one.
Upsert(row, e) ==
  [size |-> e.size, mtime |-> e.mtime,
   partial |-> Coalesce(e.partial, row.partial),
   full    |-> Coalesce(e.full, row.full)]

\* Another stat, and the digest of the file's old content stays.
CarriesOver(row, e) ==
  /\ row # NoRow /\ row.full # Null /\ e.full = Null
  /\ row.size # e.size \/ row.mtime # e.mtime

\* queue_update of one path: the batch is below BATCH_SIZE.
QueueUpdate(p, st, partial, full) ==
  pending' = pending \cup {[path |-> p, size |-> st.size, mtime |-> st.mtime,
                            partial |-> partial, full |-> full]}

\* HashCache.flush: a phase updates a path once, so the order does not matter.
Flush ==
  LET Entries(p) == {e \in pending : e.path = p}
  IN /\ rows' = [p \in Paths |->
                   IF Entries(p) = {} THEN rows[p]
                   ELSE Upsert(rows[p], CHOOSE e \in Entries(p) : TRUE)]
     /\ carried' = {p \in Paths : \/ p \in carried /\ \A e \in Entries(p) : e.full = Null
                                  \/ \E e \in Entries(p) : CarriesOver(rows[p], e)}
     /\ pending' = {}

\* The same where SQLite raises an error: the batch is lost.
DropBatch == pending # {} /\ pending' = {} /\ UNCHANGED <<rows, carried>>

-----------------------------------------------------------------------------
(* cache clean *)

Cached == {p \in Paths : rows[p] # NoRow}

\* SELECT ... WHERE path > last ORDER BY path LIMIT CleanBatch
PageAfter(k) ==
  {p \in Cached : p > k /\ Cardinality({q \in Cached : k < q /\ q < p}) < CleanBatch}

\* The SELECT for the page after k; an empty page ends the loop.
FetchPage(k) ==
  /\ paths' = PageAfter(k)
  /\ clean' = IF paths' = {} THEN "off" ELSE "look"
  /\ last' = k /\ looked' = {} /\ missing' = {}
  /\ UNCHANGED <<rows, pending, carried>>

StartClean == clean = "off" /\ FetchPage(0)
CleanFetch == clean = "fetch" /\ FetchPage(last)

\* os.path.lexists, path by path.
CleanLook(p, exists) ==
  /\ clean = "look" /\ p \in paths \ looked
  /\ \A q \in paths \ looked : p <= q
  /\ looked' = looked \cup {p}
  /\ missing' = IF exists THEN missing ELSE missing \cup {p}
  /\ UNCHANGED <<rows, pending, carried, clean, last, paths>>

GreatestOf(S) == CHOOSE p \in S : \A q \in S : q <= p

\* Mutated form: the next page starts one path too late.
CleanDeleteSkipping ==
  /\ clean = "look" /\ looked = paths
  /\ rows' = [p \in Paths |-> IF p \in missing THEN NoRow ELSE rows[p]]
  /\ carried' = carried \ missing
  /\ last' = GreatestOf(paths) + 1
  /\ clean' = IF Cardinality(paths) < CleanBatch THEN "off" ELSE "fetch"
  /\ paths' = {} /\ looked' = {} /\ missing' = {} /\ UNCHANGED pending

\* One DELETE for the page; a short page is the last one.  VACUUM changes no row.
CleanDelete ==
  /\ clean = "look" /\ looked = paths
  /\ rows' = [p \in Paths |-> IF p \in missing THEN NoRow ELSE rows[p]]
  /\ carried' = carried \ missing
  /\ last' = GreatestOf(paths)
  /\ clean' = IF Cardinality(paths) < CleanBatch THEN "off" ELSE "fetch"
  /\ paths' = {} /\ looked' = {} /\ missing' = {}
  /\ UNCHANGED pending

Row == [size : Nat, mtime : Nat, partial : Nat, full : Nat]

CacheTypeOK ==
  /\ rows \in [Paths -> Row]
  /\ \A e \in pending : e.path \in Paths
  /\ carried \subseteq Cached
  /\ clean \in {"off", "fetch", "look"} /\ last \in 0..NumPaths
  /\ looked \subseteq paths /\ missing \subseteq looked /\ paths \subseteq Paths
=============================================================================
