------------------------------- MODULE Scanner -------------------------------
(***************************************************************************)
(* The walk of a scan: scan_files (scanner.py) for each root in turn, and  *)
(* the loop of _phase_scan that stores what it yields (pipeline.py).       *)
(*                                                                         *)
(* The tree is a constant graph: an entry of a directory is a file, a      *)
(* directory, or a symbolic link to one.  scandir gives the entries of a   *)
(* directory in any order, and any stat or listing may fail.               *)
(***************************************************************************)
EXTENDS Naturals, Sequences, FiniteSets, SequencesExt

CONSTANTS
  Dirs,        \* (device, inode) of the directories
  Files,       \* (device, inode) of the files
  Entries,     \* what the directories contain: records [dir, name, kind, to]
  Roots,       \* the roots of the scan: a sequence of records [path, dir]
  FileSize,    \* st_size of each file
  MinSize,     \* min_size
  MaxSize,     \* max_size, or NoLimit
  NamePats,    \* names that a --exclude pattern without '/' matches
  PathPats,    \* paths p of --exclude patterns p/*
  FollowLinks, \* the values follow_symlinks may have
  MaxFaults    \* bound on the failing calls

NoLimit == 0
Kinds   == {"dir", "file", "dirlink", "filelink", "broken"}

ASSUME EntriesAssumption ==
  /\ "none" \notin Dirs
  /\ \A e \in Entries :
       /\ e.dir \in Dirs /\ e.kind \in Kinds
       /\ e.kind \in {"dir", "dirlink"} => e.to \in Dirs
       /\ e.kind \in {"file", "filelink"} => e.to \in Files
  /\ \A d, e \in Entries : d.dir = e.dir /\ d.name = e.name => d = e
ASSUME RootsAssumption ==
  Roots \in Seq([path : Seq({e.name : e \in Entries} \cup {"root"}), dir : Dirs])
ASSUME FilterAssumption ==
  /\ FileSize \in [Files -> Nat] /\ MinSize \in Nat /\ MaxSize \in Nat
  /\ FollowLinks \subseteq BOOLEAN /\ MaxFaults \in Nat
  /\ PathPats \subseteq Seq(STRING)

\* The paths on the way to the roots, where the walk of one root may come upon
\* another: the kernel finds one directory under each of them.
WayPaths == UNION {{SubSeq(r.path, 1, n) : n \in 0..Len(r.path)} : r \in Range(Roots)}
Resolves(at) ==
  /\ \A i \in DOMAIN Roots : at[Roots[i].path] = Roots[i].dir
  /\ \A p \in WayPaths, e \in Entries :
       /\ e.kind \in {"dir", "dirlink"}
       /\ e.dir = at[p] /\ Append(p, e.name) \in WayPaths
       => at[Append(p, e.name)] = e.to
ASSUME PathsAssumption == \E at \in [WayPaths -> Dirs \cup {"none"}] : Resolves(at)

VARIABLES
  follow,   \* follow_symlinks of this scan
  pc,       \* "root", "pop", "list" or "done"
  root,     \* the number of the root being walked
  stack,    \* directories to visit: records [path, dir]
  visited,  \* visited_dirs of this root
  current,  \* the directory being listed
  unread,   \* its entries that scandir has not given yet
  rows,     \* session_files, each with the entry and the root it came from
  shutdown, \* ShutdownFlag
  failed,   \* history: what a call failed for
  listed,   \* history: the directories of each root, by the path of their listing
  faults    \* calls that failed so far

walk == <<stack, visited, current, unread>>
hist == <<failed, listed, faults>>
scanVars == <<follow, pc, root, walk, rows, shutdown, hist>>

Nowhere == [path |-> <<>>, dir |-> "none"]

Init ==
  /\ follow \in FollowLinks
  /\ pc = "root" /\ root = 0
  /\ stack = <<>> /\ visited = {} /\ current = Nowhere /\ unread = {}
  /\ rows = {} /\ shutdown = FALSE
  /\ failed = {} /\ listed = {} /\ faults = 0

-----------------------------------------------------------------------------
(* Entries *)

PathOf(e) == Append(current.path, e.name)

\* A pattern p/* matches every path below p, at any depth.
Below(path, p) == IsStrictPrefix(p, path)

\* _is_excluded: by the name alone, or by the path the walk came along.
Excluded(e) ==
  \/ e.name \in NamePats
  \/ \E p \in PathPats : Below(PathOf(e), p)

IsDir(e)  == e.kind = "dir" \/ (follow /\ e.kind = "dirlink")
IsFile(e) == e.kind = "file" \/ (follow /\ e.kind = "filelink")

Fits(f) ==
  /\ FileSize[f] >= MinSize
  /\ MaxSize = NoLimit \/ FileSize[f] <= MaxSize

Fault(x) ==
  /\ faults < MaxFaults
  /\ faults' = faults + 1 /\ failed' = failed \cup {x}

-----------------------------------------------------------------------------
(* The stack *)

\* The next call of scan_files, or the final flush of _phase_scan.
NextRoot ==
  /\ pc = "root"
  /\ IF root < Len(Roots)
     THEN /\ root' = root + 1 /\ pc' = "pop"
          /\ stack' = <<Roots[root + 1]>>
     ELSE pc' = "done" /\ UNCHANGED <<root, stack>>
  /\ visited' = {}
  /\ UNCHANGED <<follow, current, unread, rows, shutdown, hist>>

\* The stack is empty, or the flag is seen between two directories or entries.
RootEnd ==
  /\ \/ pc = "pop" /\ (stack = <<>> \/ shutdown)
     \/ pc = "list" /\ unread # {} /\ shutdown
  /\ pc' = "root"
  /\ stack' = <<>> /\ current' = Nowhere /\ unread' = {}
  /\ UNCHANGED <<follow, root, visited, rows, shutdown, hist>>

Top == Last(stack)
Popped == pc = "pop" /\ ~shutdown /\ stack # <<>> /\ stack' = Front(stack)

\* Mutated form: a directory is known by its path.
SeenByPath(d) == \E l \in listed : l.root = root /\ l.path = d.path

Seen(d) == d.dir \in visited

\* os.stat of the directory fails: it is not marked, another path may lead to it.
PopFails ==
  /\ Popped /\ Fault(Top.dir)
  /\ UNCHANGED <<follow, pc, root, visited, current, unread, rows, shutdown, listed>>

\* Mutated form: the known directory stays on the stack.
PopSeenAgain ==
  /\ pc = "pop" /\ ~shutdown /\ stack # <<>> /\ Seen(Top)
  /\ UNCHANGED scanVars

PopSeen ==
  /\ Popped /\ Seen(Top)
  /\ UNCHANGED <<follow, pc, root, visited, current, unread, rows, shutdown, hist>>

\* A directory of this root for the first time: scandir is opened.
PopNew ==
  /\ Popped /\ ~Seen(Top)
  /\ visited' = visited \cup {Top.dir}
  /\ current' = Top /\ pc' = "list"
  /\ unread' = {e \in Entries : e.dir = Top.dir}
  /\ listed' = listed \cup {[root |-> root, path |-> Top.path, dir |-> Top.dir]}
  /\ UNCHANGED <<follow, root, rows, shutdown, failed, faults>>

-----------------------------------------------------------------------------
(* One directory *)

Read(e) ==
  /\ pc = "list" /\ ~shutdown /\ e \in unread
  /\ unread' = unread \ {e}
  /\ UNCHANGED <<follow, pc, root, visited, current, shutdown, listed>>

\* Excluded, or a link that is not followed or leads nowhere, or of another size.
Skip(e) ==
  /\ Read(e)
  /\ \/ Excluded(e)
     \/ ~IsDir(e) /\ ~IsFile(e)
     \/ IsFile(e) /\ ~Fits(e.to)
  /\ UNCHANGED <<stack, rows, failed, faults>>

\* is_dir, is_file or stat fails for the entry.
EntryFails(e) ==
  /\ Read(e) /\ ~Excluded(e)
  /\ e.kind # "broken" /\ Fault(e.to)
  /\ UNCHANGED <<stack, rows>>

\* Mutated form: the patterns are applied to files only.
PushAny(e) ==
  /\ Read(e) /\ IsDir(e)
  /\ stack' = Append(stack, [path |-> PathOf(e), dir |-> e.to])
  /\ UNCHANGED <<rows, failed, faults>>

Push(e) ==
  /\ Read(e) /\ ~Excluded(e) /\ IsDir(e)
  /\ stack' = Append(stack, [path |-> PathOf(e), dir |-> e.to])
  /\ UNCHANGED <<rows, failed, faults>>

\* Mutated form: the inode of the directory.
RowOfDir(e) == [path |-> PathOf(e), inode |-> e.dir, dir |-> e.dir, name |-> e.name,
                root |-> root]

Row(e) == [path |-> PathOf(e), inode |-> e.to, dir |-> e.dir, name |-> e.name,
           root |-> root]

\* yield and queue_file: INSERT OR REPLACE, keyed by the path.
Yield(e) ==
  /\ Read(e) /\ ~Excluded(e) /\ IsFile(e) /\ Fits(e.to)
  /\ rows' = {r \in rows : r.path # PathOf(e)} \cup {Row(e)}
  /\ UNCHANGED <<stack, failed, faults>>

Listed ==
  /\ pc = "list" /\ pc' = "pop"
  /\ current' = Nowhere
  /\ UNCHANGED <<follow, root, visited, rows, shutdown, listed>>

DirEnd == Listed /\ unread = {} /\ UNCHANGED <<stack, unread, failed, faults>>

\* Mutated form: the exception ends the walk of the root.
DirFailsAll ==
  /\ Listed /\ Fault(current.dir)
  /\ unread' = {} /\ stack' = <<>>

\* scandir fails at once or between two entries; the rest is not read.
DirFails ==
  /\ Listed /\ Fault(current.dir)
  /\ unread' = {} /\ UNCHANGED stack

Signal ==
  /\ pc # "done" /\ ~shutdown
  /\ shutdown' = TRUE
  /\ UNCHANGED <<follow, pc, root, walk, rows, hist>>

-----------------------------------------------------------------------------

WalkStep ==
  \/ NextRoot \/ RootEnd \/ PopFails \/ PopSeen \/ PopNew \/ DirEnd \/ DirFails
  \/ \E e \in Entries : Skip(e) \/ EntryFails(e) \/ Push(e) \/ Yield(e)

Next == WalkStep \/ Signal

Spec == Init /\ [][Next]_scanVars

\* The walk waits for nobody.
FairSpec == Spec /\ WF_scanVars(WalkStep)

-----------------------------------------------------------------------------
(* Properties *)

(* Every variable has the type its declaration gives; a row names an entry.    *)
TypeOK ==
  /\ follow \in BOOLEAN /\ shutdown \in BOOLEAN
  /\ pc \in {"root", "pop", "list", "done"} /\ root \in 0..Len(Roots)
  /\ visited \subseteq Dirs /\ unread \subseteq Entries
  /\ \A i \in DOMAIN stack : stack[i].dir \in Dirs
  /\ current = Nowhere <=> pc # "list"
  /\ \A r \in rows : \E e \in Entries : e.dir = r.dir /\ e.name = r.name /\ e.to = r.inode
  /\ failed \subseteq Dirs \cup Files /\ faults \in 0..MaxFaults

(* Whatever links there are, one root gives one row to an entry of a           *)
(* directory: two of its rows with one inode are two links, and not one file   *)
(* by two ways (visited_dirs; the inode groups that are set aside rely on it). *)
EntryOnce ==
  \A r, s \in rows :
    r.root = s.root /\ r.dir = s.dir /\ r.name = s.name => r = s

(* No row lies below an excluded name or path, seen from its root, although    *)
(* the patterns are applied to one entry at a time.                            *)
NothingExcluded ==
  \A r \in rows :
    LET from == Roots[r.root].path
    IN /\ \A i \in Len(from) + 1 .. Len(r.path) : r.path[i] \notin NamePats
       /\ \A p \in PathPats : Below(r.path, p) => FALSE

\* The entries of d that were excluded under the path the walk took to it.
Masked(i) == {l.dir : l \in {k \in listed : /\ k.root = i
                                            /\ \E p \in PathPats : IsPrefix(p, k.path)}}

Leads(e) == e.name \notin NamePats /\ IsDir(e)

\* The directories that neither failed nor were listed under an excluded path.
Open(i) == Dirs \ (failed \cup Masked(i))

\* S has the open directories that root i and the directories of S lead to.
ClosedFrom(i, S) ==
  /\ Roots[i].dir \in Open(i) => Roots[i].dir \in S
  /\ \A e \in Entries : e.dir \in S /\ Leads(e) /\ e.to \in Open(i) => e.to \in S

\* What root i leads to by open directories: the smallest closed set.
Reachable(i) == {d \in Open(i) : \A S \in SUBSET Open(i) : ClosedFrom(i, S) => d \in S}

(* A walk that ends by itself has a row for every wanted file that a root      *)
(* leads to, in whatever order the directories were listed and whatever failed *)
(* elsewhere.  A directory first listed under an excluded path is the          *)
(* exception: visited_dirs keeps it from being listed under its other path.    *)
FilesFound ==
  pc = "done" /\ ~shutdown =>
    \A i \in DOMAIN Roots : \A e \in Entries :
      /\ e.dir \in Reachable(i) /\ e.name \notin NamePats
      /\ IsFile(e) /\ Fits(e.to) /\ e.to \notin failed
      => \E r \in rows : r.dir = e.dir /\ r.name = e.name

(* The walk ends, with links that lead back to a directory above.              *)
WalkEnds == <>(pc = "done")
=============================================================================
