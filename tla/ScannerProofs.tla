---------------------------- MODULE ScannerProofs ----------------------------
(***************************************************************************)
(* What the walk yields, for every tree, every set of links in it, every   *)
(* list of roots and patterns, and every order and failure of the calls.   *)
(***************************************************************************)
EXTENDS Scanner, SequenceTheorems, TLAPS

Name    == {e.name : e \in Entries} \cup {"root"}
Place   == [path : Seq(Name), dir : Dirs]
Listing == [root : 1..Len(Roots), path : Seq(Name), dir : Dirs]

Typed ==
  /\ pc \in {"root", "pop", "list", "done"} /\ root \in 0..Len(Roots)
  /\ stack \in Seq(Place) /\ unread \subseteq Entries /\ listed \subseteq Listing
  /\ pc \in {"pop", "list"} => root \in 1..Len(Roots)
  /\ pc = "list" => current \in Place
  /\ pc \in {"root", "done"} => stack = <<>>

\* Below root i no name on the path is excluded.
Allowed(path, i) ==
  /\ path \in Seq(Name) /\ Len(path) >= Len(Roots[i].path)
  /\ \A k \in Len(Roots[i].path) + 1 .. Len(path) : path[k] \notin NamePats

StackInv == \A i \in 1..Len(stack) : Allowed(stack[i].path, root)

CurrentInv ==
  pc = "list" =>
    /\ Allowed(current.path, root)
    /\ [root |-> root, path |-> current.path, dir |-> current.dir] \in listed
    /\ \A e \in unread : e.dir = current.dir

(* A root lists a directory once, which visited_dirs remembers for this root. *)
ListedInv ==
  /\ \A l \in listed : /\ l.root <= root
                       /\ pc \in {"pop", "list"} /\ l.root = root => l.dir \in visited
  /\ \A l, m \in listed : l.root = m.root /\ l.dir = m.dir => l = m

\* A row comes from an entry of a listed directory, by the path of its listing.
From(r, l, e) ==
  /\ l.dir = e.dir
  /\ r = [path |-> Append(l.path, e.name), inode |-> e.to, dir |-> e.dir, name |-> e.name,
          root |-> l.root]

RowInv ==
  \A r \in rows :
    /\ \E l \in listed, e \in Entries : From(r, l, e)
    /\ Allowed(r.path, r.root) /\ \A p \in PathPats : ~Below(r.path, p)

WalkInv == Typed /\ StackInv /\ CurrentInv /\ ListedInv /\ RowInv

LEMMA RootPlace ==
  /\ Len(Roots) \in Nat
  /\ \A i \in 1..Len(Roots) : /\ Roots[i] \in Place /\ Roots[i].path \in Seq(Name)
                             /\ Len(Roots[i].path) \in Nat
<1>1. Roots \in Seq(Place)
  BY RootsAssumption DEF Place, Name
<1>2. Len(Roots) \in Nat /\ \A i \in 1..Len(Roots) : Roots[i] \in Place
  BY <1>1, ElementOfSeq, LenProperties
<1>3. \A r \in Place : r.path \in Seq(Name)
  BY DEF Place
<1> QED BY <1>2, <1>3, LenProperties

LEMMA WalkInit == ASSUME Init PROVE WalkInv
<1>1. Typed
  BY RootsAssumption DEF Init, Typed
<1>2. StackInv /\ CurrentInv /\ ListedInv /\ RowInv
  BY DEF Init, StackInv, CurrentInv, ListedInv, RowInv
<1> QED BY <1>1, <1>2 DEF WalkInv

LEMMA AllowedAppend ==
  ASSUME NEW i \in 1..Len(Roots), NEW path, NEW n \in Name, Allowed(path, i), n \notin NamePats
  PROVE  Allowed(Append(path, n), i)
<1>1. /\ Roots[i].path \in Seq(Name) /\ Len(Roots[i].path) \in Nat
      /\ path \in Seq(Name) /\ Len(path) \in Nat
  BY RootPlace, LenProperties DEF Allowed
<1>2. Append(path, n) \in Seq(Name) /\ Len(Append(path, n)) = Len(path) + 1
  BY <1>1
<1>3. \A k \in 1..Len(path) : Append(path, n)[k] = path[k]
  BY <1>1
<1>4. Append(path, n)[Len(path) + 1] = n
  BY <1>1
<1>5. ASSUME NEW k \in Len(Roots[i].path) + 1 .. Len(Append(path, n))
      PROVE  Append(path, n)[k] \notin NamePats
  BY <1>1, <1>2, <1>3, <1>4, <1>5 DEF Allowed
<1> QED BY <1>1, <1>2, <1>5 DEF Allowed

\* The rest of the stack, and its top.
LEMMA PopStack ==
  ASSUME WalkInv, Popped
  PROVE  /\ stack' \in Seq(Place) /\ Top \in Place /\ Allowed(Top.path, root)
         /\ \A i \in 1..Len(stack') : Allowed(stack'[i].path, root)
         /\ pc = "pop" /\ root \in 1..Len(Roots)
<1>1. /\ stack \in Seq(Place) /\ Len(stack) \in Nat \ {0} /\ pc = "pop"
      /\ stack' = SubSeq(stack, 1, Len(stack) - 1) /\ Top = stack[Len(stack)]
  BY DEF WalkInv, Typed, Popped, Front, Top, Last
<1>2. \A i \in 1..Len(stack) - 1 : stack[i] \in Place
  BY <1>1, ElementOfSeq
<1>3. /\ stack' \in Seq(Place) /\ Len(stack') = Len(stack) - 1
      /\ \A i \in 1..Len(stack') : stack'[i] = stack[i] /\ i \in 1..Len(stack)
  <2> DEFINE n == Len(stack) - 1
  <2>1. n \in Int /\ n \in Nat /\ 1 \in Int /\ stack' = SubSeq(stack, 1, n)
    BY <1>1
  <2>2. /\ SubSeq(stack, 1, n) \in Seq(Place)
        /\ Len(SubSeq(stack, 1, n)) = IF 1 <= n THEN n - 1 + 1 ELSE 0
        /\ \A i \in 1..n - 1 + 1 : SubSeq(stack, 1, n)[i] = stack[1 + i - 1]
    BY <1>2, <2>1, SubSeqProperties
  <2> HIDE DEF n
  <2>3. Len(stack') = n
    <3>1. CASE 1 <= n
      BY <2>1, <2>2, <3>1
    <3>2. CASE n = 0
      BY <2>1, <2>2, <3>2
    <3> QED BY <2>1, <3>1, <3>2
  <2>4. \A i \in 1..n : stack'[i] = stack[i] /\ i \in 1..Len(stack)
    <3>1. Len(stack) = n + 1
      BY <1>1 DEF n
    <3> QED BY <2>1, <2>2, <3>1
  <2> QED BY <2>1, <2>2, <2>3, <2>4 DEF n
<1> QED BY <1>1, <1>2, <1>3 DEF WalkInv, Typed, StackInv

LEMMA PopStep == ASSUME WalkInv, PopFails \/ PopSeen \/ PopNew PROVE WalkInv'
<1>1. /\ stack' \in Seq(Place) /\ Top \in Place /\ Allowed(Top.path, root)
      /\ \A i \in 1..Len(stack') : Allowed(stack'[i].path, root)
      /\ pc = "pop" /\ root \in 1..Len(Roots) /\ UNCHANGED <<root, rows>>
  BY PopStack DEF PopFails, PopSeen, PopNew
<1>2. StackInv'
  BY <1>1 DEF StackInv, Allowed
<1>3. CASE PopFails \/ PopSeen
  <2>1. UNCHANGED <<pc, visited, current, unread, listed>>
    BY <1>3 DEF PopFails, PopSeen, hist
  <2>2. Typed' /\ CurrentInv'
    BY <1>1, <2>1 DEF WalkInv, Typed, CurrentInv
  <2>3. ListedInv' /\ RowInv'
    BY <1>1, <2>1 DEF WalkInv, ListedInv, RowInv, Allowed
  <2> QED BY <1>2, <2>2, <2>3 DEF WalkInv
<1>4. CASE PopNew
  <2> DEFINE new == [root |-> root, path |-> Top.path, dir |-> Top.dir]
  <2>1. /\ pc' = "list" /\ current' = Top /\ listed' = listed \cup {new} /\ new \in Listing
        /\ Top.dir \notin visited /\ visited' = visited \cup {Top.dir}
        /\ unread' = {e \in Entries : e.dir = Top.dir}
    BY <1>1, <1>4 DEF PopNew, Seen, Place, Listing
  <2>2. Typed' /\ CurrentInv'
    BY <1>1, <2>1 DEF WalkInv, Typed, CurrentInv, Allowed
  <2>3. ListedInv'
    BY <1>1, <2>1 DEF WalkInv, ListedInv, Listing, Place
  <2>4. RowInv'
    BY <1>1, <2>1 DEF WalkInv, RowInv, Allowed
  <2> QED BY <1>2, <2>2, <2>3, <2>4 DEF WalkInv
<1> QED BY <1>3, <1>4

LEMMA RootStep == ASSUME WalkInv, NextRoot \/ RootEnd PROVE WalkInv'
<1>1. UNCHANGED <<rows, listed>>
  BY DEF NextRoot, RootEnd, hist
<1>2. RowInv'
  BY <1>1 DEF WalkInv, RowInv, Allowed
<1>3. CASE RootEnd
  <2>1. pc' = "root" /\ stack' = <<>> /\ unread' = {} /\ UNCHANGED <<root, visited>>
    BY <1>3 DEF RootEnd
  <2>2. Typed' /\ StackInv' /\ CurrentInv' /\ ListedInv'
    BY <1>1, <2>1 DEF WalkInv, Typed, StackInv, CurrentInv, ListedInv
  <2> QED BY <1>2, <2>2 DEF WalkInv
<1>4. CASE NextRoot /\ root < Len(Roots)
  <2>1. /\ pc' = "pop" /\ root' = root + 1 /\ stack' = <<Roots[root + 1]>> /\ UNCHANGED unread
        /\ root \in Nat /\ root' \in 1..Len(Roots) /\ Len(Roots) \in Nat
    BY <1>4, RootsAssumption DEF NextRoot, WalkInv, Typed
  <2>2. Roots[root'] \in Place /\ Len(Roots[root'].path) \in Nat
    BY <2>1, RootPlace
  <2>3. Len(stack') = 1 /\ stack'[1] = Roots[root'] /\ stack' \in Seq(Place)
    BY <2>1, <2>2
  <2>4. Allowed(Roots[root'].path, root')
    BY <2>2 DEF Allowed, Place
  <2>5. Typed' /\ CurrentInv'
    BY <1>1, <2>1, <2>3 DEF WalkInv, Typed, CurrentInv
  <2>6. StackInv'
    BY <2>3, <2>4 DEF StackInv, Allowed
  <2>7. ListedInv'
    BY <1>1, <2>1 DEF WalkInv, Typed, Listing, ListedInv
  <2> QED BY <1>2, <2>5, <2>6, <2>7 DEF WalkInv
<1>5. CASE NextRoot /\ ~(root < Len(Roots))
  <2>1. pc = "root" /\ pc' = "done" /\ UNCHANGED <<root, stack, unread>> /\ stack = <<>>
    BY <1>5 DEF NextRoot, WalkInv, Typed
  <2>2. ListedInv'
    BY <1>1, <2>1 DEF WalkInv, ListedInv
  <2>3. Typed' /\ StackInv' /\ CurrentInv'
    BY <1>1, <2>1 DEF WalkInv, Typed, StackInv, CurrentInv
  <2> QED BY <1>2, <2>2, <2>3 DEF WalkInv
<1> QED BY <1>3, <1>4, <1>5

-----------------------------------------------------------------------------
(* One directory *)

LEMMA ReadEntry ==
  ASSUME WalkInv, NEW e \in Entries, Read(e)
  PROVE  /\ root \in 1..Len(Roots) /\ current \in Place /\ Allowed(current.path, root)
         /\ e.dir = current.dir /\ e.name \in Name
         /\ [root |-> root, path |-> current.path, dir |-> current.dir] \in listed
         /\ ListedInv' /\ CurrentInv'
         /\ stack' \in Seq(Place) => Typed'
<1>1. /\ pc = "list" /\ e \in unread /\ unread' = unread \ {e}
      /\ UNCHANGED <<pc, root, visited, current, listed>>
  BY DEF Read
<1>2. /\ root \in 1..Len(Roots) /\ current \in Place /\ Allowed(current.path, root)
      /\ e.dir = current.dir /\ e.name \in Name
      /\ [root |-> root, path |-> current.path, dir |-> current.dir] \in listed
  BY <1>1 DEF WalkInv, Typed, CurrentInv, Name
<1>3. ListedInv'
  BY <1>1 DEF WalkInv, ListedInv
<1>4. CurrentInv'
  BY <1>1 DEF WalkInv, CurrentInv, Allowed
<1>5. stack' \in Seq(Place) => Typed'
  BY <1>1 DEF WalkInv, Typed
<1> QED BY <1>2, <1>3, <1>4, <1>5

\* An entry that is not excluded has a path that no pattern forbids.
LEMMA EntryPath ==
  ASSUME WalkInv, NEW e \in Entries, Read(e), ~Excluded(e)
  PROVE  /\ Allowed(PathOf(e), root) /\ PathOf(e) = Append(current.path, e.name)
         /\ \A p \in PathPats : ~Below(PathOf(e), p)
BY ReadEntry, AllowedAppend DEF Excluded, PathOf

LEMMA EntryStep ==
  ASSUME WalkInv, NEW e \in Entries, Skip(e) \/ EntryFails(e) \/ Push(e) \/ Yield(e)
  PROVE  WalkInv'
<1>1. Read(e) /\ UNCHANGED <<root, listed>>
  BY DEF Skip, EntryFails, Push, Yield, Read
<1>2. stack \in Seq(Place) /\ StackInv /\ RowInv
  BY DEF WalkInv, Typed
<1>3. UNCHANGED rows => RowInv'
  BY <1>1, <1>2 DEF RowInv, Allowed
<1>4. UNCHANGED stack => StackInv'
  BY <1>1, <1>2 DEF StackInv, Allowed
<1>5. CASE Skip(e) \/ EntryFails(e)
  BY <1>1, <1>2, <1>3, <1>4, <1>5, ReadEntry DEF Skip, EntryFails, WalkInv
<1>6. CASE Push(e)
  <2> DEFINE new == [path |-> PathOf(e), dir |-> e.to]
  <2>1. stack' = Append(stack, new) /\ UNCHANGED rows /\ ~Excluded(e) /\ e.to \in Dirs
    BY <1>6, EntriesAssumption DEF Push, IsDir
  <2>2. Allowed(new.path, root) /\ new \in Place
    BY <1>1, <2>1, EntryPath DEF Allowed, Place
  <2>3. stack' \in Seq(Place) /\ Len(stack') = Len(stack) + 1 /\ Len(stack) \in Nat
    BY <1>2, <2>1, <2>2
  <2>4. \A i \in 1..Len(stack') : IF i = Len(stack') THEN stack'[i] = new
                                 ELSE i \in 1..Len(stack) /\ stack'[i] = stack[i]
    BY <1>2, <2>1, <2>3
  <2>5. \A i \in 1..Len(stack') : Allowed(stack'[i].path, root)
    BY <1>2, <2>2, <2>4 DEF StackInv
  <2>6. StackInv'
    BY <1>1, <2>5 DEF StackInv, Allowed
  <2> QED BY <1>1, <1>3, <2>1, <2>3, <2>6, ReadEntry DEF WalkInv
<1>7. CASE Yield(e)
  <2> DEFINE l == [root |-> root, path |-> current.path, dir |-> current.dir]
  <2>1. /\ rows' = {r \in rows : r.path # PathOf(e)} \cup {Row(e)}
        /\ UNCHANGED stack /\ ~Excluded(e)
    BY <1>7 DEF Yield
  <2>2. l \in listed /\ From(Row(e), l, e)
    BY <1>1, ReadEntry DEF From, Row, PathOf
  <2>3. /\ Allowed(Row(e).path, Row(e).root)
        /\ \A p \in PathPats : ~Below(Row(e).path, p)
    BY <1>1, <2>1, EntryPath DEF Row
  <2>4. \A r \in rows' : /\ \E m \in listed, x \in Entries : From(r, m, x)
                         /\ Allowed(r.path, r.root) /\ \A p \in PathPats : ~Below(r.path, p)
    BY <1>2, <2>1, <2>2, <2>3 DEF RowInv
  <2>5. RowInv'
    BY <1>1, <2>4 DEF RowInv, Allowed
  <2> QED BY <1>1, <1>2, <1>4, <2>1, <2>5, ReadEntry DEF WalkInv
<1> QED BY <1>5, <1>6, <1>7

LEMMA WalkInvStep == ASSUME WalkInv, [Next]_scanVars PROVE WalkInv'
<1>1. CASE DirEnd \/ DirFails
  <2>1. /\ pc = "list" /\ pc' = "pop" /\ unread' \subseteq Entries
        /\ UNCHANGED <<root, visited, stack, rows, listed>>
    BY <1>1 DEF DirEnd, DirFails, Listed, WalkInv, Typed
  <2>2. Typed' /\ StackInv' /\ CurrentInv' /\ ListedInv' /\ RowInv'
    BY <2>1 DEF WalkInv, Typed, StackInv, CurrentInv, ListedInv, RowInv, Allowed
  <2> QED BY <2>2 DEF WalkInv
<1>2. CASE Signal \/ UNCHANGED scanVars
  <2>1. UNCHANGED <<pc, root, stack, visited, current, unread, rows, listed>>
    BY <1>2 DEF Signal, scanVars, walk, hist
  <2>2. Typed' /\ StackInv' /\ CurrentInv' /\ ListedInv' /\ RowInv'
    BY <2>1 DEF WalkInv, Typed, StackInv, CurrentInv, ListedInv, RowInv, Allowed
  <2> QED BY <2>2 DEF WalkInv
<1> QED BY <1>1, <1>2, PopStep, RootStep, EntryStep DEF Next, WalkStep

-----------------------------------------------------------------------------

(* One entry of a directory gives one row to a root, although links lead to  *)
(* the directory along many paths: two rows of an entry would have come from *)
(* two listings of its directory, and visited_dirs allows one.               *)
THEOREM OneRowAnEntry == Spec => []EntryOnce
<1>1. Init => WalkInv
  BY WalkInit
<1>2. WalkInv /\ [Next]_scanVars => WalkInv'
  BY WalkInvStep
<1>3. WalkInv => EntryOnce
  <2> SUFFICES ASSUME WalkInv, NEW r \in rows, NEW s \in rows,
                      r.root = s.root, r.dir = s.dir, r.name = s.name
               PROVE  r = s
    BY DEF EntryOnce
  <2>1. PICK l \in listed, e \in Entries : From(r, l, e)
    BY DEF WalkInv, RowInv
  <2>2. PICK m \in listed, x \in Entries : From(s, m, x)
    BY DEF WalkInv, RowInv
  <2>3. l = m
    BY <2>1, <2>2 DEF From, WalkInv, ListedInv
  <2>4. e = x
    BY <2>1, <2>2, EntriesAssumption DEF From
  <2> QED BY <2>1, <2>2, <2>3, <2>4 DEF From
<1> QED BY <1>1, <1>2, <1>3, PTL DEF Spec

(* No row lies below an excluded name or path: the walk looks at one name at *)
(* a time, and every directory on the way to a row was an entry that passed. *)
THEOREM ExclusionHolds == Spec => []NothingExcluded
<1>1. Init => WalkInv
  BY WalkInit
<1>2. WalkInv /\ [Next]_scanVars => WalkInv'
  BY WalkInvStep
<1>3. WalkInv => NothingExcluded
  BY DEF WalkInv, RowInv, Allowed, NothingExcluded
<1> QED BY <1>1, <1>2, <1>3, PTL DEF Spec
-----------------------------------------------------------------------------
(* Types *)

(***************************************************************************)
(* What Typed leaves out: nothing is read between two directories.         *)
(***************************************************************************)
RestInv ==
  /\ follow \in BOOLEAN /\ shutdown \in BOOLEAN
  /\ visited \subseteq Dirs
  /\ pc # "list" => current = Nowhere /\ unread = {}
  /\ failed \subseteq Dirs \cup Files /\ faults \in 0..MaxFaults

LEMMA RestInit == ASSUME Init PROVE RestInv
<1>1. follow \in BOOLEAN /\ shutdown \in BOOLEAN
  BY FilterAssumption DEF Init
<1>2. visited \subseteq Dirs /\ failed \subseteq Dirs \cup Files /\ faults \in 0..MaxFaults
  BY FilterAssumption DEF Init
<1> QED BY <1>1, <1>2 DEF Init, RestInv

\* A call that fails is about a directory or a file.
LEMMA FaultAdds ==
  ASSUME RestInv, NEW x \in Dirs \cup Files, Fault(x)
  PROVE  failed' \subseteq Dirs \cup Files /\ faults' \in 0..MaxFaults
  BY FilterAssumption DEF RestInv, Fault

LEMMA RestStep == ASSUME WalkInv, RestInv, [Next]_scanVars PROVE RestInv'
<1>1. CASE NextRoot \/ RootEnd
  BY <1>1 DEF NextRoot, RootEnd, RestInv, hist
<1>2. CASE PopFails \/ PopSeen \/ PopNew
  <2>1. Top.dir \in Dirs
    BY <1>2, PopStack DEF PopFails, PopSeen, PopNew, Place
  <2>2. CASE PopFails
    BY <2>1, <2>2, FaultAdds DEF PopFails, RestInv
  <2>3. CASE PopSeen
    BY <2>3 DEF PopSeen, RestInv, hist
  <2>4. CASE PopNew
    BY <2>1, <2>4 DEF PopNew, RestInv
  <2> QED BY <1>2, <2>2, <2>3, <2>4
<1>3. CASE DirEnd \/ DirFails
  <2>1. pc = "list" => current.dir \in Dirs
    BY DEF WalkInv, Typed, Place
  <2>2. CASE DirEnd
    BY <2>2 DEF DirEnd, Listed, RestInv
  <2>3. CASE DirFails
    BY <2>1, <2>3, FaultAdds DEF DirFails, Listed, RestInv
  <2> QED BY <1>3, <2>2, <2>3
<1>4. ASSUME NEW e \in Entries, Skip(e) \/ EntryFails(e) \/ Push(e) \/ Yield(e)
      PROVE  RestInv'
  <2>1. Read(e)
    BY <1>4 DEF Skip, EntryFails, Push, Yield
  <2>2. UNCHANGED <<failed, faults>> => RestInv'
    BY <2>1 DEF Read, RestInv
  <2>3. CASE EntryFails(e)
    <3>1. e.to \in Dirs \cup Files
      BY <2>3, EntriesAssumption DEF EntryFails, Kinds
    <3>2. failed' \subseteq Dirs \cup Files /\ faults' \in 0..MaxFaults
      BY <2>3, <3>1, FaultAdds DEF EntryFails
    <3> QED BY <2>1, <3>2 DEF Read, RestInv
  <2> QED BY <1>4, <2>2, <2>3 DEF Skip, Push, Yield
<1>5. CASE Signal \/ UNCHANGED scanVars
  BY <1>5 DEF Signal, scanVars, walk, hist, RestInv
<1> QED BY <1>1, <1>2, <1>3, <1>4, <1>5 DEF Next, WalkStep

(* The walk keeps its types: every row names an entry of the tree and its    *)
(* inode, and a directory is current exactly while it is listed.             *)
THEOREM ScanTypes == Spec => []TypeOK
<1>1. Init => WalkInv /\ RestInv
  BY WalkInit, RestInit
<1>2. WalkInv /\ RestInv /\ [Next]_scanVars => WalkInv' /\ RestInv'
  BY WalkInvStep, RestStep
<1>3. WalkInv /\ RestInv => TypeOK
  <2> SUFFICES ASSUME WalkInv, RestInv PROVE TypeOK
    OBVIOUS
  <2>1. \A k \in DOMAIN stack : stack[k].dir \in Dirs
    <3>1. stack \in Seq(Place)
      BY DEF WalkInv, Typed
    <3>2. \A k \in DOMAIN stack : stack[k] \in Place
      BY <3>1, ElementOfSeq, LenProperties
    <3> QED BY <3>2 DEF Place
  <2>2. \A r \in rows : \E e \in Entries : e.dir = r.dir /\ e.name = r.name /\ e.to = r.inode
    BY DEF WalkInv, RowInv, From
  <2>3. current = Nowhere <=> pc # "list"
    <3>1. pc = "list" => current.dir # "none"
      BY EntriesAssumption DEF WalkInv, Typed, Place
    <3> QED BY <3>1 DEF RestInv, Nowhere
  <2> QED BY <2>1, <2>2, <2>3 DEF WalkInv, Typed, RestInv, TypeOK
<1> QED BY <1>1, <1>2, <1>3, PTL DEF Spec

-----------------------------------------------------------------------------
(* What the walk finds *)

(***************************************************************************)
(* A path names one directory: on the way to a root the one that the       *)
(* kernel finds, elsewhere the one that an entry of a listed directory     *)
(* leads to.  So a row that replaces another is of the same entry.         *)
(***************************************************************************)
DirAt == CHOOSE at \in [WayPaths -> Dirs \cup {"none"}] : Resolves(at)

Proper(x) ==
  IF x.path \in WayPaths THEN x.dir = DirAt[x.path]
  ELSE \E l \in listed, e \in Entries :
         /\ e.dir = l.dir /\ x.path = Append(l.path, e.name) /\ x.dir = e.to

PathInv ==
  /\ \A l \in listed : Proper(l)
  /\ \A k \in 1..Len(stack) : Proper(stack[k])
  /\ \A l, m \in listed : l.path = m.path => l.dir = m.dir

(***************************************************************************)
(* A root, and every directory that an open listed one leads to, has been  *)
(* listed, has failed or waits on the stack; every wanted file of an open  *)
(* listed directory has its row.  The entries still unread are exempt.     *)
(***************************************************************************)
ListedOf(i) == {l.dir : l \in {k \in listed : k.root = i}}

Entered(i, d) ==
  \/ d \in failed \cup ListedOf(i)
  \/ i = root /\ \E k \in 1..Len(stack) : stack[k].dir = d

HasRow(e) == \E r \in rows : r.dir = e.dir /\ r.name = e.name

\* The entries of which the walk of root i has to have made something.
Due(i, e) ==
  /\ e.dir \in ListedOf(i) \ (failed \cup Masked(i))
  /\ e.name \notin NamePats /\ e.to \notin failed
  /\ i = root => e \notin unread

Made(i, e) ==
  /\ IsDir(e) => Entered(i, e.to)
  /\ IsFile(e) /\ Fits(e.to) => HasRow(e)

FoundInv ==
  /\ pc \in {"pop", "list"} => visited \subseteq ListedOf(root)
  /\ pc = "done" => root = Len(Roots)
  /\ ~shutdown => \A i \in 1..root : /\ Entered(i, Roots[i].dir)
                                      /\ \A e \in Entries : Due(i, e) => Made(i, e)
-----------------------------------------------------------------------------
(* One directory under a path *)

LEMMA DirAtResolves == Resolves(DirAt)
  BY PathsAssumption DEF DirAt

LEMMA RootsOnTheWay ==
  ASSUME NEW i \in 1..Len(Roots)
  PROVE  Roots[i].path \in WayPaths /\ DirAt[Roots[i].path] = Roots[i].dir
<1>1. /\ Roots \in Seq(Place) /\ DOMAIN Roots = 1..Len(Roots)
  BY RootsAssumption DEF Place, Name
<1>2. Roots[i].path \in Seq(Name) /\ Len(Roots[i].path) \in Nat
  BY RootPlace
<1>3. SubSeq(Roots[i].path, 1, Len(Roots[i].path)) = Roots[i].path
  BY <1>2
<1>4. Roots[i] \in Range(Roots)
  BY <1>1 DEF Range
<1>5. Len(Roots[i].path) \in 0..Len(Roots[i].path)
  BY <1>2
<1>6. Roots[i].path \in WayPaths
  BY <1>3, <1>4, <1>5 DEF WayPaths
<1> QED BY <1>1, <1>6, DirAtResolves DEF Resolves

\* The paths above a path on the way to a root are on the way too.
LEMMA WayUp ==
  ASSUME NEW p \in Seq(Name), NEW n \in Name, Append(p, n) \in WayPaths
  PROVE  p \in WayPaths
<1>1. PICK r \in Range(Roots) : \E k \in 0..Len(r.path) : Append(p, n) = SubSeq(r.path, 1, k)
  BY DEF WayPaths
<1>2. PICK k \in 0..Len(r.path) : Append(p, n) = SubSeq(r.path, 1, k)
  BY <1>1
<1>3. r.path \in Seq(Name)
  BY RootsAssumption, RootPlace DEF Range
<1> DEFINE s == r.path
<1> HIDE DEF s
<1>4. s \in Seq(Name) /\ Len(s) \in Nat /\ k \in 0..Len(s) /\ Append(p, n) = SubSeq(s, 1, k)
  BY <1>2, <1>3 DEF s
<1>5. Len(SubSeq(s, 1, k)) = k /\ \A j \in 1..k : SubSeq(s, 1, k)[j] = s[j]
  BY <1>4
<1>6. Len(Append(p, n)) = Len(p) + 1 /\ Len(p) \in Nat /\ \A j \in 1..Len(p) : Append(p, n)[j] = p[j]
  BY AppendProperties
<1>7. k = Len(p) + 1 /\ \A j \in 1..Len(p) : s[j] = p[j]
  BY <1>4, <1>5, <1>6
<1>8. /\ SubSeq(s, 1, Len(p)) \in Seq(Name) /\ Len(SubSeq(s, 1, Len(p))) = Len(p)
      /\ \A j \in 1..Len(p) : SubSeq(s, 1, Len(p))[j] = s[j]
  BY <1>4, <1>6, <1>7
<1>9. SubSeq(s, 1, Len(p)) = p
  BY <1>7, <1>8, SeqEqual
<1>10. Len(p) \in 0..Len(r.path) /\ p = SubSeq(r.path, 1, Len(p))
  BY <1>4, <1>6, <1>7, <1>9 DEF s
<1>11. p \in {SubSeq(r.path, 1, j) : j \in 0..Len(r.path)}
  BY <1>10
<1> QED BY <1>11 DEF WayPaths

\* A path has one last name and one path above it.
LEMMA AppendOnce ==
  ASSUME NEW p \in Seq(Name), NEW q \in Seq(Name), NEW m \in Name, NEW n \in Name,
         Append(p, m) = Append(q, n)
  PROVE  p = q /\ m = n
<1>1. /\ Len(Append(p, m)) = Len(p) + 1 /\ Len(p) \in Nat /\ Append(p, m)[Len(p) + 1] = m
      /\ Len(Append(q, n)) = Len(q) + 1 /\ Len(q) \in Nat /\ Append(q, n)[Len(q) + 1] = n
      /\ \A j \in 1..Len(p) : Append(p, m)[j] = p[j]
      /\ \A j \in 1..Len(q) : Append(q, n)[j] = q[j]
  BY AppendProperties
<1>2. Len(p) = Len(q) /\ m = n
  BY <1>1
<1> QED BY <1>1, <1>2, SeqEqual

LEMMA EntryName == \A e \in Entries : e.name \in Name
  BY DEF Name

\* Two directories under one path are one directory.
LEMMA SamePathSameDir ==
  ASSUME Typed, PathInv, NEW x, NEW y, Proper(x), Proper(y), x.path = y.path
  PROVE  x.dir = y.dir
<1>1. CASE x.path \in WayPaths
  BY <1>1 DEF Proper
<1>2. CASE x.path \notin WayPaths
  <2>1. PICK l \in listed, d \in Entries :
          d.dir = l.dir /\ x.path = Append(l.path, d.name) /\ x.dir = d.to
    BY <1>2 DEF Proper
  <2>2. PICK m \in listed, e \in Entries :
          e.dir = m.dir /\ y.path = Append(m.path, e.name) /\ y.dir = e.to
    BY <1>2 DEF Proper
  <2>3. l.path \in Seq(Name) /\ m.path \in Seq(Name)
    BY DEF Typed, Listing
  <2>4. l.path = m.path /\ d.name = e.name
    <3>1. Append(l.path, d.name) = Append(m.path, e.name)
      BY <2>1, <2>2
    <3>2. d.name \in Name /\ e.name \in Name
      BY EntryName
    <3> DEFINE a == l.path
               b == m.path
    <3>3. a \in Seq(Name) /\ b \in Seq(Name) /\ Append(a, d.name) = Append(b, e.name)
      BY <2>3, <3>1
    <3> HIDE DEF a, b
    <3>4. a = b /\ d.name = e.name
      BY <3>2, <3>3, AppendOnce
    <3> QED BY <3>4 DEF a, b
  <2>5. l.dir = m.dir
    BY <2>4 DEF PathInv
  <2> QED BY <2>1, <2>2, <2>4, <2>5, EntriesAssumption
<1> QED BY <1>1, <1>2

\* Listing one more directory takes nothing from a path.
LEMMA ProperStays == ASSUME listed \subseteq listed', NEW x, Proper(x) PROVE Proper(x)'
  BY DEF Proper

\* Where the rest of the stack comes from.
LEMMA PopRest ==
  ASSUME Typed, Popped
  PROVE  /\ Len(stack) \in 1..Len(stack) /\ Top = stack[Len(stack)]
         /\ Len(stack') = Len(stack) - 1 /\ Len(stack) \in Nat \ {0}
         /\ \A k \in 1..Len(stack') : k \in 1..Len(stack) /\ stack'[k] = stack[k]
         /\ \A k \in 1..Len(stack) : stack[k] = Top \/ (k \in 1..Len(stack') /\ stack'[k] = stack[k])
<1>1. /\ stack \in Seq(Place) /\ Len(stack) \in Nat \ {0}
      /\ stack' = SubSeq(stack, 1, Len(stack) - 1) /\ Top = stack[Len(stack)]
  BY DEF Typed, Popped, Front, Top, Last
<1> DEFINE n == Len(stack) - 1
<1>2. n \in Nat /\ Len(stack) = n + 1
  BY <1>1
<1>3. Len(SubSeq(stack, 1, n)) = n /\ \A k \in 1..n : SubSeq(stack, 1, n)[k] = stack[k]
  <2> HIDE DEF n
  <2> QED BY <1>1, <1>2
<1>4. Len(stack') = n /\ \A k \in 1..n : stack'[k] = stack[k]
  BY <1>1, <1>3
<1> HIDE DEF n
<1> QED BY <1>1, <1>2, <1>4

LEMMA PathInit == ASSUME Init PROVE PathInv
  BY DEF Init, PathInv

LEMMA PathPop == ASSUME WalkInv, PathInv, PopFails \/ PopSeen \/ PopNew PROVE PathInv'
<1>1. Typed /\ Popped
  BY DEF WalkInv, PopFails, PopSeen, PopNew
<1>2. Proper(Top)
  BY <1>1, PopRest DEF PathInv
<1>3. \A k \in 1..Len(stack') : Proper(stack'[k])
  BY <1>1, PopRest DEF PathInv
<1>4. CASE PopFails \/ PopSeen
  BY <1>3, <1>4 DEF PopFails, PopSeen, hist, PathInv, Proper
<1>5. CASE PopNew
  <2> DEFINE new == [root |-> root, path |-> Top.path, dir |-> Top.dir]
  <2>1. listed' = listed \cup {new} /\ Proper(new)
    BY <1>2, <1>5 DEF PopNew, Proper
  <2>2. \A l \in listed : l.path = new.path => l.dir = new.dir
    BY <1>1, <2>1, SamePathSameDir DEF PathInv
  <2>3. \A l, m \in listed' : l.path = m.path => l.dir = m.dir
    BY <2>1, <2>2 DEF PathInv
  <2>4. \A l \in listed' : Proper(l)
    BY <2>1 DEF PathInv
  <2>5. \A x : Proper(x) => Proper(x)'
    BY <2>1, ProperStays
  <2> QED BY <1>3, <2>3, <2>4, <2>5 DEF PathInv
<1> QED BY <1>4, <1>5

LEMMA PathPush == ASSUME WalkInv, PathInv, NEW e \in Entries, Push(e) PROVE PathInv'
<1> DEFINE new == [path |-> PathOf(e), dir |-> e.to]
           l == [root |-> root, path |-> current.path, dir |-> current.dir]
<1>1. /\ Read(e) /\ e.kind \in {"dir", "dirlink"} /\ listed' = listed
      /\ stack' = Append(stack, new) /\ stack \in Seq(Place)
  BY DEF Push, Read, IsDir, WalkInv, Typed
<1>2. l \in listed /\ e.dir = l.dir /\ l.path \in Seq(Name) /\ e.name \in Name
  BY <1>1, ReadEntry DEF Place
<1>3. new.path = Append(l.path, e.name)
  BY DEF PathOf
<1>4. ASSUME new.path \in WayPaths PROVE Proper(new)
  <2>1. l.path \in WayPaths
    BY <1>2, <1>3, <1>4, WayUp
  <2>2. e.dir = DirAt[l.path]
    BY <1>2, <2>1 DEF PathInv, Proper
  <2> HIDE DEF l
  <2>3. DirAt[Append(l.path, e.name)] = e.to
    BY <1>1, <1>3, <1>4, <2>1, <2>2, DirAtResolves DEF Resolves
  <2> QED BY <1>3, <1>4, <2>3 DEF Proper
<1>5. ASSUME new.path \notin WayPaths PROVE Proper(new)
  BY <1>2, <1>3, <1>5 DEF Proper
<1>6. Proper(new)
  BY <1>4, <1>5
<1>7. \A k \in 1..Len(stack') : stack'[k] = new \/ (k \in 1..Len(stack) /\ stack'[k] = stack[k])
  <2> HIDE DEF new
  <2> QED BY <1>1
<1>8. \A k \in 1..Len(stack') : Proper(stack'[k])
  BY <1>6, <1>7 DEF PathInv
<1> QED BY <1>1, <1>8 DEF PathInv, Proper

LEMMA PathStep == ASSUME WalkInv, PathInv, [Next]_scanVars PROVE PathInv'
<1>1. UNCHANGED <<stack, listed>> => PathInv'
  BY DEF PathInv, Proper
<1>2. CASE RootEnd
  BY <1>2 DEF RootEnd, hist, PathInv, Proper
<1>3. CASE NextRoot
  <2>1. CASE root < Len(Roots)
    <3>1. stack' = <<Roots[root + 1]>> /\ listed' = listed /\ root + 1 \in 1..Len(Roots)
      BY <1>3, <2>1, RootPlace DEF NextRoot, hist, WalkInv, Typed
    <3>2. Proper(Roots[root + 1])
      BY <3>1, RootsOnTheWay DEF Proper
    <3>3. \A k \in 1..Len(stack') : stack'[k] = Roots[root + 1]
      BY <3>1
    <3> QED BY <3>1, <3>2, <3>3 DEF PathInv, Proper
  <2>2. CASE ~(root < Len(Roots))
    BY <1>1, <1>3, <2>2 DEF NextRoot, hist
  <2> QED BY <2>1, <2>2
<1>4. CASE DirEnd \/ DirFails \/ Signal \/ UNCHANGED scanVars
  BY <1>1, <1>4 DEF DirEnd, DirFails, Listed, Signal, scanVars, walk, hist
<1>5. ASSUME NEW e \in Entries, Skip(e) \/ EntryFails(e) \/ Yield(e)
      PROVE  UNCHANGED <<stack, listed>>
  BY <1>5 DEF Skip, EntryFails, Yield, Read
<1> QED BY <1>1, <1>2, <1>3, <1>4, <1>5, PathPop, PathPush DEF Next, WalkStep

-----------------------------------------------------------------------------
(* Nothing is passed over *)

LEMMA FoundInit == ASSUME Init PROVE FoundInv
<1>1. root = 0 /\ pc = "root" /\ 1..0 = {}
  BY DEF Init
<1> QED BY <1>1 DEF FoundInv

\* The directory taken from the stack has failed or has been listed.
LEMMA FoundPop ==
  ASSUME WalkInv, RestInv, FoundInv, PopFails \/ PopSeen \/ PopNew
  PROVE  FoundInv'
<1>1. /\ pc = "pop" /\ root \in 1..Len(Roots) /\ unread = {} /\ Popped
      /\ pc' \in {"pop", "list"} /\ UNCHANGED <<root, shutdown, rows, follow>>
  BY DEF WalkInv, Typed, RestInv, PopFails, PopSeen, PopNew, Popped
<1>2. /\ \A k \in 1..Len(stack) : stack[k] = Top \/ (k \in 1..Len(stack') /\ stack'[k] = stack[k])
  BY <1>1, PopRest DEF WalkInv
<1>3. \/ /\ failed' = failed \cup {Top.dir} /\ UNCHANGED <<listed, unread, visited>>
      \/ /\ Top.dir \in ListedOf(root) /\ UNCHANGED <<failed, listed, unread, visited>>
      \/ /\ listed' = listed \cup {[root |-> root, path |-> Top.path, dir |-> Top.dir]}
         /\ unread' = {e \in Entries : e.dir = Top.dir}
         /\ visited' = visited \cup {Top.dir} /\ UNCHANGED failed
  BY <1>1 DEF PopFails, PopSeen, PopNew, Fault, Seen, hist, FoundInv
<1>4. /\ failed \subseteq failed' /\ Top.dir \in failed' \cup ListedOf(root)'
      /\ \A i : ListedOf(i) \subseteq ListedOf(i)' /\ Masked(i) \subseteq Masked(i)'
  BY <1>1, <1>3 DEF ListedOf, Masked
<1>5. \A i, d : Entered(i, d) => Entered(i, d)'
  BY <1>1, <1>2, <1>4 DEF Entered
<1>6. ASSUME NEW i \in 1..root, NEW e \in Entries, Due(i, e)'
      PROVE  Due(i, e)
  <2>1. e.dir \in ListedOf(i)
    BY <1>1, <1>3, <1>6 DEF Due, ListedOf
  <2> QED BY <1>1, <1>4, <1>6, <2>1 DEF Due
<1>7. \A i, e : Made(i, e) => Made(i, e)'
  BY <1>1, <1>5 DEF Made, IsDir, IsFile, HasRow
<1>8. visited' \subseteq ListedOf(root)'
  <2>1. visited \subseteq ListedOf(root)
    BY <1>1 DEF FoundInv
  <2>2. CASE Top.dir \in ListedOf(root)'
    BY <1>1, <1>3, <1>4, <2>1, <2>2
  <2>3. CASE UNCHANGED <<listed, visited>>
    BY <1>1, <2>1, <2>3 DEF ListedOf
  <2>4. listed' = listed \cup {[root |-> root, path |-> Top.path, dir |-> Top.dir]} =>
          Top.dir \in ListedOf(root)'
    <3> DEFINE new == [root |-> root, path |-> Top.path, dir |-> Top.dir]
    <3>1. new.root = root' /\ new.dir = Top.dir
      BY <1>1
    <3> HIDE DEF new
    <3>2. new \in listed' => Top.dir \in ListedOf(root)'
      BY <3>1 DEF ListedOf
    <3> QED BY <3>2 DEF new
  <2> QED BY <1>3, <2>2, <2>3, <2>4
<1> QED BY <1>1, <1>5, <1>6, <1>7, <1>8 DEF FoundInv

\* A walk that ends by itself has nothing left on the stack.
LEMMA FoundRoot ==
  ASSUME WalkInv, RestInv, FoundInv, NextRoot \/ RootEnd
  PROVE  FoundInv'
<1>1. /\ UNCHANGED <<shutdown, rows, follow, failed, listed>>
      /\ ~shutdown => stack = <<>> /\ unread = {} /\ unread' = {}
  BY DEF NextRoot, RootEnd, hist, WalkInv, Typed, RestInv
<1>2. /\ \A i : ListedOf(i)' = ListedOf(i) /\ Masked(i)' = Masked(i)
      /\ \A e : IsDir(e)' = IsDir(e) /\ IsFile(e)' = IsFile(e) /\ HasRow(e)' = HasRow(e)
  BY <1>1 DEF ListedOf, Masked, IsDir, IsFile, HasRow
<1>3. stack = <<>> => Len(stack) = 0 /\ 1..Len(stack) = {}
  OBVIOUS
<1>4. ~shutdown => \A i, d : Entered(i, d) => Entered(i, d)'
  BY <1>1, <1>2, <1>3 DEF Entered
<1>5. ~shutdown => \A i, e : (Due(i, e)' => Due(i, e)) /\ (Made(i, e) => Made(i, e)')
  BY <1>1, <1>2, <1>4 DEF Due, Made
<1>6. CASE UNCHANGED root
  <2>1. pc' \in {"root", "done"} /\ (pc' = "done" => root = Len(Roots))
    BY <1>6, RootPlace DEF NextRoot, RootEnd, WalkInv, Typed
  <2> QED BY <1>1, <1>4, <1>5, <1>6, <2>1 DEF FoundInv
<1>7. CASE ~UNCHANGED root
  <2>1. /\ root \in Nat /\ root' = root + 1 /\ pc' = "pop" /\ visited' = {}
        /\ stack' = <<Roots[root']>>
    BY <1>7 DEF NextRoot, RootEnd, WalkInv, Typed
  <2>2. Len(stack') = 1 /\ stack'[1] = Roots[root']
    BY <2>1
  <2>3. Entered(root, Roots[root].dir)'
    BY <2>2 DEF Entered
  <2>4. \A l \in listed : l.root # root'
    <3>1. \A l \in listed : l.root \in Nat /\ l.root <= root
      BY DEF WalkInv, Typed, Listing, ListedInv
    <3> QED BY <2>1, <3>1
  <2>5. \A e : ~Due(root, e)'
    BY <1>1, <2>4 DEF Due, ListedOf
  <2>6. \A i \in 1..root' : i \in 1..root \/ i = root'
    BY <2>1
  <2> QED BY <1>1, <1>4, <1>5, <2>1, <2>3, <2>5, <2>6 DEF FoundInv
<1> QED BY <1>6, <1>7

\* The row that Yield replaces, if any, is of the same entry.
LEMMA RowsStay ==
  ASSUME WalkInv, PathInv, NEW e \in Entries, Yield(e), NEW x \in Entries, HasRow(x)
  PROVE  HasRow(x)'
<1> DEFINE l == [root |-> root, path |-> current.path, dir |-> current.dir]
<1>1. /\ l \in listed /\ e.dir = l.dir /\ l.path \in Seq(Name) /\ e.name \in Name
      /\ PathOf(e) = Append(l.path, e.name)
  BY ReadEntry DEF Yield, Place, PathOf
<1>2. PICK r \in rows : r.dir = x.dir /\ r.name = x.name
  BY DEF HasRow
<1>3. Row(e) \in rows' /\ (r.path # PathOf(e) => r \in rows')
  BY DEF Yield
<1>4. CASE r.path = PathOf(e)
  <2>1. PICK m \in listed, d \in Entries : From(r, m, d)
    BY DEF WalkInv, RowInv
  <2>2. m.path \in Seq(Name) /\ d.name \in Name /\ r.path = Append(m.path, d.name)
    BY <2>1, EntryName DEF WalkInv, Typed, Listing, From
  <2> DEFINE a == l.path
             b == m.path
  <2>3. a \in Seq(Name) /\ b \in Seq(Name) /\ Append(a, e.name) = Append(b, d.name)
    BY <1>1, <1>4, <2>2
  <2> HIDE DEF a, b
  <2>4. a = b /\ e.name = d.name
    BY <1>1, <2>2, <2>3, AppendOnce
  <2>5. l.dir = m.dir
    BY <1>1, <2>4 DEF a, b, PathInv
  <2>6. Row(e).dir = r.dir /\ Row(e).name = r.name
    BY <1>1, <2>1, <2>4, <2>5 DEF From, Row
  <2> QED BY <1>2, <1>3, <2>6 DEF HasRow
<1> QED BY <1>2, <1>3, <1>4 DEF HasRow

\* Below a directory that was not listed under an excluded path only names count.
LEMMA OpenEntry ==
  ASSUME WalkInv, NEW e \in Entries, Read(e), Excluded(e), e.name \notin NamePats
  PROVE  e.dir \in Masked(root)
<1> DEFINE l == [root |-> root, path |-> current.path, dir |-> current.dir]
<1>1. l \in listed /\ e.dir = l.dir /\ current.path \in Seq(Name) /\ e.name \in Name
  BY ReadEntry DEF Place
<1>2. PICK p \in PathPats : IsStrictPrefix(p, Append(current.path, e.name))
  BY DEF Excluded, Below, PathOf
<1> DEFINE c == current.path
           s == Append(c, e.name)
<1>3. /\ p \in Seq(STRING) /\ Len(p) \in Nat /\ c \in Seq(Name)
      /\ Len(s) = Len(c) + 1 /\ Len(c) \in Nat
      /\ \A k \in 1..Len(c) : s[k] = c[k]
      /\ s \in Seq(Name)
  BY <1>1, FilterAssumption, AppendProperties, LenProperties
<1>4. Len(p) <= Len(s) /\ SubSeq(p, 1, Len(p)) = SubSeq(s, 1, Len(p)) /\ p # s
  BY <1>2 DEF IsStrictPrefix, IsPrefix
<1> HIDE DEF c, s
<1>5. SubSeq(p, 1, Len(p)) = p
  BY <1>3
<1>6. Len(p) # Len(s)
  <2> SUFFICES ASSUME Len(p) = Len(s) PROVE FALSE
    OBVIOUS
  <2>1. SubSeq(s, 1, Len(s)) = s
    BY <1>3
  <2> QED BY <1>4, <1>5, <2>1
<1>7. Len(p) <= Len(c)
  BY <1>3, <1>4, <1>6
<1>8. SubSeq(s, 1, Len(p)) = SubSeq(c, 1, Len(p))
  <2>1. /\ SubSeq(s, 1, Len(p)) \in Seq(Name) /\ Len(SubSeq(s, 1, Len(p))) = Len(p)
        /\ \A k \in 1..Len(p) : SubSeq(s, 1, Len(p))[k] = s[k]
    BY <1>3, <1>4
  <2>2. /\ SubSeq(c, 1, Len(p)) \in Seq(Name) /\ Len(SubSeq(c, 1, Len(p))) = Len(p)
        /\ \A k \in 1..Len(p) : SubSeq(c, 1, Len(p))[k] = c[k]
    BY <1>3, <1>7
  <2>3. \A k \in 1..Len(p) : s[k] = c[k]
    BY <1>3, <1>7
  <2> QED BY <2>1, <2>2, <2>3, SeqEqual
<1>9. IsPrefix(p, l.path)
  BY <1>4, <1>7, <1>8 DEF IsPrefix, c
<1> QED BY <1>1, <1>9 DEF Masked

\* An entry that has been read has failed, has been passed on or has its row.
LEMMA FoundEntry ==
  ASSUME WalkInv, PathInv, FoundInv, NEW e \in Entries,
         Skip(e) \/ EntryFails(e) \/ Push(e) \/ Yield(e)
  PROVE  FoundInv'
<1>1. /\ Read(e) /\ pc = "list" /\ unread' = unread \ {e}
      /\ UNCHANGED <<pc, root, shutdown, visited, follow, listed>> /\ failed \subseteq failed'
  BY DEF Skip, EntryFails, Push, Yield, Read, Fault
<1>2. /\ \A i : ListedOf(i)' = ListedOf(i) /\ Masked(i)' = Masked(i)
      /\ \A x : IsDir(x)' = IsDir(x) /\ IsFile(x)' = IsFile(x)
  BY <1>1 DEF ListedOf, Masked, IsDir, IsFile
<1>3. stack \in Seq(Place) /\ e.kind \in Kinds
  BY EntriesAssumption DEF WalkInv, Typed
<1>4. \A i, d : Entered(i, d) => Entered(i, d)'
  <2>1. CASE Push(e)
    <3> DEFINE new == [path |-> PathOf(e), dir |-> e.to]
    <3>1. stack' = Append(stack, new)
      BY <2>1 DEF Push
    <3> HIDE DEF new
    <3>2. \A k \in 1..Len(stack) : k \in 1..Len(stack') /\ stack'[k] = stack[k]
      BY <1>3, <3>1
    <3> QED BY <1>1, <1>2, <3>2 DEF Entered
  <2>2. CASE UNCHANGED stack
    BY <1>1, <1>2, <2>2 DEF Entered
  <2> QED BY <2>1, <2>2 DEF Skip, EntryFails, Yield
<1>5. \A x \in Entries : HasRow(x) => HasRow(x)'
  <2>1. CASE Yield(e)
    BY <2>1, RowsStay
  <2>2. CASE UNCHANGED rows
    BY <2>2 DEF HasRow
  <2> QED BY <2>1, <2>2 DEF Skip, EntryFails, Push
<1>6. \A i : \A x \in Entries : Made(i, x) => Made(i, x)'
  BY <1>2, <1>4, <1>5 DEF Made
<1>7. ASSUME Due(root, e)' PROVE Made(root, e)'
  <2>1. /\ e.dir \notin Masked(root) /\ e.name \notin NamePats /\ e.to \notin failed'
    BY <1>1, <1>2, <1>7 DEF Due
  <2>2. ~Excluded(e)
    BY <1>1, <2>1, OpenEntry
  <2>3. ~EntryFails(e)
    BY <2>1 DEF EntryFails, Fault
  <2>4. CASE Skip(e)
    BY <1>2, <2>2, <2>4 DEF Skip, Made, IsDir, IsFile
  <2>5. CASE Push(e)
    <3> DEFINE new == [path |-> PathOf(e), dir |-> e.to]
    <3>1. stack' = Append(stack, new) /\ new.dir = e.to /\ IsDir(e)
      BY <2>5 DEF Push
    <3> HIDE DEF new
    <3>2. Len(stack') \in 1..Len(stack') /\ stack'[Len(stack')] = new
      BY <1>3, <3>1
    <3>3. Entered(root, e.to)'
      BY <1>1, <3>1, <3>2 DEF Entered
    <3> QED BY <1>2, <3>1, <3>3 DEF Made, IsDir, IsFile
  <2>6. CASE Yield(e)
    <3>1. Row(e) \in rows' /\ Row(e).dir = e.dir /\ Row(e).name = e.name /\ IsFile(e)
      BY <2>6 DEF Yield, Row
    <3>2. HasRow(e)'
      BY <3>1 DEF HasRow
    <3> QED BY <1>2, <3>1, <3>2 DEF Made, IsDir, IsFile
  <2> QED BY <2>3, <2>4, <2>5, <2>6
<1>8. \A i : \A x \in Entries : Due(i, x)' => Due(i, x) \/ (i = root /\ x = e)
  BY <1>1, <1>2 DEF Due
<1> QED BY <1>1, <1>2, <1>4, <1>6, <1>7, <1>8 DEF FoundInv

LEMMA FoundStep == ASSUME WalkInv, RestInv, PathInv, FoundInv, [Next]_scanVars PROVE FoundInv'
<1>1. CASE DirEnd \/ DirFails
  <2>1. /\ pc = "list" /\ pc' = "pop" /\ failed \subseteq failed' /\ unread' = {}
        /\ UNCHANGED <<root, shutdown, visited, follow, listed, rows, stack>>
    BY <1>1 DEF DirEnd, DirFails, Listed, Fault
  <2>2. /\ \A i : ListedOf(i)' = ListedOf(i) /\ Masked(i)' = Masked(i)
        /\ \A e : IsDir(e)' = IsDir(e) /\ IsFile(e)' = IsFile(e) /\ HasRow(e)' = HasRow(e)
    BY <2>1 DEF ListedOf, Masked, IsDir, IsFile, HasRow
  <2>3. \A i, d : Entered(i, d) => Entered(i, d)'
    BY <2>1, <2>2 DEF Entered
  <2>4. \A i, e : Made(i, e) => Made(i, e)'
    BY <2>2, <2>3 DEF Made
  <2>5. unread = {} \/ (current.dir \in failed' /\ \A e \in unread : e.dir = current.dir)
    BY <1>1, <2>1 DEF DirEnd, DirFails, Fault, WalkInv, CurrentInv
  <2>6. \A i, e : Due(i, e)' => Due(i, e)
    BY <2>1, <2>2, <2>5 DEF Due
  <2> QED BY <2>1, <2>2, <2>3, <2>4, <2>6 DEF FoundInv
<1>2. CASE Signal
  BY <1>2 DEF Signal, walk, hist, FoundInv, ListedOf
<1>3. CASE UNCHANGED scanVars
  BY <1>3 DEF scanVars, walk, hist, FoundInv, ListedOf, Entered, Due, Made, Masked,
              IsDir, IsFile, HasRow
<1> QED BY <1>1, <1>2, <1>3, FoundPop, FoundRoot, FoundEntry DEF Next, WalkStep

(* A walk that ends by itself has a row for every wanted file that a root    *)
(* leads to by open directories: at the end nothing waits on the stack, so   *)
(* the open directories that were listed are closed under the entries, and   *)
(* what the root leads to is among them.                                     *)
THEOREM AllFound == Spec => []FilesFound
<1>1. Init => WalkInv /\ RestInv /\ PathInv /\ FoundInv
  BY WalkInit, RestInit, PathInit, FoundInit
<1>2. WalkInv /\ RestInv /\ PathInv /\ FoundInv /\ [Next]_scanVars =>
        WalkInv' /\ RestInv' /\ PathInv' /\ FoundInv'
  BY WalkInvStep, RestStep, PathStep, FoundStep
<1>3. WalkInv /\ RestInv /\ FoundInv => FilesFound
  <2> SUFFICES ASSUME WalkInv, RestInv, FoundInv, pc = "done", ~shutdown,
                      NEW i \in DOMAIN Roots, NEW e \in Entries,
                      e.dir \in Reachable(i), e.name \notin NamePats,
                      IsFile(e), Fits(e.to), e.to \notin failed
               PROVE  HasRow(e)
    BY DEF FilesFound, HasRow
  <2>1. i \in 1..root /\ unread = {} /\ stack = <<>>
    <3>1. DOMAIN Roots = 1..Len(Roots)
      BY RootsAssumption
    <3> QED BY <3>1 DEF FoundInv, RestInv, WalkInv, Typed
  <2>2. \A d : Entered(i, d) => d \in failed \cup ListedOf(i)
    <3>1. Len(stack) = 0 /\ 1..Len(stack) = {}
      BY <2>1
    <3> QED BY <3>1 DEF Entered
  <2> DEFINE S == ListedOf(i) \cap Open(i)
  <2>3. S \in SUBSET Open(i)
    OBVIOUS
  <2>4. Roots[i].dir \in Open(i) => Roots[i].dir \in S
    BY <2>1, <2>2 DEF FoundInv, Open
  <2>5. ASSUME NEW x \in Entries, x.dir \in S, Leads(x), x.to \in Open(i)
        PROVE  x.to \in S
    <3>1. Due(i, x)
      BY <2>1, <2>5 DEF Due, Open, Leads
    <3>2. Entered(i, x.to)
      BY <2>1, <2>5, <3>1 DEF FoundInv, Made, Leads
    <3> QED BY <2>2, <2>5, <3>2 DEF Open
  <2>6. ClosedFrom(i, S)
    BY <2>4, <2>5 DEF ClosedFrom
  <2>7. e.dir \in S
    BY <2>3, <2>6 DEF Reachable
  <2>8. Due(i, e)
    BY <2>1, <2>7 DEF Due, Open
  <2> QED BY <2>1, <2>8 DEF FoundInv, Made
<1> QED BY <1>1, <1>2, <1>3, PTL DEF Spec
=============================================================================
