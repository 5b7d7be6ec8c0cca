------------------------------ MODULE Deletion ------------------------------
(***************************************************************************)
(* The delete command (cli.py) and dedupe.py: processes that each read the *)
(* groups of one finished scan, pick the path to keep, ask as their mode   *)
(* demands and unlink the others.  Several may run on the same results,    *)
(* one after the other or at once, and other programs remove files too.    *)
(*                                                                         *)
(* The results do not change here: they are a constant.  Scans append to   *)
(* one report and save all of its lines, so a file that was written in     *)
(* between is in two groups, under its digest and mtime of either time.  A *)
(* path is what the keep strategies compare of it.  A run unlinks the      *)
(* files of a group in any order, of which the order of the results is     *)
(* one.                                                                    *)
(***************************************************************************)
EXTENDS Integers, FiniteSets

CONSTANTS
  Runs,        \* the delete commands
  NumGroups,   \* the results are the groups 1..NumGroups, in this order
  Paths,       \* the paths they name
  Copies,      \* Copies[g]: the paths of group g
  Size,        \* Size[g]: the size of each of its files
  MTime,       \* MTime[g][p]: the modification time that group g records of p
  PathLen,     \* PathLen[p]: the length of the path
  Depth,       \* Depth[p]: its number of components
  Rank,        \* Rank[p]: its place in lexicographic order
  Strategies,  \* the --keep values in use
  MinWastes,   \* the --min-waste values in use
  Removable    \* the paths that other programs may remove

Groups == 1..NumGroups
Modes == {"dry", "bulk", "stream", "interactive"}
AllStrategies == {"newest", "oldest", "first", "shortest", "longest"}

ASSUME RunsAssumption == IsFiniteSet(Runs) /\ Runs # {}
ASSUME ResultsAssumption ==
  /\ NumGroups \in Nat
  /\ IsFiniteSet(Paths)
  /\ Copies \in [Groups -> SUBSET Paths] /\ Size \in [Groups -> Nat]
  /\ \A g \in Groups : Cardinality(Copies[g]) >= 2
ASSUME PathAssumption ==
  /\ MTime \in [Groups -> [Paths -> Nat]] /\ PathLen \in [Paths -> Nat]
  /\ Depth \in [Paths -> Nat] /\ Rank \in [Paths -> Nat]
  /\ \A p, q \in Paths : Rank[p] = Rank[q] => p = q
ASSUME OptionAssumption ==
  /\ Strategies \subseteq AllStrategies /\ MinWastes \subseteq Nat
  /\ Removable \subseteq Paths

VARIABLES
  exists,   \* the paths that are still there
  removed,  \* history: paths that other programs removed
  pc,       \* what each run does
  opts,     \* the options of each run: mode, keep, min_waste
  at,       \* the group each run is at
  todo,     \* the paths of that group it has still to unlink
  tally     \* its counts: deleted, errors, skipped, freed

vars == <<exists, removed, pc, opts, at, todo, tally>>

Option == [mode : Modes, keep : AllStrategies, min_waste : Nat]
Zero   == [deleted |-> 0, errors |-> 0, skipped |-> 0, freed |-> 0]

Init ==
  /\ exists = Paths /\ removed = {}
  /\ pc = [r \in Runs |-> "off"]
  /\ opts \in [Runs -> [mode : Modes, keep : Strategies, min_waste : MinWastes]]
  /\ at = [r \in Runs |-> 1]
  /\ todo = [r \in Runs |-> {}]
  /\ tally = [r \in Runs |-> Zero]

-----------------------------------------------------------------------------
(* select_keep_path *)

\* The sort key as max or min reads it, the smallest first.
Key(g, s, p) ==
  CASE s = "newest"   -> <<-MTime[g][p], PathLen[p], -Rank[p]>>
    [] s = "oldest"   -> <<MTime[g][p], PathLen[p], Rank[p]>>
    [] s = "shortest" -> <<Depth[p], Rank[p], 0>>
    [] s = "longest"  -> <<-Depth[p], -Rank[p], 0>>
    [] OTHER          -> <<Rank[p], 0, 0>>

Before(k, l) == \E i \in 1..3 : k[i] < l[i] /\ \A j \in 1..(i - 1) : k[j] = l[j]

KeepPath(g, s) ==
  CHOOSE p \in Copies[g] : \A q \in Copies[g] \ {p} : Before(Key(g, s, p), Key(g, s, q))

\* Mutated form: the test for the kept path is missing.
AllCopies(g, s) == Copies[g]

Others(g, s) == Copies[g] \ {KeepPath(g, s)}

Waste(g) == Size[g] * (Cardinality(Copies[g]) - 1)

\* The groups that _group_source yields to r.
Wanted(r) == {g \in Groups : opts[r].min_waste = 0 \/ Waste(g) >= opts[r].min_waste}

-----------------------------------------------------------------------------
(* A run *)

\* Dry runs, and runs with nothing to delete, end with the plan.
Begin(r) ==
  /\ pc[r] = "off"
  /\ pc' = [pc EXCEPT ![r] = CASE opts[r].mode = "dry" \/ Wanted(r) = {} -> "end"
                               [] opts[r].mode = "bulk" -> "ask"
                               [] OTHER -> "group"]
  /\ UNCHANGED <<exists, removed, opts, at, todo, tally>>

\* The one prompt of delete_duplicates.
Answer(r) ==
  /\ pc[r] = "ask"
  /\ \E next \in {"group", "aborted"} : pc' = [pc EXCEPT ![r] = next]
  /\ UNCHANGED <<exists, removed, opts, at, todo, tally>>

\* The next group is filtered out, declined at its own prompt, or taken up.
NextGroup(r) ==
  /\ pc[r] = "group" /\ at[r] \in Groups
  /\ LET rest == Others(at[r], opts[r].keep)
     IN \/ /\ at[r] \notin Wanted(r)
           /\ at' = [at EXCEPT ![r] = @ + 1]
           /\ UNCHANGED <<pc, todo, tally>>
        \/ /\ at[r] \in Wanted(r) /\ opts[r].mode = "interactive"
           /\ tally' = [tally EXCEPT ![r].skipped = @ + Cardinality(rest)]
           /\ at' = [at EXCEPT ![r] = @ + 1]
           /\ UNCHANGED <<pc, todo>>
        \/ /\ at[r] \in Wanted(r)
           /\ todo' = [todo EXCEPT ![r] = rest]
           /\ pc' = [pc EXCEPT ![r] = "unlink"]
           /\ UNCHANGED <<at, tally>>
  /\ UNCHANGED <<exists, removed, opts>>

\* Mutated form: freed goes the wrong way.
UnlinkedMinus(r, p) ==
  /\ p \in exists /\ exists' = exists \ {p}
  /\ tally' = [tally EXCEPT ![r].deleted = @ + 1, ![r].freed = @ - Size[at[r]]]

\* The three outcomes of Path.unlink.
Unlinked(r, p) ==
  /\ p \in exists /\ exists' = exists \ {p}
  /\ tally' = [tally EXCEPT ![r].deleted = @ + 1, ![r].freed = @ + Size[at[r]]]

\* Mutated form: unlink(missing_ok=True).
AbsentIsDeleted(r, p) ==
  /\ p \notin exists /\ UNCHANGED exists
  /\ tally' = [tally EXCEPT ![r].deleted = @ + 1, ![r].freed = @ + Size[at[r]]]

Absent(r, p) ==
  /\ p \notin exists /\ UNCHANGED exists
  /\ tally' = [tally EXCEPT ![r].skipped = @ + 1]

\* Mutated form: any OSError is taken for an absent file.
ErrorIsSkipped(r, p) ==
  /\ UNCHANGED exists
  /\ tally' = [tally EXCEPT ![r].skipped = @ + 1]

Refused(r, p) ==
  /\ UNCHANGED exists
  /\ tally' = [tally EXCEPT ![r].errors = @ + 1]

Unlink(r, p) ==
  /\ pc[r] = "unlink" /\ p \in todo[r]
  /\ todo' = [todo EXCEPT ![r] = @ \ {p}]
  /\ Unlinked(r, p) \/ Absent(r, p) \/ Refused(r, p)
  /\ UNCHANGED <<removed, pc, opts, at>>

GroupDone(r) ==
  /\ pc[r] = "unlink" /\ todo[r] = {}
  /\ at' = [at EXCEPT ![r] = @ + 1]
  /\ pc' = [pc EXCEPT ![r] = "group"]
  /\ UNCHANGED <<exists, removed, opts, todo, tally>>

\* The summary and sys.exit: 0 when nothing was refused.
Finish(r) ==
  /\ pc[r] = "group" /\ at[r] \notin Groups
  /\ pc' = [pc EXCEPT ![r] = "end"]
  /\ UNCHANGED <<exists, removed, opts, at, todo, tally>>

\* Ctrl+C or a kill, at a prompt or between two unlinks.
Kill(r) ==
  /\ pc[r] \in {"ask", "group", "unlink"}
  /\ pc' = [pc EXCEPT ![r] = "killed"]
  /\ UNCHANGED <<exists, removed, opts, at, todo, tally>>

\* Another program removes p.
Remove(p) ==
  /\ p \in Removable \cap exists
  /\ exists' = exists \ {p} /\ removed' = removed \cup {p}
  /\ UNCHANGED <<pc, opts, at, todo, tally>>

Next ==
  \/ \E r \in Runs : \/ Begin(r) \/ Answer(r) \/ NextGroup(r)
                     \/ \E p \in todo[r] : Unlink(r, p)
                     \/ GroupDone(r) \/ Finish(r) \/ Kill(r)
  \/ \E p \in Removable : Remove(p)

Spec == Init /\ [][Next]_vars

-----------------------------------------------------------------------------
(* Properties *)

(* Every variable has the type its declaration gives. *)
TypeOK ==
  /\ exists \subseteq Paths /\ removed \subseteq Paths
  /\ pc \in [Runs -> {"off", "ask", "group", "unlink", "end", "aborted", "killed"}]
  /\ opts \in [Runs -> Option]
  /\ at \in [Runs -> Nat]
  /\ todo \in [Runs -> SUBSET Paths]
  /\ tally \in [Runs -> [deleted : Nat, errors : Nat, skipped : Nat, freed : Nat]]

\* The entries of a run's plan: the files to unlink of each group it takes up.
Plan(r) == UNION {{g} \X Others(g, opts[r].keep) : g \in Wanted(r)}

\* r has unlinked a file and may have unlinked p, as a copy of g beside the kept.
TookAs(r, g, p) ==
  /\ tally[r].deleted > 0 /\ g \in Wanted(r)
  /\ p \in Copies[g] /\ p # KeepPath(g, opts[r].keep)

(* A group loses its last copy only when the path that a run would keep of it  *)
(* was removed by another program, or unlinked by a run that kept another path *)
(* of the group, or unlinked as a copy of another group that names it as well: *)
(* whatever runs at once, is refused, declined or killed.  The last is the     *)
(* only way in which one run, or runs with one strategy, can do it (delete,    *)
(* delete_duplicates).                                                         *)
CopyKept ==
  \A g \in Groups : Copies[g] \cap exists = {} =>
    \A r \in Runs : LET kept == KeepPath(g, opts[r].keep) IN
      \/ kept \in removed
      \/ \E q \in Runs : TookAs(q, g, kept)
      \/ \E q \in Runs, h \in Groups \ {g} : TookAs(q, h, kept)

\* The sum of a function to Nat, counted unit by unit.
Units(f) == UNION {{x} \X (1..f[x]) : x \in DOMAIN f}
Total(f) == Cardinality(Units(f))

\* What the runs have unlinked, and nothing else has removed.
Unlinks == Paths \ (exists \cup removed)

\* The groups that the runs may have unlinked p for.
TakenFor(p) == {g \in Groups : \E r \in Runs : TookAs(r, g, p)}

(* Runs at work on the same groups count every file that is gone once between  *)
(* them, and the bytes that one group records of it, also when several groups  *)
(* name it; a run that is through has counted every entry of its plan once,    *)
(* a file of two groups twice.                                                 *)
Accounted ==
  /\ Total([r \in Runs |-> tally[r].deleted]) = Cardinality(Unlinks)
  /\ \E group \in [Unlinks -> Groups] :
       /\ \A p \in Unlinks : group[p] \in TakenFor(p)
       /\ Total([r \in Runs |-> tally[r].freed]) = Total([p \in Unlinks |-> Size[group[p]]])
  /\ \A r \in Runs : pc[r] = "end" /\ opts[r].mode # "dry" =>
       tally[r].deleted + tally[r].errors + tally[r].skipped = Cardinality(Plan(r))

(* Exit status 0 of an unattended or confirmed run means that nothing is left  *)
(* of the files it was to unlink.                                              *)
CleanExit ==
  \A r \in Runs :
    /\ pc[r] = "end" /\ opts[r].mode \in {"bulk", "stream"}
    /\ tally[r].errors = 0
    => \A e \in Plan(r) : e[2] \notin exists
=============================================================================
