---------------------------- MODULE DeletionProofs ----------------------------
(***************************************************************************)
(* What Deletion promises for any number of delete commands, any results,  *)
(* any options and any removals by other programs.                         *)
(***************************************************************************)
EXTENDS Deletion, FiniteSetTheorems, TLAPS

-----------------------------------------------------------------------------
(* The path a strategy keeps *)

Keys == Int \X Int \X Int

\* Comparing keys is comparing tuples in Python.
LEMMA BeforeCases ==
  ASSUME NEW k \in Keys, NEW l \in Keys
  PROVE  Before(k, l) <=> \/ k[1] < l[1]
                          \/ k[1] = l[1] /\ k[2] < l[2]
                          \/ k[1] = l[1] /\ k[2] = l[2] /\ k[3] < l[3]
<1>1. 1..3 = {1, 2, 3} /\ 1..(1 - 1) = {} /\ 1..(2 - 1) = {1} /\ 1..(3 - 1) = {1, 2}
  OBVIOUS
<1>2. Before(k, l) <=> \E i \in {1, 2, 3} : k[i] < l[i] /\ \A j \in 1..(i - 1) : k[j] = l[j]
  BY <1>1 DEF Before
<1> QED BY <1>1, <1>2

LEMMA KeyType ==
  ASSUME NEW g \in Groups, NEW s, NEW p \in Paths
  PROVE  Key(g, s, p) \in Keys
<1>1. /\ MTime[g][p] \in Int /\ PathLen[p] \in Int /\ Depth[p] \in Int /\ Rank[p] \in Int
      /\ -MTime[g][p] \in Int /\ -Rank[p] \in Int /\ -Depth[p] \in Int
  BY PathAssumption
<1> QED BY <1>1 DEF Key, Keys

\* No two paths tie: every key ends in the place of the path.
LEMMA KeyOrder ==
  ASSUME NEW g \in Groups, NEW s, NEW p \in Paths, NEW q \in Paths, NEW t \in Paths
  PROVE  /\ p # q => Before(Key(g, s, p), Key(g, s, q)) \/ Before(Key(g, s, q), Key(g, s, p))
         /\ Before(Key(g, s, p), Key(g, s, q)) /\ Before(Key(g, s, q), Key(g, s, t))
              => Before(Key(g, s, p), Key(g, s, t))
<1>1. Key(g, s, p) \in Keys /\ Key(g, s, q) \in Keys /\ Key(g, s, t) \in Keys
  BY KeyType
<1>2. p # q => Key(g, s, p) # Key(g, s, q)
  <2> SUFFICES ASSUME p # q PROVE Key(g, s, p) # Key(g, s, q)
    OBVIOUS
  <2>1. Rank[p] # Rank[q] /\ -Rank[p] # -Rank[q]
    <3>1. Rank[p] # Rank[q] /\ Rank[p] \in Nat /\ Rank[q] \in Nat
      BY PathAssumption
    <3> QED BY <3>1
  <2>2. CASE s \in {"newest", "oldest"}
    <3>1. Key(g, s, p)[3] \in {Rank[p], -Rank[p]} /\ Key(g, s, p)[3] # Key(g, s, q)[3]
      BY <2>1, <2>2 DEF Key
    <3> QED BY <3>1
  <2>3. CASE s \in {"shortest", "longest"}
    <3>1. Key(g, s, p)[2] # Key(g, s, q)[2]
      BY <2>1, <2>3 DEF Key
    <3> QED BY <3>1
  <2>4. CASE s \notin {"newest", "oldest", "shortest", "longest"}
    <3>1. Key(g, s, p)[1] # Key(g, s, q)[1]
      BY <2>1, <2>4 DEF Key
    <3> QED BY <3>1
  <2> QED BY <2>2, <2>3, <2>4
<1>3. \A k, l \in Keys : k # l => k[1] # l[1] \/ k[2] # l[2] \/ k[3] # l[3]
  BY DEF Keys
<1>4. \A k \in Keys : k[1] \in Int /\ k[2] \in Int /\ k[3] \in Int
  BY DEF Keys
<1>5. ASSUME p # q PROVE Before(Key(g, s, p), Key(g, s, q)) \/ Before(Key(g, s, q), Key(g, s, p))
  <2> DEFINE k == Key(g, s, p)
             l == Key(g, s, q)
  <2>1. k[1] # l[1] \/ k[2] # l[2] \/ k[3] # l[3]
    BY <1>1, <1>2, <1>3, <1>5
  <2> HIDE DEF k, l
  <2>2. k \in Keys /\ l \in Keys
    BY <1>1 DEF k, l
  <2>3. Before(k, l) \/ Before(l, k)
    BY <1>4, <2>1, <2>2, BeforeCases
  <2> QED BY <2>3 DEF k, l
<1>6. \A k, l, m \in Keys : Before(k, l) /\ Before(l, m) => Before(k, m)
  BY <1>4, BeforeCases
<1> QED BY <1>1, <1>5, <1>6

\* Every finite set of paths has a first one: a smallest set without one would
\* have a smaller set without one.
LEMMA FirstPath ==
  ASSUME NEW g \in Groups, NEW s, NEW S \in SUBSET Paths, S # {}
  PROVE  \E p \in S : \A q \in S \ {p} : Before(Key(g, s, p), Key(g, s, q))
<1> DEFINE First(T) == \E p \in T : \A q \in T \ {p} : Before(Key(g, s, p), Key(g, s, q))
           Bad == {T \in FiniteSubsetsOf(Paths) : T # {} /\ ~First(T)}
<1>1. FiniteSubsetsOf(Paths) = SUBSET Paths
  BY FS_FiniteSubsetsOfFinite, ResultsAssumption
<1>2. SUFFICES ASSUME ~First(S) PROVE FALSE
  OBVIOUS
<1>3. Bad \subseteq FiniteSubsetsOf(Paths) /\ S \in Bad
  BY <1>1, <1>2
<1>4. PICK T \in Bad : \A U \in Bad : <<U, T>> \notin StrictSubsetOrdering(Paths)
  <2> HIDE DEF Bad
  <2> QED BY <1>3, FS_StrictSubsetOrderingWellFounded, WFMin
<1>5. T \subseteq Paths /\ T # {} /\ ~First(T)
  BY <1>1
<1>6. PICK x \in T : TRUE
  BY <1>5
<1>7. T \ {x} \notin Bad
  <2>1. <<T \ {x}, T>> \in StrictSubsetOrdering(Paths)
    BY <1>5, <1>6 DEF StrictSubsetOrdering
  <2> QED BY <1>4, <2>1
<1>8. T \ {x} # {}
  BY <1>5, <1>6
<1>9. First(T \ {x})
  BY <1>1, <1>5, <1>7, <1>8
<1>10. PICK m \in T \ {x} : \A q \in (T \ {x}) \ {m} : Before(Key(g, s, m), Key(g, s, q))
  BY <1>9
<1>11. m \in Paths /\ x \in Paths /\ m # x
  BY <1>5
<1>12. CASE Before(Key(g, s, m), Key(g, s, x))
  BY <1>5, <1>10, <1>12
<1>13. CASE Before(Key(g, s, x), Key(g, s, m))
  <2>1. \A q \in T \ {x} : Before(Key(g, s, x), Key(g, s, q))
    BY <1>5, <1>10, <1>11, <1>13, KeyOrder
  <2> QED BY <1>5, <1>6, <2>1
<1> QED BY <1>11, <1>12, <1>13, KeyOrder

\* A group keeps one of its own copies under every strategy.
LEMMA KeepsACopy ==
  ASSUME NEW g \in Groups, NEW s
  PROVE  KeepPath(g, s) \in Copies[g]
<1>1. Copies[g] \subseteq Paths /\ Copies[g] # {}
  <2>1. Copies[g] \in SUBSET Paths /\ Cardinality(Copies[g]) >= 2
    BY ResultsAssumption
  <2>2. Cardinality({}) = 0
    BY FS_EmptySet
  <2> QED BY <2>1, <2>2
<1> QED BY <1>1, FirstPath DEF KeepPath

-----------------------------------------------------------------------------
(* Sums as sets of units *)

LEMMA UnitsFinite ==
  ASSUME NEW S, IsFiniteSet(S), NEW f \in [S -> Nat]
  PROVE  IsFiniteSet(Units(f)) /\ Total(f) \in Nat
<1> DEFINE piece == [x \in S |-> {x} \X (1..f[x])]
           pieces == {{x} \X (1..f[x]) : x \in S}
<1>1. IsFiniteSet(pieces)
  <2>1. piece \in Surjection(S, pieces)
    BY DEF Surjection
  <2> QED BY <2>1, FS_Surjection
<1>2. ASSUME NEW x \in S PROVE IsFiniteSet({x} \X (1..f[x]))
  <2>1. IsFiniteSet({x})
    BY FS_Singleton
  <2>2. IsFiniteSet(1..f[x])
    BY FS_Interval
  <2> QED BY <2>1, <2>2, FS_Product
<1>3. Units(f) = UNION pieces
  BY DEF Units
<1>4. IsFiniteSet(UNION pieces)
  <2>1. \A T \in pieces : IsFiniteSet(T)
    BY <1>2
  <2> HIDE DEF pieces
  <2> QED BY <1>1, <2>1, FS_UNION
<1> QED BY <1>3, <1>4, FS_CardinalityType DEF Total

LEMMA DisjointUnion ==
  ASSUME NEW A, IsFiniteSet(A), NEW B, IsFiniteSet(B), A \cap B = {}
  PROVE  IsFiniteSet(A \cup B) /\ Cardinality(A \cup B) = Cardinality(A) + Cardinality(B)
<1>1. Cardinality(A \cap B) = 0
  BY FS_EmptySet
<1>2. Cardinality(A) \in Nat /\ Cardinality(B) \in Nat
  BY FS_CardinalityType
<1>3. /\ IsFiniteSet(A \cup B)
      /\ Cardinality(A \cup B) = Cardinality(A) + Cardinality(B) - Cardinality(A \cap B)
  BY FS_Union
<1> QED BY <1>1, <1>2, <1>3

LEMMA PieceSize ==
  ASSUME NEW x, NEW I, IsFiniteSet(I)
  PROVE  IsFiniteSet({x} \X I) /\ Cardinality({x} \X I) = Cardinality(I)
<1>1. IsFiniteSet({x}) /\ Cardinality({x}) = 1
  BY FS_Singleton
<1>2. IsFiniteSet({x} \X I) /\ Cardinality({x} \X I) = 1 * Cardinality(I)
  BY <1>1, FS_Product
<1>3. Cardinality(I) \in Nat
  BY FS_CardinalityType
<1> QED BY <1>2, <1>3

\* The k numbers after a.
LEMMA IntervalSize ==
  ASSUME NEW a \in Nat, NEW k \in Nat
  PROVE  IsFiniteSet((a + 1)..(a + k)) /\ Cardinality((a + 1)..(a + k)) = k
  BY FS_Interval

\* A count that goes up by k makes the sum go up by k.
LEMMA TotalGrows ==
  ASSUME NEW S, IsFiniteSet(S), NEW f \in [S -> Nat], NEW x \in S, NEW k \in Nat
  PROVE  Total([f EXCEPT ![x] = f[x] + k]) = Total(f) + k
<1> DEFINE g == [f EXCEPT ![x] = f[x] + k]
<1>1. Units(g) = Units(f) \cup ({x} \X ((f[x] + 1)..(f[x] + k)))
  <2>1. f[x] \in Nat /\ DOMAIN f = S /\ DOMAIN g = S
    OBVIOUS
  <2>2. 1..(f[x] + k) = (1..f[x]) \cup ((f[x] + 1)..(f[x] + k))
    BY <2>1
  <2>3. g[x] = f[x] + k /\ \A y \in S \ {x} : g[y] = f[y]
    OBVIOUS
  <2> HIDE DEF g
  <2>4. ASSUME NEW u PROVE u \in Units(g) <=> \E y \in S : u \in {y} \X (1..g[y])
    BY <2>1 DEF Units
  <2>5. ASSUME NEW u PROVE u \in Units(f) <=> \E y \in S : u \in {y} \X (1..f[y])
    BY <2>1 DEF Units
  <2>6. {x} \X (1..g[x]) = ({x} \X (1..f[x])) \cup ({x} \X ((f[x] + 1)..(f[x] + k)))
    BY <2>2, <2>3
  <2>7. ASSUME NEW u
        PROVE  u \in Units(g) <=> u \in Units(f) \cup ({x} \X ((f[x] + 1)..(f[x] + k)))
    <3>1. u \in Units(g) <=> \/ u \in {x} \X (1..g[x])
                             \/ \E y \in S \ {x} : u \in {y} \X (1..f[y])
      BY <2>3, <2>4, Zenon
    <3>2. u \in Units(f) <=> \/ u \in {x} \X (1..f[x])
                             \/ \E y \in S \ {x} : u \in {y} \X (1..f[y])
      BY <2>5, Zenon
    <3> QED BY <2>6, <3>1, <3>2, Zenon
  <2> QED BY <2>7
<1> DEFINE B == {x} \X ((f[x] + 1)..(f[x] + k))
<1>2. Units(f) \cap B = {}
  BY DEF Units
<1>3. f[x] \in Nat
  OBVIOUS
<1>4. IsFiniteSet(B) /\ Cardinality(B) = k
  <2> DEFINE I == (f[x] + 1)..(f[x] + k)
  <2>1. IsFiniteSet(I) /\ Cardinality(I) = k
    BY <1>3, IntervalSize
  <2>2. IsFiniteSet({x} \X I) /\ Cardinality({x} \X I) = k
    <3> HIDE DEF I
    <3> QED BY <2>1, PieceSize
  <2> QED BY <2>2
<1>5. IsFiniteSet(Units(f)) /\ Units(g) = Units(f) \cup B
  BY <1>1, UnitsFinite
<1>6. Cardinality(Units(g)) = Cardinality(Units(f)) + k
  <2> HIDE DEF g, B
  <2> QED BY <1>2, <1>4, <1>5, DisjointUnion
<1> QED BY <1>6 DEF Total

\* One more element adds its value to the sum.
LEMMA TotalExtends ==
  ASSUME NEW S, IsFiniteSet(S), NEW f \in [S -> Nat], NEW x, x \notin S,
         NEW g \in [S \cup {x} -> Nat], \A y \in S : g[y] = f[y]
  PROVE  Total(g) = Total(f) + g[x]
<1>1. Units(g) = Units(f) \cup ({x} \X (1..g[x]))
  <2>1. ASSUME NEW u PROVE u \in Units(g) <=> \E y \in S \cup {x} : u \in {y} \X (1..g[y])
    BY DEF Units
  <2>2. ASSUME NEW u PROVE u \in Units(f) <=> \E y \in S : u \in {y} \X (1..f[y])
    BY DEF Units
  <2>3. ASSUME NEW u
        PROVE  u \in Units(g) <=> u \in Units(f) \cup ({x} \X (1..g[x]))
    <3>1. u \in Units(g) <=> \/ u \in {x} \X (1..g[x])
                             \/ \E y \in S : u \in {y} \X (1..f[y])
      BY <2>1, Zenon
    <3> QED BY <2>2, <3>1, Zenon
  <2>4. Units(g) = Units(f) \cup ({x} \X (1..g[x]))
    BY <2>3
  <2> QED BY <2>4
<1> DEFINE B == {x} \X (1..g[x])
<1>2. Units(f) \cap B = {}
  BY DEF Units
<1>3. IsFiniteSet(B) /\ Cardinality(B) = g[x]
  <2> DEFINE I == 1..g[x]
  <2>1. g[x] \in Nat
    OBVIOUS
  <2>2. IsFiniteSet(I) /\ Cardinality(I) = g[x]
    BY <2>1, FS_Interval
  <2>3. IsFiniteSet({x} \X I) /\ Cardinality({x} \X I) = g[x]
    <3> HIDE DEF I
    <3> QED BY <2>2, PieceSize
  <2> QED BY <2>3
<1>4. IsFiniteSet(Units(f)) /\ Units(g) = Units(f) \cup B
  BY <1>1, UnitsFinite
<1>5. Cardinality(Units(g)) = Cardinality(Units(f)) + g[x]
  <2> HIDE DEF B
  <2> QED BY <1>2, <1>3, <1>4, DisjointUnion
<1> QED BY <1>5 DEF Total

-----------------------------------------------------------------------------
(* The invariant *)

(***************************************************************************)
(* The entries of its plan that a run has come past: those of the wanted   *)
(* groups before the one it is at, and of that one what it no longer has   *)
(* to unlink.                                                              *)
(***************************************************************************)
Entries == Groups \X Paths
PastOf(W, s, i) == UNION {{g} \X Others(g, s) : g \in {h \in W : h < i}}
Past(r) == PastOf(Wanted(r), opts[r].keep, at[r])
Current(r) ==
  IF pc[r] = "unlink" THEN {at[r]} \X (Others(at[r], opts[r].keep) \ todo[r]) ELSE {}
Handled(r) == Past(r) \cup Current(r)

\* Where a run is in the results.
PlaceInv ==
  \A r \in Runs :
    /\ at[r] \in 1..(NumGroups + 1)
    /\ pc[r] = "unlink" => at[r] \in Wanted(r) /\ todo[r] \subseteq Others(at[r], opts[r].keep)
    /\ pc[r] \in {"off", "ask"} => at[r] = 1
    /\ pc[r] = "end" /\ opts[r].mode # "dry" => \A g \in Wanted(r) : g < at[r]

\* The files of a set of entries are gone.
AllGone(D) == \A e \in D : e[2] \notin exists

\* Every entry a run has come past is counted once; a file not refused is gone.
CountInv ==
  \A r \in Runs : pc[r] # "killed" =>
    /\ tally[r].deleted + tally[r].errors + tally[r].skipped = Cardinality(Handled(r))
    /\ tally[r].errors = 0 /\ opts[r].mode \in {"bulk", "stream"} => AllGone(Handled(r))

Deleted == [r \in Runs |-> tally[r].deleted]
Freed   == [r \in Runs |-> tally[r].freed]
SizesOf(S, group) == [p \in S |-> Size[group[p]]]

\* group tells for every file that is gone by a run what it was taken for.
Explains(group) ==
  /\ \A p \in Unlinks : group[p] \in TakenFor(p)
  /\ Total(Freed) = Total(SizesOf(Unlinks, group))

SumInv ==
  /\ exists \cap removed = {}
  /\ Total(Deleted) = Cardinality(Unlinks)
  /\ \E group \in [Unlinks -> Groups] : Explains(group)

DeletionInv == TypeOK /\ PlaceInv /\ CountInv /\ SumInv

-----------------------------------------------------------------------------
(* Helpers *)

LEMMA OthersType ==
  ASSUME NEW g \in Groups, NEW s
  PROVE  /\ Others(g, s) \subseteq Copies[g] /\ Others(g, s) \subseteq Paths
         /\ IsFiniteSet(Others(g, s)) /\ Cardinality(Others(g, s)) \in Nat
<1>1. Others(g, s) \subseteq Copies[g] /\ Others(g, s) \in SUBSET Paths
  BY ResultsAssumption DEF Others
<1> QED BY <1>1, ResultsAssumption, FS_Subset, FS_CardinalityType

\* Coming past one more group.
LEMMA PastGrows ==
  ASSUME NEW W \in SUBSET Groups, NEW s, NEW i \in Groups
  PROVE  /\ PastOf(W, s, i) \subseteq Entries
         /\ i \notin W => PastOf(W, s, i + 1) = PastOf(W, s, i)
         /\ i \in W => PastOf(W, s, i + 1) = PastOf(W, s, i) \cup ({i} \X Others(i, s))
         /\ PastOf(W, s, i) \cap ({i} \X Paths) = {}
<1>1. \A h \in W : h < i + 1 <=> h < i \/ h = i
  BY DEF Groups
<1>2. \A h \in W : ~(i < i) /\ Others(h, s) \subseteq Paths
  BY OthersType DEF Groups
<1>3. PastOf(W, s, i) \cap ({i} \X Paths) = {}
  <2> SUFFICES ASSUME NEW e \in {i} \X Paths, NEW h \in W, h < i, e \in {h} \X Others(h, s)
               PROVE  FALSE
    BY DEF PastOf
  <2>1. e[1] = i /\ e[1] = h
    OBVIOUS
  <2> QED BY <1>2, <2>1
<1>4. i \notin W => PastOf(W, s, i + 1) = PastOf(W, s, i)
  <2> SUFFICES ASSUME i \notin W PROVE {h \in W : h < i + 1} = {h \in W : h < i}
    BY DEF PastOf
  <2> QED BY <1>1
<1>5. i \in W => PastOf(W, s, i + 1) = PastOf(W, s, i) \cup ({i} \X Others(i, s))
  <2> SUFFICES ASSUME i \in W
               PROVE  PastOf(W, s, i + 1) = PastOf(W, s, i) \cup ({i} \X Others(i, s))
    OBVIOUS
  <2>1. {h \in W : h < i + 1} = {h \in W : h < i} \cup {i}
    BY <1>1
  <2> QED BY <2>1 DEF PastOf
<1>6. PastOf(W, s, i) \subseteq Entries
  BY <1>2 DEF PastOf, Entries
<1> QED BY <1>3, <1>4, <1>5, <1>6

LEMMA EntriesFinite == IsFiniteSet(Entries)
<1>1. IsFiniteSet(Groups) /\ IsFiniteSet(Paths)
  BY ResultsAssumption, FS_Interval DEF Groups
<1> QED BY <1>1, FS_Product DEF Entries

LEMMA SameOptions ==
  ASSUME [Next]_vars
  PROVE  /\ opts' = opts
         /\ \A r \in Runs : Wanted(r)' = Wanted(r) /\ Plan(r)' = Plan(r)
<1>1. opts' = opts
  BY DEF Next, Begin, Answer, NextGroup, Unlink, GroupDone, Finish, Kill, Remove, vars
<1> QED BY <1>1 DEF Wanted, Plan

-----------------------------------------------------------------------------
(* Types and places *)

LEMMA PlaceInit == ASSUME Init PROVE TypeOK /\ PlaceInv
<1>1. NumGroups \in Nat /\ 1 \in 1..(NumGroups + 1)
  BY ResultsAssumption
<1>2. TypeOK
  BY OptionAssumption DEF Init, TypeOK, Zero, Option
<1> QED BY <1>1, <1>2 DEF Init, PlaceInv

LEMMA PlaceStep == ASSUME TypeOK, PlaceInv, [Next]_vars PROVE TypeOK' /\ PlaceInv'
<1> USE ResultsAssumption
<1>1. opts' = opts /\ \A r \in Runs : Wanted(r)' = Wanted(r) /\ Wanted(r) \subseteq Groups
  BY SameOptions DEF Wanted
<1>2. \A r \in Runs : at[r] \in Nat /\ at[r] + 1 \in Nat
  BY DEF TypeOK
<1>3. ASSUME NEW r \in Runs, Begin(r) \/ Answer(r) \/ Finish(r) \/ Kill(r)
      PROVE  TypeOK' /\ PlaceInv'
  <2>1. UNCHANGED <<exists, removed, opts, at, todo, tally>>
    BY <1>3 DEF Begin, Answer, Finish, Kill
  <2>2. /\ pc'[r] \in {"ask", "group", "end", "aborted", "killed"}
        /\ pc' = [pc EXCEPT ![r] = pc'[r]]
    BY <1>3 DEF TypeOK, Begin, Answer, Finish, Kill
  <2>3. TypeOK'
    BY <2>1, <2>2 DEF TypeOK
  <2>4. pc'[r] = "ask" => pc[r] = "off"
    BY <1>3 DEF TypeOK, Begin, Answer, Finish, Kill
  <2>5. pc'[r] = "end" /\ opts[r].mode # "dry" => \A g \in Wanted(r) : g < at[r]
    <3>1. CASE Begin(r)
      BY <3>1 DEF Begin, TypeOK
    <3>2. CASE Finish(r)
      <4>1. at[r] \in 1..(NumGroups + 1) /\ at[r] \notin Groups
        BY <3>2 DEF Finish, PlaceInv
      <4>2. at[r] = NumGroups + 1
        BY <4>1 DEF Groups
      <4> QED BY <1>1, <4>2 DEF Groups
    <3>3. CASE Answer(r) \/ Kill(r)
      BY <3>3 DEF Answer, Kill, TypeOK
    <3> QED BY <1>3, <3>1, <3>2, <3>3
  <2> QED BY <1>1, <2>1, <2>2, <2>3, <2>4, <2>5 DEF PlaceInv, TypeOK
<1>4. ASSUME NEW r \in Runs, NextGroup(r) PROVE TypeOK' /\ PlaceInv'
  <2> DEFINE rest == Others(at[r], opts[r].keep)
  <2>1. at[r] \in Groups /\ rest \subseteq Paths /\ Cardinality(rest) \in Nat
        /\ pc[r] = "group" /\ UNCHANGED <<exists, removed, opts>>
    BY <1>4, OthersType DEF NextGroup
  <2> HIDE DEF rest
  <2>2. at[r] + 1 \in 1..(NumGroups + 1)
    BY <2>1 DEF Groups
  <2>3. CASE at[r] \notin Wanted(r) /\ at' = [at EXCEPT ![r] = at[r] + 1] /\ UNCHANGED <<pc, todo, tally>>
    BY <1>1, <1>2, <2>1, <2>2, <2>3 DEF TypeOK, PlaceInv
  <2>4. CASE /\ tally' = [tally EXCEPT ![r].skipped = tally[r].skipped + Cardinality(rest)]
             /\ at' = [at EXCEPT ![r] = at[r] + 1] /\ UNCHANGED <<pc, todo>>
    <3>1. tally' \in [Runs -> [deleted : Nat, errors : Nat, skipped : Nat, freed : Nat]]
      BY <2>1, <2>4 DEF TypeOK
    <3> QED BY <1>1, <1>2, <2>1, <2>2, <2>4, <3>1 DEF TypeOK, PlaceInv
  <2>5. CASE /\ at[r] \in Wanted(r) /\ todo' = [todo EXCEPT ![r] = rest]
             /\ pc' = [pc EXCEPT ![r] = "unlink"] /\ UNCHANGED <<at, tally>>
    <3>1. TypeOK'
      BY <2>1, <2>5 DEF TypeOK
    <3> QED BY <1>1, <2>1, <2>5, <3>1 DEF TypeOK, PlaceInv, rest
  <2> QED BY <1>4, <2>3, <2>4, <2>5 DEF NextGroup, rest
<1>5. ASSUME NEW r \in Runs, NEW p \in todo[r], Unlink(r, p) PROVE TypeOK' /\ PlaceInv'
  <2>1. /\ todo' = [todo EXCEPT ![r] = todo[r] \ {p}] /\ pc[r] = "unlink"
        /\ UNCHANGED <<removed, pc, opts, at>> /\ exists' \subseteq exists
    BY <1>5 DEF Unlink, Unlinked, Absent, Refused
  <2>2. Size[at[r]] \in Nat
    BY <1>1, <2>1 DEF PlaceInv
  <2>3. tally' \in [Runs -> [deleted : Nat, errors : Nat, skipped : Nat, freed : Nat]]
    <3>1. CASE Unlinked(r, p)
      <4> DEFINE Tally == [deleted : Nat, errors : Nat, skipped : Nat, freed : Nat]
      <4>1. tally[r] \in Tally
        BY DEF TypeOK
      <4>2. [tally[r] EXCEPT !.deleted = @ + 1, !.freed = @ + Size[at[r]]] \in Tally
        <5>1. tally[r].deleted + 1 \in Nat /\ tally[r].freed + Size[at[r]] \in Nat
          BY <2>2, <4>1
        <5> QED BY <4>1, <5>1
      <4>3. tally' = [tally EXCEPT ![r] =
                        [tally[r] EXCEPT !.deleted = @ + 1, !.freed = @ + Size[at[r]]]]
        BY <3>1, <4>1 DEF TypeOK, Unlinked
      <4> HIDE DEF Tally
      <4>4. tally \in [Runs -> Tally]
        BY DEF TypeOK, Tally
      <4>5. tally' \in [Runs -> Tally]
        BY <4>2, <4>3, <4>4
      <4> QED BY <4>5 DEF Tally
    <3>2. CASE Absent(r, p)
      BY <3>2 DEF TypeOK, Absent
    <3>3. CASE Refused(r, p)
      BY <3>3 DEF TypeOK, Refused
    <3> QED BY <1>5, <3>1, <3>2, <3>3 DEF Unlink
  <2> QED BY <1>1, <2>1, <2>3 DEF TypeOK, PlaceInv
<1>6. ASSUME NEW r \in Runs, GroupDone(r) PROVE TypeOK' /\ PlaceInv'
  <2>1. at[r] \in Groups
    BY <1>1, <1>6 DEF GroupDone, PlaceInv
  <2>2. at[r] + 1 \in 1..(NumGroups + 1)
    BY <2>1 DEF Groups
  <2> QED BY <1>1, <1>2, <1>6, <2>2 DEF GroupDone, TypeOK, PlaceInv
<1>7. ASSUME NEW p \in Removable, Remove(p) PROVE TypeOK' /\ PlaceInv'
  BY <1>1, <1>7, OptionAssumption DEF Remove, TypeOK, PlaceInv
<1>8. CASE UNCHANGED vars
  BY <1>1, <1>8 DEF vars, TypeOK, PlaceInv
<1> QED BY <1>3, <1>4, <1>5, <1>6, <1>7, <1>8 DEF Next

-----------------------------------------------------------------------------
(* Counts *)

RunCount(r) == tally[r].deleted + tally[r].errors + tally[r].skipped

Unattended(r) == opts[r].mode \in {"bulk", "stream"}

\* A step that leaves the place and the counts of a run alone.
LEMMA CountKept ==
  ASSUME TypeOK, CountInv, [Next]_vars, NEW r \in Runs, exists' \subseteq exists,
         UNCHANGED <<at[r], todo[r], tally[r], pc[r]>>
  PROVE  pc'[r] # "killed" =>
           /\ RunCount(r)' = Cardinality(Handled(r)')
           /\ tally[r].errors' = 0 /\ Unattended(r)' => AllGone(Handled(r))'
<1>1. opts' = opts /\ Wanted(r)' = Wanted(r)
  BY SameOptions
<1>2. Handled(r)' = Handled(r)
  BY <1>1 DEF Handled, Past, Current
<1>3. pc'[r] # "killed" => pc[r] # "killed"
  OBVIOUS
<1> QED BY <1>1, <1>2, <1>3 DEF CountInv, RunCount, Unattended, AllGone

\* A step by which r comes past the entries of D, and counts them.
LEMMA CountGrows ==
  ASSUME TypeOK, CountInv, [Next]_vars, NEW r \in Runs, exists' \subseteq exists,
         pc[r] # "killed",
         NEW D \in SUBSET Entries, Handled(r)' = Handled(r) \cup D, Handled(r) \cap D = {},
         Handled(r) \subseteq Entries, RunCount(r)' = RunCount(r) + Cardinality(D),
         tally[r].errors' = 0 /\ Unattended(r) =>
           tally[r].errors = 0 /\ \A e \in D : e[2] \notin exists'
  PROVE  /\ RunCount(r)' = Cardinality(Handled(r)')
         /\ tally[r].errors' = 0 /\ Unattended(r)' => AllGone(Handled(r))'
<1>1. IsFiniteSet(D) /\ IsFiniteSet(Handled(r))
  BY EntriesFinite, FS_Subset
<1>2. Cardinality(Handled(r)') = Cardinality(Handled(r)) + Cardinality(D)
  BY <1>1, DisjointUnion
<1>3. Unattended(r)' <=> Unattended(r)
  BY SameOptions DEF Unattended
<1> QED BY <1>2, <1>3 DEF CountInv, RunCount, Unattended, AllGone

LEMMA HandledType ==
  ASSUME TypeOK, PlaceInv, NEW r \in Runs
  PROVE  Handled(r) \subseteq Entries /\ Wanted(r) \in SUBSET Groups
<1>1. Wanted(r) \in SUBSET Groups
  BY DEF Wanted
<1>2. Past(r) \subseteq Entries
  BY <1>1, OthersType DEF Past, PastOf, Entries
<1>3. Current(r) \subseteq Entries
  BY <1>1, OthersType DEF PlaceInv, Current, Entries
<1> QED BY <1>1, <1>2, <1>3 DEF Handled

LEMMA CountStep ==
  ASSUME TypeOK, PlaceInv, CountInv, [Next]_vars
  PROVE  CountInv'
<1> SUFFICES ASSUME NEW r \in Runs, pc'[r] # "killed"
             PROVE  /\ RunCount(r)' = Cardinality(Handled(r)')
                    /\ tally[r].errors' = 0 /\ Unattended(r)' => AllGone(Handled(r))'
  BY DEF CountInv, RunCount, Unattended, AllGone
<1>1. exists' \subseteq exists
  BY DEF Next, Begin, Answer, NextGroup, Unlink, Unlinked, Absent, Refused, GroupDone, Finish,
         Kill, Remove, vars
<1>2. TypeOK' /\ PlaceInv' /\ opts' = opts /\ Wanted(r)' = Wanted(r)
  BY PlaceStep, SameOptions
<1>3. Handled(r) \subseteq Entries /\ Wanted(r) \in SUBSET Groups
  BY HandledType
<1>4. CASE UNCHANGED <<at[r], todo[r], tally[r], pc[r]>>
  BY <1>1, <1>4, CountKept
<1>5. CASE Begin(r) \/ Answer(r) \/ Finish(r) \/ Kill(r)
  <2>1. UNCHANGED <<at[r], todo[r], tally[r]>>
    BY <1>5 DEF Begin, Answer, Finish, Kill
  <2>2. pc[r] # "unlink" /\ pc'[r] # "unlink" /\ pc[r] # "killed"
    BY <1>5, pc'[r] # "killed" DEF Begin, Answer, Finish, Kill, TypeOK
  <2>3. Handled(r)' = Handled(r)
    BY <1>2, <2>1, <2>2 DEF Handled, Past, Current
  <2> QED BY <1>1, <1>2, <2>1, <2>2, <2>3 DEF CountInv, RunCount, Unattended, AllGone
<1>6. CASE NextGroup(r)
  <2> DEFINE rest == Others(at[r], opts[r].keep)
  <2>1. at[r] \in Groups /\ pc[r] = "group" /\ UNCHANGED exists
    BY <1>6 DEF NextGroup
  <2>2. Handled(r) = PastOf(Wanted(r), opts[r].keep, at[r])
    BY <2>1 DEF Handled, Past, Current
  <2>3. CASE /\ at[r] \notin Wanted(r) /\ at' = [at EXCEPT ![r] = at[r] + 1]
             /\ UNCHANGED <<pc, todo, tally>>
    <3>1. at'[r] = at[r] + 1
      BY <2>3 DEF TypeOK, PlaceInv
    <3>2. Handled(r)' = Handled(r)
      BY <1>2, <1>3, <2>1, <2>2, <2>3, <3>1, PastGrows DEF Handled, Past, Current
    <3> QED BY <1>1, <1>2, <2>1, <2>3, <3>2 DEF CountInv, RunCount, Unattended, AllGone
  <2>4. CASE /\ at[r] \in Wanted(r) /\ opts[r].mode = "interactive"
             /\ tally' = [tally EXCEPT ![r].skipped = tally[r].skipped + Cardinality(rest)]
             /\ at' = [at EXCEPT ![r] = at[r] + 1] /\ UNCHANGED <<pc, todo>>
    <3>1. at'[r] = at[r] + 1
      BY <2>4 DEF TypeOK
    <3> DEFINE D == {at[r]} \X rest
    <3>2. Handled(r)' = Handled(r) \cup D /\ Handled(r) \cap D = {}
      <4>1. rest \subseteq Paths
        BY <2>1, OthersType
      <4>2. D \subseteq {at[r]} \X Paths
        BY <4>1
      <4>3. Handled(r)' = PastOf(Wanted(r), opts[r].keep, at[r] + 1)
        BY <1>2, <2>1, <2>4, <3>1 DEF Handled, Past, Current
      <4>4. /\ PastOf(Wanted(r), opts[r].keep, at[r] + 1) = Handled(r) \cup D
            /\ Handled(r) \cap ({at[r]} \X Paths) = {}
        BY <1>3, <2>1, <2>2, <2>4, PastGrows
      <4> HIDE DEF D
      <4> QED BY <4>2, <4>3, <4>4
    <3>3. rest \subseteq Paths /\ IsFiniteSet(rest) /\ Cardinality(rest) \in Nat
      BY <2>1, OthersType
    <3>7. D \in SUBSET Entries /\ Cardinality(D) = Cardinality(rest)
      <4>1. D \in SUBSET Entries
        BY <2>1, <3>3 DEF Entries
      <4> HIDE DEF rest
      <4> QED BY <3>3, <4>1, PieceSize
    <3>4. tally'[r] = [tally[r] EXCEPT !.skipped = tally[r].skipped + Cardinality(rest)]
      BY <2>4 DEF TypeOK
    <3>5. RunCount(r)' = RunCount(r) + Cardinality(rest)
      <4>1. tally[r] \in [deleted : Nat, errors : Nat, skipped : Nat, freed : Nat]
        BY DEF TypeOK
      <4> HIDE DEF rest
      <4> QED BY <3>3, <3>4, <4>1 DEF RunCount
    <3>6. ~Unattended(r)
      BY <2>4 DEF Unattended
    <3>8. RunCount(r)' = RunCount(r) + Cardinality(D) /\ pc[r] # "killed" /\ exists' \subseteq exists
      BY <1>1, <2>1, <3>5, <3>7
    <3> HIDE DEF rest, D
    <3> QED BY <1>3, <3>2, <3>6, <3>7, <3>8, CountGrows
  <2>5. CASE /\ at[r] \in Wanted(r) /\ todo' = [todo EXCEPT ![r] = rest]
             /\ pc' = [pc EXCEPT ![r] = "unlink"] /\ UNCHANGED <<at, tally>>
    <3>1. pc'[r] = "unlink" /\ todo'[r] = rest
      BY <2>5 DEF TypeOK
    <3>2. Handled(r)' = Handled(r)
      BY <1>2, <2>1, <2>2, <2>5, <3>1 DEF Handled, Past, Current
    <3> QED BY <1>1, <1>2, <2>1, <2>5, <3>2 DEF CountInv, RunCount, Unattended, AllGone
  <2> QED BY <1>6, <2>3, <2>4, <2>5 DEF NextGroup
<1>7. ASSUME NEW p \in todo[r], Unlink(r, p)
      PROVE  /\ RunCount(r)' = Cardinality(Handled(r)')
             /\ tally[r].errors' = 0 /\ Unattended(r)' => AllGone(Handled(r))'
  <2>1. /\ pc[r] = "unlink" /\ UNCHANGED <<pc, at>> /\ at[r] \in Wanted(r)
        /\ todo[r] \subseteq Others(at[r], opts[r].keep) /\ todo'[r] = todo[r] \ {p}
    BY <1>7 DEF Unlink, PlaceInv, TypeOK
  <2> DEFINE D == {<<at[r], p>>}
  <2>2. Past(r) \cap ({at[r]} \X Paths) = {} /\ p \in Paths /\ at[r] \in Groups
    BY <1>3, <1>7, <2>1, PastGrows DEF Past, TypeOK
  <2>3. Handled(r)' = Handled(r) \cup D /\ Handled(r) \cap D = {} /\ Past(r)' = Past(r)
    <3>1. Past(r)' = Past(r)
      BY <1>2, <2>1 DEF Past
    <3>2. Current(r)' = Current(r) \cup D /\ Current(r) \cap D = {}
      BY <1>2, <1>7, <2>1 DEF Current
    <3>3. Past(r) \cap D = {}
      BY <2>2
    <3> QED BY <3>1, <3>2, <3>3 DEF Handled
  <2>4. D \in SUBSET Entries /\ Cardinality(D) = 1
    <3>1. <<at[r], p>> \in Entries
      BY <2>2 DEF Entries
    <3> QED BY <3>1, FS_Singleton
  <2>5. tally[r] \in [deleted : Nat, errors : Nat, skipped : Nat, freed : Nat]
    BY DEF TypeOK
  <2>6. RunCount(r)' = RunCount(r) + 1 /\ (tally'[r].errors = 0 => p \notin exists' /\ tally[r].errors = 0)
    <3>0. /\ tally[r].deleted \in Nat /\ tally[r].errors \in Nat /\ tally[r].skipped \in Nat
          /\ r \in DOMAIN tally
      BY <2>5 DEF TypeOK
    <3>1. CASE Unlinked(r, p)
      <4>1. /\ tally'[r].deleted = tally[r].deleted + 1 /\ tally'[r].errors = tally[r].errors
            /\ tally'[r].skipped = tally[r].skipped
        BY <2>5, <3>0, <3>1 DEF Unlinked
      <4>2. RunCount(r)' = RunCount(r) + 1
        BY <3>0, <4>1 DEF RunCount
      <4> QED BY <3>0, <3>1, <4>1, <4>2 DEF Unlinked
    <3>2. CASE Absent(r, p)
      <4>1. /\ tally'[r].deleted = tally[r].deleted /\ tally'[r].errors = tally[r].errors
            /\ tally'[r].skipped = tally[r].skipped + 1
        BY <2>5, <3>0, <3>2 DEF Absent
      <4>2. RunCount(r)' = RunCount(r) + 1
        BY <3>0, <4>1 DEF RunCount
      <4> QED BY <3>0, <3>2, <4>1, <4>2 DEF Absent
    <3>3. CASE Refused(r, p)
      <4>1. /\ tally'[r].deleted = tally[r].deleted /\ tally'[r].errors = tally[r].errors + 1
            /\ tally'[r].skipped = tally[r].skipped
        BY <2>5, <3>0, <3>3 DEF Refused
      <4>2. RunCount(r)' = RunCount(r) + 1
        BY <3>0, <4>1 DEF RunCount
      <4> QED BY <3>0, <3>3, <4>1, <4>2 DEF Refused
    <3> QED BY <1>7, <3>1, <3>2, <3>3 DEF Unlink
  <2>7. /\ exists' \subseteq exists /\ pc[r] # "killed"
        /\ RunCount(r)' = RunCount(r) + Cardinality(D)
        /\ tally[r].errors' = 0 /\ Unattended(r) =>
             tally[r].errors = 0 /\ \A e \in D : e[2] \notin exists'
    BY <1>1, <2>1, <2>4, <2>6
  <2> HIDE DEF D
  <2> QED BY <1>3, <2>3, <2>4, <2>7, CountGrows
<1>8. CASE GroupDone(r)
  <2>1. /\ pc[r] = "unlink" /\ at[r] \in Wanted(r) /\ todo[r] = {} /\ at'[r] = at[r] + 1
        /\ pc'[r] = "group" /\ UNCHANGED <<exists, tally>>
    BY <1>8 DEF GroupDone, PlaceInv, TypeOK
  <2>2. Handled(r)' = Handled(r)
    BY <1>2, <1>3, <2>1, PastGrows DEF Handled, Past, Current
  <2> QED BY <1>2, <2>1, <2>2 DEF CountInv, RunCount, Unattended, AllGone
<1>9. ASSUME NEW q \in Runs \ {r}, Begin(q) \/ Answer(q) \/ NextGroup(q) \/ GroupDone(q) \/ Finish(q)
                                   \/ Kill(q) \/ \E p \in todo[q] : Unlink(q, p)
      PROVE  UNCHANGED <<at[r], todo[r], tally[r], pc[r]>>
  BY <1>9 DEF TypeOK, Begin, Answer, NextGroup, GroupDone, Finish, Kill, Unlink, Unlinked, Absent,
              Refused
<1>10. ASSUME UNCHANGED vars \/ \E p \in Removable : Remove(p)
       PROVE  UNCHANGED <<at[r], todo[r], tally[r], pc[r]>>
  BY <1>10 DEF vars, Remove
<1> QED BY <1>4, <1>5, <1>6, <1>7, <1>8, <1>9, <1>10 DEF Next

-----------------------------------------------------------------------------
(* What is gone *)

\* r unlinks p, and counts it.
Counts(r, p) ==
  /\ pc[r] = "unlink" /\ p \in todo[r] /\ p \in exists
  /\ exists' = exists \ {p} /\ removed' = removed
  /\ Deleted' = [Deleted EXCEPT ![r] = Deleted[r] + 1]
  /\ Freed' = [Freed EXCEPT ![r] = Freed[r] + Size[at[r]]]

\* A step counts a file that it unlinks, or it unlinks none and counts none.
LEMMA StepCases ==
  ASSUME TypeOK, PlaceInv, SumInv, [Next]_vars
  PROVE  \/ \E r \in Runs : \E p \in todo[r] : Counts(r, p)
         \/ /\ Deleted' = Deleted /\ Freed' = Freed /\ Unlinks' = Unlinks
            /\ exists' \cap removed' = {}
<1>1. ASSUME \A r \in Runs : tally'[r].deleted = tally[r].deleted /\ tally'[r].freed = tally[r].freed
      PROVE  Deleted' = Deleted /\ Freed' = Freed
  BY <1>1 DEF Deleted, Freed
<1>2. ASSUME UNCHANGED <<exists, removed>>
      PROVE  Unlinks' = Unlinks /\ exists' \cap removed' = {}
  BY <1>2 DEF Unlinks, SumInv
<1>3. ASSUME NEW r \in Runs, Begin(r) \/ Answer(r) \/ GroupDone(r) \/ Finish(r) \/ Kill(r)
      PROVE  UNCHANGED <<exists, removed, tally>>
  BY <1>3 DEF Begin, Answer, GroupDone, Finish, Kill
<1>4. ASSUME NEW r \in Runs, NextGroup(r)
      PROVE  /\ UNCHANGED <<exists, removed>>
             /\ \A q \in Runs : tally'[q].deleted = tally[q].deleted /\ tally'[q].freed = tally[q].freed
  BY <1>4 DEF NextGroup, TypeOK
<1>5. ASSUME NEW r \in Runs, NEW p \in todo[r], Unlink(r, p)
      PROVE  \/ Counts(r, p)
             \/ /\ UNCHANGED <<exists, removed>>
                /\ \A q \in Runs : tally'[q].deleted = tally[q].deleted /\ tally'[q].freed = tally[q].freed
  <2>1. CASE Unlinked(r, p)
    <3>1. pc[r] = "unlink" /\ p \in exists /\ exists' = exists \ {p} /\ removed' = removed
      BY <1>5, <2>1 DEF Unlink, Unlinked
    <3>2. Deleted' = [Deleted EXCEPT ![r] = Deleted[r] + 1]
      BY <2>1 DEF Unlinked, Deleted, TypeOK
    <3>3. Freed' = [Freed EXCEPT ![r] = Freed[r] + Size[at[r]]]
      BY <2>1 DEF Unlinked, Freed, TypeOK
    <3> QED BY <1>5, <3>1, <3>2, <3>3 DEF Counts
  <2>2. CASE Absent(r, p) \/ Refused(r, p)
    BY <1>5, <2>2 DEF Unlink, Absent, Refused, TypeOK
  <2> QED BY <1>5, <2>1, <2>2 DEF Unlink
<1>6. ASSUME NEW p \in Removable, Remove(p)
      PROVE  /\ UNCHANGED tally /\ Unlinks' = Unlinks /\ exists' \cap removed' = {}
  BY <1>6 DEF Remove, Unlinks, SumInv
<1>7. ASSUME UNCHANGED vars PROVE UNCHANGED <<exists, removed, tally>>
  BY <1>7 DEF vars
<1> QED BY <1>1, <1>2, <1>3, <1>4, <1>5, <1>6, <1>7 DEF Next

\* The file that r counts is one of the group it is at, and now one of those gone.
LEMMA CountedFile ==
  ASSUME TypeOK, PlaceInv, SumInv, NEW r \in Runs, NEW p \in todo[r], Counts(r, p)
  PROVE  /\ p \in Paths /\ p \notin Unlinks /\ Unlinks' = Unlinks \cup {p}
         /\ exists' \cap removed' = {}
         /\ at[r] \in Wanted(r) /\ at[r] \in Groups
         /\ p \in Copies[at[r]] /\ p # KeepPath(at[r], opts[r].keep)
<1>1. at[r] \in Wanted(r) /\ p \in Others(at[r], opts[r].keep)
  BY DEF Counts, PlaceInv
<1>2. at[r] \in Groups /\ p \in Copies[at[r]] /\ p \in Paths
  BY <1>1, OthersType DEF Wanted
<1>3. p \notin Unlinks /\ Unlinks' = Unlinks \cup {p} /\ exists' \cap removed' = {}
  BY <1>2 DEF Counts, Unlinks, SumInv
<1> QED BY <1>1, <1>2, <1>3 DEF Others

\* What a file may have been taken for stays so.
LEMMA TakenStays ==
  ASSUME TypeOK, TypeOK', [Next]_vars, NEW p,
         \A r \in Runs : tally'[r].deleted >= tally[r].deleted
  PROVE  TakenFor(p) \subseteq TakenFor(p)'
<1>1. ASSUME NEW r \in Runs, NEW g \in Groups, TookAs(r, g, p) PROVE TookAs(r, g, p)'
  <2>1. opts' = opts /\ Wanted(r)' = Wanted(r)
    BY SameOptions
  <2>2. tally[r].deleted \in Nat /\ tally'[r].deleted >= tally[r].deleted /\ tally[r].deleted > 0
    BY <1>1 DEF TypeOK, TookAs
  <2>3. tally'[r].deleted \in Nat
    BY DEF TypeOK
  <2>4. tally'[r].deleted > 0
    BY <2>2, <2>3
  <2> QED BY <1>1, <2>1, <2>4 DEF TookAs
<1> QED BY <1>1 DEF TakenFor

\* A run that counts k more makes the sum over the runs grow by k.
LEMMA RunTotal ==
  ASSUME NEW count \in [Runs -> Nat], NEW r \in Runs, NEW n \in Nat
  PROVE  Total([count EXCEPT ![r] = count[r] + n]) = Total(count) + n
<1>1. IsFiniteSet(Runs)
  BY RunsAssumption
<1> QED BY <1>1, TotalGrows

LEMMA SumStep == ASSUME TypeOK, PlaceInv, SumInv, [Next]_vars PROVE SumInv'
<1>1. TypeOK'
  BY PlaceStep
<1>2. PICK group \in [Unlinks -> Groups] : Explains(group)
  BY DEF SumInv
<1>3. Deleted \in [Runs -> Nat] /\ Freed \in [Runs -> Nat]
  BY DEF TypeOK, Deleted, Freed
<1>4. Unlinks \subseteq Paths /\ IsFiniteSet(Unlinks)
  BY ResultsAssumption, FS_Subset DEF Unlinks
<1>6. ASSUME NEW r \in Runs, NEW p \in todo[r], Counts(r, p) PROVE SumInv'
  <2> DEFINE All == Unlinks \cup {p}
  <2>1. /\ p \notin Unlinks /\ Unlinks' = All /\ at[r] \in Groups /\ at[r] \in Wanted(r)
        /\ exists' \cap removed' = {} /\ Size[at[r]] \in Nat
        /\ p \in Copies[at[r]] /\ p # KeepPath(at[r], opts[r].keep)
    BY <1>6, CountedFile, ResultsAssumption
  <2>2. Deleted' = [Deleted EXCEPT ![r] = Deleted[r] + 1]
    BY <1>6 DEF Counts
  <2>3. Freed' = [Freed EXCEPT ![r] = Freed[r] + Size[at[r]]]
    BY <1>6 DEF Counts
  <2>4. Total(Deleted') = Total(Deleted) + 1
    BY <1>3, <2>2, RunTotal
  <2>5. Total(Freed') = Total(Freed) + Size[at[r]]
    <3> DEFINE k == Size[at[r]]
    <3>1. k \in Nat /\ Freed' = [Freed EXCEPT ![r] = Freed[r] + k]
      BY <2>1, <2>3
    <3> HIDE DEF k
    <3>2. Total([Freed EXCEPT ![r] = Freed[r] + k]) = Total(Freed) + k
      BY <1>3, <3>1, RunTotal
    <3> QED BY <3>1, <3>2 DEF k
  <2>6. Cardinality(Unlinks') = Cardinality(Unlinks) + 1
    BY <1>4, <2>1, FS_AddElement
  <2>7. PICK now \in [All -> Groups] :
          now[p] = at[r] /\ \A q \in Unlinks : now[q] = group[q]
    <3> DEFINE f == [q \in All |-> IF q = p THEN at[r] ELSE group[q]]
    <3>1. f \in [All -> Groups] /\ f[p] = at[r] /\ \A q \in Unlinks : f[q] = group[q]
      BY <1>2, <2>1
    <3> HIDE DEF f
    <3> QED BY <3>1
  <2>8. Total(SizesOf(All, now)) = Total(SizesOf(Unlinks, group)) + Size[at[r]]
    <3> DEFINE f == SizesOf(Unlinks, group)
               g == SizesOf(All, now)
    <3>1. f \in [Unlinks -> Nat] /\ g \in [Unlinks \cup {p} -> Nat]
      BY <1>2, <2>7, ResultsAssumption DEF SizesOf
    <3>2. (\A q \in Unlinks : g[q] = f[q]) /\ g[p] = Size[at[r]]
      BY <2>1, <2>7 DEF SizesOf
    <3> HIDE DEF f, g
    <3>3. IsFiniteSet(Unlinks) /\ p \notin Unlinks /\ \A q \in Unlinks : g[q] = f[q]
      BY <1>4, <2>1, <3>2
    <3>4. Total(g) = Total(f) + g[p]
      BY <3>1, <3>3, TotalExtends
    <3> QED BY <3>2, <3>4 DEF f, g
  <2>9. \A q \in Runs : tally'[q].deleted >= tally[q].deleted
    <3>1. \A q \in Runs : Deleted'[q] >= Deleted[q]
      <4>1. \A q \in Runs : Deleted[q] \in Nat
        BY <1>3
      <4> QED BY <1>3, <2>2, <4>1
    <3> QED BY <3>1 DEF Deleted
  <2>10. at[r] \in TakenFor(p)'
    <3>1. tally'[r].deleted > 0
      <4>1. Deleted'[r] = Deleted[r] + 1 /\ Deleted[r] \in Nat
        BY <1>3, <2>2
      <4> QED BY <4>1 DEF Deleted
    <3>2. opts' = opts /\ Wanted(r)' = Wanted(r)
      BY SameOptions
    <3> QED BY <2>1, <3>1, <3>2 DEF TakenFor, TookAs
  <2>11. \A q \in All : now[q] \in TakenFor(q)'
    <3>1. \A q \in Unlinks : now[q] \in TakenFor(q)'
      BY <1>1, <1>2, <2>7, <2>9, TakenStays DEF Explains
    <3> QED BY <2>7, <2>10, <3>1
  <2>12. Explains(now)'
    BY <1>2, <2>1, <2>5, <2>8, <2>11 DEF Explains, SizesOf
  <2>13. Total(Deleted') = Cardinality(Unlinks')
    BY <2>4, <2>6 DEF SumInv
  <2> QED BY <2>1, <2>7, <2>12, <2>13 DEF SumInv
<1>7. CASE Deleted' = Deleted /\ Freed' = Freed /\ Unlinks' = Unlinks /\ exists' \cap removed' = {}
  <2>1. \A q \in Runs : tally'[q].deleted >= tally[q].deleted
    <3>1. \A q \in Runs : tally'[q].deleted = tally[q].deleted /\ tally[q].deleted \in Nat
      BY <1>7 DEF Deleted, TypeOK
    <3> QED BY <3>1
  <2>2. \A q \in Unlinks' : group[q] \in TakenFor(q)'
    BY <1>1, <1>2, <1>7, <2>1, TakenStays DEF Explains
  <2>3. Explains(group)'
    BY <1>2, <1>7, <2>2 DEF Explains, SizesOf
  <2> QED BY <1>2, <1>7, <2>3 DEF SumInv
<1> QED BY <1>6, <1>7, StepCases

-----------------------------------------------------------------------------
(* The theorems *)

LEMMA ZeroTotal ==
  ASSUME NEW S, NEW f, DOMAIN f = S, \A x \in S : f[x] = 0
  PROVE  Total(f) = 0
<1>1. Units(f) = {}
  BY DEF Units
<1> QED BY <1>1, FS_EmptySet DEF Total

LEMMA InvInit == ASSUME Init PROVE DeletionInv
<1>1. TypeOK /\ PlaceInv
  BY PlaceInit
<1>2. \A r \in Runs : Handled(r) = {}
  <2> SUFFICES ASSUME NEW r \in Runs PROVE Handled(r) = {}
    OBVIOUS
  <2>1. at[r] = 1 /\ pc[r] = "off"
    BY DEF Init
  <2>2. \A h \in Wanted(r) : ~(h < 1)
    BY DEF Wanted, Groups
  <2> QED BY <2>1, <2>2 DEF Handled, Past, PastOf, Current
<1>3. CountInv
  <2>1. ASSUME NEW r \in Runs PROVE tally[r] = Zero /\ Zero.deleted + Zero.errors + Zero.skipped = 0
    BY DEF Init, Zero
  <2>2. Cardinality({}) = 0
    BY FS_EmptySet
  <2> QED BY <1>2, <2>1, <2>2 DEF CountInv, AllGone
<1>4. Unlinks = {} /\ exists \cap removed = {}
  BY DEF Init, Unlinks
<1>5. SumInv
  <2> DEFINE none == [p \in {} |-> 1]
  <2>1. Total(Deleted) = 0 /\ Total(Freed) = 0
    BY ZeroTotal DEF Init, Zero, Deleted, Freed
  <2>2. Total(SizesOf({}, none)) = 0
    BY ZeroTotal DEF SizesOf
  <2>3. Cardinality({}) = 0
    BY FS_EmptySet
  <2>4. none \in [Unlinks -> Groups]
    BY <1>4
  <2> HIDE DEF none
  <2>5. Explains(none)
    BY <1>4, <2>1, <2>2 DEF Explains
  <2> QED BY <1>4, <2>1, <2>3, <2>4, <2>5 DEF SumInv
<1> QED BY <1>1, <1>3, <1>5 DEF DeletionInv

LEMMA InvStep == ASSUME DeletionInv, [Next]_vars PROVE DeletionInv'
  BY PlaceStep, CountStep, SumStep DEF DeletionInv

LEMMA InvAlways == Spec => []DeletionInv
  BY InvInit, InvStep, PTL DEF Spec

(***************************************************************************)
(* Every reachable state has the declared types.                           *)
(***************************************************************************)
THEOREM Typed == Spec => []TypeOK
<1>1. DeletionInv => TypeOK
  BY DEF DeletionInv
<1> QED BY <1>1, InvAlways, PTL

\* A kept path that is gone was removed by another program, or taken for a group.
LEMMA CopyKeptFromInv == ASSUME DeletionInv PROVE CopyKept
<1> SUFFICES ASSUME NEW g \in Groups, Copies[g] \cap exists = {}, NEW r \in Runs
             PROVE  LET kept == KeepPath(g, opts[r].keep) IN
                    \/ kept \in removed
                    \/ \E q \in Runs : TookAs(q, g, kept)
                    \/ \E q \in Runs, h \in Groups \ {g} : TookAs(q, h, kept)
  BY DEF CopyKept
<1> DEFINE k == KeepPath(g, opts[r].keep)
<1>1. k \in Copies[g] /\ k \in Paths /\ k \notin exists
  BY KeepsACopy, ResultsAssumption
<1> HIDE DEF k
<1>2. CASE k \in removed
  BY <1>2 DEF k
<1>3. CASE k \notin removed
  <2>1. PICK group \in [Unlinks -> Groups] : Explains(group)
    BY DEF DeletionInv, SumInv
  <2>2. k \in Unlinks
    BY <1>1, <1>3 DEF Unlinks
  <2>3. PICK h \in Groups : h \in TakenFor(k)
    BY <2>1, <2>2 DEF Explains
  <2>4. PICK q \in Runs : TookAs(q, h, k)
    BY <2>3 DEF TakenFor
  <2> QED BY <2>4 DEF k
<1> QED BY <1>2, <1>3

(***************************************************************************)
(* A group keeps a copy unless the path that a run would keep of it was    *)
(* removed by another program, or unlinked for this group by a run that    *)
(* kept another, or unlinked for another group that names it: for any      *)
(* results, any number of runs at once, and whatever is refused, declined, *)
(* filtered out or killed.                                                 *)
(***************************************************************************)
THEOREM ACopyKept == Spec => []CopyKept
  BY CopyKeptFromInv, InvAlways, PTL

\* A run that is through has come past its whole plan.
LEMMA ThroughMeansPlan ==
  ASSUME DeletionInv, NEW r \in Runs, pc[r] = "end", opts[r].mode # "dry"
  PROVE  Handled(r) = Plan(r)
<1>1. \A g \in Wanted(r) : g < at[r]
  BY DEF DeletionInv, PlaceInv
<1>2. Current(r) = {}
  BY DEF Current
<1> QED BY <1>1, <1>2 DEF Handled, Past, PastOf, Plan

(***************************************************************************)
(* The counts of all runs add up to the files that they took off the disk, *)
(* and to the bytes recorded of each by one of the groups it may have been *)
(* taken for, in any results; each run that is through has counted every   *)
(* entry of its plan.                                                      *)
(***************************************************************************)
THEOREM CountsAddUp == Spec => []Accounted
<1>1. ASSUME DeletionInv PROVE Accounted
  <2>1. ASSUME NEW r \in Runs, pc[r] = "end", opts[r].mode # "dry"
        PROVE  tally[r].deleted + tally[r].errors + tally[r].skipped = Cardinality(Plan(r))
    BY <1>1, <2>1, ThroughMeansPlan DEF DeletionInv, CountInv
  <2>2. PICK group \in [Unlinks -> Groups] : Explains(group)
    BY <1>1 DEF DeletionInv, SumInv
  <2>3. /\ \A p \in Unlinks : group[p] \in TakenFor(p)
        /\ Total([q \in Runs |-> tally[q].freed]) = Total([p \in Unlinks |-> Size[group[p]]])
    BY <2>2 DEF Explains, Freed, SizesOf
  <2>4. Total([q \in Runs |-> tally[q].deleted]) = Cardinality(Unlinks)
    BY <1>1 DEF DeletionInv, SumInv, Deleted
  <2> QED BY <2>1, <2>3, <2>4 DEF Accounted
<1> QED BY <1>1, InvAlways, PTL

(***************************************************************************)
(* Exit status 0 of a run that asks once or not at all is the truth: no    *)
(* file of its plan is left.                                               *)
(***************************************************************************)
THEOREM ExitStatusTrue == Spec => []CleanExit
<1>1. ASSUME DeletionInv PROVE CleanExit
  <2> SUFFICES ASSUME NEW r \in Runs, pc[r] = "end", opts[r].mode \in {"bulk", "stream"},
                      tally[r].errors = 0
               PROVE  \A e \in Plan(r) : e[2] \notin exists
    BY DEF CleanExit
  <2>1. Handled(r) = Plan(r)
    BY <1>1, ThroughMeansPlan
  <2> QED BY <1>1, <2>1 DEF DeletionInv, CountInv, AllGone
<1> QED BY <1>1, InvAlways, PTL
=============================================================================
