--------------------------- MODULE Documents_proofs ---------------------------
(* Proofs about the library of documents: the recursive definitions over the *)
(* tree of folders are what they are meant to be, every operation keeps the  *)
(* tree, and every file that is listed is on the disk.                       *)
EXTENDS Documents, FiniteSetTheorems, WellFoundedInduction, TLAPS

(***************************************************************************)
(* Trees of folders.                                                       *)
(***************************************************************************)
\* Folders whose parents are there, and of any set of which one has its parent
\* outside the set.
Forest(fs) ==
  /\ IsFiniteSet(DOMAIN fs) /\ Root \notin DOMAIN fs
  /\ \A d \in DOMAIN fs : fs[d].parent \in DOMAIN fs \cup {Root}
  /\ \A S \in SUBSET DOMAIN fs : S # {} => \E d \in S : fs[d].parent \notin S

\* A property that a folder has when its parent has it, all folders have.
LEMMA TreeInduction ==
  ASSUME NEW fs, Forest(fs), NEW T,
         \A d \in DOMAIN fs : fs[d].parent \in T \cup {Root} => d \in T
  PROVE  DOMAIN fs \subseteq T
<1>1. ASSUME DOMAIN fs \ T # {} PROVE FALSE
  <2>1. DOMAIN fs \ T \in SUBSET DOMAIN fs
    OBVIOUS
  <2>2. PICK d \in DOMAIN fs \ T : fs[d].parent \notin DOMAIN fs \ T
    BY <1>1, <2>1 DEF Forest
  <2>3. fs[d].parent \in T \cup {Root}
    BY <2>2 DEF Forest
  <2> QED
    BY <2>2, <2>3
<1> QED
  BY <1>1

\* A folder and those above it.
Closed(fs, S) == \A z \in S : fs[z].parent \in S \cup {Root}
Above(fs, x) == {y \in DOMAIN fs : \A S \in SUBSET DOMAIN fs : x \in S /\ Closed(fs, S) => y \in S}
Ups(fs, x) == IF x = Root THEN {} ELSE Above(fs, x)

LEMMA UpsOfParent ==
  ASSUME NEW fs, Forest(fs), NEW x \in DOMAIN fs
  PROVE  /\ Ups(fs, x) = {x} \cup Ups(fs, fs[x].parent)
         /\ x \notin Ups(fs, fs[x].parent)
<1> DEFINE A(y) == Above(fs, y)
<1>0. x # Root /\ \A y \in DOMAIN fs : fs[y].parent \in DOMAIN fs \cup {Root}
  BY DEF Forest
<1>1. ASSUME NEW y \in DOMAIN fs PROVE y \in A(y) /\ A(y) \subseteq DOMAIN fs /\ Closed(fs, A(y))
  <2>1. ASSUME NEW z \in A(y) PROVE fs[z].parent \in A(y) \cup {Root}
    BY <1>0, <2>1 DEF Above, Closed
  <2> QED
    BY <1>1, <2>1 DEF Above, Closed
<1>2. ASSUME NEW y \in DOMAIN fs, NEW S \in SUBSET DOMAIN fs, y \in S, Closed(fs, S)
      PROVE  A(y) \subseteq S
  BY <1>2 DEF Above
<1> HIDE DEF A
<1>3. ASSUME NEW y \in DOMAIN fs, fs[y].parent = Root PROVE A(y) = {y}
  <2>1. {y} \in SUBSET DOMAIN fs /\ Closed(fs, {y})
    BY <1>3 DEF Closed
  <2> QED
    BY <1>1, <1>2, <2>1
<1>4. ASSUME NEW y \in DOMAIN fs, fs[y].parent # Root PROVE A(y) = {y} \cup A(fs[y].parent)
  <2>1. fs[y].parent \in DOMAIN fs
    BY <1>0, <1>4
  <2>2. {y} \cup A(fs[y].parent) \in SUBSET DOMAIN fs /\ Closed(fs, {y} \cup A(fs[y].parent))
    BY <1>1, <2>1 DEF Closed
  <2>3. A(y) \subseteq {y} \cup A(fs[y].parent)
    BY <1>2, <2>2
  <2>4. fs[y].parent \in A(y)
    BY <1>1, <1>4 DEF Closed
  <2>5. A(fs[y].parent) \subseteq A(y)
    BY <1>1, <1>2, <2>1, <2>4
  <2> QED
    BY <1>1, <2>3, <2>5
<1>5. ASSUME fs[x].parent # Root, x \in A(fs[x].parent) PROVE FALSE
  <2> DEFINE S == {y \in DOMAIN fs : x \in A(y)}
  <2>1. x \in S
    BY <1>1
  <2>2. ASSUME NEW y \in S PROVE fs[y].parent \in S
    <3>1. CASE y = x
      BY <1>0, <1>5, <3>1
    <3>2. CASE y # x
      <4>1. fs[y].parent # Root
        BY <1>3, <3>2
      <4>2. x \in A(fs[y].parent)
        BY <1>4, <3>2, <4>1
      <4> QED
        BY <1>0, <4>1, <4>2
    <3> QED
      BY <3>1, <3>2
  <2> QED
    <3>1. S \in SUBSET DOMAIN fs /\ S # {}
      BY <2>1
    <3> HIDE DEF S
    <3> QED
      BY <2>2, <3>1 DEF Forest
<1>6. \A y : y # Root => Ups(fs, y) = A(y)
  BY DEF Ups, A
<1>7. Ups(fs, Root) = {}
  BY DEF Ups
<1> QED
  BY <1>0, <1>3, <1>4, <1>5, <1>6, <1>7

LEMMA UpsFinite ==
  ASSUME NEW fs, Forest(fs), NEW x
  PROVE  IsFiniteSet(Ups(fs, x)) /\ Cardinality(Ups(fs, x)) \in Nat
<1>1. Ups(fs, x) \in SUBSET DOMAIN fs
  BY DEF Ups, Above
<1>2. IsFiniteSet(Ups(fs, x))
  BY <1>1, FS_Subset DEF Forest
<1> QED
  BY <1>2, FS_CardinalityType

(***************************************************************************)
(* The recursive definitions have the values their equations say.          *)
(***************************************************************************)
LEMMA DepthOf ==
  ASSUME NEW fs, Forest(fs)
  PROVE  /\ FolderDepth(fs, Root) = 0
         /\ \A x \in DOMAIN fs : FolderDepth(fs, x) = 1 + FolderDepth(fs, fs[x].parent)
         /\ \A x \in DOMAIN fs \cup {Root} : FolderDepth(fs, x) \in Nat
<1> DEFINE Places == DOMAIN fs \cup {Root}
           Is(f) == f = [x \in Places |-> IF x = Root THEN 0 ELSE 1 + f[fs[x].parent]]
           g == [x \in Places |-> Cardinality(Ups(fs, x))]
           depth == CHOOSE f : Is(f)
<1>0. Root \notin DOMAIN fs /\ \A x \in DOMAIN fs : fs[x].parent \in Places
  BY DEF Forest
<1>1. Is(g)
  <2>1. Cardinality(Ups(fs, Root)) = 0
    BY FS_EmptySet DEF Ups
  <2>2. ASSUME NEW x \in DOMAIN fs
        PROVE  Cardinality(Ups(fs, x)) = 1 + Cardinality(Ups(fs, fs[x].parent))
    BY UpsOfParent, UpsFinite, FS_AddElement
  <2>3. \A x \in Places : g[x] = IF x = Root THEN 0 ELSE 1 + g[fs[x].parent]
    BY <1>0, <2>1, <2>2
  <2> QED
    BY <2>3
<1>2. Is(depth)
  <2> HIDE DEF Is, g
  <2> QED
    BY <1>1
<1>3. \A x \in Places : FolderDepth(fs, x) = depth[x]
  BY DEF FolderDepth
<1> HIDE DEF depth
<1>4. depth[Root] = 0 /\ \A x \in DOMAIN fs : depth[x] = 1 + depth[fs[x].parent]
  BY <1>0, <1>2
<1>5. DOMAIN fs \subseteq {x \in DOMAIN fs : depth[x] \in Nat}
  <2> DEFINE T == {x \in DOMAIN fs : depth[x] \in Nat}
  <2>1. \A d \in DOMAIN fs : fs[d].parent \in T \cup {Root} => d \in T
    BY <1>4
  <2> HIDE DEF T
  <2>2. DOMAIN fs \subseteq T
    BY <2>1, TreeInduction
  <2> QED
    BY <2>2 DEF T
<1> QED
  BY <1>0, <1>3, <1>4, <1>5

LEMMA DescendantsOf ==
  ASSUME NEW fs, Forest(fs), NEW d \in DOMAIN fs
  PROVE  /\ d \in Descendants(fs, d) /\ Descendants(fs, d) \subseteq DOMAIN fs
         /\ \A x \in DOMAIN fs : x # d => (x \in Descendants(fs, d)
                                             <=> fs[x].parent \in Descendants(fs, d))
<1> DEFINE Places == DOMAIN fs \cup {Root}
           Is(f) == f = [x \in Places |-> CASE x = d    -> TRUE
                                            [] x = Root -> FALSE
                                            [] OTHER    -> f[fs[x].parent]]
           g == [x \in Places |-> IF d \in Ups(fs, x) THEN TRUE ELSE FALSE]
           under == CHOOSE f : Is(f)
<1>0. Root \notin DOMAIN fs /\ d # Root /\ \A x \in DOMAIN fs : fs[x].parent \in Places
  BY DEF Forest
<1>1. Is(g)
  <2>1. \A x \in DOMAIN fs : Ups(fs, x) = {x} \cup Ups(fs, fs[x].parent)
    BY UpsOfParent
  <2>2. Ups(fs, Root) = {}
    BY DEF Ups
  <2>3. ASSUME NEW x \in Places
        PROVE  g[x] = CASE x = d    -> TRUE
                        [] x = Root -> FALSE
                        [] OTHER    -> g[fs[x].parent]
    <3>0. g[x] = IF d \in Ups(fs, x) THEN TRUE ELSE FALSE
      OBVIOUS
    <3>1. CASE x = d
      <4>1. g[x] = TRUE
        BY <2>1, <3>0, <3>1
      <4> HIDE DEF g
      <4> QED
        BY <1>0, <3>1, <4>1
    <3>2. CASE x = Root
      <4>1. g[x] = FALSE
        <5>1. d \notin Ups(fs, x)
          BY <2>2, <3>2
        <5> QED
          BY <3>0, <5>1
      <4> HIDE DEF g
      <4> QED
        BY <1>0, <3>2, <4>1
    <3>3. CASE x # d /\ x # Root
      <4>1. d \in Ups(fs, x) <=> d \in Ups(fs, fs[x].parent)
        BY <2>1, <3>3
      <4> QED
        BY <1>0, <3>3, <4>1
    <3> QED
      BY <3>1, <3>2, <3>3
  <2> QED
    BY <2>3
<1>2. Is(under)
  <2> HIDE DEF Is, g
  <2> QED
    BY <1>1
<1>3. Descendants(fs, d) = {x \in DOMAIN fs : under[x]}
  BY DEF Descendants
<1> HIDE DEF under
<1>4. under[d] /\ ~under[Root] /\ \A x \in DOMAIN fs : x # d => under[x] = under[fs[x].parent]
  BY <1>0, <1>2
<1> QED
  BY <1>0, <1>3, <1>4

(***************************************************************************)
(* The operations on the tree.                                             *)
(***************************************************************************)
Record == [parent : Folders \cup {Root}, name : Names]

TreeTrue(fs) ==
  /\ Forest(fs) /\ DOMAIN fs \subseteq Folders /\ IsInjective(fs)
  /\ \A d \in DOMAIN fs : fs[d] \in Record /\ FolderDepth(fs, d) <= MaxDepth

\* Folders whose ways to the top are the same in two trees are equally deep in them.
LEMMA DepthKept ==
  ASSUME NEW fs, NEW gs, Forest(fs), Forest(gs), NEW T, T \subseteq DOMAIN fs \cap DOMAIN gs,
         \A x \in T : gs[x].parent = fs[x].parent /\ fs[x].parent \in T \cup {Root}
  PROVE  \A x \in T \cup {Root} : FolderDepth(gs, x) = FolderDepth(fs, x)
<1> DEFINE same == {x \in DOMAIN fs : x \in T => FolderDepth(gs, x) = FolderDepth(fs, x)}
<1>1. FolderDepth(gs, Root) = 0 /\ FolderDepth(fs, Root) = 0 /\ Root \notin DOMAIN fs
  BY DepthOf DEF Forest
<1>2. \A x \in T : /\ FolderDepth(gs, x) = 1 + FolderDepth(gs, fs[x].parent)
                   /\ FolderDepth(fs, x) = 1 + FolderDepth(fs, fs[x].parent)
  BY DepthOf
<1>3. ASSUME NEW d \in DOMAIN fs, fs[d].parent \in same \cup {Root} PROVE d \in same
  <2>1. CASE d \in T /\ fs[d].parent = Root
    BY <1>1, <1>2, <2>1
  <2>2. CASE d \in T /\ fs[d].parent # Root
    BY <1>2, <1>3, <2>2
  <2> QED
    BY <2>1, <2>2
<1> HIDE DEF same
<1>4. DOMAIN fs \subseteq same
  BY <1>3, TreeInduction
<1> QED
  BY <1>1, <1>4 DEF same

LEMMA TreeAdded ==
  ASSUME NEW fs, TreeTrue(fs), NEW d \in Folders \ DOMAIN fs, NEW p \in DOMAIN fs \cup {Root},
         NEW n \in Names, Root \notin Folders, MaxDepth \in Nat,
         FolderDepth(fs, p) < MaxDepth, Siblings(fs, p, n) = {}
  PROVE  TreeTrue(Added(fs, d, p, n)) /\ DOMAIN Added(fs, d, p, n) = DOMAIN fs \cup {d}
<1> DEFINE gs == Added(fs, d, p, n)
<1>0. Forest(fs) /\ d # Root /\ DOMAIN fs \subseteq Folders
  BY DEF TreeTrue
<1>1. /\ DOMAIN gs = DOMAIN fs \cup {d} /\ gs[d] = [parent |-> p, name |-> n]
      /\ \A x \in DOMAIN fs : gs[x] = fs[x]
  BY DEF Added
<1> HIDE DEF gs
<1>2. Forest(gs)
  <2>1. IsFiniteSet(DOMAIN gs) /\ Root \notin DOMAIN gs
    BY <1>0, <1>1, FS_AddElement DEF Forest
  <2>2. \A x \in DOMAIN gs : gs[x].parent \in DOMAIN gs \cup {Root}
    BY <1>0, <1>1 DEF Forest
  <2>3. ASSUME NEW S \in SUBSET DOMAIN gs, S # {} PROVE \E x \in S : gs[x].parent \notin S
    <3>1. CASE S \subseteq {d}
      BY <1>0, <1>1, <2>3, <3>1
    <3>2. CASE ~(S \subseteq {d})
      <4>1. S \ {d} \in SUBSET DOMAIN fs /\ S \ {d} # {}
        BY <1>1, <3>2
      <4>2. PICK x \in S \ {d} : fs[x].parent \notin S \ {d}
        BY <1>0, <4>1 DEF Forest
      <4>3. fs[x].parent # d
        BY <1>0, <4>1, <4>2 DEF Forest
      <4> QED
        BY <1>1, <4>1, <4>2, <4>3
    <3> QED
      BY <3>1, <3>2
  <2> QED
    BY <2>1, <2>2, <2>3 DEF Forest
<1>3. \A x \in DOMAIN fs \cup {Root} : FolderDepth(gs, x) = FolderDepth(fs, x)
  <2>1. /\ DOMAIN fs \subseteq DOMAIN fs \cap DOMAIN gs
        /\ \A x \in DOMAIN fs : /\ gs[x].parent = fs[x].parent
                                /\ fs[x].parent \in DOMAIN fs \cup {Root}
    BY <1>0, <1>1 DEF Forest
  <2> QED
    BY <1>0, <1>2, <2>1, DepthKept
<1>4. FolderDepth(gs, d) <= MaxDepth
  <2>1. FolderDepth(gs, d) = 1 + FolderDepth(gs, p)
    BY <1>1, <1>2, DepthOf
  <2>2. FolderDepth(gs, p) = FolderDepth(fs, p) /\ FolderDepth(fs, p) \in Nat
    BY <1>0, <1>3, DepthOf
  <2> QED
    BY <2>1, <2>2
<1>5. \A x \in DOMAIN gs : gs[x] \in Record /\ FolderDepth(gs, x) <= MaxDepth
  <2>1. gs[d] \in Record
    BY <1>0, <1>1 DEF Record
  <2> QED
    BY <1>1, <1>3, <1>4, <2>1 DEF TreeTrue
<1>6. IsInjective(gs)
  <2>1. \A x \in DOMAIN fs : fs[x] # [parent |-> p, name |-> n]
    BY DEF Siblings
  <2> QED
    BY <1>1, <2>1 DEF TreeTrue, IsInjective
<1> QED
  BY <1>0, <1>1, <1>2, <1>5, <1>6 DEF TreeTrue, gs

\* What remains when folders go with all that is under them.
LEMMA TreeCut ==
  ASSUME NEW fs, TreeTrue(fs), NEW T \in SUBSET DOMAIN fs,
         \A x \in T : fs[x].parent \in T \cup {Root}
  PROVE  TreeTrue(Restrict(fs, T)) /\ DOMAIN Restrict(fs, T) = T
<1> DEFINE gs == Restrict(fs, T)
<1>1. DOMAIN gs = T /\ \A x \in T : gs[x] = fs[x]
  BY DEF Restrict
<1> HIDE DEF gs
<1>2. Forest(gs)
  <2>1. IsFiniteSet(T)
    BY FS_Subset DEF TreeTrue, Forest
  <2> QED
    BY <1>1, <2>1 DEF TreeTrue, Forest
<1>3. \A x \in T : FolderDepth(gs, x) = FolderDepth(fs, x)
  BY <1>1, <1>2, DepthKept DEF TreeTrue
<1>4. IsInjective(gs)
  BY <1>1 DEF TreeTrue, IsInjective
<1> QED
  BY <1>1, <1>2, <1>3, <1>4 DEF TreeTrue, gs

\* A set of numbers has a least one, and a bounded one has a largest.
LEMMA LeastOf == ASSUME NEW S \in SUBSET Nat, S # {} PROVE \E x \in S : \A y \in S : x <= y
<1> DEFINE Below(x) == {y \in S : y < x}
           T == {Below(x) : x \in S}
<1>1. \A x \in S : x \in Nat
  OBVIOUS
<1>2. ASSUME NEW x \in S PROVE Below(x) \in FiniteSubsetsOf(Nat)
  <2>1. \A y \in Below(x) : y \in Nat /\ y <= x
    BY <1>1
  <2>2. x \in Nat /\ Below(x) \in SUBSET Nat
    BY <1>1, <2>1
  <2>3. IsFiniteSet(Below(x))
    <3> HIDE DEF Below
    <3> QED
      BY <2>1, <2>2, FS_BoundedSetOfNaturals
  <2> QED
    BY <2>2, <2>3 DEF FiniteSubsetsOf
<1>3. T \subseteq FiniteSubsetsOf(Nat) /\ T # {}
  BY <1>2
<1>4. PICK least \in T : \A other \in T : <<other, least>> \notin StrictSubsetOrdering(Nat)
  <2> HIDE DEF T
  <2>1. IsWellFoundedOn(StrictSubsetOrdering(Nat), FiniteSubsetsOf(Nat))
    BY FS_StrictSubsetOrderingWellFounded
  <2> QED
    BY <1>3, <2>1, WFMin
<1>5. PICK x \in S : least = Below(x)
  BY <1>4
<1>6. ASSUME NEW y \in S, y < x PROVE FALSE
  <2>1. \A z \in Below(y) : z \in Below(x)
    BY <1>1, <1>6
  <2>2. y \in Below(x) /\ y \notin Below(y)
    BY <1>1, <1>6
  <2>3. Below(x) \in SUBSET Nat /\ Below(y) \in SUBSET Nat
    BY <1>1
  <2>4. <<Below(y), Below(x)>> \in StrictSubsetOrdering(Nat)
    <3> HIDE DEF Below
    <3> QED
      BY <2>1, <2>2, <2>3 DEF StrictSubsetOrdering
  <2> QED
    BY <1>4, <1>5, <2>4
<1> QED
  BY <1>1, <1>6

LEMMA MaxOf ==
  ASSUME NEW S \in SUBSET Nat, S # {}, NEW b \in Nat, \A x \in S : x <= b
  PROVE  Max(S) \in S /\ \A y \in S : y <= Max(S)
<1> DEFINE T == {b - x : x \in S}
<1>1. \A x \in S : x \in Nat
  OBVIOUS
<1>2. T \in SUBSET Nat /\ T # {}
  <2>1. \A x \in S : b - x \in Nat
    BY <1>1
  <2> QED
    BY <2>1
<1>3. PICK least \in T : \A t \in T : least <= t
  <2> HIDE DEF T
  <2> QED
    BY <1>2, LeastOf
<1>4. PICK x \in S : least = b - x
  BY <1>3
<1>5. \A y \in S : x >= y
  BY <1>1, <1>3, <1>4
<1>6. Max(S) \in S /\ \A y \in S : Max(S) >= y
  BY <1>5 DEF Max
<1> QED
  BY <1>1, <1>6

\* A folder with all that is under it goes to another place, not under itself, where
\* there is room for its height.
LEMMA TreeMoved ==
  ASSUME NEW fs, TreeTrue(fs), NEW d \in DOMAIN fs, NEW p \in DOMAIN fs \cup {Root},
         NEW n \in Names, MaxDepth \in Nat,
         Siblings(fs, p, n) \ {d} = {},
         p # fs[d].parent => /\ p \notin Descendants(fs, d)
                             /\ FolderDepth(fs, p) + SubtreeHeight(fs, d) <= MaxDepth
  PROVE  TreeTrue([fs EXCEPT ![d] = [parent |-> p, name |-> n]])
<1> DEFINE gs == [fs EXCEPT ![d] = [parent |-> p, name |-> n]]
           under == Descendants(fs, d)
<1>0. Forest(fs) /\ Root \notin DOMAIN fs /\ \A x \in DOMAIN fs : fs[x].parent \in DOMAIN fs \cup {Root}
  BY DEF TreeTrue, Forest
<1>1. /\ DOMAIN gs = DOMAIN fs /\ gs[d] = [parent |-> p, name |-> n]
      /\ \A x \in DOMAIN fs : x # d => gs[x] = fs[x]
  OBVIOUS
<1> HIDE DEF gs
<1>2. /\ d \in under /\ under \subseteq DOMAIN fs
      /\ \A x \in DOMAIN fs : x # d => (x \in under <=> fs[x].parent \in under)
  BY <1>0, DescendantsOf
<1>3. p \notin under
  <2>1. ASSUME p = fs[d].parent, p \in under PROVE FALSE
    <3>1. PICK e \in under : fs[e].parent \notin under
      BY <1>0, <1>2 DEF Forest
    <3> QED
      BY <1>2, <2>1, <3>1
  <2> QED
    BY <2>1
<1> HIDE DEF under
<1>4. Forest(gs)
  <2>1. \A x \in DOMAIN gs : gs[x].parent \in DOMAIN gs \cup {Root}
    BY <1>0, <1>1
  <2>2. ASSUME NEW S \in SUBSET DOMAIN gs, S # {} PROVE \E x \in S : gs[x].parent \notin S
    <3>1. CASE S \subseteq under
      <4>1. PICK x \in S : fs[x].parent \notin S
        BY <1>0, <1>1, <2>2 DEF Forest
      <4> QED
        BY <1>1, <1>3, <3>1, <4>1
    <3>2. CASE ~(S \subseteq under)
      <4>1. S \ under \in SUBSET DOMAIN fs /\ S \ under # {}
        BY <1>1, <3>2
      <4>2. PICK x \in S \ under : fs[x].parent \notin S \ under
        BY <1>0, <4>1 DEF Forest
      <4> QED
        BY <1>1, <1>2, <4>1, <4>2
    <3> QED
      BY <3>1, <3>2
  <2> QED
    BY <1>0, <1>1, <2>1, <2>2 DEF Forest
<1>5. \A x \in (DOMAIN fs \ under) \cup {Root} : FolderDepth(gs, x) = FolderDepth(fs, x)
  <2> DEFINE T == DOMAIN fs \ under
  <2>1. T \subseteq DOMAIN fs \cap DOMAIN gs
    BY <1>1
  <2>2. \A x \in T : gs[x].parent = fs[x].parent /\ fs[x].parent \in T \cup {Root}
    BY <1>0, <1>1, <1>2
  <2>3. Forest(fs)
    BY <1>0
  <2> HIDE DEF T
  <2>4. \A x \in T \cup {Root} : FolderDepth(gs, x) = FolderDepth(fs, x)
    BY <1>4, <2>1, <2>2, <2>3, DepthKept
  <2> QED
    BY <2>4 DEF T
<1>6. /\ \A x \in DOMAIN fs : FolderDepth(fs, x) = 1 + FolderDepth(fs, fs[x].parent)
      /\ \A x \in DOMAIN fs \cup {Root} : FolderDepth(fs, x) \in Nat
      /\ \A x \in DOMAIN fs : FolderDepth(gs, x) = 1 + FolderDepth(gs, gs[x].parent)
      /\ \A x \in DOMAIN fs \cup {Root} : FolderDepth(gs, x) \in Nat
  BY <1>0, <1>1, <1>4, DepthOf
<1>7. \A x \in under : FolderDepth(gs, x) = FolderDepth(fs, x) - FolderDepth(fs, d)
                                              + 1 + FolderDepth(fs, p)
  <2> DEFINE as == {x \in DOMAIN fs : x \in under =>
                      FolderDepth(gs, x) = FolderDepth(fs, x) - FolderDepth(fs, d)
                                             + 1 + FolderDepth(fs, p)}
  <2>1. FolderDepth(gs, d) = FolderDepth(fs, d) - FolderDepth(fs, d) + 1 + FolderDepth(fs, p)
    <3>1. FolderDepth(gs, d) = 1 + FolderDepth(gs, p) /\ FolderDepth(gs, p) = FolderDepth(fs, p)
      BY <1>1, <1>3, <1>5, <1>6
    <3> QED
      BY <1>6, <3>1
  <2>2. ASSUME NEW x \in DOMAIN fs, fs[x].parent \in as \cup {Root} PROVE x \in as
    <3>1. CASE x = d
      BY <2>1, <3>1
    <3>2. CASE x # d /\ x \in under
      <4>1. fs[x].parent \in under /\ gs[x].parent = fs[x].parent
        BY <1>1, <1>2, <3>2
      <4>2. fs[x].parent \in as
        BY <1>0, <1>2, <2>2, <4>1
      <4>3. PICK y \in DOMAIN fs : y = fs[x].parent
        BY <1>2, <4>1
      <4>4. /\ FolderDepth(gs, x) = 1 + FolderDepth(gs, y) /\ FolderDepth(gs, y) \in Nat
            /\ FolderDepth(fs, x) = 1 + FolderDepth(fs, y) /\ FolderDepth(fs, y) \in Nat
        BY <1>6, <4>1, <4>3
      <4>5. FolderDepth(gs, y) = FolderDepth(fs, y) - FolderDepth(fs, d) + 1 + FolderDepth(fs, p)
        BY <4>1, <4>2, <4>3
      <4> QED
        BY <1>6, <4>4, <4>5
    <3> QED
      BY <3>1, <3>2
  <2> HIDE DEF as
  <2>3. DOMAIN fs \subseteq as
    BY <1>0, <2>2, TreeInduction
  <2> QED
    BY <1>2, <2>3 DEF as
<1>8. ASSUME NEW x \in under PROVE FolderDepth(gs, x) <= MaxDepth
  <2>0. FolderDepth(fs, x) <= MaxDepth
    BY <1>2 DEF TreeTrue
  <2>1. CASE p = fs[d].parent
    <3>1. FolderDepth(fs, d) = 1 + FolderDepth(fs, p)
      BY <1>6, <2>1
    <3> QED
      BY <1>2, <1>6, <1>7, <2>0, <3>1
  <2>2. CASE p # fs[d].parent
    <3> DEFINE depths == {FolderDepth(fs, y) : y \in under}
    <3>1. depths \in SUBSET Nat /\ depths # {} /\ \A t \in depths : t <= MaxDepth
      BY <1>2, <1>6 DEF TreeTrue
    <3>2. FolderDepth(fs, x) \in depths
      OBVIOUS
    <3>3. FolderDepth(fs, p) + (1 + Max(depths) - FolderDepth(fs, d)) <= MaxDepth
      BY <2>2 DEF SubtreeHeight, under
    <3> HIDE DEF depths
    <3>4. PICK m \in Nat : m = Max(depths) /\ FolderDepth(fs, x) <= m
      BY <3>1, <3>2, MaxOf
    <3> QED
      BY <1>2, <1>6, <1>7, <3>3, <3>4
  <2> QED
    BY <2>1, <2>2
<1>9. \A x \in DOMAIN gs : gs[x] \in Record /\ FolderDepth(gs, x) <= MaxDepth
  <2>1. gs[d] \in Record
    BY <1>1 DEF Record, TreeTrue
  <2> QED
    BY <1>1, <1>2, <1>5, <1>8, <2>1 DEF TreeTrue
<1>10. IsInjective(gs)
  <2>1. \A x \in DOMAIN fs : x # d => fs[x] # [parent |-> p, name |-> n]
    BY DEF Siblings
  <2> QED
    BY <1>1, <2>1 DEF TreeTrue, IsInjective
<1> QED
  BY <1>1, <1>4, <1>9, <1>10 DEF TreeTrue, gs

(***************************************************************************)
(* The folders of an upload's path.                                        *)
(***************************************************************************)
\* A place on the way: a tree that has all that was in fs and at most k folders more.
Reached(fs, place, k) ==
  /\ place = [folders |-> place.folders, at |-> place.at]
  /\ TreeTrue(place.folders) /\ DOMAIN fs \subseteq DOMAIN place.folders
  /\ Cardinality(DOMAIN place.folders) <= Cardinality(DOMAIN fs) + k

LEMMA FreeFolder ==
  ASSUME NEW fs, TreeTrue(fs), IsFiniteSet(Folders),
         Cardinality(DOMAIN fs) < Cardinality(Folders) \/ Folders \ DOMAIN fs # {}
  PROVE  NewFolder(fs) \in Folders \ DOMAIN fs
<1>1. \E d \in Folders : d \notin DOMAIN fs
  <2>1. ASSUME DOMAIN fs = Folders PROVE FALSE
    <3>1. Cardinality(Folders) \in Nat
      BY FS_CardinalityType
    <3> QED
      BY <2>1, <3>1
  <2> QED
    BY <2>1 DEF TreeTrue
<1> QED
  BY <1>1 DEF NewFolder

LEMMA StepReaches ==
  ASSUME NEW fs, IsFiniteSet(DOMAIN fs), NEW place, NEW k \in Nat, Reached(fs, place, k), NEW n \in Names,
         Root \notin Folders, IsFiniteSet(Folders), MaxDepth \in Nat,
         Cardinality(DOMAIN fs) + k < Cardinality(Folders)
  PROVE  Reached(fs, StepInto(place, n), k + 1)
<1> DEFINE gs == place.folders
           p == place.at
           d == NewFolder(gs)
           there == Siblings(gs, p, n)
<1>1. /\ Cardinality(DOMAIN fs) \in Nat /\ Cardinality(Folders) \in Nat
      /\ IsFiniteSet(DOMAIN gs) /\ Cardinality(DOMAIN gs) \in Nat
  BY FS_CardinalityType DEF Reached, TreeTrue, Forest
<1>2. d \in Folders \ DOMAIN gs
  <2>1. Cardinality(DOMAIN gs) < Cardinality(Folders)
    BY <1>1 DEF Reached
  <2> QED
    BY <2>1, FreeFolder DEF Reached
<1>3. ASSUME NEW a PROVE Reached(fs, [place EXCEPT !.at = a], k + 1)
  <2>1. [place EXCEPT !.at = a] = [folders |-> gs, at |-> a]
    BY DEF Reached
  <2> QED
    BY <1>1, <2>1 DEF Reached
<1>4. CASE TooDeep(place)
  <2>1. StepInto(place, n) = place
    BY <1>4 DEF StepInto
  <2> QED
    BY <1>1, <2>1 DEF Reached
<1>5. CASE ~TooDeep(place) /\ there # {}
  <2>1. StepInto(place, n) = [place EXCEPT !.at = CHOOSE x \in there : TRUE]
    BY <1>5 DEF StepInto
  <2> QED
    BY <1>3, <2>1
<1>6. CASE ~TooDeep(place) /\ there = {} /\ FolderDepth(gs, p) >= MaxDepth
  <2>1. StepInto(place, n) = [place EXCEPT !.at = d]
    BY <1>6 DEF StepInto
  <2> QED
    BY <1>3, <2>1
<1>7. CASE ~TooDeep(place) /\ there = {} /\ ~(FolderDepth(gs, p) >= MaxDepth)
  <2>1. StepInto(place, n) = [folders |-> Added(gs, d, p, n), at |-> d]
    BY <1>7 DEF StepInto
  <2>2. p \in DOMAIN gs \cup {Root} /\ FolderDepth(gs, p) < MaxDepth
    <3>1. p \in DOMAIN gs \cup {Root}
      BY <1>7 DEF TooDeep
    <3>2. FolderDepth(gs, p) \in Nat
      BY <3>1, DepthOf DEF Reached, TreeTrue
    <3> QED
      BY <1>7, <3>1, <3>2
  <2>3. TreeTrue(Added(gs, d, p, n)) /\ DOMAIN Added(gs, d, p, n) = DOMAIN gs \cup {d}
    <3>1. TreeTrue(gs)
      BY DEF Reached
    <3> HIDE DEF gs, p, d
    <3> QED
      BY <1>2, <1>7, <2>2, <3>1, TreeAdded DEF there
  <2>4. Cardinality(DOMAIN gs \cup {d}) = Cardinality(DOMAIN gs) + 1
    BY <1>1, <1>2, FS_AddElement
  <2> HIDE DEF d
  <2>5. Cardinality(DOMAIN gs \cup {d}) <= Cardinality(DOMAIN fs) + (k + 1)
    BY <1>1, <2>4 DEF Reached
  <2>6. DOMAIN fs \subseteq DOMAIN gs \cup {d}
    BY DEF Reached
  <2> QED
    BY <2>1, <2>3, <2>5, <2>6 DEF Reached
<1> QED
  BY <1>4, <1>5, <1>6, <1>7

\* A path is walked to its end: the definition of Walk has a value, and every place on
\* the way is reached.
LEMMA WalkReaches ==
  ASSUME NEW fs, TreeTrue(fs), NEW target, NEW path \in Seq(Names),
         Root \notin Folders, IsFiniteSet(Folders), MaxDepth \in Nat,
         Cardinality(DOMAIN fs) + Len(path) < Cardinality(Folders)
  PROVE  Reached(fs, Walk(fs, target, path), Len(path))
<1> DEFINE start == [folders |-> fs, at |-> target]
           Is(f, m) == f = [i \in 0..m |-> IF i = 0 THEN start ELSE StepInto(f[i - 1], path[i])]
           place == CHOOSE f : Is(f, Len(path))
           stuck == {m \in 0..Len(path) : ~\E f : Is(f, m)}
           lost == {m \in 0..Len(path) : ~Reached(fs, place[m], m)}
<1>0. /\ Len(path) \in Nat /\ IsFiniteSet(DOMAIN fs) /\ IsFiniteSet(Folders)
      /\ Cardinality(DOMAIN fs) \in Nat /\ Cardinality(Folders) \in Nat
      /\ \A m \in 1..Len(path) : path[m] \in Names
  BY FS_CardinalityType DEF TreeTrue, Forest
<1>1. ASSUME stuck # {} PROVE FALSE
  <2>1. PICK m \in stuck : \A k \in stuck : m <= k
    <3>1. stuck \in SUBSET Nat
      BY <1>0
    <3> HIDE DEF stuck
    <3> QED
      BY <1>1, <3>1, LeastOf
  <2>2. CASE m = 0
    <3> DEFINE f == [i \in 0..0 |-> start]
    <3>1. Is(f, 0)
      <4> HIDE DEF start
      <4>1. \A i \in 0..0 : i = 0
        OBVIOUS
      <4> QED
        BY <4>1
    <3> HIDE DEF f, Is
    <3> QED
      BY <2>1, <2>2, <3>1
  <2>3. CASE m # 0
    <3>1. m \in 1..Len(path) /\ m - 1 \in 0..Len(path)
      BY <1>0, <2>1, <2>3
    <3>2. m - 1 \notin stuck
      <4> HIDE DEF stuck
      <4>1. ~(m <= m - 1)
        BY <3>1
      <4> QED
        BY <2>1, <4>1
    <3>3. PICK f : Is(f, m - 1)
      BY <3>1, <3>2
    <3> DEFINE g == [i \in 0..m |-> IF i = m THEN StepInto(f[m - 1], path[m]) ELSE f[i]]
    <3>4. Is(g, m)
      <4>1. \A i \in 0..(m - 1) : f[i] = IF i = 0 THEN start ELSE StepInto(f[i - 1], path[i])
        <5> HIDE DEF start
        <5> QED
          BY <3>3
      <4>2. ASSUME NEW i \in 0..m
            PROVE  g[i] = IF i = 0 THEN start ELSE StepInto(g[i - 1], path[i])
        <5> HIDE DEF start
        <5>1. CASE i = m
          <6>1. g[i - 1] = f[m - 1]
            BY <3>1, <5>1
          <6> QED
            BY <3>1, <5>1, <6>1
        <5>2. CASE i # m /\ i # 0
          <6>1. i - 1 \in 0..m /\ i - 1 # m /\ i \in 0..(m - 1)
            BY <3>1, <5>2
          <6>2. g[i - 1] = f[i - 1] /\ g[i] = f[i]
            BY <5>2, <6>1
          <6> HIDE DEF g
          <6> QED
            BY <4>1, <5>2, <6>1, <6>2
        <5>3. CASE i # m /\ i = 0
          <6>1. 0 \in 0..(m - 1)
            BY <3>1
          <6>2. g[i] = f[0]
            BY <5>3
          <6> HIDE DEF g
          <6> QED
            BY <4>1, <5>3, <6>1, <6>2
        <5> QED
          BY <5>1, <5>2, <5>3
      <4>3. g = [i \in 0..m |-> g[i]]
        OBVIOUS
      <4> HIDE DEF g, start
      <4> QED
        BY <4>2, <4>3
    <3> HIDE DEF g, Is
    <3> QED
      BY <2>1, <3>4
  <2> QED
    BY <2>2, <2>3
<1>2. Is(place, Len(path))
  <2>1. \E f : Is(f, Len(path))
    <3>1. Len(path) \in 0..Len(path)
      BY <1>0
    <3> HIDE DEF Is
    <3> QED
      BY <1>1, <3>1
  <2> HIDE DEF Is
  <2> QED
    BY <2>1
<1>3. Walk(fs, target, path) = place[Len(path)]
  BY DEF Walk
<1> HIDE DEF place
<1>4. /\ place[0] = start
      /\ \A m \in 1..Len(path) : place[m] = StepInto(place[m - 1], path[m])
  <2>1. \A i \in 0..Len(path) : place[i] = IF i = 0 THEN start ELSE StepInto(place[i - 1], path[i])
    <3> HIDE DEF start
    <3> QED
      BY <1>2
  <2> HIDE DEF start
  <2>2. 0 \in 0..Len(path) /\ \A m \in 1..Len(path) : m \in 0..Len(path) /\ m # 0
    BY <1>0
  <2> QED
    BY <2>1, <2>2
<1>5. ASSUME lost # {} PROVE FALSE
  <2>1. PICK m \in lost : \A k \in lost : m <= k
    <3>1. lost \in SUBSET Nat
      BY <1>0
    <3> HIDE DEF lost
    <3> QED
      BY <1>5, <3>1, LeastOf
  <2>2. CASE m = 0
    <3>1. Reached(fs, start, 0)
      BY <1>0 DEF Reached
    <3> QED
      BY <1>4, <2>1, <2>2, <3>1
  <2>3. CASE m # 0
    <3>1. m \in 1..Len(path) /\ m - 1 \in 0..Len(path) /\ m - 1 \in Nat /\ (m - 1) + 1 = m
      BY <1>0, <2>1, <2>3
    <3>2. Reached(fs, place[m - 1], m - 1)
      BY <2>1, <3>1
    <3>3. Cardinality(DOMAIN fs) + (m - 1) < Cardinality(Folders)
      BY <1>0, <3>1
    <3>4. Reached(fs, StepInto(place[m - 1], path[m]), (m - 1) + 1)
      BY <1>0, <3>1, <3>2, <3>3, StepReaches
    <3> QED
      BY <1>4, <2>1, <3>1, <3>4
  <2> QED
    BY <2>2, <2>3
<1>6. Len(path) \in 0..Len(path)
  BY <1>0
<1> QED
  BY <1>3, <1>5, <1>6

(***************************************************************************)
(* The files in the folders.                                               *)
(***************************************************************************)
FilesTrue(fs, ds) ==
  /\ DOMAIN ds \subseteq Files /\ IsInjective(ds)
  /\ \A f \in DOMAIN ds : /\ ds[f] \in [folder : Folders \cup {Root}, name : Names]
                          /\ ds[f].folder \in DOMAIN fs \cup {Root}

\* Files fs are put into a folder, new ones or such as were elsewhere.
PutInto(p, fs, name, ds, es) ==
  /\ DOMAIN es = DOMAIN ds \cup fs
  /\ \A f \in DOMAIN es :
       es[f] = IF f \in fs THEN [folder |-> p, name |-> name[f]] ELSE ds[f]

LEMMA FilesPut ==
  ASSUME NEW gs, DOMAIN gs \subseteq Folders, NEW ds, FilesTrue(gs, ds),
         NEW fs \in SUBSET Files, NEW p \in DOMAIN gs \cup {Root},
         NEW name \in Placements(ds, p, fs), NEW es,
         PutInto(p, fs, name, ds, es)
  PROVE  FilesTrue(gs, es)
<1>1. /\ name \in [fs -> Names \ Taken(ds, p, fs)]
      /\ \A f, g \in fs : name[f] = name[g] => f = g
  BY DEF Placements, Injection, IsInjective
<1>0. /\ DOMAIN es = DOMAIN ds \cup fs
      /\ \A f \in DOMAIN es :
           es[f] = IF f \in fs THEN [folder |-> p, name |-> name[f]] ELSE ds[f]
  BY DEF PutInto
<1>2. ASSUME NEW f \in fs PROVE es[f].folder = p /\ es[f].name = name[f] /\ name[f] \in Names
  <2>1. es[f] = [folder |-> p, name |-> name[f]]
    BY <1>0
  <2>2. name[f] \in Names
    BY <1>1
  <2> QED
    BY <2>1, <2>2
<1>3. \A f \in DOMAIN es \ fs : es[f] = ds[f] /\ f \in DOMAIN ds
  BY <1>0
<1>4. ASSUME NEW f \in fs, NEW g \in DOMAIN es \ fs PROVE es[f] # es[g]
  <2>1. CASE ds[g].folder = p
    <3>1. ds[g].name \in Taken(ds, p, fs)
      BY <1>3, <2>1 DEF Taken
    <3> QED
      BY <1>1, <1>2, <1>3, <3>1
  <2>2. CASE ds[g].folder # p
    BY <1>2, <1>3, <2>2
  <2> QED
    BY <2>1, <2>2
<1>5. IsInjective(es)
  <2>1. ASSUME NEW f \in DOMAIN es, NEW g \in DOMAIN es, es[f] = es[g] PROVE f = g
    <3>1. CASE f \in fs /\ g \in fs
      BY <1>1, <1>2, <2>1, <3>1
    <3>2. CASE f \notin fs /\ g \notin fs
      BY <1>3, <2>1, <3>2 DEF FilesTrue, IsInjective
    <3>3. CASE f \in fs /\ g \notin fs
      BY <1>4, <2>1, <3>3
    <3>4. CASE f \notin fs /\ g \in fs
      BY <1>4, <2>1, <3>4
    <3> QED
      BY <3>1, <3>2, <3>3, <3>4
  <2> QED
    BY <2>1 DEF IsInjective
<1>6. ASSUME NEW f \in DOMAIN es
      PROVE  /\ es[f] \in [folder : Folders \cup {Root}, name : Names]
             /\ es[f].folder \in DOMAIN gs \cup {Root}
  <2>1. CASE f \in fs
    <3>1. es[f] = [folder |-> p, name |-> name[f]] /\ name[f] \in Names /\ p \in Folders \cup {Root}
      BY <1>0, <1>1, <2>1
    <3> QED
      BY <3>1
  <2>2. CASE f \notin fs
    BY <1>3, <2>2 DEF FilesTrue
  <2> QED
    BY <2>1, <2>2
<1>7. DOMAIN es \subseteq Files
  BY <1>0 DEF FilesTrue
<1> QED
  BY <1>5, <1>6, <1>7 DEF FilesTrue

\* Files that stay, while the folders they are in stay.
LEMMA FilesCut ==
  ASSUME NEW fs, NEW gs, NEW ds, FilesTrue(fs, ds), NEW T \in SUBSET DOMAIN ds,
         \A f \in T : ds[f].folder \in DOMAIN gs \cup {Root}
  PROVE  FilesTrue(gs, Restrict(ds, T))
<1> DEFINE es == Restrict(ds, T)
<1>1. DOMAIN es = T /\ \A f \in T : es[f] = ds[f]
  BY DEF Restrict
<1> HIDE DEF es
<1>2. FilesTrue(gs, es)
  BY <1>1 DEF FilesTrue, IsInjective
<1> QED
  BY <1>2 DEF es

LEMMA FilesStay ==
  ASSUME NEW fs, NEW gs, DOMAIN fs \subseteq DOMAIN gs, NEW ds, FilesTrue(fs, ds)
  PROVE  FilesTrue(gs, ds)
BY DEF FilesTrue

(***************************************************************************)
(* The tree of folders and the files in it, whatever the operations.       *)
(***************************************************************************)
RestTyped ==
  /\ disk \in [Files -> {"none", "fresh", "old"}]
  /\ pending \subseteq SUBSET Files /\ trash \subseteq Files
  /\ known = NotSweeping \/ known \subseteq Files
  /\ crashes \in 0..MaxCrashes

TreeInv == TreeTrue(folders) /\ FilesTrue(folders, files) /\ RestTyped

LEMMA TreeInit == ASSUME DocumentsAssumption, Init PROVE TreeInv
<1>0. folders = <<>> /\ DOMAIN folders = {} /\ files = <<>> /\ DOMAIN files = {}
  BY DEF Init
<1>1. Forest(folders)
  BY <1>0, FS_EmptySet DEF Forest
<1>2. TreeTrue(folders) /\ FilesTrue(folders, files)
  BY <1>0, <1>1 DEF TreeTrue, FilesTrue, IsInjective
<1>3. RestTyped
  BY DEF Init, RestTyped, DocumentsAssumption
<1> QED
  BY <1>2, <1>3 DEF TreeInv

LEMMA FolderSteps ==
  ASSUME DocumentsAssumption, TreeInv, NEW p \in Folders \cup {Root}, NEW n \in Names,
         CreateFolder(p, n) \/ \E d \in Folders : UpdateFolder(d, p, n)
  PROVE  TreeInv'
<1>0. /\ TreeTrue(folders) /\ FilesTrue(folders, files) /\ Forest(folders)
      /\ Root \notin Folders /\ IsFiniteSet(Folders) /\ MaxDepth \in Nat
  BY DEF TreeInv, TreeTrue, DocumentsAssumption
<1>1. UNCHANGED <<files, disk, pending, trash, known, crashes>>
  BY DEF CreateFolder, UpdateFolder, DiskUnchanged
<1>2. TreeTrue(folders') /\ DOMAIN folders \subseteq DOMAIN folders'
  <2>1. CASE CreateFolder(p, n)
    <3>1. /\ p \in DOMAIN folders \cup {Root} /\ FolderDepth(folders, p) < MaxDepth
          /\ Siblings(folders, p, n) = {} /\ Folders \ DOMAIN folders # {}
          /\ folders' = Added(folders, NewFolder(folders), p, n)
      BY <2>1 DEF CreateFolder
    <3> DEFINE d == NewFolder(folders)
    <3>2. d \in Folders \ DOMAIN folders
      BY <1>0, <3>1, FreeFolder
    <3>3. folders' = Added(folders, d, p, n)
      BY <3>1
    <3>4. /\ p \in DOMAIN folders \cup {Root} /\ FolderDepth(folders, p) < MaxDepth
          /\ Siblings(folders, p, n) = {}
      BY <3>1
    <3>5. TreeTrue(folders) /\ Root \notin Folders /\ MaxDepth \in Nat
      BY <1>0
    <3> HIDE DEF d
    <3>6. /\ TreeTrue(Added(folders, d, p, n))
          /\ DOMAIN Added(folders, d, p, n) = DOMAIN folders \cup {d}
      BY <3>2, <3>4, <3>5, TreeAdded
    <3> QED
      BY <3>3, <3>6
  <2>2. ASSUME NEW d \in Folders, UpdateFolder(d, p, n)
        PROVE  TreeTrue(folders') /\ DOMAIN folders \subseteq DOMAIN folders'
    <3>1. /\ d \in DOMAIN folders /\ Siblings(folders, p, n) \ {d} = {}
          /\ folders' = [folders EXCEPT ![d] = [parent |-> p, name |-> n]]
          /\ p # folders[d].parent =>
               /\ p \in DOMAIN folders \cup {Root} /\ p \notin Descendants(folders, d)
               /\ FolderDepth(folders, p) + SubtreeHeight(folders, d) <= MaxDepth
      BY <2>2 DEF UpdateFolder
    <3>2. p \in DOMAIN folders \cup {Root}
      BY <1>0, <3>1 DEF Forest
    <3>3. TreeTrue([folders EXCEPT ![d] = [parent |-> p, name |-> n]])
      BY <1>0, <3>1, <3>2, TreeMoved
    <3> QED
      BY <3>1, <3>3
  <2> QED
    BY <2>1, <2>2
<1>3. FilesTrue(folders', files')
  BY <1>0, <1>1, <1>2, FilesStay
<1> QED
  BY <1>1, <1>2, <1>3 DEF TreeInv, RestTyped

LEMMA UploadSteps ==
  ASSUME DocumentsAssumption, TreeInv, NEW p \in Folders \cup {Root}, NEW n \in Names,
         NEW fs \in SUBSET Files, NEW path \in Paths, Upload(fs, p, path, n)
  PROVE  TreeInv'
<1> DEFINE place == Walk(folders, p, path)
<1>0. /\ TreeTrue(folders) /\ FilesTrue(folders, files)
      /\ Root \notin Folders /\ IsFiniteSet(Folders) /\ MaxDepth \in Nat /\ path \in Seq(Names)
  BY DEF TreeInv, DocumentsAssumption
<1>1. /\ Cardinality(DOMAIN folders) + Len(path) < Cardinality(Folders)
      /\ ~TooDeep(place) /\ folders' = place.folders
      /\ \E name \in Placements(files, place.at, fs) :
           files' = [f \in DOMAIN files \cup fs |->
                       IF f \in fs THEN [folder |-> place.at, name |-> name[f]] ELSE files[f]]
      /\ pending' = pending \ {fs} /\ UNCHANGED <<disk, trash, known, crashes>>
  BY DEF Upload
<1>2. Reached(folders, place, Len(path))
  BY <1>0, <1>1, WalkReaches
<1> HIDE DEF place
<1>3. TreeTrue(folders') /\ DOMAIN folders \subseteq DOMAIN folders'
  BY <1>1, <1>2 DEF Reached
<1>4. place.at \in DOMAIN folders' \cup {Root}
  BY <1>1 DEF TooDeep
<1>5. FilesTrue(folders', files)
  BY <1>0, <1>3, FilesStay
<1>6. PICK name \in Placements(files, place.at, fs) :
        files' = [f \in DOMAIN files \cup fs |->
                    IF f \in fs THEN [folder |-> place.at, name |-> name[f]] ELSE files[f]]
  BY <1>1
<1>7. FilesTrue(folders', files')
  <2>1. DOMAIN folders' \subseteq Folders
    BY <1>3 DEF TreeTrue
  <2>2. PutInto(place.at, fs, name, files, files')
    BY <1>6 DEF PutInto
  <2> QED
    BY <1>4, <1>5, <1>6, <2>1, <2>2, FilesPut
<1>8. RestTyped'
  BY <1>1 DEF TreeInv, RestTyped
<1> QED
  BY <1>3, <1>7, <1>8 DEF TreeInv

LEMMA FileSteps ==
  ASSUME DocumentsAssumption, TreeInv,
         \/ \E f \in Files, p \in Folders \cup {Root}, n \in Names : UpdateFile(f, p, n)
         \/ \E fs \in SUBSET Files, p \in Folders \cup {Root} : MoveFiles(fs, p)
  PROVE  TreeInv'
<1>0. TreeTrue(folders) /\ FilesTrue(folders, files) /\ DOMAIN folders \subseteq Folders
  BY DEF TreeInv, TreeTrue
<1>1. UNCHANGED <<folders, disk, pending, trash, known, crashes>>
  BY DEF UpdateFile, MoveFiles, DiskUnchanged
<1> DEFINE Put(fs, p, name) ==
             /\ DOMAIN files' = DOMAIN files
             /\ \A f \in DOMAIN files :
                  files'[f] = IF f \in fs THEN [folder |-> p, name |-> name[f]] ELSE files[f]
           SomePut == \E fs \in SUBSET DOMAIN files, p \in DOMAIN folders \cup {Root} :
                        \E name \in Placements(files, p, fs) : Put(fs, p, name)
<1>2. SomePut
  <2>1. ASSUME NEW f \in Files, NEW p \in Folders \cup {Root}, NEW n \in Names, UpdateFile(f, p, n)
        PROVE  SomePut
    <3>1. f \in DOMAIN files /\ p \in DOMAIN folders \cup {Root}
      BY <2>1 DEF UpdateFile
    <3>2. PICK name \in Placements(files, p, {f}) :
            files' = [files EXCEPT ![f] = [folder |-> p, name |-> name[f]]]
      BY <2>1 DEF UpdateFile
    <3>3. {f} \in SUBSET DOMAIN files
      BY <3>1
    <3>4. /\ DOMAIN files' = DOMAIN files
          /\ \A g \in DOMAIN files :
               files'[g] = IF g \in {f} THEN [folder |-> p, name |-> name[g]] ELSE files[g]
      BY <3>1, <3>2
    <3> QED
      BY <3>1, <3>2, <3>3, <3>4
  <2>2. ASSUME NEW fs \in SUBSET Files, NEW p \in Folders \cup {Root}, MoveFiles(fs, p)
        PROVE  SomePut
    <3> DEFINE moved == {f \in fs \cap DOMAIN files : files[f].folder # p}
    <3>1. p \in DOMAIN folders \cup {Root} /\ moved \in SUBSET DOMAIN files
      BY <2>2 DEF MoveFiles
    <3>2. PICK name \in Placements(files, p, moved) :
            files' = [f \in DOMAIN files |->
                        IF f \in moved THEN [folder |-> p, name |-> name[f]] ELSE files[f]]
      BY <2>2 DEF MoveFiles
    <3> HIDE DEF moved
    <3> QED
      BY <3>1, <3>2
  <2> QED
    BY <2>1, <2>2
<1>3. PICK fs \in SUBSET DOMAIN files, p \in DOMAIN folders \cup {Root} :
        \E name \in Placements(files, p, fs) : Put(fs, p, name)
  BY <1>2
<1>3a. PICK name \in Placements(files, p, fs) : Put(fs, p, name)
  BY <1>3
<1>4. fs \in SUBSET Files /\ DOMAIN files' = DOMAIN files \cup fs
  BY <1>0, <1>3a DEF FilesTrue
<1>5. FilesTrue(folders, files')
  <2>1. PutInto(p, fs, name, files, files')
    BY <1>3a, <1>4 DEF PutInto
  <2> QED
    BY <1>0, <1>3, <1>3a, <1>4, <2>1, FilesPut
<1> QED
  BY <1>0, <1>1, <1>5 DEF TreeInv, RestTyped

LEMMA DeleteSteps ==
  ASSUME DocumentsAssumption, TreeInv,
         \/ \E d \in Folders : DeleteFolder(d)
         \/ \E fs \in SUBSET Files : DeleteFiles(fs)
  PROVE  TreeInv'
<1>0. /\ TreeTrue(folders) /\ FilesTrue(folders, files) /\ Forest(folders)
      /\ DOMAIN files \subseteq Files
  BY DEF TreeInv, TreeTrue, FilesTrue
<1>1. ASSUME NEW d \in Folders, DeleteFolder(d) PROVE TreeInv'
  <2> DEFINE ids == Descendants(folders, d)
             gone == {f \in DOMAIN files : files[f].folder \in ids}
             S == DOMAIN folders \ ids
             T == DOMAIN files \ gone
  <2>1. /\ d \in DOMAIN folders /\ folders' = Restrict(folders, S) /\ files' = Restrict(files, T)
        /\ trash' = trash \cup gone /\ UNCHANGED <<disk, pending, known, crashes>>
    BY <1>1 DEF DeleteFolder
  <2>2. \A x \in S : folders[x].parent \in S \cup {Root}
    <3>1. d \in ids /\ \A x \in DOMAIN folders : x # d => (x \in ids <=> folders[x].parent \in ids)
      BY <1>0, <2>1, DescendantsOf
    <3>2. \A x \in S : x # d /\ folders[x].parent \in DOMAIN folders \cup {Root}
      BY <1>0, <3>1 DEF Forest
    <3> HIDE DEF ids
    <3> QED
      BY <3>1, <3>2
  <2>3. gone \subseteq Files /\ T \in SUBSET DOMAIN files /\ S \in SUBSET DOMAIN folders
    BY <1>0
  <2>4. \A f \in T : files[f].folder \in S \cup {Root}
    BY <1>0 DEF FilesTrue
  <2> HIDE DEF S, T, gone
  <2>5. TreeTrue(folders') /\ DOMAIN folders' = S
    BY <1>0, <2>1, <2>2, <2>3, TreeCut
  <2>6. FilesTrue(folders', files')
    BY <1>0, <2>1, <2>3, <2>4, <2>5, FilesCut
  <2>7. RestTyped'
    BY <2>1, <2>3 DEF TreeInv, RestTyped
  <2> QED
    BY <2>5, <2>6, <2>7 DEF TreeInv
<1>2. ASSUME NEW fs \in SUBSET Files, DeleteFiles(fs) PROVE TreeInv'
  <2> DEFINE T == DOMAIN files \ fs
  <2>1. /\ files' = Restrict(files, T) /\ trash' = trash \cup (fs \cap DOMAIN files)
        /\ UNCHANGED <<folders, disk, pending, known, crashes>>
    BY <1>2 DEF DeleteFiles
  <2>2. T \in SUBSET DOMAIN files /\ \A f \in T : files[f].folder \in DOMAIN folders \cup {Root}
    BY <1>0 DEF FilesTrue
  <2> HIDE DEF T
  <2>3. FilesTrue(folders, files')
    BY <1>0, <2>1, <2>2, FilesCut
  <2> QED
    BY <1>0, <2>1, <2>3 DEF TreeInv, RestTyped
<1> QED
  BY <1>1, <1>2

LEMMA OtherSteps ==
  ASSUME DocumentsAssumption, TreeInv,
         \/ \E fs \in SUBSET Files : Receive(fs) \/ UploadFails(fs)
         \/ \E f \in Files : Unlink(f) \/ SweepFile(f) \/ Age(f)
         \/ SweepStart \/ SweepEnd \/ Crash \/ UNCHANGED vars
  PROVE  TreeInv'
<1>0. UNCHANGED <<folders, files>> /\ DOMAIN files \subseteq Files /\ MaxCrashes \in Nat
  BY DEF TreeInv, FilesTrue, Receive, UploadFails, Unlink, SweepFile, Age, SweepStart, SweepEnd,
         Crash, vars, DocumentsAssumption
<1>1. RestTyped'
  <2> USE DEF TreeInv, RestTyped
  <2>1. ASSUME NEW fs \in SUBSET Files, Receive(fs) \/ UploadFails(fs) PROVE RestTyped'
    BY <2>1 DEF Receive, UploadFails
  <2>2. ASSUME NEW f \in Files, Unlink(f) \/ SweepFile(f) \/ Age(f) PROVE RestTyped'
    BY <2>2 DEF Unlink, SweepFile, Age
  <2>3. CASE SweepStart \/ SweepEnd \/ Crash \/ UNCHANGED vars
    BY <1>0, <2>3 DEF SweepStart, SweepEnd, Crash, vars
  <2> QED
    BY <2>1, <2>2, <2>3
<1> QED
  BY <1>0, <1>1 DEF TreeInv

LEMMA TreeNext == ASSUME DocumentsAssumption, TreeInv, Next \/ UNCHANGED vars PROVE TreeInv'
<1>1. ASSUME NEW p \in Folders \cup {Root}, NEW n \in Names,
             \/ CreateFolder(p, n)
             \/ \E d \in Folders : UpdateFolder(d, p, n)
             \/ \E f \in Files : UpdateFile(f, p, n)
             \/ \E fs \in SUBSET Files, path \in Paths : Upload(fs, p, path, n)
      PROVE  TreeInv'
  BY <1>1, FolderSteps, FileSteps, UploadSteps
<1> QED
  BY <1>1, FileSteps, DeleteSteps, OtherSteps DEF Next

LEMMA TreeTypes == ASSUME TreeInv PROVE TypeOK
BY DEF TreeInv, TreeTrue, Record, FilesTrue, RestTyped, TypeOK

LEMMA TreeIsSound == ASSUME TreeInv PROVE TreeSound
<1>1. \A S \in (SUBSET DOMAIN folders) \ {{}} : \E d \in S : folders[d].parent \notin S
  <2>1. ASSUME NEW S \in (SUBSET DOMAIN folders) \ {{}} PROVE \E d \in S : folders[d].parent \notin S
    <3>1. S \in SUBSET DOMAIN folders /\ S # {}
      BY <2>1
    <3> QED
      BY <3>1 DEF TreeInv, TreeTrue, Forest
  <2> QED
    BY <2>1
<1> QED
  BY <1>1 DEF TreeInv, TreeTrue, Forest, FilesTrue, TreeSound

(***************************************************************************)
(* The files of the list and those on the disk.                            *)
(***************************************************************************)
\* A file of the list is on the disk and nobody's to unlink or to record, and a sweep
\* knows it or finds it fresh; a file that was received is fresh, and of one request.
ListTrue ==
  /\ DOMAIN files \subseteq Files /\ disk \in [Files -> {"none", "fresh", "old"}]
  /\ pending \subseteq SUBSET Files /\ trash \subseteq Files
  /\ \A f \in DOMAIN files : /\ disk[f] # "none" /\ f \notin trash
                             /\ \A fs \in pending : f \notin fs
                             /\ known # NotSweeping /\ f \notin known => disk[f] = "fresh"
  /\ \A fs \in pending : \A f \in fs : disk[f] = "fresh" /\ f \notin trash
  /\ \A fs, gs \in pending : fs # gs => fs \cap gs = {}

\* What a step does to the list and the files.
ListKept   == DOMAIN files' = DOMAIN files /\ UNCHANGED <<disk, pending, trash, known>>
ListDrops(fs) ==
  /\ fs \subseteq DOMAIN files /\ DOMAIN files' = DOMAIN files \ fs
  /\ trash' = trash \cup fs /\ UNCHANGED <<disk, pending, known>>
ListGets(fs) ==
  /\ fs \in pending /\ DOMAIN files' = DOMAIN files \cup fs
  /\ pending' = pending \ {fs} /\ UNCHANGED <<disk, trash, known>>
FilesCome(fs) ==
  /\ \A f \in fs : disk[f] = "none" /\ f \notin DOMAIN files /\ f \notin trash
  /\ fs \cap UNION pending = {}
  /\ disk' = [f \in Files |-> IF f \in fs THEN "fresh" ELSE disk[f]]
  /\ pending' = pending \cup {fs} /\ UNCHANGED <<files, trash, known>>
FilesRefused(fs) ==
  /\ fs \in pending /\ pending' = pending \ {fs} /\ trash' = trash \cup fs
  /\ UNCHANGED <<files, disk, known>>
FileGoes(f) ==
  /\ f \in trash \/ (known # NotSweeping /\ f \notin known /\ disk[f] = "old")
  /\ disk' = [disk EXCEPT ![f] = "none"]
  /\ trash' = trash \ {f} \/ trash' = trash
  /\ UNCHANGED <<files, pending, known>>
FileAges(f) ==
  /\ disk[f] = "fresh" /\ f \notin UNION pending /\ known = NotSweeping
  /\ disk' = [disk EXCEPT ![f] = "old"] /\ UNCHANGED <<files, pending, trash, known>>
SweepTurns ==
  /\ known' = NotSweeping \/ (known = NotSweeping /\ known' = DOMAIN files)
  /\ UNCHANGED <<files, disk>>
  /\ UNCHANGED <<pending, trash>> \/ (pending' = {} /\ trash' = {})

ListStep ==
  \/ ListKept \/ SweepTurns
  \/ \E fs \in SUBSET Files : ListDrops(fs) \/ ListGets(fs) \/ FilesCome(fs) \/ FilesRefused(fs)
  \/ \E f \in Files : FileGoes(f) \/ FileAges(f)

LEMMA ListTrueNext ==
  ASSUME ListTrue, ListStep
  PROVE  ListTrue'
<1> USE DEF ListTrue
<1>1. CASE ListKept
  BY <1>1 DEF ListKept
<1>2. CASE SweepTurns
  BY <1>2 DEF SweepTurns
<1>3. ASSUME NEW fs \in SUBSET Files, ListDrops(fs) PROVE ListTrue'
  BY <1>3 DEF ListDrops
<1>4. ASSUME NEW fs \in SUBSET Files, ListGets(fs) PROVE ListTrue'
  BY <1>4 DEF ListGets
<1>5. ASSUME NEW fs \in SUBSET Files, FilesCome(fs) PROVE ListTrue'
  <2>1. \A f \in fs : \A gs \in pending : f \notin gs
    BY <1>5 DEF FilesCome
  <2>2. disk' \in [Files -> {"none", "fresh", "old"}] /\ \A f \in Files : f \notin fs => disk'[f] = disk[f]
    BY <1>5 DEF FilesCome
  <2>3. \A f \in fs : disk'[f] = "fresh"
    BY <1>5 DEF FilesCome
  <2>4. \A f \in DOMAIN files : f \notin fs
    BY <1>5 DEF FilesCome
  <2>5. UNCHANGED <<files, trash, known>> /\ pending' = pending \cup {fs} /\ \A f \in fs : f \notin trash
    BY <1>5 DEF FilesCome
  <2>6. \A gs, hs \in pending' : gs # hs => gs \cap hs = {}
    BY <2>1, <2>5
  <2>7. \A gs \in pending' : \A f \in gs : disk'[f] = "fresh" /\ f \notin trash'
    BY <2>1, <2>2, <2>3, <2>5
  <2>8. \A f \in DOMAIN files' : /\ disk'[f] # "none" /\ f \notin trash'
                                 /\ \A gs \in pending' : f \notin gs
                                 /\ known' # NotSweeping /\ f \notin known' => disk'[f] = "fresh"
    BY <2>2, <2>4, <2>5
  <2> QED
    BY <2>2, <2>5, <2>6, <2>7, <2>8
<1>6. ASSUME NEW fs \in SUBSET Files, FilesRefused(fs) PROVE ListTrue'
  BY <1>6 DEF FilesRefused
<1>7. ASSUME NEW f \in Files, FileGoes(f) PROVE ListTrue'
  <2>1. f \notin DOMAIN files /\ \A fs \in pending : f \notin fs
    BY <1>7 DEF FileGoes
  <2> QED
    BY <1>7, <2>1 DEF FileGoes
<1>8. ASSUME NEW f \in Files, FileAges(f) PROVE ListTrue'
  BY <1>8 DEF FileAges
<1> QED
  BY <1>1, <1>2, <1>3, <1>4, <1>5, <1>6, <1>7, <1>8 DEF ListStep

LEMMA ListSteps ==
  ASSUME Next, DOMAIN files \subseteq Files
  PROVE  ListStep
<1> USE DEF DiskUnchanged, NotSweeping
<1>1. ASSUME NEW p \in Folders \cup {Root}, NEW n \in Names,
             \/ CreateFolder(p, n)
             \/ \E d \in Folders : UpdateFolder(d, p, n)
             \/ \E f \in Files : UpdateFile(f, p, n)
      PROVE  ListKept
  BY <1>1 DEF CreateFolder, UpdateFolder, UpdateFile, ListKept
<1>2. ASSUME NEW p \in Folders \cup {Root}, NEW n \in Names,
             NEW fs \in SUBSET Files, NEW path \in Paths, Upload(fs, p, path, n)
      PROVE  ListGets(fs)
  BY <1>2 DEF Upload, ListGets
<1>3. ASSUME NEW d \in Folders, DeleteFolder(d)
      PROVE  \E fs \in SUBSET Files : ListDrops(fs)
  <2> DEFINE removed == {f \in DOMAIN files : files[f].folder \in Descendants(folders, d)}
  <2>1. removed \subseteq DOMAIN files
    OBVIOUS
  <2>2. DOMAIN files' = DOMAIN files \ removed /\ trash' = trash \cup removed
        /\ UNCHANGED <<disk, pending, known>>
    BY <1>3 DEF DeleteFolder, Restrict
  <2> HIDE DEF removed
  <2> QED
    BY <2>1, <2>2 DEF ListDrops
<1>4. ASSUME NEW fs \in SUBSET Files, Receive(fs)
      PROVE  FilesCome(fs)
  BY <1>4 DEF Receive, FilesCome
<1>5. ASSUME NEW fs \in SUBSET Files, UploadFails(fs)
      PROVE  FilesRefused(fs)
  BY <1>5 DEF UploadFails, FilesRefused
<1>6. ASSUME NEW fs \in SUBSET Files, DeleteFiles(fs)
      PROVE  ListDrops(fs \cap DOMAIN files)
  <2>1. DOMAIN files' = DOMAIN files \ fs
    BY <1>6 DEF DeleteFiles, Restrict
  <2> QED
    BY <1>6, <2>1 DEF DeleteFiles, ListDrops
<1>7. ASSUME NEW fs \in SUBSET Files, NEW p \in Folders \cup {Root}, MoveFiles(fs, p)
      PROVE  ListKept
  BY <1>7 DEF MoveFiles, ListKept
<1>8. ASSUME NEW f \in Files, Unlink(f) \/ SweepFile(f)
      PROVE  FileGoes(f)
  BY <1>8 DEF Unlink, SweepFile, FileGoes
<1>9. ASSUME NEW f \in Files, Age(f)
      PROVE  FileAges(f)
  BY <1>9 DEF Age, FileAges
<1>10. ASSUME SweepStart \/ SweepEnd \/ Crash
       PROVE  SweepTurns
  BY <1>10 DEF SweepStart, SweepEnd, Crash, SweepTurns
<1> QED
  BY <1>1, <1>2, <1>3, <1>4, <1>5, <1>6, <1>7, <1>8, <1>9, <1>10 DEF Next, ListStep

(***************************************************************************)
(* The library.                                                            *)
(***************************************************************************)
LibraryInv == TreeInv /\ ListTrue

LEMMA LibraryInit == ASSUME DocumentsAssumption, Init PROVE LibraryInv
<1>1. ListTrue
  BY DEF Init, ListTrue
<1> QED
  BY <1>1, TreeInit DEF LibraryInv

LEMMA LibraryNext ==
  ASSUME DocumentsAssumption, LibraryInv, Next \/ UNCHANGED vars
  PROVE  LibraryInv'
<1>1. DOMAIN files \subseteq Files
  BY DEF LibraryInv, ListTrue
<1>2. UNCHANGED vars => ListKept
  BY DEF vars, ListKept
<1>3. ListStep
  BY <1>1, <1>2, ListSteps DEF ListStep
<1> QED
  BY <1>3, TreeNext, ListTrueNext DEF LibraryInv

LEMMA LibrarySound == ASSUME LibraryInv PROVE TypeOK /\ TreeSound /\ NoDangling
BY TreeTypes, TreeIsSound DEF LibraryInv, ListTrue, NoDangling

\* Of the library alone, whatever is uploaded, moved, renamed, deleted or swept: the
\* folders are a tree within the depth allowed, no two of one folder have the same
\* name, every file is in a folder that is there, and its bytes are on the disk.
THEOREM LibraryStaysSound ==
  ASSUME DocumentsAssumption
  PROVE  Spec => [](TypeOK /\ TreeSound /\ NoDangling)
<1>1. Init => LibraryInv
  BY LibraryInit
<1>2. LibraryInv /\ [Next]_vars => LibraryInv'
  BY LibraryNext
<1>3. LibraryInv => TypeOK /\ TreeSound /\ NoDangling
  BY LibrarySound
<1> QED
  BY <1>1, <1>2, <1>3, PTL DEF Spec
=============================================================================
