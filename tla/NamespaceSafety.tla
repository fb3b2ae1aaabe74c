----------------------------- MODULE NamespaceSafety -----------------------------
(* The namespace of a workspace, proved for every set of names, every depth, every  *)
(* history of trees and every sequence of operations: the nodes it needs are there, *)
(* hard links agree, changes are logged, the comparison of trees is exact, and it   *)
(* implements a map of paths.                                                       *)
EXTENDS Namespace, TreeFacts

\* What a path may show.
Allowed(e) == e = None \/ Proper(e)

\* A tree has no entry below the last level.
Trim(tree) ==
    \A p \in Seq(Names) :
        /\ Len(p) > Depth => Get(tree, p) = None
        /\ Allowed(Get(tree, p))

\* The nodes that the workspace's tree shares with some commit's stay reachable,
\* the others it holds itself: this is what a collection must not break.
NodesInv ==
    /\ head \in history
    /\ \A r \in history : Nodes(r) \subseteq store /\ Trim(r)
    /\ Trim(root)
    /\ open => Nodes(root) \subseteq Reachable \cup fresh
    /\ open \in BOOLEAN /\ lost \in BOOLEAN /\ ~lost

--------------------------------------------------------------------------------
(* Paths, trees and their nodes *)

\* The paths are the sequences of names within the depth, without the root.
LEMMA PathsAre == Paths = {p \in Seq(Names) : p # Root /\ Len(p) <= Depth}
<1>1. Depth \in Nat
  BY NamespaceAssumption
<1>2. ASSUME NEW p \in Paths
      PROVE  p \in Seq(Names) /\ p # Root /\ Len(p) <= Depth
  <2>1. PICK n \in 1..Depth : p \in [1..n -> Names]
    BY <1>2 DEF Paths
  <2>2. n \in Nat /\ n >= 1 /\ n <= Depth
    BY <1>1
  <2>3. p \in Seq(Names)
    BY <2>1, <2>2, SeqDef
  <2>4. DOMAIN p = 1..n /\ DOMAIN p = 1..Len(p) /\ Len(p) \in Nat
    BY <2>1, <2>3, LenProperties
  <2>5. Len(p) = n
    BY <2>2, <2>4
  <2>6. QED
    BY <2>2, <2>3, <2>5, EmptySeq DEF Root
<1>3. ASSUME NEW p \in Seq(Names), p # Root, Len(p) <= Depth
      PROVE  p \in Paths
  <2>1. Len(p) \in 1..Depth /\ p \in [1..Len(p) -> Names]
    BY <1>1, <1>3, PathEnds, LenProperties
  <2>2. QED
    BY <2>1 DEF Paths
<1>4. QED
  BY <1>2, <1>3

\* Every tree shows an allowed entry at the root: a directory.
LEMMA RootAllowed ==
    ASSUME NEW tree
    PROVE  Allowed(Get(tree, Root))
BY RootShows DEF Allowed, Proper, Dir, IsDir

\* A tree within the bounds of the instance is trim.
LEMMA InBoundsIsTrim ==
    ASSUME NEW tree, InBounds(tree)
    PROVE  Trim(tree)
<1>0. Depth \in Nat /\ Depth >= 1
  BY NamespaceAssumption
<1>1. ASSUME NEW p \in Seq(Names), Len(p) > Depth
      PROVE  Get(tree, p) = None
  <2>1. Len(p) \in Nat /\ Depth \in 0..Len(p)
    BY <1>0, <1>1, LenProperties
  <2> DEFINE q == Upto(p, Depth)
  <2>2. q \in Seq(Names) /\ Len(q) = Depth /\ \A i \in 1..Depth : q[i] = p[i]
    BY <2>1, UptoIs
  <2> HIDE DEF q
  <2>3. q # Root /\ q # p /\ Beneath(p, q)
    BY <1>0, <1>1, <2>1, <2>2, RootOver, BeneathIs
  <2>4. q \in Paths
    BY <1>0, <2>2, <2>3, PathsAre
  <2>5. NodeAt(tree, q) = Empty
    BY <2>2, <2>4 DEF InBounds, NodeAt, NodeOf
  <2>6. QED
    BY <2>2, <2>3, <2>5, GetBeneath
<1>2. ASSUME NEW p \in Seq(Names)
      PROVE  Allowed(Get(tree, p))
  <2>1. CASE p = Root
    BY <2>1, RootAllowed
  <2>2. CASE Len(p) > Depth
    BY <1>1, <2>2, NoneIs DEF Allowed
  <2>3. CASE p # Root /\ ~(Len(p) > Depth)
    <3>1. p \in Paths
      BY <1>0, <2>3, PathsAre, LenProperties
    <3>2. QED
      BY <3>1 DEF InBounds, Allowed
  <2>4. QED
    BY <2>1, <2>2, <2>3
<1>3. QED
  BY <1>1, <1>2 DEF Trim

\* The empty tree is trim and has no node.
LEMMA EmptyIsTrim == Trim(Empty) /\ Nodes(Empty) = {}
<1>0. Depth \in Nat /\ Depth >= 1
  BY NamespaceAssumption
<1>1. ASSUME NEW p \in Seq(Names)
      PROVE  (Len(p) > Depth => Get(Empty, p) = None) /\ Allowed(Get(Empty, p))
  <2>1. CASE p = Root
    BY <1>0, <2>1, RootAllowed, RootOver
  <2>2. CASE p # Root
    BY <2>2, EmptyShows, NoneIs DEF Allowed
  <2>3. QED
    BY <2>1, <2>2
<1>2. \A p \in Paths : Get(Empty, p) = None
  BY PathsAre, EmptyShows
<1>3. QED
  BY <1>1, <1>2 DEF Trim, Nodes, PathsOf

\* The nodes of a trim tree are the nodes of its directories.
LEMMA NodesAre ==
    ASSUME NEW tree, Trim(tree)
    PROVE  /\ \A p \in Seq(Names) : NodeAt(tree, p) \in Nodes(tree) \cup {Empty}
           /\ \A x \in Nodes(tree) : x # Empty /\ \E p \in Seq(Names) : x = NodeAt(tree, p)
<1>0. Depth \in Nat
  BY NamespaceAssumption
<1>1. ASSUME NEW p \in Seq(Names)
      PROVE  NodeAt(tree, p) \in Nodes(tree) \cup {Empty}
  <2>1. CASE p = Root
    BY <2>1, RootShows DEF Nodes
  <2>2. CASE p # Root /\ IsDir(Get(tree, p))
    <3>1. Get(tree, p) # None
      BY <2>2, NoneIs
    <3>2. Len(p) <= Depth
      BY <1>0, <3>1, LenProperties DEF Trim
    <3>3. p \in PathsOf(tree)
      BY <2>2, <3>1, <3>2, PathsAre DEF PathsOf
    <3>4. QED
      BY <2>2, <3>3 DEF Nodes, NodeAt, NodeOf
  <2>3. CASE ~IsDir(Get(tree, p))
    BY <2>3 DEF NodeAt, NodeOf
  <2>4. QED
    BY <2>1, <2>2, <2>3
<1>2. ASSUME NEW x \in Nodes(tree)
      PROVE  x # Empty /\ \E p \in Seq(Names) : x = NodeAt(tree, p)
  <2>1. x # Empty
    BY <1>2 DEF Nodes
  <2>2. CASE x = tree
    BY <2>1, <2>2, RootShows, RootOver, EmptySeq DEF Root
  <2>3. CASE x # tree
    <3>1. PICK p \in PathsOf(tree) : IsDir(Get(tree, p)) /\ x = Get(tree, p).node
      BY <1>2, <2>3 DEF Nodes
    <3>2. p \in Seq(Names)
      BY PathsAre DEF PathsOf
    <3>3. x = NodeAt(tree, p)
      BY <3>1 DEF NodeAt, NodeOf
    <3>4. QED
      BY <2>1, <3>2, <3>3
  <2>4. QED
    BY <2>2, <2>3
<1>3. QED
  BY <1>1, <1>2

\* What a workspace loads before an edit is what the edit reads.
LEMMA PrefetchedIs ==
    ASSUME NEW ps \in SUBSET Paths, Trim(root), Nodes(root) \subseteq store \cup fresh
    PROVE  /\ IsWriter(Writing(ps)) /\ Writing(ps).root = root
           /\ Writing(ps).made = {} /\ Writing(ps).error = "none"
           /\ \A p \in ps : Readable(Writing(ps), p)
<1>1. /\ IsWriter(Writing(ps)) /\ Writing(ps).root = root
      /\ Writing(ps).made = {} /\ Writing(ps).error = "none"
      /\ Writing(ps).known = Prefetched(ps)
  BY DEF Writing, Writer, IsWriter
<1>2. ASSUME NEW p \in ps
      PROVE  Readable(Writing(ps), p)
  <2>1. p \in Seq(Names)
    BY PathsAre
  <2>2. \A x \in SX!Range(Route(root, p)) : x \in Prefetched(ps) \cup {Empty}
    <3>1. ASSUME NEW q \in Over(p)
          PROVE  NodeAt(root, q) \in store \cup fresh \cup {Empty}
      BY NodesAre DEF Over
    <3>2. SX!Range(Route(root, p)) \subseteq store \cup fresh \cup {Empty}
      BY <2>1, <3>1, RouteNodes
    <3>3. QED
      BY <3>2 DEF Prefetched
  <2>3. QED
    BY <1>1, <2>2 DEF Readable
<1>3. QED
  BY <1>1, <1>2

--------------------------------------------------------------------------------
(* What an edit leaves of a trim tree *)

\* Every node of a tree is in X.
Within(tree, X) == \A p \in Seq(Names) : NodeAt(tree, p) \in X \cup {Empty}

\* What an entry brings along to the path p is trim there, and its nodes are in X.
Fitting(p, e, X) ==
    /\ Allowed(e)
    /\ Within(NodeOf(e), X)
    /\ \A s \in Seq(Names) : s # Root =>
           /\ Allowed(Get(NodeOf(e), s))
           /\ Len(p) + Len(s) > Depth => Get(NodeOf(e), s) = None

\* An entry that brings no node along fits everywhere.
LEMMA PlainFits ==
    ASSUME NEW p, NEW e, Allowed(e), NodeOf(e) = Empty, NEW X
    PROVE  Fitting(p, e, X)
<1>1. \A s \in Seq(Names) : s # Root => Allowed(Get(Empty, s)) /\ Get(Empty, s) = None
  BY EmptyShows, NoneIs DEF Allowed
<1>2. Within(Empty, X)
  BY EmptyShows DEF Within
<1>3. QED
  BY <1>1, <1>2 DEF Fitting

\* A tree stays trim, and its nodes known, when a fitting entry is carried to a path.
LEMMA CarriedKeeps ==
    ASSUME NEW w, NEW w2, NEW p \in Paths, NEW e, NEW X, Carried(w, w2, p, e),
           Trim(w.root), Within(w.root, X), Fitting(p, e, X)
    PROVE  Trim(w2.root) /\ Within(w2.root, X \cup w2.made)
<1>0. p \in Seq(Names) /\ p # Root /\ Len(p) <= Depth /\ Depth \in Nat /\ Len(p) \in Nat
  BY PathsAre, NamespaceAssumption, LenProperties
<1>1. Replaced(w.root, w2.root, p, e) /\ MadeOver(w2, p)
  BY DEF Carried
<1>2. ASSUME NEW q \in Seq(Names)
      PROVE  /\ Len(q) > Depth => Get(w2.root, q) = None
             /\ Allowed(Get(w2.root, q))
             /\ NodeAt(w2.root, q) \in X \cup w2.made \cup {Empty}
  <2>0. Len(q) \in Nat
    BY LenProperties
  <2>1. CASE q = p
    <3>1. Get(w2.root, q) = e /\ NodeAt(w2.root, q) = NodeOf(e) /\ Allowed(e)
      BY <1>1, <2>1 DEF Replaced, Fitting, NodeAt
    <3>2. NodeAt(NodeOf(e), Root) \in X \cup {Empty}
      BY <1>0, RootOver DEF Fitting, Within
    <3>3. NodeOf(e) \in X \cup {Empty}
      BY <3>2, RootShows
    <3>4. QED
      BY <1>0, <2>1, <3>1, <3>3
  <2>2. CASE q \in Over(p)
    <3>1. Len(q) < Len(p)
      BY <1>0, <2>2, OverIs
    <3>2. Allowed(Get(w2.root, q))
      <4>1. CASE q = Root
        BY <4>1, RootAllowed
      <4>2. CASE q # Root
        BY <1>1, <2>2, <4>2 DEF Replaced, OnTheWay, Allowed, Proper
      <4>3. QED
        BY <4>1, <4>2
    <3>4. QED
      BY <1>0, <1>1, <2>0, <2>2, <3>1, <3>2 DEF MadeOver, NodesOver
  <2>3. CASE p \in Over(q)
    <3>1. PICK s \in Seq(Names) : s # Root /\ q = p \o s
      BY <1>0, <2>3, BeneathGoesOn DEF Over
    <3>2. Get(w2.root, q) = Get(NodeOf(e), s)
      BY <1>1, <3>1 DEF Replaced
    <3>3. Len(q) = Len(p) + Len(s)
      BY <1>0, <3>1, ConcatProperties
    <3>4. QED
      BY <3>1, <3>2, <3>3 DEF Fitting, Within, NodeAt
  <2>4. CASE Apart(p, q)
    <3>1. Get(w2.root, q) = Get(w.root, q)
      BY <1>1, <2>4 DEF Replaced
    <3>2. QED
      BY <3>1 DEF Trim, Within, NodeAt
  <2>5. QED
    BY <1>0, <2>1, <2>2, <2>3, <2>4, Position
<1>3. QED
  BY <1>2 DEF Trim, Within

\* The same when one entry without nodes of its own is placed at several paths.
LEMMA PlacedKeeps ==
    ASSUME NEW w, NEW w2, NEW ps \in SUBSET Paths, NEW e, NEW X, ~IsDir(e), Allowed(e),
           ps # {}, Placed(w.root, w2.root, ps, e), \A p \in ps : MadeOver(w2, p),
           Trim(w.root), Within(w.root, X)
    PROVE  Trim(w2.root) /\ Within(w2.root, X \cup w2.made)
<1>0. Depth \in Nat /\ \A p \in ps : p \in Seq(Names) /\ p # Root /\ Len(p) <= Depth /\ Len(p) \in Nat
  BY PathsAre, NamespaceAssumption, LenProperties
<1>1. ASSUME NEW q \in Seq(Names)
      PROVE  /\ Len(q) > Depth => Get(w2.root, q) = None
             /\ Allowed(Get(w2.root, q))
             /\ NodeAt(w2.root, q) \in X \cup w2.made \cup {Empty}
  <2>0. Len(q) \in Nat
    BY LenProperties
  <2>1. CASE q \in ps
    <3>1. Get(w2.root, q) = e
      BY <2>1 DEF Placed
    <3>2. NodeAt(w2.root, q) = Empty
      BY <3>1 DEF NodeAt, NodeOf
    <3>3. QED
      BY <1>0, <2>0, <2>1, <3>1, <3>2
  <2>2. CASE \E p \in ps : q \in Over(p)
    <3>1. PICK p \in ps : q \in Over(p)
      BY <2>2
    <3>2. Len(q) < Len(p)
      BY <1>0, <3>1, OverIs
    <3>3. Allowed(Get(w2.root, q))
      <4>1. CASE q = Root
        BY <4>1, RootAllowed
      <4>2. CASE q # Root
        BY <2>2, <4>2 DEF Placed, OnTheWay, Allowed, Proper
      <4>3. QED
        BY <4>1, <4>2
    <3>5. QED
      BY <1>0, <2>0, <3>1, <3>2, <3>3 DEF MadeOver, NodesOver
  <2>3. CASE \E p \in ps : p \in Over(q)
    <3>1. Get(w2.root, q) = None
      BY <1>0, <2>3, PlacedBeneath
    <3>2. QED
      BY <3>1, NoneIs DEF NodeAt, Allowed
  <2>4. CASE \A p \in ps : Apart(p, q)
    <3>1. q # Root
      BY <1>0, <2>4, RootOver, Position
    <3>2. Get(w2.root, q) = Get(w.root, q)
      BY <2>4, <3>1 DEF Placed
    <3>3. QED
      BY <3>2 DEF Trim, Within, NodeAt
  <2>5. QED
    BY <1>0, <2>1, <2>2, <2>3, <2>4, Position
<1>2. QED
  BY <1>1 DEF Trim, Within

--------------------------------------------------------------------------------
(* What an operation does *)

\* A workspace that can edit: its nodes are in the store or its own.
Ready == /\ Trim(root) /\ Nodes(root) \subseteq store \cup fresh
         /\ lost \in BOOLEAN /\ ~lost

\* An operation went through, and named the paths named.
Kept(named) ==
    /\ Trim(root') /\ Within(root', Nodes(root) \cup fresh') /\ fresh \subseteq fresh'
    /\ lost' \in BOOLEAN /\ ~lost'
    /\ touched' = touched \cup named

\* An open workspace can edit.
LEMMA ReadyIs ==
    ASSUME NodesInv, open
    PROVE  Ready
BY DEF NodesInv, Ready, Reachable

\* An edit whose writer found its nodes goes through, when its result is trim.
LEMMA EditedKeeps ==
    ASSUME Ready, NEW w, NEW named, Edited(w, named), w.error # "NodeMissing",
           w.error = "none" => Trim(w.root) /\ Within(w.root, Nodes(root) \cup w.made)
    PROVE  Kept(named) /\ root' = w.root /\ w.error = "none"
<1>1. /\ w.error = "none" /\ root' = w.root /\ fresh' = fresh \cup w.made
      /\ touched' = touched \cup named /\ lost' = (lost \/ w.error = "NodeMissing")
  BY DEF Edited, Extended, Logged
<1>2. lost' \in BOOLEAN /\ ~lost'
  BY <1>1 DEF Ready
<1>3. Within(w.root, Nodes(root) \cup fresh')
  BY <1>1 DEF Within
<1>4. QED
  BY <1>1, <1>2, <1>3 DEF Kept

\* The tree of a workspace has its own nodes.
LEMMA OwnNodes ==
    ASSUME Ready
    PROVE  Within(root, Nodes(root))
BY NodesAre DEF Ready, Within

\* An edit by one insert, with the nodes over the path prefetched, misses none.
LEMMA OneInsert ==
    ASSUME Ready, NEW ps \in SUBSET Paths, NEW p \in ps, NEW e, NEW named,
           Fitting(p, e, Nodes(root)), Edited(Insert(Writing(ps), p, e), named)
    PROVE  Kept(named) /\ Replaced(root, root', p, e)
<1> DEFINE v == Writing(ps)
           w == Insert(v, p, e)
<1>1. /\ IsWriter(v) /\ v.root = root /\ v.made = {} /\ v.error = "none" /\ Readable(v, p)
  BY PrefetchedIs DEF Ready
<1>2. p \in Seq(Names) /\ p # Root /\ p \in Paths
  BY PathsAre
<1> HIDE DEF v
<1>3. \/ Refused(v, w, "NotADirectory")
      \/ Carried(v, w, p, e)
  BY <1>1, <1>2, InsertIs
<1> HIDE DEF w
<1>4. w.error # "NodeMissing"
  BY <1>3 DEF Refused, Carried
<1>5. w.error = "none" => Carried(v, w, p, e)
  BY <1>3 DEF Refused
<1>6. w.error = "none" => Trim(w.root) /\ Within(w.root, Nodes(root) \cup w.made)
  BY <1>1, <1>2, <1>5, OwnNodes, CarriedKeeps DEF Ready
<1>7. Edited(w, named)
  BY DEF w, v
<1>8. Kept(named) /\ root' = w.root /\ w.error = "none"
  BY <1>4, <1>6, <1>7, EditedKeeps
<1>9. QED
  BY <1>1, <1>5, <1>8 DEF Carried

\* Nor does a writer that removes an entry which is there.
LEMMA OneRemove ==
    ASSUME Ready, NEW p \in Paths, Get(root, p) # None
    PROVE  LET v == Writing({p})
               w == Remove(v, p)
           IN  /\ v.root = root /\ v.made = {}
               /\ IsWriter(w) /\ w.error = "none" /\ Carried(v, w, p, None)
               /\ Trim(w.root) /\ Within(w.root, Nodes(root) \cup w.made)
<1> DEFINE v == Writing({p})
           w == Remove(v, p)
<1>1. /\ IsWriter(v) /\ v.root = root /\ v.made = {} /\ v.error = "none" /\ Readable(v, p)
  <2>1. {p} \in SUBSET Paths
    OBVIOUS
  <2>2. QED
    BY <2>1, PrefetchedIs DEF Ready
<1>2. p \in Seq(Names) /\ p # Root
  BY PathsAre
<1> HIDE DEF v
<1>3. IsWriter(w) /\ Carried(v, w, p, None)
  BY <1>1, <1>2, RemoveIs
<1> HIDE DEF w
<1>4. Fitting(p, None, Nodes(root))
  BY NoneIs, PlainFits DEF Allowed
<1>5. Trim(w.root) /\ Within(w.root, Nodes(root) \cup w.made)
  BY <1>1, <1>3, <1>4, OwnNodes, CarriedKeeps DEF Ready
<1>6. QED
  BY <1>1, <1>3, <1>5 DEF Carried, v, w

\* An edit by one remove of an entry which is there.
LEMMA OneRemoveKeeps ==
    ASSUME Ready, NEW p \in Paths, Get(root, p) # None, NEW named,
           Edited(Remove(Writing({p}), p), named)
    PROVE  Kept(named) /\ Replaced(root, root', p, None)
<1> DEFINE w == Remove(Writing({p}), p)
<1>1. /\ w.error = "none" /\ Replaced(root, w.root, p, None)
      /\ Trim(w.root) /\ Within(w.root, Nodes(root) \cup w.made)
  BY OneRemove DEF Carried
<1>2. Edited(w, named)
  OBVIOUS
<1> HIDE DEF w
<1>3. QED
  BY <1>1, <1>2, EditedKeeps

\* An edit that inserts one file at several paths: those over each were prefetched, or
\* made by the inserts before it.
LEMMA ManyInserts ==
    ASSUME Ready, NEW qs \in SUBSET Paths, NEW ps \in SUBSET qs, ps # {}, IsFiniteSet(ps),
           NEW e, Allowed(e), ~IsDir(e), e # None, NEW named,
           Edited(InsertAll(Writing(qs), ps, e), named)
    PROVE  Kept(named) /\ Placed(root, root', ps, e)
<1> DEFINE v == Writing(qs)
           w == InsertAll(v, ps, e)
<1>1. /\ IsWriter(v) /\ v.root = root /\ v.made = {} /\ v.error = "none"
      /\ \A p \in ps : Readable(v, p)
  BY PrefetchedIs DEF Ready
<1>2. ps \in SUBSET (Seq(Names) \ {Root}) /\ ps \in SUBSET Paths
  BY PathsAre
<1> HIDE DEF v
<1>3. /\ w.error # "NodeMissing"
      /\ w.error = "none" => Placed(root, w.root, ps, e) /\ \A p \in ps : MadeOver(w, p)
  BY <1>1, <1>2, InsertAllIs
<1> HIDE DEF w
<1>4. w.error = "none" => Trim(w.root) /\ Within(w.root, Nodes(root) \cup w.made)
  BY <1>1, <1>2, <1>3, OwnNodes, PlacedKeeps DEF Ready
<1>5. Edited(w, named)
  BY DEF w, v
<1>6. QED
  BY <1>3, <1>4, <1>5, EditedKeeps

--------------------------------------------------------------------------------
(* The operations, one by one *)

\* A file, as an entry.
LEMMA FileIs ==
    ASSUME NEW m, NEW c, NEW g
    PROVE  /\ IsFile(File(m, c, g)) /\ ~IsDir(File(m, c, g)) /\ File(m, c, g) # None
           /\ File(m, c, g).meta = m /\ File(m, c, g).content = c /\ File(m, c, g).links = g
           /\ NodeOf(File(m, c, g)) = Empty
           /\ g \subseteq Paths /\ IsFiniteSet(g) => Allowed(File(m, c, g))
<1>1. /\ IsFile(File(m, c, g)) /\ ~IsDir(File(m, c, g))
      /\ File(m, c, g).meta = m /\ File(m, c, g).content = c /\ File(m, c, g).links = g
  BY DEF File, IsFile, IsDir
<1>2. File(m, c, g) # None
  BY <1>1, NoneIs
<1>3. g \subseteq Paths /\ IsFiniteSet(g) => Allowed(File(m, c, g))
  BY <1>1 DEF Allowed, Proper
<1>4. QED
  BY <1>1, <1>2, <1>3 DEF NodeOf

\* What a path of the workspace shows.
LEMMA AtIs ==
    ASSUME Ready, NEW p \in Paths
    PROVE  /\ Allowed(At(p))
           /\ IsFile(At(p)) => /\ At(p) = File(At(p).meta, At(p).content, At(p).links)
                               /\ At(p).links \subseteq Paths /\ IsFiniteSet(At(p).links)
           /\ IsDir(At(p)) => At(p) = Dir(At(p).meta, At(p).node) /\ ~IsFile(At(p))
<1>1. p \in Seq(Names)
  BY PathsAre
<1>2. Allowed(At(p))
  BY <1>1 DEF Ready, Trim, At
<1>3. QED
  BY <1>2, NoneIs DEF Allowed, Proper, IsFile, IsDir

\* The sets of no and of one path are finite.
LEMMA OneFinite ==
    ASSUME NEW p
    PROVE  IsFiniteSet({}) /\ IsFiniteSet({p})
BY FS_EmptySet, FS_Singleton

\* write_file places the file at every name its entry lists.
LEMMA WriteFileDoes ==
    ASSUME Ready, NEW p \in Paths, NEW c, WriteFile(p, c)
    PROVE  LET links   == IF IsFile(At(p)) THEN At(p).links ELSE {}
               new     == File(IF IsFile(At(p)) THEN At(p).meta ELSE 0, c, links)
               targets == WriteTargets(p, links)
           IN  /\ Kept({p}) /\ Placed(root, root', targets, new)
               /\ ~IsDir(At(p)) /\ links \in SUBSET Paths /\ targets \in SUBSET Paths
<1> DEFINE links   == IF IsFile(At(p)) THEN At(p).links ELSE {}
           new     == File(IF IsFile(At(p)) THEN At(p).meta ELSE 0, c, links)
           targets == WriteTargets(p, links)
<1>1. ~IsDir(At(p)) /\ Edited(InsertAll(Writing({p} \cup targets), targets, new), {p})
  BY DEF WriteFile
<1>2. links \in SUBSET Paths /\ IsFiniteSet(links)
  BY AtIs, OneFinite
<1>3. Allowed(new) /\ ~IsDir(new) /\ new # None
  BY <1>2, FileIs
<1> HIDE DEF new, links
<1>4. targets \in SUBSET Paths /\ IsFiniteSet(targets) /\ targets # {}
  BY <1>2, OneFinite DEF WriteTargets
<1> HIDE DEF targets
<1>5. Kept({p}) /\ Placed(root, root', targets, new)
  <2> DEFINE qs == {p} \cup targets
  <2>1. qs \in SUBSET Paths /\ targets \in SUBSET qs
    BY <1>4
  <2>2. Edited(InsertAll(Writing(qs), targets, new), {p})
    BY <1>1
  <2> HIDE DEF qs
  <2>3. QED
    BY <1>3, <1>4, <2>1, <2>2, ManyInserts
<1>6. QED
  BY <1>1, <1>2, <1>4, <1>5 DEF new, links, targets

\* mkdir and symlink put a plain entry where there was none.
LEMMA MakeDoes ==
    ASSUME Ready, NEW p \in Paths, Mkdir(p) \/ MakeSymlink(p)
    PROVE  /\ Kept({p}) /\ At(p) = None
           /\ \E e \in {Dir(0, Empty), Symlink(0, Target)} : Replaced(root, root', p, e)
<1>1. PICK e \in {Dir(0, Empty), Symlink(0, Target)} :
          At(p) = None /\ Edited(Insert(Writing({p}), p, e), {p})
  BY DEF Mkdir, MakeSymlink
<1>2. Allowed(e) /\ NodeOf(e) = Empty
  BY DEF Allowed, Proper, Dir, Symlink, IsDir, NodeOf
<1>3. Fitting(p, e, Nodes(root))
  BY <1>2, PlainFits
<1>4. {p} \in SUBSET Paths /\ p \in {p}
  OBVIOUS
<1>5. QED
  BY <1>1, <1>3, <1>4, OneInsert

\* rmdir clears the path of a directory without entries.
LEMMA RmdirDoes ==
    ASSUME Ready, NEW p \in Paths, Rmdir(p)
    PROVE  /\ Kept({p}) /\ IsDir(At(p)) /\ At(p).node = Empty
           /\ Replaced(root, root', p, None)
<1>1. IsDir(At(p)) /\ At(p).node = Empty /\ Edited(Remove(Writing({p}), p), {p})
  BY DEF Rmdir
<1>2. Get(root, p) # None
  BY <1>1, NoneIs DEF At
<1>3. QED
  BY <1>1, <1>2, OneRemoveKeeps

\* The subtree at a path of the workspace fits where its paths stay within bounds.
LEMMA SubtreeFits ==
    ASSUME Ready, NEW p \in Paths, NEW q \in Paths, NEW e, Allowed(e), NodeOf(e) = NodeAt(root, p),
           \A r \in Whole(root, p) : Len(r) - Len(p) + Len(q) <= Depth
    PROVE  Fitting(q, e, Nodes(root))
<1>0. /\ p \in Seq(Names) /\ p # Root /\ q \in Seq(Names) /\ Depth \in Nat
      /\ Len(p) \in Nat /\ Len(q) \in Nat
  BY PathsAre, NamespaceAssumption, LenProperties
<1>1. ASSUME NEW s \in Seq(Names)
      PROVE  /\ NodeAt(NodeOf(e), s) \in Nodes(root) \cup {Empty}
             /\ s # Root => /\ Allowed(Get(NodeOf(e), s))
                            /\ Len(q) + Len(s) > Depth => Get(NodeOf(e), s) = None
  <2>1. /\ p \o s \in Seq(Names) /\ NodeAt(NodeOf(e), s) = NodeAt(root, p \o s)
        /\ s # Root => Get(NodeOf(e), s) = Get(root, p \o s)
    BY <1>0, GetConcat
  <2>2. Len(p \o s) = Len(p) + Len(s) /\ Len(s) \in Nat
    BY <1>0, ConcatProperties, LenProperties
  <2>3. Allowed(Get(root, p \o s)) /\ NodeAt(root, p \o s) \in Nodes(root) \cup {Empty}
    BY <2>1, NodesAre DEF Ready, Trim
  <2>4. ASSUME Get(root, p \o s) # None
        PROVE  Len(q) + Len(s) <= Depth
    <3>1. Len(p \o s) <= Depth
      <4>1. ~(Len(p \o s) > Depth)
        BY <2>1, <2>4 DEF Ready, Trim
      <4>2. QED
        BY <1>0, <2>2, <4>1
    <3>2. Beneath(p \o s, p)
      BY <1>0, <2>1, BeneathGoesOn
    <3>3. p \o s # Root
      BY <1>0, <2>2, PathEnds, RootOver
    <3>4. p \o s \in Whole(root, p)
      BY <2>1, <2>4, <3>1, <3>2, <3>3, PathsAre DEF Whole, PathsOf
    <3>5. Len(p \o s) - Len(p) + Len(q) <= Depth
      BY <3>4
    <3>6. QED
      BY <1>0, <2>2, <3>5
  <2>5. QED
    BY <1>0, <2>1, <2>2, <2>3, <2>4
<1>2. QED
  BY <1>1 DEF Fitting, Within

\* set_meta changes the metadata of an entry and nothing beneath it.
LEMMA SetMetaDoes ==
    ASSUME Ready, NEW p \in Paths, NEW m, SetMeta(p, m)
    PROVE  /\ Kept({p}) /\ At(p) # None /\ Replaced(root, root', p, [At(p) EXCEPT !.meta = m])
           /\ NodeOf([At(p) EXCEPT !.meta = m]) = NodeAt(root, p)
           /\ IsDir([At(p) EXCEPT !.meta = m]) <=> IsDir(At(p))
           /\ IsFile([At(p) EXCEPT !.meta = m]) <=> IsFile(At(p))
           /\ IsFile(At(p)) => [At(p) EXCEPT !.meta = m].links = At(p).links
           /\ [At(p) EXCEPT !.meta = m].meta = m
           /\ [At(p) EXCEPT !.meta = m] # None
<1> DEFINE e == [At(p) EXCEPT !.meta = m]
<1>1. At(p) # None /\ Edited(Insert(Writing({p}), p, e), {p})
  BY DEF SetMeta
<1>2. Proper(At(p))
  BY <1>1, AtIs DEF Allowed
<1>3. /\ Proper(e) /\ NodeOf(e) = NodeOf(At(p)) /\ e.meta = m
      /\ (IsDir(e) <=> IsDir(At(p))) /\ (IsFile(e) <=> IsFile(At(p)))
      /\ IsFile(At(p)) => e.links = At(p).links
  <2>1. CASE IsDir(At(p)) /\ At(p) = Dir(At(p).meta, At(p).node)
    <3>1. e = Dir(m, At(p).node)
      BY <2>1 DEF Dir
    <3>2. QED
      BY <2>1, <3>1 DEF Dir, IsDir, IsFile, Proper, NodeOf
  <2>2. CASE /\ IsFile(At(p)) /\ At(p) = File(At(p).meta, At(p).content, At(p).links)
             /\ At(p).links \subseteq Paths /\ IsFiniteSet(At(p).links)
    <3>1. e = File(m, At(p).content, At(p).links)
      BY <2>2 DEF File
    <3>2. QED
      BY <2>2, <3>1, FileIs DEF Proper, NodeOf
  <2>3. CASE At(p).kind = "symlink" /\ At(p) = Symlink(At(p).meta, At(p).target)
    <3>1. e = Symlink(m, At(p).target)
      BY <2>3 DEF Symlink
    <3>2. QED
      BY <2>3, <3>1 DEF Symlink, IsDir, IsFile, Proper, NodeOf
  <2>4. QED
    BY <1>2, <2>1, <2>2, <2>3 DEF Proper
<1> HIDE DEF e
<1>4. Fitting(p, e, Nodes(root))
  <2>1. NodeOf(e) = NodeAt(root, p)
    BY <1>3 DEF NodeAt, At
  <2>2. \A r \in Whole(root, p) : Len(r) - Len(p) + Len(p) <= Depth
    <3>1. \A r \in Whole(root, p) : r \in Paths
      BY DEF Whole, PathsOf
    <3>2. Depth \in Nat
      BY NamespaceAssumption
    <3>3. \A r \in Paths : Len(r) \in Nat /\ Len(r) <= Depth
      BY PathsAre, LenProperties
    <3>4. QED
      BY <3>1, <3>2, <3>3
  <2>3. QED
    BY <1>3, <2>1, <2>2, SubtreeFits DEF Allowed
<1>5. {p} \in SUBSET Paths /\ p \in {p}
  OBVIOUS
<1>6. Kept({p}) /\ Replaced(root, root', p, e)
  BY <1>1, <1>4, <1>5, OneInsert
<1>7. e # None
  BY <1>1, <1>2, <1>3, NoneIs DEF Proper, None, Symlink
<1>8. QED
  BY <1>1, <1>3, <1>6, <1>7 DEF e, NodeAt, At

\* What copy leaves behind is an entry of its own.
LEMMA IndependentIs ==
    ASSUME Ready, NEW p \in Paths, At(p) # None, ~IsDir(At(p))
    PROVE  LET e == Independent(At(p)) IN
           /\ Allowed(e) /\ NodeOf(e) = Empty /\ ~IsDir(e) /\ e # None
           /\ IsFile(e) => e.links = {}
<1>1. CASE IsFile(At(p))
  <2>1. Independent(At(p)) = File(At(p).meta, At(p).content, {})
    BY <1>1 DEF Independent
  <2>2. {} \subseteq Paths /\ IsFiniteSet({})
    BY OneFinite
  <2>3. QED
    BY <2>1, <2>2, FileIs
<1>2. CASE ~IsFile(At(p))
  BY <1>2, AtIs DEF Independent, NodeOf
<1>3. QED
  BY <1>1, <1>2

\* copy puts an entry of its own at one path, and replaces no directory.
LEMMA CopyDoes ==
    ASSUME Ready, NEW from \in Paths, NEW to \in Paths, Copy(from, to)
    PROVE  /\ Kept({to}) /\ ~IsDir(At(to)) /\ At(from) # None /\ ~IsDir(At(from))
           /\ Replaced(root, root', to, Independent(At(from)))
<1>1. /\ At(from) # None /\ ~IsDir(At(from)) /\ ~IsDir(At(to))
      /\ Edited(Insert(Writing({from, to}), to, Independent(At(from))), {to})
  BY DEF Copy
<1>2. Fitting(to, Independent(At(from)), Nodes(root))
  BY <1>1, IndependentIs, PlainFits
<1>3. {from, to} \in SUBSET Paths /\ to \in {from, to}
  OBVIOUS
<1>4. QED
  BY <1>1, <1>2, <1>3, OneInsert

\* link places the file at every name of the group and at the new one.
LEMMA LinkDoes ==
    ASSUME Ready, NEW existing \in Paths, NEW new \in Paths, Link(existing, new)
    PROVE  LET old   == At(existing)
               group == WriteTargets(existing, old.links) \cup {new}
               e     == File(old.meta, old.content, GroupOf(group, old.links))
           IN  /\ Kept({existing, new}) /\ IsFile(At(existing)) /\ At(new) = None
               /\ group \in SUBSET Paths /\ IsFiniteSet(group)
               /\ group = {new} \/ GroupOf(group, old.links) = group
               /\ Placed(root, root', group, e)
<1> DEFINE old   == At(existing)
           group == WriteTargets(existing, old.links) \cup {new}
           g     == GroupOf(group, old.links)
           e     == File(old.meta, old.content, g)
           ps    == {existing} \cup group
<1>1. /\ IsFile(At(existing)) /\ At(new) = None
      /\ Edited(InsertAll(Writing(ps), group, e), {existing, new})
  BY DEF Link
<1>2. group \in SUBSET Paths /\ IsFiniteSet(group) /\ group # {} /\ new \in group
  <2>1. old.links \subseteq Paths /\ IsFiniteSet(old.links)
    BY <1>1, AtIs
  <2>2. /\ WriteTargets(existing, old.links) \subseteq Paths
        /\ IsFiniteSet(WriteTargets(existing, old.links))
    BY <2>1, OneFinite DEF WriteTargets
  <2> HIDE DEF old
  <2>3. IsFiniteSet(group)
    BY <2>2, OneFinite, FS_Union
  <2>4. QED
    BY <2>2, <2>3
<1>3. (group = {new} \/ g = group) /\ g \subseteq Paths /\ IsFiniteSet(g)
  <2> HIDE DEF group
  <2>1. Cardinality(group) > 1 \/ group = {new}
    <3>1. Cardinality(group) # 0 /\ Cardinality(group) \in Nat
      BY <1>2, FS_EmptySet, FS_CardinalityType
    <3>2. Cardinality(group) = 1 => \E x : group = {x}
      BY <1>2, FS_Singleton
    <3>3. Cardinality(group) = 1 => group = {new}
      BY <1>2, <3>2
    <3>4. QED
      BY <3>1, <3>3
  <2>2. g = group \/ g = {}
    BY DEF GroupOf
  <2>3. Cardinality(group) > 1 => g = group
    BY DEF GroupOf
  <2>4. IsFiniteSet(g)
    BY <1>2, <2>2, FS_EmptySet
  <2>5. QED
    BY <1>2, <2>1, <2>2, <2>3, <2>4
<1>4. Allowed(e) /\ ~IsDir(e) /\ e # None
  <2> HIDE DEF g, group, old
  <2>1. QED
    BY <1>3, FileIs
<1> HIDE DEF e, group, g, old
<1>5. Kept({existing, new}) /\ Placed(root, root', group, e)
  <2>1. ps \in SUBSET Paths /\ group \in SUBSET ps
    BY <1>2
  <2> HIDE DEF ps
  <2>2. QED
    BY <1>1, <1>2, <1>4, <2>1, ManyInserts
<1>6. QED
  BY <1>1, <1>2, <1>3, <1>5 DEF e, group, g, old

\* unlink clears the path; then, where the file has other names, it places the file
\* at those.
LEMMA UnlinkDoes ==
    ASSUME Ready, NEW p \in Paths, Unlink(p)
    PROVE  LET old  == At(p)
               rest == IF IsFile(old) THEN old.links \ {p} ELSE {}
               e    == File(old.meta, old.content, GroupOf(rest, old.links))
           IN  /\ Kept({p}) /\ old # None /\ ~IsDir(old)
               /\ rest \in SUBSET Paths /\ IsFiniteSet(rest)
               /\ rest = {} => Replaced(root, root', p, None)
               /\ rest # {} => \E mid : Replaced(root, mid, p, None) /\ Placed(mid, root', rest, e)
<1> DEFINE old  == At(p)
           rest == IF IsFile(old) THEN old.links \ {p} ELSE {}
           e    == File(old.meta, old.content, GroupOf(rest, old.links))
           v    == Writing({p})
           cut  == Remove(v, p)
           c2   == [cut EXCEPT !.known = store \cup fresh]
           done == InsertAll(c2, rest, e)
<1>0. p \in Seq(Names) /\ p # Root
  BY PathsAre
<1>1. old # None /\ ~IsDir(old) /\ Edited(IF rest = {} THEN cut ELSE done, {p})
  BY DEF Unlink
<1>2. Get(root, p) # None
  BY <1>1 DEF At
<1>3. rest \in SUBSET Paths /\ IsFiniteSet(rest)
  <2>1. CASE IsFile(old)
    BY <2>1, AtIs, FS_Subset
  <2>2. CASE ~IsFile(old)
    BY <2>2, OneFinite
  <2>3. QED
    BY <2>1, <2>2
<1>4. ~IsDir(e) /\ e # None /\ Allowed(e)
  <2> DEFINE g == GroupOf(rest, old.links)
  <2>1. g \subseteq Paths /\ IsFiniteSet(g) /\ e = File(old.meta, old.content, g)
    BY <1>3, OneFinite DEF GroupOf
  <2> HIDE DEF old, rest, e, g
  <2>2. QED
    BY <2>1, FileIs
<1>5. CASE rest = {}
  <2>1. Edited(cut, {p})
    BY <1>1, <1>5
  <2>2. Kept({p}) /\ Replaced(root, root', p, None)
    BY <1>2, <2>1, OneRemoveKeeps
  <2>3. QED
    BY <1>1, <1>3, <1>5, <2>2
<1>6. CASE rest # {}
  <2>1. /\ v.root = root /\ v.made = {} /\ IsWriter(cut) /\ Carried(v, cut, p, None)
        /\ Trim(cut.root) /\ Within(cut.root, Nodes(root) \cup cut.made)
    BY <1>2, OneRemove
  <2>2. Edited(done, {p})
    BY <1>1, <1>6
  <2> HIDE DEF old, rest, e, v, cut
  <2>3. /\ IsWriter(c2) /\ c2.root = cut.root /\ c2.made = cut.made
        /\ c2.error = "none" /\ c2.known = store \cup fresh
    BY <2>1 DEF IsWriter, Carried
  <2> HIDE DEF c2
  <2>4. ASSUME NEW q \in rest
        PROVE  Readable(c2, q) /\ q \in Seq(Names)
    <3>1. q \in Seq(Names)
      BY <1>3, PathsAre
    <3>2. NodesOver(root, q, store \cup fresh)
      BY <3>1, NodesAre DEF NodesOver, Ready, Over
    <3>3. NodesOver(cut.root, q, store \cup fresh \cup cut.made)
      <4> DEFINE X == store \cup fresh
                 Y == store \cup fresh \cup cut.made
      <4>1. NodesOver(v.root, q, X) /\ X \subseteq Y /\ cut.made \subseteq Y
        BY <2>1, <3>2
      <4> HIDE DEF X, Y
      <4>2. NodesOver(cut.root, q, Y)
        BY <1>0, <2>1, <3>1, <4>1, NoneIs, OverKept
      <4>3. QED
        BY <4>2 DEF Y
    <3>4. QED
      BY <2>3, <3>1, <3>3, ReadableIs DEF NodesOver
  <2>5. rest \in SUBSET (Seq(Names) \ {Root})
    BY <1>3, PathsAre
  <2>6. /\ done.error # "NodeMissing"
        /\ done.error = "none" => /\ Placed(cut.root, done.root, rest, e)
                                  /\ cut.made \subseteq done.made
                                  /\ \A q \in rest : MadeOver(done, q)
    BY <1>3, <1>4, <2>3, <2>4, <2>5, InsertAllIs
  <2> HIDE DEF done
  <2>7. ASSUME done.error = "none"
        PROVE  Trim(done.root) /\ Within(done.root, Nodes(root) \cup done.made)
    <3> DEFINE X == Nodes(root) \cup cut.made
    <3>1. Within(cut.root, X) /\ X \cup done.made = Nodes(root) \cup done.made
      BY <2>1, <2>6, <2>7
    <3> HIDE DEF X
    <3>2. Trim(done.root) /\ Within(done.root, X \cup done.made)
      BY <1>3, <1>4, <1>6, <2>1, <2>6, <2>7, <3>1, PlacedKeeps
    <3>3. QED
      BY <3>1, <3>2
  <2>8. Kept({p}) /\ root' = done.root /\ done.error = "none"
    BY <2>2, <2>6, <2>7, EditedKeeps
  <2>9. Replaced(root, cut.root, p, None) /\ Placed(cut.root, root', rest, e)
    BY <2>1, <2>6, <2>8 DEF Carried
  <2>10. QED
    BY <1>1, <1>3, <1>6, <2>8, <2>9 DEF old, rest, e
<1>7. QED
  BY <1>5, <1>6

\* An unlink that loses its second edit has cleared the path.
LEMMA UnlinkHalfDoes ==
    ASSUME Ready, NEW p \in Paths, UnlinkHalf(p)
    PROVE  Kept({}) /\ IsFile(At(p)) /\ Replaced(root, root', p, None)
<1>1. IsFile(At(p)) /\ Edited(Remove(Writing({p}), p), {})
  BY DEF UnlinkHalf
<1>2. Get(root, p) # None
  BY <1>1, NoneIs DEF At
<1>3. QED
  BY <1>1, <1>2, OneRemoveKeeps

\* The tree new is old with all that was at from at to, which is not on the same way.
Moved(old, new, from, to) ==
    /\ Apart(from, to)
    /\ \A s \in Seq(Names) : /\ Get(new, to \o s) = Get(old, from \o s)
                             /\ Get(new, from \o s) = None
    /\ \A q \in Seq(Names) \ {Root} :
           /\ Apart(from, q) /\ Apart(to, q) => Get(new, q) = Get(old, q)
           /\ q \in Over(from) \cup Over(to) => OnTheWay(old, new, q)

\* Putting an entry at a second path and clearing the first moves it.
LEMMA MovedIs ==
    ASSUME NEW old, NEW mid, NEW new, NEW from \in Seq(Names), NEW to \in Seq(Names),
           from # Root, to # Root, Apart(from, to),
           Replaced(old, mid, to, Get(old, from)), Replaced(mid, new, from, None)
    PROVE  Moved(old, new, from, to)
<1>1. \A q \in Seq(Names) : Beneath(q, to) => Apart(from, q)
  BY BeneathOrder DEF Apart
<1>2. ASSUME NEW s \in Seq(Names)
      PROVE  Get(new, to \o s) = Get(old, from \o s) /\ Get(new, from \o s) = None
  <2>0. /\ to \o s \in Seq(Names) /\ Beneath(to \o s, to)
        /\ s = Root => to \o s = to /\ from \o s = from
        /\ s # Root => Get(old, from \o s) = Get(NodeAt(old, from), s)
    <3>1. to \o s \in Seq(Names) /\ (s # Root => Get(old, from \o s) = Get(NodeAt(old, from), s))
      BY GetConcat
    <3>2. Beneath(to \o s, to)
      BY <3>1, BeneathGoesOn
    <3>3. s = Root => to \o s = to /\ from \o s = from
      BY ConcatEmptySeq DEF Root
    <3>4. QED
      BY <3>1, <3>2, <3>3
  <2>1. Get(new, to \o s) = Get(mid, to \o s)
    BY <1>1, <2>0 DEF Replaced
  <2>2. CASE s = Root
    BY <2>0, <2>1, <2>2 DEF Replaced
  <2>3. CASE s # Root
    <3>1. Get(mid, to \o s) = Get(NodeAt(old, from), s)
      BY <2>3 DEF Replaced, NodeAt
    <3>2. Get(new, from \o s) = Get(Empty, s) /\ Get(Empty, s) = None
      BY <2>3, NoneIs, EmptyShows DEF Replaced
    <3>3. QED
      BY <2>0, <2>1, <2>3, <3>1, <3>2
  <2>4. QED
    BY <2>2, <2>3
<1>3. ASSUME NEW q \in Seq(Names) \ {Root}, Apart(from, q), Apart(to, q)
      PROVE  Get(new, q) = Get(old, q)
  BY <1>3 DEF Replaced
<1>4. ASSUME NEW q \in Seq(Names) \ {Root}, q \in Over(from) \cup Over(to)
      PROVE  OnTheWay(old, new, q)
  <2>1. q \in Over(to) => OnTheWay(old, mid, q)
    BY DEF Replaced
  <2>2. q \in Over(from) => OnTheWay(mid, new, q)
    BY DEF Replaced
  <2>3. q \notin Over(to) => Get(mid, q) = Get(old, q)
    <3>1. ASSUME q \notin Over(to)
          PROVE  Apart(to, q)
      <4>1. q \in Over(from)
        BY <1>4, <3>1
      <4>2. q # to /\ to \notin Over(q)
        <5>1. q = to \/ to \in Over(q) => to \in Over(from)
          BY <4>1, Position
        <5>2. to \notin Over(from)
          BY DEF Over, Apart
        <5>3. QED
          BY <5>1, <5>2
      <4>3. QED
        BY <3>1, <4>2, Position
    <3>2. QED
      BY <3>1 DEF Replaced
  <2>4. q \notin Over(from) => Get(new, q) = Get(mid, q)
    <3>1. ASSUME q \notin Over(from)
          PROVE  Apart(from, q)
      <4>1. q \in Over(to)
        BY <1>4, <3>1
      <4>2. q # from /\ from \notin Over(q)
        <5>1. q = from \/ from \in Over(q) => from \in Over(to)
          BY <4>1, Position
        <5>2. from \notin Over(to)
          BY DEF Over, Apart
        <5>3. QED
          BY <5>1, <5>2
      <4>3. QED
        BY <3>1, <4>2, Position
    <3>2. QED
      BY <3>1 DEF Replaced
  <2>5. CASE q \in Over(to) /\ q \in Over(from)
    <3>1. Get(mid, q) # None
      BY <2>1, <2>5, NoneIs DEF OnTheWay
    <3>2. QED
      BY <2>1, <2>2, <2>5, <3>1 DEF OnTheWay
  <2>6. CASE q \in Over(to) /\ q \notin Over(from)
    BY <2>1, <2>4, <2>6 DEF OnTheWay
  <2>7. CASE q \notin Over(to)
    BY <1>4, <2>2, <2>3, <2>7 DEF OnTheWay
  <2>8. QED
    BY <2>5, <2>6, <2>7
<1>5. QED
  BY <1>2, <1>3, <1>4 DEF Moved

\* rename moves the subtree, onto a path that is free or has nothing beneath it.
LEMMA RenameDoes ==
    ASSUME Ready, NEW from \in Paths, NEW to \in Paths, Rename(from, to)
    PROVE  /\ Kept({from, to}) /\ At(from) # None /\ MayReplace(At(from), At(to))
           /\ Moved(root, root', from, to)
<1> DEFINE e  == At(from)
           v  == Writing({from, to})
           w  == Insert(v, to, e)
           w2 == Remove(w, from)
<1>0. /\ from \in Seq(Names) /\ from # Root /\ to \in Seq(Names) /\ to # Root
  BY PathsAre
<1>1. /\ from # to /\ ~Beneath(to, from) /\ e # None /\ MayReplace(e, At(to))
      /\ \A q \in Whole(root, from) : Len(q) - Len(from) + Len(to) <= Depth
      /\ Edited(w2, {from, to})
  BY DEF Rename
<1>2. Apart(from, to)
  <2>1. ASSUME Beneath(from, to)
        PROVE  FALSE
    <3>1. IsDir(At(to))
      BY <1>0, <1>1, <2>1, GetBeneath DEF At
    <3>2. At(to).node = Empty
      BY <1>1, <3>1 DEF MayReplace
    <3>3. NodeAt(root, to) = Empty
      BY <3>1, <3>2 DEF NodeAt, NodeOf, At
    <3>4. QED
      BY <1>0, <1>1, <2>1, <3>3, GetBeneath DEF At
  <2>2. QED
    BY <1>1, <2>1 DEF Apart
<1>3. /\ IsWriter(v) /\ v.root = root /\ v.made = {} /\ v.error = "none"
      /\ Readable(v, from) /\ Readable(v, to)
  <2>1. {from, to} \in SUBSET Paths /\ from \in {from, to} /\ to \in {from, to}
    OBVIOUS
  <2>2. QED
    BY <2>1, PrefetchedIs DEF Ready
<1>4. Fitting(to, e, Nodes(root))
  BY <1>1, AtIs, SubtreeFits DEF NodeAt, At
<1> HIDE DEF e, v
<1>5. IsWriter(w) /\ (Refused(v, w, "NotADirectory") \/ Carried(v, w, to, e))
  BY <1>0, <1>3, InsertIs
<1> HIDE DEF w
<1>6. CASE Refused(v, w, "NotADirectory")
  <2>1. w2.error = "NotADirectory"
    BY <1>0, <1>5, <1>6, RemoveIs DEF Refused
  <2>2. QED
    BY <1>1, <2>1 DEF Edited
<1>7. CASE Carried(v, w, to, e)
  <2>1. /\ w.error = "none" /\ Replaced(root, w.root, to, e) /\ v.made \subseteq w.made
    BY <1>3, <1>7 DEF Carried
  <2>2. Trim(w.root) /\ Within(w.root, Nodes(root) \cup w.made)
    BY <1>3, <1>4, <1>7, OwnNodes, CarriedKeeps DEF Ready
  <2>3. Get(w.root, from) = e
    <3>1. Apart(to, from)
      BY <1>0, <1>2, Position
    <3>2. QED
      BY <1>0, <2>1, <3>1 DEF Replaced, e, At
  <2>4. Readable(w, from)
    <3>1. w.known = v.known
      BY <1>0, <1>3, InsertIs DEF w
    <3> DEFINE X == v.known
               Y == w.known \cup w.made
    <3>2. NodesOver(v.root, from, X) /\ X \subseteq Y /\ w.made \subseteq Y
      BY <1>0, <1>3, <3>1, ReadableIs DEF NodesOver
    <3>3. to \notin Over(from)
      BY <1>2 DEF Apart, Over
    <3> HIDE DEF X, Y
    <3>4. NodesOver(w.root, from, Y)
      BY <1>0, <1>7, <3>2, <3>3, OverKept
    <3>5. QED
      BY <1>0, <3>4, ReadableIs DEF NodesOver, Y
  <2>5. Carried(w, w2, from, None)
    BY <1>0, <1>1, <1>5, <2>1, <2>3, <2>4, RemoveIs
  <2>6. /\ w2.error = "none" /\ Replaced(w.root, w2.root, from, None) /\ w.made \subseteq w2.made
    BY <2>5 DEF Carried
  <2>7. Trim(w2.root) /\ Within(w2.root, Nodes(root) \cup w2.made)
    <3> DEFINE X == Nodes(root) \cup w.made
    <3>1. Within(w.root, X) /\ X \cup w2.made = Nodes(root) \cup w2.made
      BY <2>2, <2>6
    <3>2. Fitting(from, None, X)
      BY NoneIs, PlainFits DEF Allowed
    <3> HIDE DEF X, w2
    <3>3. Trim(w2.root) /\ Within(w2.root, X \cup w2.made)
      BY <2>2, <2>5, <3>1, <3>2, CarriedKeeps
    <3>4. QED
      BY <3>1, <3>3
  <2> HIDE DEF w2
  <2>8. Kept({from, to}) /\ root' = w2.root
    BY <1>1, <2>6, <2>7, EditedKeeps
  <2>9. Moved(root, root', from, to)
    BY <1>0, <1>2, <2>1, <2>6, <2>8, MovedIs DEF e, At
  <2>10. QED
    BY <1>1, <2>8, <2>9 DEF e
<1>8. QED
  BY <1>5, <1>6, <1>7

--------------------------------------------------------------------------------
(* The nodes a workspace needs are there *)

\* Every operation that goes through leaves a workspace that can edit.
LEMMA OperationKeeps ==
    ASSUME Ready, NEW p \in Paths, NEW q \in Paths, NEW c, NEW m,
           \/ WriteFile(p, c) \/ SetMeta(p, m) \/ Mkdir(p) \/ MakeSymlink(p) \/ Rmdir(p)
           \/ Unlink(p) \/ UnlinkHalf(p) \/ Rename(p, q) \/ Copy(p, q) \/ Link(p, q)
    PROVE  \E named : Kept(named)
BY WriteFileDoes, SetMetaDoes, MakeDoes, RmdirDoes, UnlinkDoes, UnlinkHalfDoes, RenameDoes,
   CopyDoes, LinkDoes

\* What an operation leaves alone.
LEMMA OperationsEdit ==
    ASSUME NEW p, NEW q, NEW c, NEW m,
           \/ WriteFile(p, c) \/ SetMeta(p, m) \/ Mkdir(p) \/ MakeSymlink(p) \/ Rmdir(p)
           \/ Unlink(p) \/ UnlinkHalf(p) \/ Rename(p, q) \/ Copy(p, q) \/ Link(p, q)
           \/ CopyFails(p, q)
    PROVE  open /\ UNCHANGED <<head, history, store, open>>
BY DEF WriteFile, SetMeta, Mkdir, MakeSymlink, Rmdir, Unlink, UnlinkHalf, Rename, Copy, Link,
       CopyFails, Editing

\* The repository starts with the nodes of its seeds.
LEMMA InitHasNodes == Init => NodesInv
<1> SUFFICES ASSUME Init PROVE NodesInv
  OBVIOUS
<1>1. /\ head \in Seeds /\ history = {head, Empty} /\ store = Nodes(head)
      /\ open = FALSE /\ root = head /\ lost = FALSE
  BY DEF Init
<1>2. Trim(head)
  BY <1>1, SeedsAssumption, InBoundsIsTrim
<1>3. QED
  BY <1>1, <1>2, EmptyIsTrim DEF NodesInv

\* No operation, publication or collection leaves a tree without its nodes.
LEMMA NextKeepsNodes == NodesInv /\ [Next]_vars => NodesInv'
<1> SUFFICES ASSUME NodesInv, [Next]_vars PROVE NodesInv'
  OBVIOUS
<1>1. ASSUME NEW named, Kept(named), open, UNCHANGED <<head, history, store, open>>
      PROVE  NodesInv'
  <2>1. Reachable' = Reachable
    BY <1>1 DEF Reachable
  <2>2. Nodes(root') \subseteq Nodes(root) \cup fresh'
    <3>1. Trim(root') /\ Within(root', Nodes(root) \cup fresh')
      BY <1>1 DEF Kept
    <3>2. QED
      BY <3>1, NodesAre DEF Within
  <2>3. Nodes(root)' = Nodes(root')
    BY DEF Nodes, PathsOf
  <2>4. QED
    BY <1>1, <2>1, <2>2, <2>3 DEF NodesInv, Kept, Trim, Nodes, PathsOf
<1>2. ASSUME NEW p \in Paths, NEW q \in Paths, NEW c, NEW m,
             \/ WriteFile(p, c) \/ SetMeta(p, m) \/ Mkdir(p) \/ MakeSymlink(p) \/ Rmdir(p)
             \/ Unlink(p) \/ UnlinkHalf(p) \/ Rename(p, q) \/ Copy(p, q) \/ Link(p, q)
      PROVE  NodesInv'
  <2>1. open /\ UNCHANGED <<head, history, store, open>>
    BY <1>2, OperationsEdit
  <2>2. \E named : Kept(named)
    BY <1>2, <2>1, ReadyIs, OperationKeeps
  <2>3. QED
    BY <1>1, <2>1, <2>2
<1>3. ASSUME NEW p \in Paths, NEW q \in Paths, CopyFails(p, q)
      PROVE  NodesInv'
  BY <1>3 DEF CopyFails, Editing, NodesInv, Trim, Nodes, PathsOf, Reachable
<1>4. CASE Open
  BY <1>4 DEF Open, NodesInv, Trim, Nodes, PathsOf, Reachable
<1>5. CASE Publish
  <2>1. /\ open /\ store' = store \cup fresh /\ head' = root /\ history' = history \cup {root}
        /\ open' = FALSE /\ root' = root /\ lost' = lost
    BY <1>5 DEF Publish
  <2>2. Nodes(root) \subseteq store \cup fresh
    BY <2>1, ReadyIs DEF Ready
  <2>3. \A r \in history' : Nodes(r) \subseteq store' /\ Trim(r)
    BY <2>1, <2>2 DEF NodesInv
  <2>4. QED
    BY <2>1, <2>3 DEF NodesInv, Trim, Nodes, PathsOf
<1>6. CASE Discard
  BY <1>6 DEF Discard, NodesInv, Trim, Nodes, PathsOf, Reachable
<1>7. CASE Collect
  <2>1. /\ store' = store \cap Reachable /\ UNCHANGED <<head, history, wsVars>>
    BY <1>7 DEF Collect
  <2>2. \A r \in history : Nodes(r) \subseteq Reachable
    BY DEF Reachable
  <2>3. \A r \in history' : Nodes(r) \subseteq store' /\ Trim(r)
    BY <2>1, <2>2 DEF NodesInv
  <2>4. QED
    BY <2>1, <2>3 DEF NodesInv, Trim, Nodes, PathsOf, Reachable, wsVars
<1>8. CASE UNCHANGED vars
  BY <1>8 DEF vars, wsVars, NodesInv, Trim, Nodes, PathsOf, Reachable
<1>9. QED
  BY <1>2, <1>3, <1>4, <1>5, <1>6, <1>7, <1>8 DEF Next

\* Every commit's tree has all its nodes in the store, and an open workspace has its own
\* either among the reachable ones or among those it wrote, so that no collection (gc.rs)
\* takes what an edit is going to read: the inductive invariant of the namespace.
THEOREM NodesInvariant == Spec => []NodesInv
BY InitHasNodes, NextKeepsNodes, PTL DEF Spec

\* Whatever was published, discarded and collected in between, every tree a commit
\* shows can be read from the store, and the workspace's own tree from the store and
\* the nodes it is to publish (publish.rs writes new_nodes only; gc.rs deletes what no
\* root reaches).
THEOREM NodesStayComplete == Spec => []NodesComplete
<1>1. NodesInv => NodesComplete
  BY DEF NodesInv, NodesComplete, Reachable
<1>2. QED
  BY <1>1, NodesInvariant, PTL

\* No operation meets a node that nobody loaded: what view::prefetch loads is all that
\* the edit reads, for every operation and every namespace.
THEOREM NothingStaysUnread == Spec => []NothingUnread
<1>1. NodesInv => NothingUnread
  BY DEF NodesInv, NothingUnread
<1>2. QED
  BY <1>1, NodesInvariant, PTL

--------------------------------------------------------------------------------
(* The comparison of two trees *)

\* Two trees with one entry at a path have one and the same beneath it.
LEMMA EqualBeneath ==
    ASSUME NEW old, NEW new, NEW q \in Seq(Names), NEW p \in Seq(Names),
           Beneath(p, q), Get(old, q) = Get(new, q)
    PROVE  Get(old, p) = Get(new, p)
<1>1. CASE p = q
  BY <1>1
<1>2. CASE p # q
  <2>1. PICK s \in Seq(Names) : s # Root /\ p = q \o s
    BY <1>2, BeneathGoesOn
  <2>2. NodeAt(old, q) = NodeAt(new, q)
    BY DEF NodeAt
  <2>3. QED
    BY <2>1, <2>2, GetConcat
<1>3. QED
  BY <1>1, <1>2

\* The ancestors of a path are the paths above it but the root.
LEMMA AncestorsAre ==
    ASSUME NEW p \in Paths
    PROVE  Ancestors(p) = Over(p) \ {Root}
<1>0. p \in Seq(Names) /\ Len(p) \in Nat /\ Len(Root) = 0
  BY PathsAre, LenProperties, RootOver
<1>1. ASSUME NEW n \in 1..(Len(p) - 1)
      PROVE  Upto(p, n) \in Over(p) \ {Root}
  <2>1. n + 1 \in 1..Len(p) /\ n = (n + 1) - 1 /\ n # 0
    BY <1>0
  <2>2. Upto(p, (n + 1) - 1) \in Over(p) /\ Len(Upto(p, (n + 1) - 1)) = (n + 1) - 1
    BY <1>0, <2>1, OverIs
  <2>3. QED
    BY <1>0, <2>1, <2>2
<1>2. ASSUME NEW q \in Over(p), q # Root
      PROVE  \E n \in 1..(Len(p) - 1) : q = Upto(p, n)
  <2>1. q \in Seq(Names) /\ Len(q) \in Nat /\ Len(q) < Len(p) /\ q = Upto(p, Len(q))
    BY <1>0, OverIs
  <2>2. Len(q) # 0
    BY <1>2, <2>1, EmptySeq DEF Root
  <2>3. Len(q) \in 1..(Len(p) - 1)
    BY <1>0, <2>1, <2>2
  <2>4. QED
    BY <2>1, <2>3
<1>3. QED
  BY <1>1, <1>2 DEF Ancestors

\* Both trees have a directory at a path, and not the same one.
Parted(old, new, q) == IsDir(Get(old, q)) /\ IsDir(Get(new, q)) /\ Get(old, q) # Get(new, q)

\* The directories compared are those at and above which the trees part.
LEMMA ComparedAre ==
    ASSUME NEW old, NEW new, NEW p \in Paths \cup {Root}
    PROVE  p \in Compared(old, new) <=> \A q \in Over(p) \cup {p} : Parted(old, new, q)
<1>0. p \in Seq(Names) /\ Len(p) \in Nat
  <2>1. p \in Seq(Names)
    BY PathsAre, EmptySeq DEF Root
  <2>2. QED
    BY <2>1, LenProperties
<1>1. ASSUME NEW k \in 0..Len(p)
      PROVE  Upto(p, k) \in Over(p) \cup {p}
  <2>1. CASE k = Len(p)
    <3>1. k \in 0..Len(p) /\ Len(p) \in 0..Len(p)
      BY <1>0
    <3>2. Upto(p, k) = p
      BY <1>0, <2>1, BeneathOrder DEF Beneath
    <3>3. QED
      BY <3>2
  <2>2. CASE k # Len(p)
    <3>1. k + 1 \in 1..Len(p) /\ k = (k + 1) - 1
      BY <1>0, <2>2
    <3>2. Upto(p, (k + 1) - 1) \in Over(p)
      BY <1>0, <3>1, OverIs
    <3>3. QED
      BY <3>1, <3>2
  <2>3. QED
    BY <2>1, <2>2
<1>2. ASSUME NEW q \in Over(p) \cup {p}
      PROVE  \E k \in 0..Len(p) : q = Upto(p, k)
  <2>1. CASE q = p
    <3>1. Upto(p, Len(p)) = p /\ Len(p) \in 0..Len(p)
      BY <1>0, BeneathOrder DEF Beneath
    <3>2. QED
      BY <2>1, <3>1
  <2>2. CASE q \in Over(p)
    <3>1. Len(q) \in Nat /\ Len(q) < Len(p) /\ q = Upto(p, Len(q))
      BY <1>0, <2>2, OverIs
    <3>2. QED
      BY <1>0, <3>1
  <2>3. QED
    BY <2>1, <2>2
<1>3. p \in Compared(old, new) <=> \A k \in 0..Len(p) : Parted(old, new, Upto(p, k))
  BY DEF Compared, Parted
<1>4. QED
  BY <1>1, <1>2, <1>3

\* The entries diff looks at.
Looked(old, new) ==
    {Append(p, n) : p \in {q \in Compared(old, new) : Len(q) < Depth}, n \in Names}

\* They are those above which the trees part everywhere.
LEMMA LookedAt ==
    ASSUME NEW old, NEW new, NEW x
    PROVE  x \in Looked(old, new) <=> x \in Paths /\ \A q \in Over(x) : Parted(old, new, q)
<1>0. Depth \in Nat /\ Depth >= 1
  BY NamespaceAssumption
<1>1. ASSUME NEW p \in Compared(old, new), Len(p) < Depth, NEW n \in Names, x = Append(p, n)
      PROVE  x \in Paths /\ \A q \in Over(x) : Parted(old, new, q)
  <2>1. p \in Paths \cup {Root} /\ p \in Seq(Names)
    <3>1. p \in Paths \cup {Root}
      BY DEF Compared
    <3>2. QED
      BY <3>1, PathsAre, EmptySeq DEF Root
  <2>2. Over(x) = Over(p) \cup {p}
    BY <1>1, <2>1, OverAppend
  <2>3. x \in Seq(Names) /\ Len(x) = Len(p) + 1 /\ x # Root /\ Len(p) \in Nat
    BY <1>1, <2>1, AppendProperties, LenProperties, GetStep
  <2>4. x \in Paths
    BY <1>0, <1>1, <2>3, PathsAre
  <2>5. QED
    BY <2>1, <2>2, <2>4, ComparedAre
<1>2. ASSUME x \in Paths, \A q \in Over(x) : Parted(old, new, q)
      PROVE  \E p \in Compared(old, new), n \in Names : Len(p) < Depth /\ x = Append(p, n)
  <2> DEFINE p == Upto(x, Len(x) - 1)
             n == x[Len(x)]
  <2>1. x \in Seq(Names) /\ x # Root /\ Len(x) <= Depth /\ Len(x) \in Nat
    BY <1>2, PathsAre, LenProperties
  <2>2. n \in Names /\ p \in Seq(Names) /\ Len(p) = Len(x) - 1 /\ x = Append(p, n)
    BY <2>1, PathEnds
  <2> HIDE DEF p, n
  <2>3. Len(p) \in Nat /\ Len(p) < Depth /\ Len(p) <= Depth
    BY <1>0, <2>1, <2>2, LenProperties
  <2>4. p \in Paths \cup {Root}
    BY <2>2, <2>3, PathsAre
  <2>5. Over(x) = Over(p) \cup {p}
    BY <2>2, OverAppend
  <2>6. p \in Compared(old, new)
    BY <1>2, <2>4, <2>5, ComparedAre
  <2>7. QED
    BY <2>2, <2>3, <2>6
<1>3. QED
  BY <1>1, <1>2 DEF Looked

\* An entry of the map shows what the tree's shows, but for a directory's node.
LEMMA BareIs ==
    ASSUME NEW e
    PROVE  /\ Bare(e) = None <=> e = None
           /\ IsDir(e) => Bare(e) = Dir(e.meta, Empty) /\ Bare(e).kind = "dir"
           /\ ~IsDir(e) => Bare(e) = e
<1>1. IsDir(e) => Bare(e) = Dir(e.meta, Empty) /\ IsDir(Dir(e.meta, Empty))
  BY DEF Bare, Dir, IsDir
<1>2. ~IsDir(e) => Bare(e) = e
  BY DEF Bare
<1>3. QED
  BY <1>1, <1>2, NoneIs DEF IsDir

\* Both trees' entries at p are one and the same, or directories.
SameAt(old, new, p) ==
    LET a == Get(old, p)  b == Get(new, p)
    IN  a = b \/ (IsDir(a) /\ IsDir(b))

\* The first path, from the root down to p, at which not both trees have a directory.
LEMMA FirstParting ==
    ASSUME NEW old, NEW new, NEW p \in Paths, ~SameAt(old, new, p)
    PROVE  \E x \in Over(p) \cup {p} :
               /\ x \in Paths /\ \A q \in Over(x) : Parted(old, new, q)
               /\ ~(IsDir(Get(old, x)) /\ IsDir(Get(new, x)))
<1> DEFINE Both(q) == IsDir(Get(old, q)) /\ IsDir(Get(new, q))
           T == {Len(q) : q \in {r \in Over(p) \cup {p} : ~Both(r)}}
<1>0. /\ p \in Seq(Names) /\ p # Root /\ Len(p) <= Depth /\ Len(p) \in Nat /\ Depth \in Nat
  BY PathsAre, LenProperties, NamespaceAssumption
<1>1. \A q \in Over(p) \cup {p} : q \in Seq(Names) /\ Len(q) \in Nat /\ Len(q) <= Len(p)
  BY <1>0, OverIs
<1>2. ~Both(p)
  BY DEF SameAt
<1>3. T \in SUBSET Nat /\ T # {}
  BY <1>1, <1>2
<1>4. PICK n \in T : \A k \in T : n <= k
  BY <1>3, LeastOf
<1>5. PICK x \in Over(p) \cup {p} : ~Both(x) /\ Len(x) = n
  BY <1>4
<1>6. x \in Seq(Names) /\ x # Root /\ Len(x) <= Depth
  BY <1>0, <1>1, <1>5, RootShows
<1>7. x \in Paths
  BY <1>6, PathsAre
<1>8. ASSUME NEW q \in Over(x)
      PROVE  Parted(old, new, q)
  <2>1. q \in Over(p) /\ q \in Seq(Names)
    BY <1>0, <1>5, <1>6, Position DEF Over
  <2>2. Len(q) < Len(x)
    BY <1>6, OverIs
  <2>3. Both(q)
    <3>1. ASSUME ~Both(q)
          PROVE  FALSE
      <4>1. Len(q) \in T
        BY <2>1, <3>1
      <4>2. Len(x) <= Len(q)
        BY <1>4, <1>5, <4>1
      <4>3. QED
        BY <1>1, <1>6, <2>1, <2>2, <4>2, LenProperties
    <3>2. QED
      BY <3>1
  <2>4. Get(old, q) # Get(new, q)
    <3>1. ASSUME Get(old, q) = Get(new, q)
          PROVE  FALSE
      <4>1. Get(old, p) = Get(new, p)
        BY <1>0, <2>1, <3>1, EqualBeneath DEF Over
      <4>2. QED
        BY <4>1 DEF SameAt
    <3>2. QED
      BY <3>1
  <2>5. QED
    BY <2>3, <2>4 DEF Parted
<1>9. QED
  BY <1>5, <1>7, <1>8

\* diff reports exactly the paths at which two trees show two different things of which
\* one is no directory, but for what lies beneath such a path where both show something.
LEMMA DiffIs ==
    ASSUME NEW old, NEW new
    PROVE  LET d == Diff(old, new)
               differ == {p \in PathsOf(old) \cup PathsOf(new) : ~SameAt(old, new, p)}
               swapped == {p \in differ : \E a \in Ancestors(p) :
                               Get(old, a) # None /\ Get(new, a) # None /\ ~SameAt(old, new, a)}
           IN  d.removed \cup d.added \cup d.modified = differ \ swapped
<1> DEFINE Below == Looked(old, new)
           gone == {p \in Below : Get(old, p) # None /\ Get(new, p) = None}
           came == {p \in Below : Get(old, p) = None /\ Get(new, p) # None}
           kept == {p \in Below \ (gone \cup came) :
                        /\ Get(old, p) # Get(new, p)
                        /\ ~(IsDir(Get(old, p)) /\ IsDir(Get(new, p)))}
           differ == {p \in PathsOf(old) \cup PathsOf(new) : ~SameAt(old, new, p)}
           swapped == {p \in differ : \E a \in Ancestors(p) :
                           Get(old, a) # None /\ Get(new, a) # None /\ ~SameAt(old, new, a)}
           found == (UNION {Whole(old, p) : p \in gone}) \cup (UNION {Whole(new, p) : p \in came})
                        \cup kept
<1>1. Diff(old, new).removed \cup Diff(old, new).added \cup Diff(old, new).modified = found
  BY DEF Diff, Looked
<1>2. \A x : x \in Below <=> x \in Paths /\ \A q \in Over(x) : Parted(old, new, q)
  BY LookedAt
<1>3. \A x \in Paths : x \in Seq(Names) /\ x # Root
  BY PathsAre
<1> HIDE DEF Below
\* What is found differs and is not beneath a swapped entry.
<1>4. ASSUME NEW x \in kept
      PROVE  x \in differ \ swapped
  <2>1. x \in Paths /\ ~SameAt(old, new, x) /\ (Get(old, x) # None \/ Get(new, x) # None)
    BY <1>2 DEF SameAt
  <2>2. x \in differ
    BY <2>1 DEF PathsOf
  <2>3. \A a \in Ancestors(x) : SameAt(old, new, a)
    BY <1>2, <2>1, AncestorsAre DEF Parted, SameAt
  <2>4. QED
    BY <2>2, <2>3
<1>5. ASSUME NEW x \in Below, NEW y \in Paths, Beneath(y, x),
             \/ Get(old, x) = None /\ Get(new, y) # None
             \/ Get(new, x) = None /\ Get(old, y) # None
      PROVE  y \in differ \ swapped
  <2>0. x \in Paths /\ x \in Seq(Names) /\ x # Root /\ y \in Seq(Names)
        /\ \A q \in Over(x) : Parted(old, new, q)
    BY <1>2, <1>3
  <2>1. ASSUME NEW t, NEW q \in Seq(Names), Beneath(q, x), Get(t, x) = None
        PROVE  Get(t, q) = None
    BY <2>0, <2>1, NoneIs, GetBeneath
  <2>2. y \in PathsOf(old) \cup PathsOf(new) /\ ~SameAt(old, new, y)
    BY <1>5, <2>0, <2>1, NoneIs DEF PathsOf, SameAt
  <2>3. ASSUME NEW a \in Ancestors(y), Get(old, a) # None, Get(new, a) # None
        PROVE  SameAt(old, new, a)
    <3>1. a \in Over(y) /\ a \in Seq(Names)
      BY AncestorsAre DEF Over
    <3>2. a \in Over(x) \/ Beneath(a, x)
      BY <1>5, <2>0, <3>1, BeneathOrder DEF Over
    <3>3. ~Beneath(a, x)
      BY <1>5, <2>1, <2>3, <3>1
    <3>4. QED
      BY <2>0, <3>2, <3>3 DEF Parted, SameAt
  <2>4. QED
    BY <2>2, <2>3
<1>6. ASSUME NEW y \in found
      PROVE  y \in differ \ swapped
  <2>1. CASE y \in kept
    BY <1>4, <2>1
  <2>2. CASE \E x \in gone : y \in Whole(old, x)
    BY <1>5, <2>2 DEF Whole, PathsOf
  <2>3. CASE \E x \in came : y \in Whole(new, x)
    <3>1. PICK x \in came : y \in Whole(new, x)
      BY <2>3
    <3>2. x \in Below /\ Get(old, x) = None /\ y \in Paths /\ Beneath(y, x) /\ Get(new, y) # None
      BY <3>1 DEF Whole, PathsOf
    <3> HIDE DEF differ, swapped, came
    <3>3. QED
      BY <1>5, <3>2
  <2>4. QED
    BY <2>1, <2>2, <2>3
\* What differs is found at or beneath the first path where the trees part for good.
<1>7. ASSUME NEW y \in differ, y \notin swapped
      PROVE  y \in found
  <2>0. y \in Paths /\ ~SameAt(old, new, y) /\ (Get(old, y) # None \/ Get(new, y) # None)
        /\ y \in Seq(Names)
    BY <1>3 DEF PathsOf
  <2>1. PICK x \in Over(y) \cup {y} :
            /\ x \in Paths /\ \A q \in Over(x) : Parted(old, new, q)
            /\ ~(IsDir(Get(old, x)) /\ IsDir(Get(new, x)))
    BY <2>0, FirstParting
  <2>2. x \in Below /\ x \in Seq(Names) /\ x # Root /\ Beneath(y, x)
    BY <1>2, <1>3, <2>0, <2>1, BeneathOrder DEF Over
  <2>3. ASSUME NEW t, ~IsDir(Get(t, x)), y # x
        PROVE  Get(t, y) = None
    BY <2>0, <2>2, <2>3, GetBeneath
  <2>4. Get(old, x) # None \/ Get(new, x) # None
    BY <2>0, <2>3, NoneIs
  <2>5. CASE Get(old, x) # None /\ Get(new, x) = None
    <3>1. x \in gone
      BY <2>2, <2>5
    <3>2. Get(new, y) = None
      BY <2>3, <2>5, NoneIs
    <3>3. y \in Whole(old, x)
      BY <2>0, <2>2, <3>2 DEF Whole, PathsOf
    <3>4. QED
      BY <3>1, <3>3
  <2>6. CASE Get(old, x) = None /\ Get(new, x) # None
    <3>1. x \in came
      BY <2>2, <2>6
    <3>2. Get(old, y) = None
      BY <2>3, <2>6, NoneIs
    <3>3. y \in Whole(new, x)
      BY <2>0, <2>2, <3>2 DEF Whole, PathsOf
    <3>4. QED
      BY <3>1, <3>3
  <2>7. CASE Get(old, x) # None /\ Get(new, x) # None
    <3>1. Get(old, x) # Get(new, x)
      <4>1. CASE x = y
        BY <2>0, <4>1 DEF SameAt
      <4>2. CASE x # y
        <5>1. ASSUME Get(old, x) = Get(new, x)
              PROVE  FALSE
          <6>1. ~IsDir(Get(old, x)) /\ ~IsDir(Get(new, x))
            BY <2>1, <5>1
          <6>2. QED
            BY <2>0, <2>3, <4>2, <6>1
        <5>2. QED
          BY <5>1
      <4>3. QED
        BY <4>1, <4>2
    <3>2. x \in kept
      BY <2>1, <2>2, <2>7, <3>1
    <3>3. x = y
      <4>1. ASSUME x # y
            PROVE  FALSE
        <5>1. x \in Ancestors(y)
          BY <2>0, <2>1, <2>2, <4>1, AncestorsAre
        <5>2. ~SameAt(old, new, x)
          BY <2>1, <3>1 DEF SameAt
        <5>3. QED
          BY <1>7, <2>7, <5>1, <5>2
      <4>2. QED
        BY <4>1
    <3>4. QED
      BY <3>2, <3>3
  <2>8. QED
    BY <2>4, <2>5, <2>6, <2>7
<1>8. found = differ \ swapped
  BY <1>6, <1>7
<1>9. QED
  BY <1>1, <1>8

\* tree::diff skips the subtrees whose digests are equal and misses nothing by it: between
\* a workspace's tree and the branch head's it reports every path at which they differ and
\* no other, but for directories whose own metadata changed and for what lies beneath a
\* path where a directory took another entry's place or gave it up.
THEOREM DiffStaysExact == Spec => []DiffExact
<1> DEFINE shown   == Differ(head, root) \ Restamped(head, root)
           swapped == {p \in shown : \E a \in Ancestors(p) \cap shown :
                           Get(head, a) # None /\ Get(root, a) # None}
           differ  == {p \in PathsOf(head) \cup PathsOf(root) : ~SameAt(head, root, p)}
           parted  == {p \in differ : \E a \in Ancestors(p) :
                           Get(head, a) # None /\ Get(root, a) # None /\ ~SameAt(head, root, a)}
<1>1. ASSUME NEW p
      PROVE  SameAt(head, root, p) <=>
                 Bare(Get(head, p)) = Bare(Get(root, p)) \/ (IsDir(Get(head, p)) /\ IsDir(Get(root, p)))
  <2> DEFINE a == Get(head, p)
             b == Get(root, p)
  <2>1. IsDir(a) /\ ~IsDir(b) => Bare(a) # Bare(b)
    BY BareIs DEF IsDir
  <2>2. ~IsDir(a) /\ IsDir(b) => Bare(a) # Bare(b)
    BY BareIs DEF IsDir
  <2>3. ~IsDir(a) /\ ~IsDir(b) => (Bare(a) = Bare(b) <=> a = b)
    BY BareIs
  <2>4. QED
    BY <2>1, <2>2, <2>3 DEF SameAt
<1>2. shown = differ
  BY <1>1 DEF Differ, Restamped
<1>3. ASSUME NEW p \in PathsOf(head) \cup PathsOf(root), NEW a \in Ancestors(p), Get(head, a) # None
      PROVE  a \in differ <=> ~SameAt(head, root, a)
  <2>1. p \in Paths /\ p \in Seq(Names) /\ p # Root /\ Len(p) \in Nat /\ Len(p) <= Depth
    BY PathsAre, LenProperties DEF PathsOf
  <2>2. a \in Over(p) /\ a # Root
    BY <2>1, AncestorsAre
  <2>3. a \in Seq(Names) /\ Len(a) \in Nat /\ Len(a) <= Len(p)
    BY <2>1, <2>2, OverIs
  <2>4. a \in Paths
    BY <2>1, <2>2, <2>3, PathsAre, NamespaceAssumption
  <2>5. QED
    BY <1>3, <2>4 DEF PathsOf
<1>4. swapped = parted
  <2>1. \A p \in differ : p \in PathsOf(head) \cup PathsOf(root)
    OBVIOUS
  <2> HIDE DEF differ, shown
  <2>2. QED
    BY <1>2, <1>3, <2>1
<1>5. Reported(head, root) = differ \ parted
  BY DiffIs DEF Reported
<1>6. DiffExact
  BY <1>2, <1>4, <1>5 DEF DiffExact
<1>7. QED
  BY <1>6, PTL

--------------------------------------------------------------------------------
(* Hard links *)

\* No operation has set a name apart yet, or the names of every link group agree.
GroupsInv == stray \in BOOLEAN /\ (~stray => Agreeing(root) /\ Agreeing(head))

\* An entry that lists other names.
Grouped(e) == IsFile(e) /\ e.links # {}

\* Groups agree after an edit that treats the paths cs alike, and leaves other files.
LEMMA GroupsStay ==
    ASSUME NEW old, NEW new, NEW cs, Trim(old), Agreeing(old),
           \A q \in Paths \ cs : IsFile(Get(old, q)) \/ IsFile(Get(new, q)) =>
               Get(new, q) = Get(old, q),
           \A q \in Paths \cap cs :
               /\ IsFile(Get(old, q)) => Get(old, q).links \subseteq cs
               /\ Grouped(Get(new, q)) =>
                      /\ q \in Get(new, q).links /\ Cardinality(Get(new, q).links) > 1
                      /\ \A r \in Get(new, q).links : Get(new, r) = Get(new, q)
    PROVE  Agreeing(new)
<1>1. ASSUME NEW p \in PathsOf(new), Grouped(Get(new, p))
      PROVE  /\ p \in Get(new, p).links /\ Cardinality(Get(new, p).links) > 1
             /\ \A q \in Get(new, p).links : Get(new, q) = Get(new, p)
  <2>0. p \in Paths
    BY DEF PathsOf
  <2>1. CASE p \in cs
    BY <1>1, <2>0, <2>1
  <2>2. CASE p \notin cs
    <3>1. Get(new, p) = Get(old, p) /\ Grouped(Get(old, p))
      BY <1>1, <2>0, <2>2 DEF Grouped
    <3>2. p \in PathsOf(old)
      BY <2>0, <3>1, NoneIs DEF Grouped, PathsOf
    <3>3. /\ p \in Get(old, p).links /\ Cardinality(Get(old, p).links) > 1
          /\ \A q \in Get(old, p).links : Get(old, q) = Get(old, p)
      BY <3>1, <3>2 DEF Agreeing, Grouped
    <3>4. ASSUME NEW q \in Get(old, p).links
          PROVE  Get(new, q) = Get(old, p)
      <4>1. p \in Seq(Names) /\ Allowed(Get(old, p))
        BY <2>0, PathsAre DEF Trim
      <4>2. q \in Paths
        BY <3>1, <4>1, NoneIs DEF Allowed, Proper, Grouped, IsDir, IsFile
      <4>3. Get(old, q) = Get(old, p) /\ IsFile(Get(old, q))
        BY <3>1, <3>3, <3>4 DEF Grouped
      <4>4. q \notin cs
        BY <2>2, <3>3, <4>2, <4>3
      <4>5. QED
        BY <4>2, <4>3, <4>4
    <3>5. QED
      BY <3>1, <3>3, <3>4
  <2>3. QED
    BY <2>1, <2>2
<1>2. QED
  BY <1>1 DEF Agreeing, Grouped

\* An edit at one path that keeps what lies beneath it touches no other file.
LEMMA ReplacedElsewhere ==
    ASSUME NEW old, NEW new, NEW p \in Paths, NEW e, Replaced(old, new, p, e),
           NodeOf(e) = NodeAt(old, p)
    PROVE  \A q \in Paths : q # p /\ (IsFile(Get(old, q)) \/ IsFile(Get(new, q))) =>
               Get(new, q) = Get(old, q)
<1>0. p \in Seq(Names) /\ p # Root
  BY PathsAre
<1>1. ASSUME NEW q \in Paths, q # p, IsFile(Get(old, q)) \/ IsFile(Get(new, q))
      PROVE  Get(new, q) = Get(old, q)
  <2>0. q \in Seq(Names) /\ q # Root
    BY PathsAre
  <2>1. CASE q \in Over(p)
    <3>1. OnTheWay(old, new, q)
      BY <2>0, <2>1 DEF Replaced
    <3>2. QED
      BY <1>1, <3>1, NoneIs DEF OnTheWay, IsDir, IsFile
  <2>2. CASE p \in Over(q)
    <3>1. PICK s \in Seq(Names) : s # Root /\ q = p \o s
      BY <1>0, <2>0, <2>2, BeneathGoesOn DEF Over
    <3>2. Get(new, q) = Get(NodeOf(e), s) /\ Get(old, q) = Get(NodeAt(old, p), s)
      BY <1>0, <3>1, GetConcat DEF Replaced
    <3>3. QED
      BY <3>2
  <2>3. CASE Apart(p, q)
    BY <2>0, <2>3 DEF Replaced
  <2>4. QED
    BY <1>0, <1>1, <2>0, <2>1, <2>2, <2>3, Position
<1>2. QED
  BY <1>1

\* A file placed where there were no directories touches no file at another path.
LEMMA PlacedElsewhere ==
    ASSUME NEW old, NEW new, NEW ps \in SUBSET Paths, NEW e, Placed(old, new, ps, e), ~IsDir(e),
           \A p \in ps : ~IsDir(Get(old, p))
    PROVE  \A q \in Paths : q \notin ps /\ (IsFile(Get(old, q)) \/ IsFile(Get(new, q))) =>
               Get(new, q) = Get(old, q)
<1>1. ASSUME NEW q \in Paths, q \notin ps, IsFile(Get(old, q)) \/ IsFile(Get(new, q))
      PROVE  Get(new, q) = Get(old, q)
  <2>0. q \in Seq(Names) /\ q # Root /\ \A p \in ps : p \in Seq(Names)
    BY PathsAre
  <2>1. CASE \E p \in ps : q \in Over(p)
    <3>1. OnTheWay(old, new, q)
      BY <2>0, <2>1 DEF Placed
    <3>2. QED
      BY <1>1, <3>1, NoneIs DEF OnTheWay, IsDir, IsFile
  <2>2. CASE \E p \in ps : p \in Over(q)
    <3>1. Get(new, q) = None
      BY <2>0, <2>2, PlacedBeneath
    <3>2. Get(old, q) = None
      BY <2>0, <2>2, GetBeneath DEF Over
    <3>3. QED
      BY <3>1, <3>2
  <2>3. CASE \A p \in ps : Apart(p, q)
    BY <2>0, <2>3 DEF Placed
  <2>4. QED
    BY <1>1, <2>0, <2>1, <2>2, <2>3, Position
<1>2. QED
  BY <1>1

\* An entry without a group, in place of one without a group.
LEMMA ReplacedAgrees ==
    ASSUME NEW old, NEW new, NEW p \in Paths, NEW e, Replaced(old, new, p, e),
           NodeOf(e) = NodeAt(old, p), Trim(old), Agreeing(old),
           ~Grouped(Get(old, p)), ~Grouped(e)
    PROVE  Agreeing(new)
<1>1. Get(new, p) = e
  BY DEF Replaced
<1>2. IsFile(Get(old, p)) => Get(old, p).links \subseteq {p}
  BY DEF Grouped
<1>3. \A q \in Paths \ {p} : IsFile(Get(old, q)) \/ IsFile(Get(new, q)) =>
               Get(new, q) = Get(old, q)
  BY ReplacedElsewhere
<1>4. \A q \in Paths \cap {p} :
               /\ IsFile(Get(old, q)) => Get(old, q).links \subseteq {p}
               /\ ~Grouped(Get(new, q))
  BY <1>1, <1>2
<1>5. QED
  BY <1>3, <1>4, GroupsStay

\* A file at all the names it lists, in place of files that listed none but those.
LEMMA PlacedAgrees ==
    ASSUME NEW old, NEW new, NEW ps \in SUBSET Paths, NEW e, Placed(old, new, ps, e), IsFile(e),
           ~IsDir(e), e.links = {} \/ (e.links = ps /\ Cardinality(ps) > 1), Trim(old), Agreeing(old),
           \A p \in ps : /\ ~IsDir(Get(old, p))
                         /\ IsFile(Get(old, p)) => Get(old, p).links \subseteq ps
    PROVE  Agreeing(new)
<1>1. \A q \in Paths \ ps : IsFile(Get(old, q)) \/ IsFile(Get(new, q)) =>
               Get(new, q) = Get(old, q)
  BY PlacedElsewhere
<1>2. \A q \in ps : Get(new, q) = e
  BY DEF Placed
<1>3. \A q \in Paths \cap ps :
               /\ IsFile(Get(old, q)) => Get(old, q).links \subseteq ps
               /\ Grouped(Get(new, q)) =>
                      /\ q \in Get(new, q).links /\ Cardinality(Get(new, q).links) > 1
                      /\ \A r \in Get(new, q).links : Get(new, r) = Get(new, q)
  BY <1>2 DEF Grouped
<1>4. QED
  BY <1>1, <1>3, GroupsStay

\* The other names of a file that is unlinked.
Siblings(p) == IF IsFile(At(p)) THEN At(p).links \ {p} ELSE {}

\* In a tree whose groups agree, the other names of a file show the same file.
LEMMA GroupIs ==
    ASSUME Ready, Agreeing(root), NEW p \in Paths, IsFile(At(p))
    PROVE  /\ \A q \in At(p).links : q \in Paths /\ At(q) = At(p)
           /\ At(p).links # {} => p \in At(p).links /\ Cardinality(At(p).links) > 1
           /\ At(p).links # {} => Siblings(p) # {}
<1>1. p \in PathsOf(root)
  BY NoneIs DEF PathsOf, At
<1>2. At(p).links \subseteq Paths /\ IsFiniteSet(At(p).links)
  BY AtIs
<1>3. At(p).links # {} => /\ p \in At(p).links /\ Cardinality(At(p).links) > 1
                          /\ \A q \in At(p).links : At(q) = At(p)
  BY <1>1 DEF Agreeing, At
<1>4. ASSUME At(p).links # {}, Siblings(p) = {}
      PROVE  FALSE
  <2>1. At(p).links = {p}
    BY <1>3, <1>4 DEF Siblings
  <2>2. Cardinality({p}) = 1
    BY FS_Singleton
  <2>3. QED
    BY <1>3, <1>4, <2>1, <2>2
<1>5. QED
  BY <1>2, <1>3, <1>4

\* write_file writes every name of a group.
LEMMA WriteFileAgrees ==
    ASSUME Ready, Agreeing(root), NEW p \in Paths, NEW c, WriteFile(p, c)
    PROVE  Agreeing(root')
<1> DEFINE links   == IF IsFile(At(p)) THEN At(p).links ELSE {}
           new     == File(IF IsFile(At(p)) THEN At(p).meta ELSE 0, c, links)
           targets == WriteTargets(p, links)
<1>1. Placed(root, root', targets, new) /\ ~IsDir(At(p)) /\ targets \in SUBSET Paths
  BY WriteFileDoes
<1>2. IsFile(new) /\ ~IsDir(new) /\ new.links = links
  BY FileIs
<1>3. links = {} \/ (links = targets /\ Cardinality(targets) > 1)
  BY GroupIs DEF WriteTargets
<1>4. \A q \in targets : /\ ~IsDir(Get(root, q))
                         /\ IsFile(Get(root, q)) => Get(root, q).links \subseteq targets
  BY <1>1, GroupIs DEF WriteTargets, At
<1> HIDE DEF new, targets, links
<1>5. QED
  BY <1>1, <1>2, <1>3, <1>4, PlacedAgrees DEF Ready

\* link makes a group of the old names and the new one.
LEMMA LinkAgrees ==
    ASSUME Ready, Agreeing(root), NEW existing \in Paths, NEW new \in Paths, Link(existing, new)
    PROVE  Agreeing(root')
<1> DEFINE old   == At(existing)
           group == WriteTargets(existing, old.links) \cup {new}
           e     == File(old.meta, old.content, GroupOf(group, old.links))
<1>1. /\ IsFile(At(existing)) /\ At(new) = None /\ group \in SUBSET Paths /\ IsFiniteSet(group)
      /\ group = {new} \/ GroupOf(group, old.links) = group
      /\ Placed(root, root', group, e)
  BY LinkDoes
<1>0. group = At(existing).links \cup {existing, new}
  BY <1>1, GroupIs DEF WriteTargets
<1>2. IsFile(e) /\ ~IsDir(e) /\ e.links = group
  <2> DEFINE g == GroupOf(group, old.links)
  <2>1. existing # new /\ existing \in group
    BY <1>0, <1>1, NoneIs
  <2> HIDE DEF group
  <2>2. g = group
    BY <1>1, <2>1
  <2> HIDE DEF g, old
  <2>3. QED
    BY <2>2, FileIs DEF g
<1> HIDE DEF group, e
<1>3. \A q \in group : At(q) = At(existing) \/ At(q) = None
  BY <1>0, <1>1, GroupIs
<1>4. \A q \in group : /\ ~IsDir(Get(root, q))
                       /\ IsFile(Get(root, q)) => Get(root, q).links \subseteq group
  <2>1. ~IsDir(At(existing))
    BY <1>1 DEF IsDir, IsFile
  <2>2. QED
    BY <1>0, <1>3, <2>1, NoneIs DEF At
<1>5. Cardinality(group) > 1
  <2>1. existing # new /\ existing \in group /\ new \in group
    BY <1>0, <1>1, NoneIs
  <2>2. group # {} /\ ~\E x : group = {x}
    BY <2>1
  <2> HIDE DEF group
  <2>3. Cardinality(group) # 0 /\ Cardinality(group) # 1
    BY <1>1, <2>2, FS_EmptySet, FS_Singleton
  <2>4. Cardinality(group) \in Nat
    BY <1>1, FS_CardinalityType
  <2>5. QED
    BY <2>3, <2>4
<1> HIDE DEF group, e
<1>6. QED
  BY <1>1, <1>2, <1>4, <1>5, PlacedAgrees DEF Ready

\* unlink corrects the group of the names that stay.
LEMMA UnlinkAgrees ==
    ASSUME Ready, Agreeing(root), NEW p \in Paths, Unlink(p)
    PROVE  Agreeing(root')
<1> DEFINE old  == At(p)
           rest == Siblings(p)
           e    == File(old.meta, old.content, GroupOf(rest, old.links))
           cs   == rest \cup {p}
<1>1. /\ old # None /\ ~IsDir(old) /\ rest \in SUBSET Paths
      /\ rest = {} => Replaced(root, root', p, None)
      /\ rest # {} => \E mid : Replaced(root, mid, p, None) /\ Placed(mid, root', rest, e)
  BY UnlinkDoes DEF Siblings
<1>2. NodeOf(None) = NodeAt(root, p)
  BY <1>1, NoneIs DEF NodeAt, NodeOf, At
<1>3. IsFile(Get(root, p)) => Get(root, p).links \subseteq cs
  BY DEF Siblings, At
<1>4. CASE rest = {}
  <2>1. \A q \in Paths \ cs : IsFile(Get(root, q)) \/ IsFile(Get(root', q)) =>
               Get(root', q) = Get(root, q)
    BY <1>1, <1>2, <1>4, ReplacedElsewhere
  <2>2. Get(root', p) = None
    BY <1>1, <1>4 DEF Replaced
  <2>3. \A q \in Paths \cap cs :
               /\ IsFile(Get(root, q)) => Get(root, q).links \subseteq cs
               /\ ~Grouped(Get(root', q))
    BY <1>3, <1>4, <2>2, NoneIs DEF Grouped
  <2> HIDE DEF cs
  <2>4. QED
    BY <2>1, <2>3, GroupsStay DEF Ready
<1>5. CASE rest # {}
  <2>1. PICK mid : Replaced(root, mid, p, None) /\ Placed(mid, root', rest, e)
    BY <1>1, <1>5
  <2>2. \A q \in Paths : q # p /\ (IsFile(Get(root, q)) \/ IsFile(Get(mid, q))) =>
               Get(mid, q) = Get(root, q)
    BY <1>2, <2>1, ReplacedElsewhere
  <2>3. IsFile(e) /\ ~IsDir(e) /\ e.links = GroupOf(rest, old.links)
    BY FileIs
  <2>4. IsFile(At(p)) /\ \A q \in rest : q \in Paths /\ q # p /\ At(q) = At(p)
    BY <1>5, GroupIs DEF Siblings
  <2>5. \A q \in rest : IsFile(Get(mid, q)) /\ ~IsDir(Get(mid, q)) /\ Get(mid, q) = At(p)
    BY <1>1, <2>2, <2>4 DEF At
  <2> HIDE DEF e, old, rest, cs
  <2>6. \A q \in Paths : q \notin rest /\ (IsFile(Get(mid, q)) \/ IsFile(Get(root', q))) =>
               Get(root', q) = Get(mid, q)
    BY <1>1, <2>1, <2>3, <2>5, PlacedElsewhere
  <2>7. Get(mid, p) = None
    BY <2>1 DEF Replaced
  <2>8. ~IsFile(Get(root', p))
    <3>1. p \notin rest
      BY <2>4
    <3>2. QED
      BY <2>6, <2>7, <3>1, NoneIs
  <2>9. \A q \in Paths \ cs : IsFile(Get(root, q)) \/ IsFile(Get(root', q)) =>
               Get(root', q) = Get(root, q)
    BY <2>2, <2>6 DEF cs
  <2>10. \A q \in rest : Get(root', q) = e
    BY <2>1 DEF Placed
  <2>11. e.links = {} \/ (e.links = rest /\ Cardinality(rest) > 1)
    BY <2>3 DEF GroupOf
  <2>12. \A q \in Paths \cap cs :
               /\ IsFile(Get(root, q)) => Get(root, q).links \subseteq cs
               /\ Grouped(Get(root', q)) =>
                      /\ q \in Get(root', q).links /\ Cardinality(Get(root', q).links) > 1
                      /\ \A r \in Get(root', q).links : Get(root', r) = Get(root', q)
    <3>1. \A q \in rest : Get(root, q).links \subseteq cs
      BY <1>3, <2>4 DEF At
    <3>2. QED
      BY <1>3, <2>8, <2>10, <2>11, <3>1 DEF cs, Grouped
  <2>13. QED
    BY <2>9, <2>12, GroupsStay DEF Ready
<1>6. QED
  BY <1>4, <1>5

\* In a tree whose groups agree, unlink does not fail halfway: the names that stay are
\* files, so the second edit finds them.
LEMMA UnlinkIsWhole ==
    ASSUME Ready, Agreeing(root), NEW p \in Paths
    PROVE  ~UnlinkHalf(p)
<1> SUFFICES ASSUME UnlinkHalf(p) PROVE FALSE
  OBVIOUS
<1> DEFINE old  == At(p)
           rest == old.links \ {p}
           v    == Writing({p})
           cut  == Remove(v, p)
           c2   == [cut EXCEPT !.known = store \cup fresh]
           done == InsertAll(c2, rest, old)
<1>0. p \in Seq(Names) /\ p # Root
  BY PathsAre
<1>1. IsFile(old) /\ done.error = "NotADirectory"
  BY DEF UnlinkHalf
<1>2. /\ rest \in SUBSET Paths /\ IsFiniteSet(rest) /\ ~IsDir(old) /\ old # None
      /\ \A q \in rest : q # p /\ Get(root, q) = old
      /\ Get(root, p) = old
  BY <1>1, AtIs, GroupIs, FS_Subset, NoneIs DEF At, IsDir, IsFile
<1>3. /\ v.root = root /\ v.made = {} /\ IsWriter(cut) /\ Carried(v, cut, p, None)
      /\ Replaced(root, cut.root, p, None)
  BY <1>2, OneRemove DEF Carried
<1>4. NodeOf(None) = NodeAt(root, p)
  BY <1>2, NoneIs DEF NodeAt, NodeOf
<1> HIDE DEF old, rest, v, cut
<1>5. \A q \in rest : Get(cut.root, q) = old
  BY <1>1, <1>2, <1>3, <1>4, ReplacedElsewhere
<1>6. /\ IsWriter(c2) /\ c2.root = cut.root /\ c2.made = cut.made
      /\ c2.error = "none" /\ c2.known = store \cup fresh
  BY <1>3 DEF IsWriter, Carried
<1> HIDE DEF c2
<1>7. ASSUME NEW q \in rest
      PROVE  Readable(c2, q) /\ ~Blocked(c2.root, q) /\ q \in Seq(Names)
  <2>1. q \in Seq(Names)
    BY <1>2, PathsAre
  <2>2. NodesOver(root, q, store \cup fresh)
    BY <2>1, NodesAre DEF NodesOver, Ready, Over
  <2> DEFINE X == store \cup fresh
             Y == store \cup fresh \cup cut.made
  <2>3. NodesOver(v.root, q, X) /\ X \subseteq Y /\ cut.made \subseteq Y
    BY <1>3, <2>2
  <2> HIDE DEF X, Y
  <2>4. NodesOver(cut.root, q, Y)
    BY <1>0, <1>3, <2>1, <2>3, NoneIs, OverKept
  <2>5. Readable(c2, q)
    BY <1>6, <2>1, <2>4, ReadableIs DEF NodesOver, Y
  <2>6. Get(c2.root, q) # None
    BY <1>2, <1>5, <1>6
  <2>7. QED
    BY <2>1, <2>5, <2>6, ShownIsOpen
<1>8. ASSUME NEW q \in rest, NEW r \in rest, q \in Over(r)
      PROVE  FALSE
  <2>1. q \in Seq(Names) /\ r \in Seq(Names) /\ r # q /\ Beneath(r, q)
    BY <1>7, <1>8 DEF Over
  <2>2. Get(root, r) = None
    BY <1>2, <2>1, GetBeneath
  <2>3. QED
    BY <1>2, <2>2
<1>9. rest \in SUBSET (Seq(Names) \ {Root})
  BY <1>2, PathsAre
<1>10. done.error = "none"
  BY <1>2, <1>6, <1>7, <1>8, <1>9, InsertAllIs
<1>11. QED
  BY <1>1, <1>10

\* mkdir, symlink, rmdir, and copy and set_meta at a name without a group.
LEMMA PlainAgrees ==
    ASSUME Ready, Agreeing(root), NEW p \in Paths, NEW q \in Paths, NEW m,
           \/ Mkdir(p) \/ MakeSymlink(p) \/ Rmdir(p)
           \/ Copy(q, p) /\ p \notin Linked(p)
           \/ SetMeta(p, m) /\ ~Grouped(At(p))
    PROVE  Agreeing(root')
<1>0. Beneath(p, p)
  BY PathsAre, BeneathOrder
<1>1. ASSUME NEW e, Replaced(root, root', p, e), NodeOf(e) = NodeAt(root, p),
             ~Grouped(Get(root, p)), ~Grouped(e)
      PROVE  Agreeing(root')
  BY <1>1, ReplacedAgrees DEF Ready
<1>2. CASE Mkdir(p) \/ MakeSymlink(p)
  <2>1. /\ At(p) = None
        /\ \E e \in {Dir(0, Empty), Symlink(0, Target)} : Replaced(root, root', p, e)
    BY <1>2, MakeDoes
  <2>2. PICK e \in {Dir(0, Empty), Symlink(0, Target)} : Replaced(root, root', p, e)
    BY <2>1
  <2>3. NodeOf(e) = Empty /\ ~IsFile(e)
    BY DEF Dir, Symlink, IsDir, IsFile, NodeOf
  <2>4. NodeAt(root, p) = Empty /\ ~IsFile(Get(root, p))
    BY <2>1, NoneIs DEF At, NodeAt
  <2>5. QED
    BY <1>1, <2>2, <2>3, <2>4 DEF Grouped
<1>3. CASE Rmdir(p)
  <2>1. IsDir(At(p)) /\ At(p).node = Empty /\ Replaced(root, root', p, None)
    BY <1>3, RmdirDoes
  <2>2. NodeAt(root, p) = Empty /\ ~IsFile(Get(root, p))
    BY <2>1, AtIs DEF At, NodeAt, NodeOf
  <2>3. QED
    BY <1>1, <2>1, <2>2, NoneIs DEF Grouped
<1>4. CASE Copy(q, p) /\ p \notin Linked(p)
  <2> DEFINE e == Independent(At(q))
  <2>1. /\ ~IsDir(At(p)) /\ At(q) # None /\ ~IsDir(At(q)) /\ Replaced(root, root', p, e)
    BY <1>4, CopyDoes
  <2>2. NodeOf(e) = Empty /\ ~Grouped(e)
    BY <2>1, IndependentIs DEF Grouped
  <2>3. NodeAt(root, p) = Empty
    BY <2>1 DEF At, NodeAt, NodeOf
  <2>4. ~Grouped(Get(root, p))
    BY <1>0, <1>4, NoneIs DEF Grouped, Linked, PathsOf, At
  <2> HIDE DEF e
  <2>5. QED
    BY <1>1, <2>1, <2>2, <2>3, <2>4
<1>5. CASE SetMeta(p, m) /\ ~Grouped(At(p))
  <2> DEFINE e == [At(p) EXCEPT !.meta = m]
  <2>1. /\ Replaced(root, root', p, e) /\ NodeOf(e) = NodeAt(root, p)
        /\ IsFile(e) <=> IsFile(At(p))
        /\ IsFile(At(p)) => e.links = At(p).links
    BY <1>5, SetMetaDoes
  <2> HIDE DEF e
  <2>2. ~Grouped(e) /\ ~Grouped(Get(root, p))
    BY <1>5, <2>1 DEF Grouped, At
  <2>3. QED
    BY <1>1, <2>1, <2>2
<1>6. QED
  BY <1>2, <1>3, <1>4, <1>5

\* rename of a subtree without groups onto a path without one.
LEMMA RenameAgrees ==
    ASSUME Ready, Agreeing(root), NEW from \in Paths, NEW to \in Paths, Rename(from, to),
           Linked(from) \cup Linked(to) = {}
    PROVE  Agreeing(root')
<1> DEFINE cs == {q \in Paths : Beneath(q, from) \/ Beneath(q, to)}
<1>0. /\ from \in Seq(Names) /\ from # Root /\ to \in Seq(Names) /\ to # Root
  BY PathsAre
<1>1. Moved(root, root', from, to)
  BY RenameDoes
<1>2. ASSUME NEW q \in Paths, Beneath(q, from) \/ Beneath(q, to)
      PROVE  ~Grouped(At(q))
  BY <1>2, NoneIs DEF Linked, PathsOf, At, Grouped
<1>3. ASSUME NEW q \in Paths \ cs, IsFile(Get(root, q)) \/ IsFile(Get(root', q))
      PROVE  Get(root', q) = Get(root, q)
  <2>0. q \in Seq(Names) /\ q # Root
    BY PathsAre
  <2>1. CASE q \in Over(from) \cup Over(to)
    <3>1. OnTheWay(root, root', q)
      BY <1>1, <2>0, <2>1 DEF Moved
    <3>2. QED
      BY <1>3, <3>1, NoneIs DEF OnTheWay, IsDir, IsFile
  <2>2. CASE q \notin Over(from) \cup Over(to)
    <3>1. Apart(from, q) /\ Apart(to, q)
      BY <2>0, <2>2, BeneathOrder DEF Over, Apart
    <3>2. QED
      BY <1>1, <2>0, <3>1 DEF Moved
  <2>3. QED
    BY <2>1, <2>2
<1>4. ASSUME NEW q \in Paths \cap cs
      PROVE  (IsFile(Get(root, q)) => Get(root, q).links \subseteq cs) /\ ~Grouped(Get(root', q))
  <2>0. q \in Seq(Names)
    BY PathsAre
  <2>1. IsFile(Get(root, q)) => Get(root, q).links \subseteq cs
    BY <1>2 DEF Grouped, At
  <2>2. CASE Beneath(q, from)
    <3>1. PICK s \in Seq(Names) : q = from \o s
      BY <1>0, <2>0, <2>2, BeneathGoesOn, ZenonT(60)
    <3>2. Get(root', q) = None
      BY <1>1, <3>1 DEF Moved
    <3>3. QED
      BY <2>1, <3>2, NoneIs DEF Grouped
  <2>3. CASE Beneath(q, to)
    <3>1. PICK s \in Seq(Names) : q = to \o s
      BY <1>0, <2>0, <2>3, BeneathGoesOn, ZenonT(60)
    <3>2. Get(root', q) = Get(root, from \o s)
      BY <1>1, <3>1 DEF Moved
    <3>3. ASSUME Grouped(Get(root', q))
          PROVE  FALSE
      <4>1. from \o s \in Seq(Names) /\ Beneath(from \o s, from)
        BY <1>0, GetConcat, BeneathGoesOn
      <4>2. Get(root, from \o s) # None
        BY <3>2, <3>3, NoneIs DEF Grouped
      <4>3. from \o s # Root
        BY <1>0, <4>1, RootOver
      <4>4. ~(Len(from \o s) > Depth)
        BY <4>1, <4>2 DEF Ready, Trim
      <4>5. from \o s \in Paths
        <5>1. Len(from \o s) \in Nat /\ Depth \in Nat
          BY <4>1, LenProperties, NamespaceAssumption
        <5>2. Len(from \o s) <= Depth
          BY <4>4, <5>1
        <5>3. QED
          BY <4>1, <4>3, <5>2, PathsAre
      <4>6. QED
        BY <1>2, <3>2, <3>3, <4>1, <4>5 DEF At
    <3>4. QED
      BY <2>1, <3>3
  <2>4. QED
    BY <2>2, <2>3
<1> HIDE DEF cs
<1>5. QED
  BY <1>3, <1>4, GroupsStay DEF Ready

\* No step makes a link group disagree but those that mark the workspace stray.
LEMMA NextKeepsGroups == NodesInv /\ GroupsInv /\ [Next]_vars => GroupsInv'
<1> SUFFICES ASSUME NodesInv, GroupsInv, [Next]_vars PROVE GroupsInv'
  OBVIOUS
<1>1. ASSUME stray' \in BOOLEAN, head' = head, ~stray' => ~stray,
             ~stray' => Agreeing(root')
      PROVE  GroupsInv'
  BY <1>1 DEF GroupsInv, Agreeing, PathsOf
<1>2. ASSUME NEW p \in Paths, NEW q \in Paths, NEW c, NEW m,
             \/ WriteFile(p, c) \/ SetMeta(p, m) \/ Mkdir(p) \/ MakeSymlink(p) \/ Rmdir(p)
             \/ Unlink(p) \/ UnlinkHalf(p) \/ Rename(p, q) \/ Copy(p, q) \/ Link(p, q)
             \/ CopyFails(p, q)
      PROVE  GroupsInv'
  <2>1. open /\ head' = head
    BY <1>2, OperationsEdit
  <2>2. Ready
    BY <2>1, ReadyIs
  <2>3. stray \in BOOLEAN /\ (~stray => Agreeing(root))
    BY DEF GroupsInv
  <2>4. CASE WriteFile(p, c) \/ Mkdir(p) \/ MakeSymlink(p) \/ Rmdir(p) \/ Unlink(p) \/ Link(p, q)
    <3>1. stray' = stray
      BY <2>4 DEF WriteFile, Mkdir, MakeSymlink, Rmdir, Unlink, Link
    <3>2. Agreeing(root) => Agreeing(root')
      BY <2>2, <2>4, WriteFileAgrees, PlainAgrees, UnlinkAgrees, LinkAgrees
    <3>3. QED
      BY <1>1, <2>1, <2>3, <3>1, <3>2
  <2>5. CASE UnlinkHalf(p)
    <3>1. stray' = stray
      BY <2>5 DEF UnlinkHalf
    <3>2. ~Agreeing(root)
      BY <2>2, <2>5, UnlinkIsWhole
    <3>3. QED
      BY <1>1, <2>1, <2>3, <3>1, <3>2
  <2>6. CASE CopyFails(p, q)
    <3>1. stray' = stray /\ root' = root
      BY <2>6 DEF CopyFails
    <3>2. QED
      BY <1>1, <2>1, <2>3, <3>1
  <2>7. CASE SetMeta(p, m)
    <3>1. stray' = (stray \/ (IsFile(At(p)) /\ At(p).links # {}))
      BY <2>7 DEF SetMeta
    <3>2. (stray' <=> stray \/ Grouped(At(p))) /\ stray' \in BOOLEAN
      BY <3>1 DEF Grouped
    <3>3. Agreeing(root) /\ ~Grouped(At(p)) => Agreeing(root')
      BY <2>2, <2>7, PlainAgrees
    <3>4. QED
      BY <1>1, <2>1, <2>3, <3>2, <3>3
  <2>8. CASE Copy(p, q)
    <3>1. stray' = (stray \/ Linked(q) # {})
      BY <2>8 DEF Copy
    <3>2. (stray' <=> stray \/ Linked(q) # {}) /\ stray' \in BOOLEAN
      BY <3>1
    <3>3. Agreeing(root) /\ Linked(q) = {} => Agreeing(root')
      BY <2>2, <2>8, PlainAgrees
    <3>4. QED
      BY <1>1, <2>1, <2>3, <3>2, <3>3
  <2>9. CASE Rename(p, q)
    <3>1. stray' = (stray \/ Linked(p) \cup Linked(q) # {})
      BY <2>9 DEF Rename
    <3>2. (stray' <=> stray \/ Linked(p) \cup Linked(q) # {}) /\ stray' \in BOOLEAN
      BY <3>1
    <3>3. Agreeing(root) /\ Linked(p) \cup Linked(q) = {} => Agreeing(root')
      BY <2>2, <2>9, RenameAgrees
    <3>4. QED
      BY <1>1, <2>1, <2>3, <3>2, <3>3
  <2>10. QED
    BY <1>2, <2>4, <2>5, <2>6, <2>7, <2>8, <2>9
<1>3. CASE Open \/ Discard
  <2>1. root' = head /\ head' = head /\ stray' = stray
    BY <1>3 DEF Open, Discard
  <2>2. QED
    BY <2>1 DEF GroupsInv, Agreeing, PathsOf
<1>4. CASE Publish
  <2>1. root' = root /\ head' = root /\ stray' = stray
    BY <1>4 DEF Publish
  <2>2. QED
    BY <2>1 DEF GroupsInv, Agreeing, PathsOf
<1>5. CASE Collect \/ UNCHANGED vars
  <2>1. root' = root /\ head' = head /\ stray' = stray
    BY <1>5 DEF Collect, vars, wsVars
  <2>2. QED
    BY <2>1 DEF GroupsInv, Agreeing, PathsOf
<1>6. QED
  BY <1>2, <1>3, <1>4, <1>5 DEF Next

\* The seeds' groups agree.
LEMMA InitHasGroups == Init => GroupsInv
BY DEF Init, GroupsInv

\* Link groups agree in the tree and in its base, until an operation sets a name apart; an
\* unlink corrects the entries of the names that stay (lib.rs), a write reaches all of them.
THEOREM GroupsInvariant == Spec => []GroupsInv
<1>1. QED
  BY NodesInvariant, InitHasGroups, NextKeepsGroups, PTL DEF Spec

\* The names of a hard-linked file all show one entry, which lists exactly them, through
\* every operation but those that set a name apart (rename, a copy onto it, metadata of
\* its own).
THEOREM LinkGroupsStayAgreed == Spec => []LinkGroupsAgree
<1>1. GroupsInv => LinkGroupsAgree
  BY DEF GroupsInv, LinkGroupsAgree
<1>2. QED
  BY <1>1, GroupsInvariant, PTL

\* While the link groups agree, no unlink returns an error after its first edit: the
\* second one (write_group, lib.rs) finds every other name of the file, so an entry is
\* never gone without a mutation that says so.
THEOREM UnlinksAreWhole == Spec => [][~stray => \A p \in Paths : ~UnlinkHalf(p)]_vars
<1>1. ASSUME NodesInv, GroupsInv, ~stray, NEW p \in Paths
      PROVE  ~UnlinkHalf(p)
  <2>1. CASE open
    BY <1>1, <2>1, ReadyIs, UnlinkIsWhole DEF GroupsInv
  <2>2. CASE ~open
    BY <2>2 DEF UnlinkHalf, Editing
  <2>3. QED
    BY <2>1, <2>2
<1>2. NodesInv /\ GroupsInv /\ [Next]_vars
        => [~stray => \A p \in Paths : ~UnlinkHalf(p)]_vars
  BY <1>1
<1>3. QED
  BY <1>2, NodesInvariant, GroupsInvariant, PTL DEF Spec

--------------------------------------------------------------------------------
(* The mutation log *)

\* A path is at, above or beneath one of T.
Near(p, T) == \E t \in T : Beneath(p, t) \/ Beneath(t, p)

\* A file that lists one of T among its names.
Lists(e, T) == IsFile(e) /\ \E t \in T : t \in e.links

\* The edit of old to new has a recorded cause wherever it shows.
Caused(old, new, T) ==
    \A p \in Paths : \/ Near(p, T) \/ Lists(Get(old, p), T)
                     \/ Bare(Get(new, p)) = Bare(Get(old, p))

\* A closed workspace shows its base, an open one differs from it only with a cause.
LoggedInv ==
    /\ ~open => root = head
    /\ ~stray /\ open => Caused(head, root, touched)

\* Causes add up.
LEMMA CausedBoth ==
    ASSUME NEW old, NEW mid, NEW new, NEW T, NEW U, Caused(old, mid, T), Caused(mid, new, U)
    PROVE  Caused(old, new, T \cup U)
<1>1. ASSUME NEW p \in Paths
      PROVE  \/ Near(p, T \cup U) \/ Lists(Get(old, p), T \cup U)
             \/ Bare(Get(new, p)) = Bare(Get(old, p))
  <2>1. Near(p, T) \/ Near(p, U) => Near(p, T \cup U)
    BY DEF Near
  <2>2. Lists(Get(old, p), T) \/ Lists(Get(old, p), U) => Lists(Get(old, p), T \cup U)
    BY DEF Lists
  <2>3. \/ Near(p, T) \/ Lists(Get(old, p), T) \/ Bare(Get(mid, p)) = Bare(Get(old, p))
    BY DEF Caused
  <2>4. \/ Near(p, U) \/ Lists(Get(mid, p), U) \/ Bare(Get(new, p)) = Bare(Get(mid, p))
    BY DEF Caused
  <2>5. ASSUME Bare(Get(mid, p)) = Bare(Get(old, p)), Lists(Get(mid, p), U)
        PROVE  Lists(Get(old, p), U)
    <3>1. IsFile(Get(mid, p)) /\ ~IsDir(Get(mid, p))
      BY <2>5 DEF Lists, IsFile, IsDir
    <3>2. Bare(Get(mid, p)) = Get(mid, p)
      BY <3>1 DEF Bare
    <3>3. ~IsDir(Get(old, p))
      BY <2>5, <3>1, <3>2 DEF Bare, Dir, IsDir, IsFile
    <3>4. Get(old, p) = Get(mid, p)
      BY <2>5, <3>2, <3>3 DEF Bare
    <3>5. QED
      BY <2>5, <3>4
  <2>6. QED
    BY <2>1, <2>2, <2>3, <2>4, <2>5
<1>2. QED
  BY <1>1 DEF Caused

\* An edit at one path, and a rename, are caused by the paths they name.
LEMMA OneCause ==
    ASSUME NEW old, NEW new, NEW p \in Paths, NEW e, Replaced(old, new, p, e)
    PROVE  Caused(old, new, {p})
<1>1. \A q \in Paths : q \in Seq(Names) /\ q # Root
  BY PathsAre
<1>2. \A q \in Paths : Near(q, {p}) \/ Apart(p, q)
  BY DEF Near, Apart
<1>3. QED
  BY <1>1, <1>2 DEF Caused, Replaced

\* A rename is caused by its two paths.
LEMMA TwoCauses ==
    ASSUME NEW old, NEW new, NEW from \in Paths, NEW to \in Paths, Moved(old, new, from, to)
    PROVE  Caused(old, new, {from, to})
<1>1. \A q \in Paths : q \in Seq(Names) /\ q # Root
  BY PathsAre
<1>2. \A q \in Paths : Near(q, {from, to}) \/ (Apart(from, q) /\ Apart(to, q))
  BY DEF Near, Apart
<1>3. \A q \in Seq(Names) \ {Root} : Apart(from, q) /\ Apart(to, q) => Get(new, q) = Get(old, q)
  BY DEF Moved
<1>4. QED
  BY <1>1, <1>2, <1>3 DEF Caused

\* A file written at several names is caused by one of them, where the others show a file
\* that lists it.
LEMMA GroupCause ==
    ASSUME NEW old, NEW new, NEW ps \in SUBSET Paths, NEW e, Placed(old, new, ps, e), ~IsDir(e),
           NEW T, \A p \in ps : p \in T \/ Lists(Get(old, p), T)
    PROVE  Caused(old, new, T)
<1>1. ASSUME NEW q \in Paths
      PROVE  \/ Near(q, T) \/ Lists(Get(old, q), T) \/ Bare(Get(new, q)) = Bare(Get(old, q))
  <2>0. q \in Seq(Names) /\ q # Root /\ \A p \in ps : p \in Seq(Names)
    BY PathsAre
  <2>1. CASE q \in ps
    <3>1. Beneath(q, q)
      BY <2>0, BeneathOrder
    <3>2. QED
      BY <2>1, <3>1 DEF Near
  <2>2. CASE \E p \in ps : q \in Over(p) \/ p \in Over(q)
    <3>1. PICK p \in ps : q \in Over(p) \/ p \in Over(q)
      BY <2>2
    <3>2. CASE p \in T
      BY <3>1, <3>2 DEF Near, Over
    <3>3. CASE Lists(Get(old, p), T)
      <4>1. ~IsDir(Get(old, p)) /\ Get(old, p) # None
        BY <3>3, NoneIs DEF Lists, IsDir, IsFile
      <4>2. CASE q \in Over(p)
        <5>1. OnTheWay(old, new, q)
          BY <2>0, <4>2 DEF Placed
        <5>2. IsDir(Get(old, q))
          BY <2>0, <4>1, <4>2, GetBeneath DEF Over
        <5>3. Get(old, q) # None
          BY <5>2, NoneIs
        <5>4. QED
          BY <5>1, <5>2, <5>3 DEF OnTheWay, Bare
      <4>3. CASE p \in Over(q)
        <5>1. Get(new, q) = None
          BY <2>0, <4>3, PlacedBeneath
        <5>2. Get(old, q) = None
          BY <2>0, <4>1, <4>3, GetBeneath DEF Over
        <5>3. QED
          BY <5>1, <5>2
      <4>4. QED
        BY <3>1, <4>2, <4>3
    <3>4. QED
      BY <3>2, <3>3
  <2>3. CASE \A p \in ps : Apart(p, q)
    <3>1. Get(new, q) = Get(old, q)
      BY <2>0, <2>3 DEF Placed
    <3>2. QED
      BY <3>1
  <2>4. QED
    BY <2>0, <2>1, <2>2, <2>3, Position
<1>2. QED
  BY <1>1 DEF Caused

\* Where groups agree, every operation that goes through names what causes its edit.
LEMMA OperationIsLogged ==
    ASSUME Ready, Agreeing(root), NEW p \in Paths, NEW q \in Paths, NEW c, NEW m,
           \/ WriteFile(p, c) \/ SetMeta(p, m) \/ Mkdir(p) \/ MakeSymlink(p) \/ Rmdir(p)
           \/ Unlink(p) \/ Rename(p, q) \/ Copy(p, q) \/ Link(p, q)
    PROVE  \E named : touched' = touched \cup named /\ Caused(root, root', named)
<1>1. CASE WriteFile(p, c)
  <2> DEFINE links   == IF IsFile(At(p)) THEN At(p).links ELSE {}
             new     == File(IF IsFile(At(p)) THEN At(p).meta ELSE 0, c, links)
             targets == WriteTargets(p, links)
  <2>1. Kept({p}) /\ Placed(root, root', targets, new) /\ targets \in SUBSET Paths
    BY <1>1, WriteFileDoes
  <2>2. ~IsDir(new)
    BY FileIs
  <2>3. \A r \in targets : r \in {p} \/ Lists(Get(root, r), {p})
    BY GroupIs DEF WriteTargets, Lists, At
  <2> HIDE DEF targets, new, links
  <2>4. QED
    BY <2>1, <2>2, <2>3, GroupCause DEF Kept
<1>2. CASE Link(p, q)
  <2> DEFINE old   == At(p)
             group == WriteTargets(p, old.links) \cup {q}
             e     == File(old.meta, old.content, GroupOf(group, old.links))
  <2>1. /\ Kept({p, q}) /\ IsFile(At(p)) /\ group \in SUBSET Paths
        /\ Placed(root, root', group, e)
    BY <1>2, LinkDoes
  <2>2. ~IsDir(e)
    BY FileIs
  <2>3. \A r \in group : r \in {p, q} \/ Lists(Get(root, r), {p, q})
    BY <2>1, GroupIs DEF Lists, At, WriteTargets
  <2> HIDE DEF group, e
  <2>4. QED
    BY <2>1, <2>2, <2>3, GroupCause DEF Kept
<1>3. CASE Unlink(p)
  <2> DEFINE old  == At(p)
             rest == Siblings(p)
             e    == File(old.meta, old.content, GroupOf(rest, old.links))
  <2>1. /\ Kept({p}) /\ old # None /\ ~IsDir(old) /\ rest \in SUBSET Paths
        /\ rest = {} => Replaced(root, root', p, None)
        /\ rest # {} => \E mid : Replaced(root, mid, p, None) /\ Placed(mid, root', rest, e)
    BY <1>3, UnlinkDoes DEF Siblings
  <2>2. CASE rest = {}
    BY <2>1, <2>2, OneCause DEF Kept
  <2>3. CASE rest # {}
    <3>1. PICK mid : Replaced(root, mid, p, None) /\ Placed(mid, root', rest, e)
      BY <2>1, <2>3
    <3>2. NodeOf(None) = NodeAt(root, p)
      BY <2>1, NoneIs DEF NodeAt, NodeOf, At
    <3>3. /\ IsFile(At(p)) /\ p \in At(p).links
          /\ \A r \in rest : r \in Paths /\ r # p /\ At(r) = At(p)
      BY <2>3, GroupIs DEF Siblings
    <3>4. \A r \in rest : Get(mid, r) = At(p)
      BY <3>1, <3>2, <3>3, ReplacedElsewhere DEF At
    <3>5. ~IsDir(e) /\ \A r \in rest : Lists(Get(mid, r), {p})
      BY <3>3, <3>4, FileIs DEF Lists
    <3> HIDE DEF rest, e
    <3>6. Caused(mid, root', {p}) /\ Caused(root, mid, {p})
      BY <2>1, <3>1, <3>5, GroupCause, OneCause
    <3>7. Caused(root, root', {p} \cup {p})
      BY <3>6, CausedBoth
    <3>8. {p} \cup {p} = {p}
      OBVIOUS
    <3>9. QED
      BY <2>1, <3>7, <3>8 DEF Kept
  <2>4. QED
    BY <2>2, <2>3
<1>4. CASE SetMeta(p, m)
  BY <1>4, SetMetaDoes, OneCause DEF Kept
<1>5. CASE Mkdir(p) \/ MakeSymlink(p)
  BY <1>5, MakeDoes, OneCause DEF Kept
<1>6. CASE Rmdir(p)
  BY <1>6, RmdirDoes, OneCause DEF Kept
<1>7. CASE Rename(p, q)
  BY <1>7, RenameDoes, TwoCauses DEF Kept
<1>8. CASE Copy(p, q)
  BY <1>8, CopyDoes, OneCause DEF Kept
<1>9. QED
  BY <1>1, <1>2, <1>3, <1>4, <1>5, <1>6, <1>7, <1>8

\* Every step records the cause of what it changes.
LEMMA NextKeepsLog == NodesInv /\ GroupsInv /\ LoggedInv /\ [Next]_vars => LoggedInv'
<1> SUFFICES ASSUME NodesInv, GroupsInv, LoggedInv, [Next]_vars PROVE LoggedInv'
  OBVIOUS
<1>1. ASSUME NEW p \in Paths, NEW q \in Paths, NEW c, NEW m,
             \/ WriteFile(p, c) \/ SetMeta(p, m) \/ Mkdir(p) \/ MakeSymlink(p) \/ Rmdir(p)
             \/ Unlink(p) \/ UnlinkHalf(p) \/ Rename(p, q) \/ Copy(p, q) \/ Link(p, q)
             \/ CopyFails(p, q)
      PROVE  LoggedInv'
  <2>1. open /\ open' = open /\ head' = head
    BY <1>1, OperationsEdit
  <2>2. Ready
    BY <2>1, ReadyIs
  <2>3. ~stray' => ~stray
    BY <1>1 DEF WriteFile, SetMeta, Mkdir, MakeSymlink, Rmdir, Unlink, UnlinkHalf, Rename, Copy,
                Link, CopyFails
  <2>4. ASSUME ~stray'
        PROVE  Caused(head, root', touched')
    <3>1. Agreeing(root) /\ Caused(head, root, touched)
      BY <2>1, <2>3, <2>4 DEF GroupsInv, LoggedInv
    <3>2. ~UnlinkHalf(p)
      BY <2>2, <3>1, UnlinkIsWhole
    <3>3. CASE CopyFails(p, q)
      <4>1. root' = root /\ touched' = touched \cup {q}
        BY <3>3 DEF CopyFails, Logged
      <4>2. Caused(root, root, {q})
        BY DEF Caused
      <4>3. QED
        BY <3>1, <4>1, <4>2, CausedBoth
    <3>4. CASE ~CopyFails(p, q)
      <4>1. \E named : touched' = touched \cup named /\ Caused(root, root', named)
        BY <1>1, <2>2, <3>1, <3>2, <3>4, OperationIsLogged
      <4>2. QED
        BY <3>1, <4>1, CausedBoth
    <3>5. QED
      BY <3>3, <3>4
  <2>5. QED
    BY <2>1, <2>4 DEF LoggedInv, Caused, Near, Lists
<1>2. CASE Open
  <2>1. root' = head /\ head' = head
    BY <1>2 DEF Open
  <2>2. Caused(head', root', touched')
    BY <2>1 DEF Caused
  <2>3. QED
    BY <2>1, <2>2 DEF LoggedInv, Caused, Near, Lists
<1>3. CASE Publish
  BY <1>3 DEF Publish, LoggedInv
<1>4. CASE Discard
  BY <1>4 DEF Discard, LoggedInv
<1>5. CASE Collect \/ UNCHANGED vars
  <2>1. UNCHANGED <<head, root, open, touched, stray>>
    BY <1>5 DEF Collect, vars, wsVars
  <2>2. QED
    BY <2>1 DEF LoggedInv, Caused, Near, Lists
<1>6. QED
  BY <1>1, <1>2, <1>3, <1>4, <1>5 DEF Next

\* A closed workspace shows its base.
LEMMA InitHasLog == Init => LoggedInv
BY DEF Init, LoggedInv

\* Whatever an open workspace shows differently from its base has a recorded cause: an
\* operation that named the path, one above or beneath it, or another name of its file.
THEOREM ChangesStayLogged == Spec => []ChangesAreLogged
<1>1. LoggedInv => ChangesAreLogged
  <2>1. ASSUME NEW p \in Paths, Caused(head, root, touched)
        PROVE  \/ Bare(Get(head, p)) = Bare(At(p))
               \/ \E t \in touched : \/ Beneath(p, t) \/ Beneath(t, p)
                                     \/ \E e \in {At(p), Get(head, p)} : IsFile(e) /\ t \in e.links
    BY <2>1 DEF Caused, Near, Lists, At
  <2>2. PathsOf(head) \cup PathsOf(root) \subseteq Paths
    BY DEF PathsOf
  <2>3. QED
    BY <2>1, <2>2 DEF LoggedInv, ChangesAreLogged
<1>2. QED
  BY <1>1, NodesInvariant, GroupsInvariant, InitHasLog, NextKeepsLog, PTL DEF Spec

--------------------------------------------------------------------------------
(* The map of paths *)

\* The map and the relations of PathMap are those of the tree.
LEMMA ListingIs ==
    /\ \A t : /\ DOMAIN Listing(t) = PathsOf(t)
              /\ \A p \in PathsOf(t) : Listing(t)[p] = Bare(Get(t, p))
    /\ \A t, p : p \in PathsOf(t) <=> p \in Paths /\ Get(t, p) # None
    /\ \A p \in Paths : /\ Flat!Above(p) = Over(p) \ {Root}
                        /\ Over(p) \ {Root} \subseteq Paths
    /\ \A p, q : Flat!In(p, q) <=> Beneath(p, q)
<1>1. \A p, q : Flat!In(p, q) <=> Beneath(p, q)
  BY DEF Flat!In, Beneath, Upto
<1>2. ASSUME NEW p \in Paths
      PROVE  Flat!Above(p) = Over(p) \ {Root} /\ Over(p) \ {Root} \subseteq Paths
  <2>1. Flat!Above(p) = Ancestors(p)
    BY DEF Flat!Above, Ancestors, Upto
  <2>2. p \in Seq(Names) /\ Len(p) \in Nat /\ Len(p) <= Depth /\ Depth \in Nat
    BY PathsAre, LenProperties, NamespaceAssumption
  <2>3. \A q \in Over(p) : q \in Seq(Names) /\ Len(q) \in Nat /\ Len(q) < Len(p)
    BY <2>2, OverIs
  <2>4. \A q \in Over(p) : Len(q) <= Depth
    BY <2>2, <2>3
  <2>5. Over(p) \ {Root} \subseteq Paths
    BY <2>3, <2>4, PathsAre
  <2>6. QED
    BY <2>1, <2>5, AncestorsAre
<1>3. QED
  BY <1>1, <1>2 DEF Listing, PathsOf

\* Every tree gives a map in which every entry lies in a directory.
LEMMA TreesAreRooted ==
    ASSUME NEW t
    PROVE  Flat!Rooted(Listing(t))
<1>1. ASSUME NEW p \in PathsOf(t), NEW a \in Over(p) \ {Root}
      PROVE  a \in PathsOf(t) /\ Listing(t)[a].kind = "dir"
  <2>1. p \in Paths /\ Get(t, p) # None /\ p \in Seq(Names) /\ a \in Seq(Names) /\ a \in Paths
    BY ListingIs, PathsAre DEF Over
  <2>2. IsDir(Get(t, a))
    BY <2>1, GetBeneath DEF Over
  <2>3. a \in PathsOf(t)
    BY <2>1, <2>2, NoneIs, ListingIs
  <2>4. QED
    BY <2>2, <2>3, ListingIs, BareIs
<1>2. QED
  BY <1>1, ListingIs DEF Flat!Rooted

\* Where the tree new shows put, what old shows outside of gone, and directories on the
\* way to put.
Shown(old, new, put, gone) ==
    \A p \in Paths :
        Bare(Get(new, p)) =
            IF p \in DOMAIN put THEN put[p]
            ELSE IF Get(old, p) # None /\ p \notin gone THEN Bare(Get(old, p))
            ELSE IF \E r \in DOMAIN put : p \in Over(r) THEN Dir(0, Empty)
            ELSE None

\* There the map has changed.
LEMMA ChangedIs ==
    ASSUME NEW old, NEW new, NEW put, NEW gone, DOMAIN put \subseteq Paths,
           \A p \in DOMAIN put : put[p] # None, Shown(old, new, put, gone)
    PROVE  Listing(new) = Flat!Changed(Listing(old), put, gone)
<1> DEFINE way  == UNION {Flat!Above(p) : p \in DOMAIN put}
           keep == PathsOf(old) \ gone
           D    == DOMAIN put \cup keep \cup way
           V(p) == IF p \in DOMAIN put THEN put[p]
                   ELSE IF p \in keep THEN Listing(old)[p] ELSE Dir(0, Empty)
<1>1. Flat!Changed(Listing(old), put, gone) = [p \in D |-> V(p)]
  BY ListingIs DEF Flat!Changed
<1>2. \A p : p \in way <=> \E r \in DOMAIN put : p \in Over(r) \ {Root}
  BY ListingIs
<1>3. \A p : p \in way => p \in Paths
  BY <1>2, ListingIs
<1>4. \A p \in Paths : p # Root
  BY PathsAre
<1>5. \A p \in Paths : p \in keep <=> Get(old, p) # None /\ p \notin gone
  BY ListingIs
<1>6. Dir(0, Empty) # None
  BY NoneIs DEF Dir, IsDir
<1>7. ASSUME NEW p \in Paths
      PROVE  /\ p \in PathsOf(new) <=> p \in D
             /\ p \in D => Bare(Get(new, p)) = V(p)
  <2>1. CASE p \in DOMAIN put
    <3>1. Bare(Get(new, p)) = put[p] /\ put[p] # None
      BY <2>1 DEF Shown
    <3>2. QED
      BY <2>1, <3>1, BareIs, ListingIs
  <2>2. CASE p \notin DOMAIN put /\ p \in keep
    <3>1. Bare(Get(new, p)) = Bare(Get(old, p)) /\ Get(old, p) # None
      BY <1>5, <2>2 DEF Shown
    <3>2. Bare(Get(new, p)) # None /\ Listing(old)[p] = Bare(Get(old, p))
      BY <2>2, <3>1, BareIs, ListingIs
    <3>3. QED
      BY <2>2, <3>1, <3>2, BareIs, ListingIs
  <2>3. CASE p \notin DOMAIN put /\ p \notin keep
    <3>1. Bare(Get(new, p)) = IF p \in way THEN Dir(0, Empty) ELSE None
      BY <1>2, <1>4, <1>5, <2>3 DEF Shown
    <3>2. p \in PathsOf(new) <=> p \in way
      BY <1>6, <3>1, BareIs, ListingIs
    <3>3. QED
      BY <2>3, <3>1, <3>2
  <2>4. QED
    BY <2>1, <2>2, <2>3
<1>8. PathsOf(new) = D
  <2>1. D \subseteq Paths
    BY <1>3, ListingIs
  <2>2. PathsOf(new) \subseteq Paths
    BY ListingIs
  <2>3. QED
    BY <1>7, <2>1, <2>2
<1>9. Listing(new) = [p \in PathsOf(new) |-> Bare(Get(new, p))]
  BY DEF Listing
<1>10. \A p \in D : Bare(Get(new, p)) = V(p)
  BY <1>7, <1>8, ListingIs
<1> HIDE DEF D, V
<1>11. [p \in D |-> Bare(Get(new, p))] = [p \in D |-> V(p)]
  BY <1>10
<1>12. QED
  BY <1>1, <1>8, <1>9, <1>11

\* What lies inside ps, in the map.
LEMMA InsideIs ==
    ASSUME NEW t, NEW ps \in SUBSET Paths, NEW q \in Paths
    PROVE  q \in Flat!Inside(Listing(t), ps) <=> Get(t, q) # None /\ \E p \in ps : p \in Over(q)
<1>1. \A p \in Paths : p \in Seq(Names)
  BY PathsAre
<1>2. \A p \in ps : p \in Over(q) <=> q # p /\ Flat!In(q, p)
  BY <1>1, ListingIs DEF Over
<1>3. QED
  BY <1>2, ListingIs DEF Flat!Inside

\* An entry placed at some paths, as the map shows it.
LEMMA PlacedShown ==
    ASSUME NEW old, NEW new, NEW ps \in SUBSET Paths, NEW e, Placed(old, new, ps, e), Bare(e) = e,
           \A q \in Paths : (\E p \in ps : p \in Over(q)) => Get(new, q) = None
    PROVE  Shown(old, new, [q \in ps |-> e], Flat!Inside(Listing(old), ps))
<1> DEFINE put  == [q \in ps |-> e]
           gone == Flat!Inside(Listing(old), ps)
<1>1. DOMAIN put = ps /\ \A q \in ps : put[q] = e
  OBVIOUS
<1>2. \A q \in Paths : q \in gone <=> Get(old, q) # None /\ \E p \in ps : p \in Over(q)
  BY InsideIs
<1> HIDE DEF put, gone
<1>3. ASSUME NEW q \in Paths
      PROVE  Bare(Get(new, q)) =
                 IF q \in ps THEN e
                 ELSE IF Get(old, q) # None /\ q \notin gone THEN Bare(Get(old, q))
                 ELSE IF \E r \in ps : q \in Over(r) THEN Dir(0, Empty)
                 ELSE None
  <2>0. q \in Seq(Names) /\ q # Root /\ \A p \in ps : p \in Seq(Names)
    BY PathsAre
  <2>1. CASE q \in ps
    BY <2>1 DEF Placed
  <2>2. CASE \E p \in ps : q \in Over(p)
    <3>1. q \notin ps
      BY <2>2 DEF Placed
    <3>2. q \notin gone
      <4>1. ASSUME NEW p \in ps, p \in Over(q)
            PROVE  FALSE
        BY <2>0, <2>2, <4>1, Position DEF Placed
      <4>2. QED
        BY <1>2, <4>1
    <3>3. OnTheWay(old, new, q)
      BY <2>0, <2>2 DEF Placed
    <3>4. Bare(Get(new, q)) = Dir(Get(new, q).meta, Empty)
      BY <3>3, BareIs DEF OnTheWay
    <3>5. CASE Get(old, q) = None
      BY <2>2, <3>1, <3>3, <3>4, <3>5 DEF OnTheWay
    <3>6. CASE Get(old, q) # None
      <4>1. Bare(Get(old, q)) = Dir(Get(old, q).meta, Empty)
        BY <3>3, <3>6, BareIs DEF OnTheWay
      <4>2. Get(new, q).meta = Get(old, q).meta
        BY <3>3, <3>6 DEF OnTheWay
      <4>3. QED
        BY <3>1, <3>2, <3>4, <3>6, <4>1, <4>2
    <3>7. QED
      BY <3>5, <3>6
  <2>3. CASE \E p \in ps : p \in Over(q)
    <3>1. q \notin ps
      BY <2>3 DEF Placed
    <3>2. ~\E r \in ps : q \in Over(r)
      <4>1. ASSUME NEW r \in ps, q \in Over(r)
            PROVE  FALSE
        BY <2>0, <2>3, <4>1, Position DEF Placed
      <4>2. QED
        BY <4>1
    <3>3. Get(old, q) # None => q \in gone
      BY <1>2, <2>3
    <3>4. Get(new, q) = None
      BY <2>3
    <3>5. QED
      BY <3>1, <3>2, <3>3, <3>4, BareIs
  <2>4. CASE \A p \in ps : Apart(p, q)
    <3>1. /\ q \notin ps /\ q \notin gone /\ ~\E r \in ps : q \in Over(r)
      BY <1>2, <2>0, <2>4, Position
    <3>2. Get(new, q) = Get(old, q)
      BY <2>0, <2>4 DEF Placed
    <3>3. QED
      BY <3>1, <3>2, BareIs
  <2>5. QED
    BY <2>0, <2>1, <2>2, <2>3, <2>4, Position
<1>4. Shown(old, new, put, gone)
  BY <1>1, <1>3 DEF Shown
<1>5. QED
  BY <1>4 DEF put, gone

\* Replacing one entry is placing it at one path.
LEMMA ReplacedIsPlaced ==
    ASSUME NEW old, NEW new, NEW p \in Paths, NEW e, Replaced(old, new, p, e), NodeOf(e) = Empty
    PROVE  /\ Placed(old, new, {p}, e)
           /\ \A q \in Paths : (\E r \in {p} : r \in Over(q)) => Get(new, q) = None
<1>0. p \in Seq(Names) /\ \A q \in Paths : q \in Seq(Names)
  BY PathsAre
<1>1. Placed(old, new, {p}, e)
  BY <1>0, Position DEF Replaced, Placed, Over
<1>2. ASSUME NEW q \in Paths, p \in Over(q)
      PROVE  Get(new, q) = None
  <2>1. PICK s \in Seq(Names) : s # Root /\ q = p \o s
    BY <1>0, <1>2, BeneathGoesOn DEF Over
  <2>2. Get(new, q) = Get(Empty, s)
    BY <2>1 DEF Replaced
  <2>3. QED
    BY <2>1, <2>2, EmptyShows
<1>3. QED
  BY <1>1, <1>2

\* An entry placed at one path, or at all the names it lists, is put there.
LEMMA PutIs ==
    ASSUME NEW old, NEW new, NEW ps \in SUBSET Paths, NEW p \in ps, NEW e,
           Placed(old, new, ps, e), Bare(e) = e, e # None,
           \A q \in Paths : (\E r \in ps : r \in Over(q)) => Get(new, q) = None,
           ps = {p} \/ (IsFile(e) /\ e.links = ps),
           IsDir(e) => Get(old, p) = None
    PROVE  Flat!Put(p, Listing(old), Listing(new))
<1> DEFINE put == [q \in ps |-> e]
<1>1. Get(new, p) = e
  BY DEF Placed
<1>2. p \in DOMAIN Listing(new) /\ Listing(new)[p] = e
  BY <1>1, ListingIs
<1>3. e.kind = "dir" => p \notin DOMAIN Listing(old)
  BY ListingIs DEF IsDir
<1>4. ps \in {{p}, Flat!NamesOf(e)}
  BY DEF Flat!NamesOf, IsFile
<1>5. Shown(old, new, put, Flat!Inside(Listing(old), ps))
  BY PlacedShown
<1>6. DOMAIN put \subseteq Paths /\ \A q \in DOMAIN put : put[q] # None
  OBVIOUS
<1> HIDE DEF put
<1>7. Listing(new) = Flat!Changed(Listing(old), put, Flat!Inside(Listing(old), ps))
  BY <1>5, <1>6, ChangedIs
<1>8. put = [q \in ps |-> Listing(new)[p]]
  BY <1>2 DEF put
<1>9. QED
  BY <1>2, <1>3, <1>4, <1>7, <1>8 DEF Flat!Put

\* What the map shows after a path with nothing beneath it was cleared.
LEMMA ClearedShown ==
    ASSUME NEW old, NEW new, NEW p \in Paths, Replaced(old, new, p, None),
           Get(old, p) # None, NodeAt(old, p) = Empty
    PROVE  \A q \in Paths : Bare(Get(new, q)) = IF q = p THEN None ELSE Bare(Get(old, q))
<1>0. p \in Seq(Names) /\ p # Root
  BY PathsAre
<1>1. ASSUME NEW q \in Paths
      PROVE  Bare(Get(new, q)) = IF q = p THEN None ELSE Bare(Get(old, q))
  <2>0. q \in Seq(Names) /\ q # Root
    BY PathsAre
  <2>1. CASE q = p
    BY <2>1, BareIs DEF Replaced
  <2>2. CASE q \in Over(p)
    <3>1. OnTheWay(old, new, q)
      BY <2>0, <2>2 DEF Replaced
    <3>2. IsDir(Get(old, q)) /\ Get(old, q) # None
      BY <1>0, <2>0, <2>2, GetBeneath, NoneIs DEF Over
    <3>3. Get(new, q).meta = Get(old, q).meta /\ IsDir(Get(new, q))
      BY <3>1, <3>2 DEF OnTheWay
    <3>4. QED
      BY <2>2, <3>2, <3>3, BareIs DEF Over
  <2>3. CASE p \in Over(q)
    <3>1. Get(new, q) = None
      BY <2>3, NoneIs, ReplacedIsPlaced
    <3>2. Get(old, q) = None
      BY <1>0, <2>0, <2>3, GetBeneath DEF Over
    <3>3. QED
      BY <2>3, <3>1, <3>2 DEF Over
  <2>4. CASE Apart(p, q)
    <3>1. Get(new, q) = Get(old, q) /\ q # p
      BY <1>0, <2>0, <2>4, Position DEF Replaced
    <3>2. QED
      BY <3>1
  <2>5. QED
    BY <1>0, <2>0, <2>1, <2>2, <2>3, <2>4, Position
<1>2. QED
  BY <1>1

\* A path has nothing beneath it in the map where its entry has no node of its own.
LEMMA NothingBeneath ==
    ASSUME NEW t, NEW p \in Paths, NodeAt(t, p) = Empty
    PROVE  Flat!IsBare(Listing(t), p)
<1>1. ASSUME NEW q \in PathsOf(t), q # p, Beneath(q, p)
      PROVE  FALSE
  <2>1. q \in Seq(Names) /\ p \in Seq(Names) /\ Get(t, q) # None
    BY PathsAre, ListingIs
  <2>2. QED
    BY <1>1, <2>1, GetBeneath
<1>2. QED
  BY <1>1, ListingIs DEF Flat!IsBare

\* Clearing a path with nothing beneath it removes it from the map.
LEMMA DeleteIs ==
    ASSUME NEW old, NEW new, NEW p \in Paths, Replaced(old, new, p, None),
           Get(old, p) # None, NodeAt(old, p) = Empty
    PROVE  Flat!Delete(p, Listing(old), Listing(new))
<1> DEFINE put  == [q \in {} |-> Dir(0, Empty)]
           gone == {p} \cup Flat!Inside(Listing(old), {})
<1>1. \A q : q \in gone <=> q = p
  BY DEF Flat!Inside
<1>2. DOMAIN put = {}
  OBVIOUS
<1> HIDE DEF put, gone
<1>3. Shown(old, new, put, gone)
  <2>1. \A q \in Paths : Bare(Get(new, q)) = IF q = p THEN None ELSE Bare(Get(old, q))
    BY ClearedShown
  <2>2. QED
    BY <1>1, <1>2, <2>1, BareIs DEF Shown
<1>4. Listing(new) = Flat!Changed(Listing(old), put, gone)
  BY <1>2, <1>3, ChangedIs
<1>5. p \in DOMAIN Listing(old) /\ Flat!IsBare(Listing(old), p)
  BY NothingBeneath, ListingIs
<1> DEFINE others == {}
<1>6. /\ others \in {{}, Flat!NamesOf(Listing(old)[p]) \ {p}}
      /\ \A q \in others : q \in DOMAIN Listing(new) /\ Listing(new)[q].kind = "file"
      /\ Dir(0, Empty) \in {Listing(new)[q] : q \in others} \cup {Dir(0, Empty)}
      /\ Listing(new) = Flat!Changed(Listing(old), [q \in others |-> Dir(0, Empty)],
                                     {p} \cup Flat!Inside(Listing(old), others))
  BY <1>4 DEF put, gone
<1>7. QED
  BY <1>5, <1>6 DEF Flat!Delete

\* So does clearing a name of a file and placing the file at its other names.
LEMMA DeleteNameIs ==
    ASSUME NEW old, NEW mid, NEW new, NEW p \in Paths, Replaced(old, mid, p, None),
           IsFile(Get(old, p)), NEW rest \in SUBSET Paths, rest = Get(old, p).links \ {p},
           rest # {}, NEW e, IsFile(e), Placed(mid, new, rest, e)
    PROVE  Flat!Delete(p, Listing(old), Listing(new))
<1> DEFINE put   == [q \in rest |-> e]
           gone  == {p} \cup Flat!Inside(Listing(old), rest)
           gone1 == Flat!Inside(Listing(mid), rest)
<1>0. ~IsDir(Get(old, p)) /\ Get(old, p) # None /\ NodeAt(old, p) = Empty
  BY NoneIs DEF NodeAt, NodeOf, IsDir, IsFile
<1>1. ~IsDir(e) /\ e # None /\ Bare(e) = e
  BY NoneIs, BareIs DEF IsDir, IsFile
<1>2. \A q \in Paths : (\E r \in rest : r \in Over(q)) => Get(new, q) = None
  <2>1. \A q \in Paths : q \in Seq(Names)
    BY PathsAre
  <2>2. QED
    BY <1>1, <2>1, PlacedBeneath
<1>3. Shown(mid, new, put, gone1)
  BY <1>1, <1>2, PlacedShown
<1>4. DOMAIN put = rest /\ \A q \in rest : put[q] = e
  OBVIOUS
<1>5. \A q \in Paths : Bare(Get(mid, q)) = IF q = p THEN None ELSE Bare(Get(old, q))
  BY <1>0, ClearedShown
<1>6. \A q \in Paths : Get(mid, q) # None <=> q # p /\ Get(old, q) # None
  BY <1>5, BareIs
<1>7. ASSUME NEW q \in Paths
      PROVE  Get(mid, q) # None /\ q \notin gone1 <=> Get(old, q) # None /\ q \notin gone
  BY <1>6, InsideIs
<1> HIDE DEF put, gone, gone1
<1>8. Shown(old, new, put, gone)
  <2>1. \A q \in Paths : Get(old, q) # None /\ q \notin gone => Bare(Get(mid, q)) = Bare(Get(old, q))
    BY <1>5 DEF gone
  <2>2. QED
    BY <1>3, <1>7, <2>1 DEF Shown
<1>9. Listing(new) = Flat!Changed(Listing(old), put, gone)
  BY <1>1, <1>4, <1>8, ChangedIs
<1>10. \A q \in rest : q \in DOMAIN Listing(new) /\ Listing(new)[q] = e
  BY <1>1, ListingIs DEF Placed
<1>11. Flat!NamesOf(Listing(old)[p]) = Get(old, p).links /\ p \in DOMAIN Listing(old)
  <2>1. p \in PathsOf(old) /\ Listing(old)[p] = Get(old, p)
    BY <1>0, ListingIs, BareIs
  <2>2. QED
    BY <2>1, ListingIs DEF Flat!NamesOf, IsFile
<1>12. Flat!IsBare(Listing(old), p)
  BY <1>0, NothingBeneath
<1>13. /\ rest \in {{}, Flat!NamesOf(Listing(old)[p]) \ {p}}
       /\ \A q \in rest : q \in DOMAIN Listing(new) /\ Listing(new)[q].kind = "file"
       /\ e \in {Listing(new)[q] : q \in rest} \cup {Dir(0, Empty)}
       /\ Listing(new) = Flat!Changed(Listing(old), [q \in rest |-> e],
                                      {p} \cup Flat!Inside(Listing(old), rest))
  <2>1. rest \in {{}, Flat!NamesOf(Listing(old)[p]) \ {p}}
    BY <1>11
  <2>2. \A q \in rest : q \in DOMAIN Listing(new) /\ Listing(new)[q].kind = "file"
    BY <1>10 DEF IsFile
  <2>3. e \in {Listing(new)[q] : q \in rest}
    BY <1>10
  <2>4. QED
    BY <1>9, <2>1, <2>2, <2>3 DEF put, gone
<1>14. QED
  BY <1>11, <1>12, <1>13 DEF Flat!Delete

\* Changing the metadata of an entry and nothing beneath it does that in the map.
LEMMA SetMetaIs ==
    ASSUME NEW old, NEW new, NEW p \in Paths, NEW m, Get(old, p) # None, Allowed(Get(old, p)),
           Replaced(old, new, p, [Get(old, p) EXCEPT !.meta = m])
    PROVE  Flat!SetMeta(p, Listing(old), Listing(new))
<1> DEFINE e == [Get(old, p) EXCEPT !.meta = m]
<1>0. p \in Seq(Names) /\ p # Root
  BY PathsAre
<1>1. /\ Bare(e) = [Bare(Get(old, p)) EXCEPT !.meta = m] /\ Bare(e).meta = m
      /\ NodeOf(e) = NodeAt(old, p) /\ e # None
  <2>1. Proper(Get(old, p))
    BY DEF Allowed
  <2>2. CASE IsDir(Get(old, p)) /\ Get(old, p) = Dir(Get(old, p).meta, Get(old, p).node)
    <3>1. e = Dir(m, Get(old, p).node)
      BY <2>2 DEF Dir
    <3>2. IsDir(e) /\ e.meta = m /\ e.node = Get(old, p).node
      BY <3>1 DEF Dir, IsDir
    <3>3. Bare(e) = Dir(m, Empty) /\ Bare(Get(old, p)) = Dir(Get(old, p).meta, Empty)
      BY <2>2, <3>2, BareIs
    <3>4. Dir(m, Empty) = [Dir(Get(old, p).meta, Empty) EXCEPT !.meta = m] /\ Dir(m, Empty).meta = m
      BY DEF Dir
    <3>5. QED
      BY <2>2, <3>2, <3>3, <3>4, NoneIs DEF NodeAt, NodeOf
  <2>3. CASE IsFile(Get(old, p)) /\ Get(old, p) = File(Get(old, p).meta, Get(old, p).content, Get(old, p).links)
    <3>1. e = File(m, Get(old, p).content, Get(old, p).links)
      BY <2>3 DEF File
    <3>2. ~IsDir(e) /\ e.meta = m /\ e # None /\ ~IsDir(Get(old, p))
      BY <2>3, <3>1, FileIs
    <3>3. QED
      BY <3>2, BareIs DEF NodeAt, NodeOf
  <2>4. CASE Get(old, p).kind = "symlink" /\ Get(old, p) = Symlink(Get(old, p).meta, Get(old, p).target)
    <3>1. e = Symlink(m, Get(old, p).target)
      BY <2>4 DEF Symlink
    <3>2. ~IsDir(e) /\ e.meta = m /\ e # None /\ ~IsDir(Get(old, p))
      BY <2>4, <3>1 DEF Symlink, IsDir, None
    <3>3. QED
      BY <3>2, BareIs DEF NodeAt, NodeOf
  <2>5. QED
    BY <2>1, <2>2, <2>3, <2>4 DEF Proper
<1> HIDE DEF e
<1>2. Replaced(old, new, p, e)
  BY DEF e
<1>3. ASSUME NEW q \in Paths, q # p
      PROVE  Bare(Get(new, q)) = Bare(Get(old, q))
  <2>0. q \in Seq(Names) /\ q # Root
    BY PathsAre
  <2>1. CASE q \in Over(p)
    <3>1. OnTheWay(old, new, q)
      BY <1>2, <2>0, <2>1 DEF Replaced
    <3>2. IsDir(Get(old, q)) /\ Get(old, q) # None
      BY <1>0, <2>0, <2>1, GetBeneath, NoneIs DEF Over
    <3>3. Get(new, q).meta = Get(old, q).meta /\ IsDir(Get(new, q))
      BY <3>1, <3>2 DEF OnTheWay
    <3>4. QED
      BY <3>2, <3>3, BareIs
  <2>2. CASE p \in Over(q)
    <3>1. PICK s \in Seq(Names) : s # Root /\ q = p \o s
      BY <1>0, <2>0, <2>2, BeneathGoesOn DEF Over
    <3>2. Get(new, q) = Get(NodeOf(e), s) /\ Get(old, q) = Get(NodeAt(old, p), s)
      BY <1>0, <1>2, <3>1, GetConcat DEF Replaced
    <3>3. QED
      BY <1>1, <3>2
  <2>3. CASE Apart(p, q)
    BY <1>2, <2>0, <2>3 DEF Replaced
  <2>4. QED
    BY <1>0, <1>3, <2>0, <2>1, <2>2, <2>3, Position
<1>4. Get(new, p) = e
  BY <1>2 DEF Replaced
<1>5. PathsOf(new) = PathsOf(old)
  BY <1>1, <1>3, <1>4, BareIs DEF PathsOf
<1>6. p \in PathsOf(old)
  BY ListingIs
<1>7. Listing(new)[p] = Bare(e) /\ Listing(old)[p] = Bare(Get(old, p))
  BY <1>4, <1>5, <1>6, ListingIs
<1>8. \A q \in PathsOf(old) : q # p => Listing(new)[q] = Listing(old)[q]
  BY <1>3, <1>5, ListingIs
<1> DEFINE f == Listing(old)
           g == Listing(new)
<1>9. /\ f = [q \in PathsOf(old) |-> f[q]] /\ g = [q \in PathsOf(old) |-> g[q]]
      /\ g[p] = [f[p] EXCEPT !.meta = m] /\ g[p].meta = m
      /\ \A q \in PathsOf(old) : q # p => g[q] = f[q]
  BY <1>1, <1>5, <1>7, <1>8 DEF Listing
<1>10. p \in DOMAIN f \cap DOMAIN g
  BY <1>5, <1>6, ListingIs
<1> HIDE DEF f, g
<1>11. g = [f EXCEPT ![p].meta = g[p].meta]
  BY <1>6, <1>9
<1>12. QED
  BY <1>10, <1>11 DEF Flat!SetMeta, f, g

\* The rest of a path that goes on from another one.
LEMMA TailIs ==
    ASSUME NEW p \in Seq(Names), NEW s \in Seq(Names)
    PROVE  SubSeq(p \o s, Len(p) + 1, Len(p \o s)) = s
<1> DEFINE c == p \o s
           u == SubSeq(c, Len(p) + 1, Len(c))
<1>1. /\ c \in Seq(Names) /\ Len(c) = Len(p) + Len(s) /\ Len(p) \in Nat /\ Len(s) \in Nat
      /\ \A i \in 1..Len(c) : c[i] = IF i <= Len(p) THEN p[i] ELSE s[i - Len(p)]
  BY ConcatProperties, LenProperties
<1> HIDE DEF c
<1>2. /\ Len(p) + 1 \in Int /\ Len(c) \in Int
      /\ \A i \in Len(p) + 1..Len(c) : c[i] \in Names
  BY <1>1, ElementOfSeq
<1>3. /\ u \in Seq(Names) /\ Len(u) = Len(s)
      /\ \A i \in 1..Len(s) : u[i] = c[Len(p) + 1 + i - 1]
  <2>1. /\ u \in Seq(Names)
        /\ Len(u) = IF Len(p) + 1 <= Len(c) THEN Len(c) - (Len(p) + 1) + 1 ELSE 0
        /\ \A i \in 1..(Len(c) - (Len(p) + 1) + 1) : u[i] = c[Len(p) + 1 + i - 1]
    BY <1>2, SubSeqProperties
  <2>2. QED
    BY <1>1, <2>1
<1> HIDE DEF u
<1>4. \A i \in 1..Len(s) : u[i] = s[i]
  <2>1. ASSUME NEW i \in 1..Len(s)
        PROVE  u[i] = s[i]
    <3>1. Len(p) + 1 + i - 1 = Len(p) + i /\ Len(p) + i \in 1..Len(c) /\ ~(Len(p) + i <= Len(p))
          /\ (Len(p) + i) - Len(p) = i
      BY <1>1
    <3>2. QED
      BY <1>1, <1>3, <3>1
  <2>2. QED
    BY <2>1
<1>5. u = s
  BY <1>3, <1>4, SeqEqual
<1>6. QED
  BY <1>5 DEF u, c

\* Moving a subtree onto a path with nothing beneath it moves it in the map.
LEMMA MoveIs ==
    ASSUME NEW old, NEW new, NEW from \in Paths, NEW to \in Paths, Moved(old, new, from, to),
           Trim(old), Trim(new), Get(old, from) # None, NodeAt(old, to) = Empty
    PROVE  Flat!Move(from, to, Listing(old), Listing(new))
<1> DEFINE tree  == {q \in DOMAIN Listing(old) : Flat!In(q, from)}
           moved == {to \o SubSeq(q, Len(from) + 1, Len(q)) : q \in tree}
           put   == [q \in moved |-> Listing(old)[from \o SubSeq(q, Len(to) + 1, Len(q))]]
           gone  == tree \cup {to}
           S     == {s \in Seq(Names) : from \o s \in PathsOf(old)}
<1>0. /\ from \in Seq(Names) /\ from # Root /\ to \in Seq(Names) /\ to # Root
      /\ \A q \in Paths : q \in Seq(Names) /\ q # Root
  BY PathsAre
<1>1. \A q : q \in tree <=> q \in PathsOf(old) /\ Beneath(q, from)
  BY ListingIs
<1>2. \A q : q \in tree <=> \E s \in S : q = from \o s
  <2>1. \A q \in PathsOf(old) : Beneath(q, from) <=> \E s \in Seq(Names) : q = from \o s
    <3>1. ASSUME NEW q \in PathsOf(old)
          PROVE  Beneath(q, from) <=> \E s \in Seq(Names) : q = from \o s
      <4>1. q \in Seq(Names)
        BY <1>0, ListingIs
      <4> HIDE DEF tree, moved, put, gone, S
      <4>2. QED
        BY <1>0, <4>1, BeneathGoesOn, ZenonT(60)
    <3>2. QED
      BY <3>1
  <2>2. \A s \in Seq(Names) : from \o s \in PathsOf(old) => Beneath(from \o s, from)
    BY <2>1
  <2>3. QED
    BY <1>1, <2>1, <2>2
<1>3. \A s \in S : /\ SubSeq(from \o s, Len(from) + 1, Len(from \o s)) = s
                   /\ SubSeq(to \o s, Len(to) + 1, Len(to \o s)) = s
  BY <1>0, TailIs
<1>4. \A q : q \in moved <=> \E s \in S : q = to \o s
  <2>1. ASSUME NEW q \in moved
        PROVE  \E s \in S : q = to \o s
    <3>1. PICK r \in tree : q = to \o SubSeq(r, Len(from) + 1, Len(r))
      OBVIOUS
    <3>2. PICK s \in S : r = from \o s
      BY <1>2
    <3>3. QED
      BY <1>3, <3>1, <3>2
  <2>2. ASSUME NEW s \in S
        PROVE  to \o s \in moved
    <3>1. from \o s \in tree
      BY <1>2
    <3>2. to \o SubSeq(from \o s, Len(from) + 1, Len(from \o s)) \in moved
      BY <3>1
    <3>3. QED
      BY <1>3, <3>2
  <2>3. QED
    BY <2>1, <2>2
<1>5. DOMAIN put = moved
  OBVIOUS
<1>6. \A s \in Seq(Names) : s \in S <=> Get(old, from \o s) # None
  <2>1. ASSUME NEW s \in Seq(Names), Get(old, from \o s) # None
        PROVE  from \o s \in Paths
    <3>1. from \o s \in Seq(Names) /\ Beneath(from \o s, from)
      BY <1>0, GetConcat, BeneathGoesOn
    <3>2. from \o s # Root
      BY <1>0, <3>1, RootOver
    <3>3. ~(Len(from \o s) > Depth)
      BY <2>1, <3>1 DEF Trim
    <3>4. Len(from \o s) \in Nat /\ Depth \in Nat
      BY <3>1, LenProperties, NamespaceAssumption
    <3>5. Len(from \o s) <= Depth
      BY <3>3, <3>4
    <3>6. QED
      BY <3>1, <3>2, <3>5, PathsAre
  <2>2. QED
    BY <2>1, ListingIs
<1>7. \A s \in S : /\ to \o s \in Paths /\ to \o s \in PathsOf(new)
                   /\ put[to \o s] = Bare(Get(new, to \o s)) /\ put[to \o s] # None
  <2>1. ASSUME NEW s \in S
        PROVE  /\ to \o s \in Paths /\ to \o s \in PathsOf(new)
               /\ put[to \o s] = Bare(Get(new, to \o s)) /\ put[to \o s] # None
    <3>1. s \in Seq(Names) /\ from \o s \in PathsOf(old) /\ Get(old, from \o s) # None
      BY ListingIs
    <3>2. Get(new, to \o s) = Get(old, from \o s)
      BY <3>1 DEF Moved
    <3>3. to \o s \in Seq(Names) /\ Beneath(to \o s, to)
      BY <1>0, <3>1, GetConcat, BeneathGoesOn
    <3>4. to \o s # Root
      BY <1>0, <3>3, RootOver
    <3>5. ~(Len(to \o s) > Depth)
      BY <3>1, <3>2, <3>3 DEF Trim
    <3>6. Len(to \o s) \in Nat /\ Depth \in Nat
      BY <3>3, LenProperties, NamespaceAssumption
    <3>7. Len(to \o s) <= Depth
      BY <3>5, <3>6
    <3>8. to \o s \in Paths
      BY <3>3, <3>4, <3>7, PathsAre
    <3>9. put[to \o s] = Listing(old)[from \o s]
      <4>1. to \o s \in moved
        BY <1>4
      <4>2. put[to \o s] = Listing(old)[from \o SubSeq(to \o s, Len(to) + 1, Len(to \o s))]
        BY <4>1
      <4>3. QED
        BY <1>3, <4>2
    <3>10. QED
      BY <3>1, <3>2, <3>8, <3>9, ListingIs, BareIs, ZenonT(60)
  <2>2. QED
    BY <2>1
<1>8. \A q : q \in gone <=> q = to \/ (q \in PathsOf(old) /\ Beneath(q, from))
  BY <1>1
<1> HIDE DEF tree, moved, put, gone, S
<1>9. Root \in S /\ to \in moved
  <2>1. from \o Root = from /\ to \o Root = to /\ Root \in Seq(Names)
    BY <1>0, ConcatEmptySeq, EmptySeq DEF Root
  <2>2. QED
    BY <1>4, <1>6, <2>1
\* What is over a path in place of a moved one.
<1>10. ASSUME NEW q \in Paths, NEW r \in moved, q \in Over(r)
       PROVE  q \in moved \/ q \in Over(to)
  <2>0. q \in Seq(Names) /\ r \in Seq(Names) /\ Beneath(r, q) /\ q # r
    BY <1>0, <1>4, <1>7, <1>10 DEF Over
  <2>1. PICK s \in S : r = to \o s
    BY <1>4
  <2>2. Beneath(r, to) /\ s \in Seq(Names)
    BY <1>0, <2>0, <2>1, BeneathGoesOn DEF S
  <2>3. CASE Beneath(to, q)
    <3>1. q = to \/ q \in Over(to)
      BY <1>0, <2>0, <2>3 DEF Over
    <3>2. QED
      BY <1>9, <3>1
  <2>4. CASE Beneath(q, to)
    <3>1. PICK u \in Seq(Names) : q = to \o u
      BY <1>0, <2>0, <2>4, BeneathGoesOn
    <3>2. PICK v \in Seq(Names) : v # Root /\ r = q \o v
      BY <2>0, BeneathGoesOn, ZenonT(60)
    <3>3. u \o v \in Seq(Names) /\ to \o (u \o v) = (to \o u) \o v /\ from \o (u \o v) = (from \o u) \o v
      <4>1. u \in Seq(Names) /\ v \in Seq(Names) /\ to \in Seq(Names) /\ from \in Seq(Names)
        BY <1>0, <3>1, <3>2
      <4>2. u \o v \in Seq(Names)
        BY <4>1, ConcatProperties
      <4>3. (to \o u) \o v = to \o (u \o v)
        BY <4>1, ConcatAssociative, SMTT(60)
      <4>4. (from \o u) \o v = from \o (u \o v)
        BY <4>1, ConcatAssociative
      <4>5. QED
        BY <4>2, <4>3, <4>4
    <3>4. s = u \o v
      <4> DEFINE w == u \o v
      <4>1. to \o s = to \o w /\ w \in Seq(Names) /\ s \in Seq(Names) /\ to \in Seq(Names)
        BY <1>0, <2>1, <2>2, <3>1, <3>2, <3>3
      <4> HIDE DEF w
      <4>2. /\ SubSeq(to \o s, Len(to) + 1, Len(to \o s)) = s
            /\ SubSeq(to \o w, Len(to) + 1, Len(to \o w)) = w
        BY <4>1, TailIs
      <4>3. s = w
        BY <4>1, <4>2
      <4>4. QED
        BY <4>3 DEF w
    <3>5. from \o u \in Seq(Names) /\ (from \o u) \o v \in Seq(Names)
      BY <1>0, <3>1, <3>2, GetConcat
    <3>6. (from \o u) \o v # from \o u /\ Beneath((from \o u) \o v, from \o u)
      BY <3>2, <3>5, BeneathGoesOn
    <3>7. Get(old, (from \o u) \o v) # None
      BY <1>6, <2>2, <3>3, <3>4
    <3>8. Get(old, from \o u) # None
      BY <3>5, <3>6, <3>7, GetBeneath, NoneIs
    <3>9. QED
      BY <1>4, <1>6, <3>1, <3>8
  <2>5. QED
    BY <1>0, <2>0, <2>2, <2>3, <2>4, BeneathOrder
<1>11. ASSUME NEW q \in Paths
       PROVE  Bare(Get(new, q)) =
                  IF q \in moved THEN put[q]
                  ELSE IF Get(old, q) # None /\ q \notin gone THEN Bare(Get(old, q))
                  ELSE IF \E r \in moved : q \in Over(r) THEN Dir(0, Empty)
                  ELSE None
  <2>0. q \in Seq(Names) /\ q # Root
    BY <1>0
  <2>1. CASE q \in moved
    BY <1>4, <1>7, <2>1
  <2>2. CASE q \notin moved /\ Beneath(q, to)
    <3>1. PICK s \in Seq(Names) : q = to \o s
      BY <1>0, <2>0, <2>2, BeneathGoesOn
    <3>2. Get(new, q) = None
      BY <1>4, <1>6, <2>2, <3>1 DEF Moved
    <3>3. q # to
      BY <1>9, <2>2
    <3>4. Get(old, q) = None
      BY <1>0, <2>0, <2>2, <3>3, GetBeneath
    <3>5. q \notin Over(to)
      BY <1>0, <2>0, <2>2, BeneathOrder DEF Over
    <3>6. ~\E r \in moved : q \in Over(r)
      BY <1>10, <2>2, <3>5
    <3>7. QED
      BY <2>2, <3>2, <3>4, <3>6, BareIs
  <2>3. CASE q \notin moved /\ Beneath(q, from)
    <3>1. PICK s \in Seq(Names) : q = from \o s
      BY <1>0, <2>0, <2>3, BeneathGoesOn
    <3>2. Get(new, q) = None
      BY <3>1 DEF Moved
    <3>3. Get(old, q) # None => q \in gone
      BY <1>8, <2>3, ListingIs
    <3>4. q \notin Over(to)
      BY <1>0, <2>0, <2>3, BeneathOrder DEF Over, Moved, Apart
    <3>5. ~\E r \in moved : q \in Over(r)
      BY <1>10, <2>3, <3>4
    <3>6. QED
      BY <2>3, <3>2, <3>3, <3>5, BareIs
  <2>4. CASE q \notin moved /\ q \in Over(from) \cup Over(to)
    <3>1. OnTheWay(old, new, q)
      BY <2>0, <2>4 DEF Moved
    <3>2. q \notin gone
      <4>1. Apart(from, to)
        BY DEF Moved
      <4>2. q # to /\ ~Beneath(q, from)
        BY <1>0, <2>0, <2>4, <4>1, BeneathOrder DEF Over, Apart
      <4>3. QED
        BY <1>8, <4>2
    <3>3. Bare(Get(new, q)) = Dir(Get(new, q).meta, Empty)
      BY <3>1, BareIs DEF OnTheWay
    <3>4. CASE Get(old, q) # None
      <4>1. Get(new, q).meta = Get(old, q).meta
        BY <3>1, <3>4 DEF OnTheWay
      <4>2. Bare(Get(old, q)) = Dir(Get(old, q).meta, Empty)
        BY <3>1, <3>4, BareIs DEF OnTheWay
      <4>3. QED
        BY <2>4, <3>2, <3>3, <3>4, <4>1, <4>2
    <3>5. CASE Get(old, q) = None
      <4>1. q \notin Over(from)
        <5>1. ASSUME q \in Over(from)
              PROVE  FALSE
          BY <1>0, <2>0, <3>5, <5>1, NoneIs, GetBeneath DEF Over
        <5>2. QED
          BY <5>1
      <4>2. \E r \in moved : q \in Over(r)
        BY <1>9, <2>4, <4>1
      <4>3. Get(new, q).meta = 0
        BY <3>1, <3>5 DEF OnTheWay
      <4>4. QED
        BY <2>4, <3>3, <3>5, <4>2, <4>3
    <3>6. QED
      BY <3>4, <3>5
  <2>5. CASE q \notin moved /\ Apart(from, q) /\ Apart(to, q)
    <3>1. Get(new, q) = Get(old, q)
      BY <2>0, <2>5 DEF Moved
    <3>2. q \notin gone /\ q \notin Over(to)
      BY <1>0, <1>8, <2>0, <2>5, BeneathOrder DEF Apart, Over
    <3>3. ~\E r \in moved : q \in Over(r)
      BY <1>10, <2>5, <3>2
    <3>4. QED
      BY <2>5, <3>1, <3>2, <3>3, BareIs
  <2>6. Beneath(q, to) \/ Beneath(q, from) \/ q \in Over(from) \cup Over(to)
            \/ (Apart(from, q) /\ Apart(to, q))
    BY <1>0, <2>0 DEF Apart, Over
  <2>7. QED
    BY <2>1, <2>2, <2>3, <2>4, <2>5, <2>6
<1>12. Listing(new) = Flat!Changed(Listing(old), put, gone)
  <2>1. Shown(old, new, put, gone)
    BY <1>5, <1>11 DEF Shown
  <2>2. DOMAIN put \subseteq Paths /\ \A q \in DOMAIN put : put[q] # None
    BY <1>4, <1>5, <1>7
  <2>3. QED
    BY <2>1, <2>2, ChangedIs
<1>13. from \in DOMAIN Listing(old) \ DOMAIN Listing(new)
  <2>1. from \o Root = from /\ Root \in Seq(Names)
    BY <1>0, ConcatEmptySeq, EmptySeq DEF Root
  <2>2. Get(new, from) = None
    BY <2>1 DEF Moved
  <2>3. QED
    BY <2>2, ListingIs
<1>14. to \in DOMAIN Listing(new)
  <2>1. \A q \in moved : q \in PathsOf(new)
    BY <1>4, <1>7
  <2>2. QED
    BY <1>9, <2>1, ListingIs
<1>15. Flat!IsBare(Listing(old), to)
  BY NothingBeneath
<1>16. QED
  BY <1>12, <1>13, <1>14, <1>15 DEF Flat!Move, tree, moved, put, gone

\* Every operation that goes through is one operation on the map.
LEMMA OperationMaps ==
    ASSUME Ready, NEW p \in Paths, NEW q \in Paths, NEW c, NEW m,
           \/ WriteFile(p, c) \/ SetMeta(p, m) \/ Mkdir(p) \/ MakeSymlink(p) \/ Rmdir(p)
           \/ Unlink(p) \/ UnlinkHalf(p) \/ Rename(p, q) \/ Copy(p, q) \/ Link(p, q)
    PROVE  Flat!Operation(Listing(root), Listing(root'))
<1>0. /\ Flat!Rooted(Listing(root'))
      /\ \A r \in Paths : r \in Seq(Names)
  BY TreesAreRooted, PathsAre
<1>1. ASSUME NEW r \in Paths,
             \/ Flat!Put(r, Listing(root), Listing(root'))
             \/ Flat!SetMeta(r, Listing(root), Listing(root'))
             \/ Flat!Delete(r, Listing(root), Listing(root'))
      PROVE  Flat!Operation(Listing(root), Listing(root'))
  BY <1>0, <1>1 DEF Flat!Operation
<1>2. ASSUME NEW ps \in SUBSET Paths, NEW r \in ps, NEW e, IsFile(e), Placed(root, root', ps, e),
             ps = {r} \/ e.links = ps
      PROVE  Flat!Operation(Listing(root), Listing(root'))
  <2>1. ~IsDir(e) /\ e # None /\ Bare(e) = e
    BY <1>2, NoneIs, BareIs DEF IsDir, IsFile
  <2>2. \A x \in Paths : (\E y \in ps : y \in Over(x)) => Get(root', x) = None
    BY <1>0, <1>2, <2>1, PlacedBeneath
  <2>3. Flat!Put(r, Listing(root), Listing(root'))
    BY <1>2, <2>1, <2>2, PutIs
  <2>4. QED
    BY <1>1, <2>3
<1>3. ASSUME NEW r \in Paths, NEW e, Replaced(root, root', r, e), NodeOf(e) = Empty,
             Bare(e) = e, e # None, IsDir(e) => Get(root, r) = None
      PROVE  Flat!Operation(Listing(root), Listing(root'))
  <2>1. /\ Placed(root, root', {r}, e)
        /\ \A x \in Paths : (\E y \in {r} : y \in Over(x)) => Get(root', x) = None
    BY <1>3, ReplacedIsPlaced
  <2>2. {r} \in SUBSET Paths /\ r \in {r}
    OBVIOUS
  <2>3. Flat!Put(r, Listing(root), Listing(root'))
    BY <1>3, <2>1, <2>2, PutIs
  <2>4. QED
    BY <1>1, <2>3
<1>4. CASE WriteFile(p, c)
  <2> DEFINE links   == IF IsFile(At(p)) THEN At(p).links ELSE {}
             new     == File(IF IsFile(At(p)) THEN At(p).meta ELSE 0, c, links)
             targets == WriteTargets(p, links)
  <2>1. Placed(root, root', targets, new) /\ targets \in SUBSET Paths
    BY <1>4, WriteFileDoes
  <2>2. IsFile(new) /\ new.links = links
    BY FileIs
  <2>3. \E r \in targets : targets = {r} \/ links = targets
    BY DEF WriteTargets
  <2> HIDE DEF targets, new, links
  <2>4. QED
    BY <1>2, <2>1, <2>2, <2>3
<1>5. CASE Link(p, q)
  <2> DEFINE old   == At(p)
             group == WriteTargets(p, old.links) \cup {q}
             e     == File(old.meta, old.content, GroupOf(group, old.links))
  <2>1. /\ group \in SUBSET Paths /\ Placed(root, root', group, e)
        /\ group = {q} \/ GroupOf(group, old.links) = group
    BY <1>5, LinkDoes
  <2>2. IsFile(e) /\ e.links = GroupOf(group, old.links) /\ q \in group
    BY FileIs
  <2> HIDE DEF group, e
  <2>3. QED
    BY <1>2, <2>1, <2>2
<1>6. CASE Mkdir(p) \/ MakeSymlink(p)
  <2>1. /\ At(p) = None
        /\ \E e \in {Dir(0, Empty), Symlink(0, Target)} : Replaced(root, root', p, e)
    BY <1>6, MakeDoes
  <2>2. PICK e \in {Dir(0, Empty), Symlink(0, Target)} : Replaced(root, root', p, e)
    BY <2>1
  <2>3. NodeOf(e) = Empty /\ Bare(e) = e /\ e # None
    <3>1. NodeOf(e) = Empty /\ Bare(e) = e
      BY DEF Dir, Symlink, IsDir, NodeOf, Bare
    <3>2. e # None
      BY DEF Dir, Symlink, None
    <3>3. QED
      BY <3>1, <3>2
  <2>4. QED
    BY <1>3, <2>1, <2>2, <2>3 DEF At
<1>7. CASE Copy(p, q)
  <2> DEFINE e == Independent(At(p))
  <2>1. At(p) # None /\ ~IsDir(At(p)) /\ Replaced(root, root', q, e)
    BY <1>7, CopyDoes
  <2>2. NodeOf(e) = Empty /\ ~IsDir(e) /\ e # None
    BY <2>1, IndependentIs
  <2> HIDE DEF e
  <2>3. QED
    BY <1>3, <2>1, <2>2, BareIs
<1>8. CASE SetMeta(p, m)
  <2>1. Get(root, p) # None /\ Replaced(root, root', p, [Get(root, p) EXCEPT !.meta = m])
    BY <1>8, SetMetaDoes DEF At
  <2>2. Allowed(Get(root, p))
    BY AtIs DEF At
  <2>3. Flat!SetMeta(p, Listing(root), Listing(root'))
    BY <2>1, <2>2, SetMetaIs
  <2>4. QED
    BY <1>1, <2>3
<1>9. CASE Rmdir(p)
  <2>1. IsDir(At(p)) /\ At(p).node = Empty /\ Replaced(root, root', p, None)
    BY <1>9, RmdirDoes
  <2>2. NodeAt(root, p) = Empty /\ Get(root, p) # None
    BY <2>1, NoneIs DEF At, NodeAt, NodeOf
  <2>3. QED
    BY <1>1, <2>1, <2>2, DeleteIs
<1>10. CASE UnlinkHalf(p)
  <2>1. IsFile(At(p)) /\ Replaced(root, root', p, None)
    BY <1>10, UnlinkHalfDoes
  <2>2. NodeAt(root, p) = Empty /\ Get(root, p) # None
    BY <2>1, NoneIs DEF At, NodeAt, NodeOf, IsDir, IsFile
  <2>3. QED
    BY <1>1, <2>1, <2>2, DeleteIs
<1>11. CASE Unlink(p)
  <2> DEFINE old  == At(p)
             rest == Siblings(p)
             e    == File(old.meta, old.content, GroupOf(rest, old.links))
  <2>1. /\ old # None /\ ~IsDir(old) /\ rest \in SUBSET Paths
        /\ rest = {} => Replaced(root, root', p, None)
        /\ rest # {} => \E mid : Replaced(root, mid, p, None) /\ Placed(mid, root', rest, e)
    BY <1>11, UnlinkDoes DEF Siblings
  <2>2. CASE rest = {}
    <3>1. NodeAt(root, p) = Empty /\ Get(root, p) # None
      BY <2>1 DEF At, NodeAt, NodeOf
    <3>2. QED
      BY <1>1, <2>1, <2>2, <3>1, DeleteIs
  <2>3. CASE rest # {}
    <3>1. PICK mid : Replaced(root, mid, p, None) /\ Placed(mid, root', rest, e)
      BY <2>1, <2>3
    <3>2. IsFile(Get(root, p)) /\ rest = Get(root, p).links \ {p}
      BY <2>3 DEF Siblings, At
    <3>3. IsFile(e)
      BY FileIs
    <3> HIDE DEF rest, e
    <3>4. Flat!Delete(p, Listing(root), Listing(root'))
      BY <2>1, <2>3, <3>1, <3>2, <3>3, DeleteNameIs
    <3>5. QED
      BY <1>1, <3>4
  <2>4. QED
    BY <2>2, <2>3
<1>12. CASE Rename(p, q)
  <2>1. /\ Trim(root') /\ At(p) # None /\ MayReplace(At(p), At(q)) /\ Moved(root, root', p, q)
    BY <1>12, RenameDoes DEF Kept
  <2>2. NodeAt(root, q) = Empty
    BY <2>1 DEF MayReplace, NodeAt, NodeOf, At
  <2>3. Get(root, p) # None /\ Trim(root)
    BY <2>1 DEF At, Ready
  <2>4. Flat!Move(p, q, Listing(root), Listing(root'))
    BY <2>1, <2>2, <2>3, MoveIs
  <2>5. QED
    BY <1>0, <2>4 DEF Flat!Operation
<1>13. QED
  BY <1>4, <1>5, <1>6, <1>7, <1>8, <1>9, <1>10, <1>11, <1>12

\* A new repository is a new map.
LEMMA InitMaps == Init => Flat!Init
BY TreesAreRooted DEF Init, Flat!Init

\* Every step is an operation on the map, its publication or its reopening, or a stutter.
LEMMA NextMaps == NodesInv /\ [Next]_vars => [Flat!Next]_(Flat!pathVars)
<1> SUFFICES ASSUME NodesInv, [Next]_vars PROVE [Flat!Next]_(Flat!pathVars)
  OBVIOUS
<1>0. Listing(root)' = Listing(root') /\ Listing(head)' = Listing(head')
  BY DEF Listing, PathsOf
<1>1. ASSUME NEW p \in Paths, NEW q \in Paths, NEW c, NEW m,
             \/ WriteFile(p, c) \/ SetMeta(p, m) \/ Mkdir(p) \/ MakeSymlink(p) \/ Rmdir(p)
             \/ Unlink(p) \/ UnlinkHalf(p) \/ Rename(p, q) \/ Copy(p, q) \/ Link(p, q)
      PROVE  Flat!Next
  <2>1. open /\ head' = head
    BY <1>1, OperationsEdit
  <2>2. Flat!Operation(Listing(root), Listing(root'))
    BY <1>1, <2>1, ReadyIs, OperationMaps
  <2>3. QED
    BY <1>0, <2>1, <2>2 DEF Flat!Next, Flat!Edit
<1>2. CASE \E p, q \in Paths : CopyFails(p, q)
  BY <1>0, <1>2 DEF CopyFails, Editing, Flat!pathVars
<1>3. CASE Open \/ Discard
  BY <1>0, <1>3 DEF Open, Discard, Flat!Next, Flat!Reopen
<1>4. CASE Publish
  BY <1>0, <1>4 DEF Publish, Flat!Next, Flat!Publish
<1>5. CASE Collect \/ UNCHANGED vars
  BY <1>0, <1>5 DEF Collect, vars, wsVars, Flat!pathVars
<1>6. QED
  BY <1>1, <1>2, <1>3, <1>4, <1>5 DEF Next

\* Every step of a workspace is one whole operation on a map from paths to entries, or
\* none: nodes, digests, sharing, the second edit of an unlink, publication and collection
\* cannot be seen through the map (PathMap is what the namespace promises).
THEOREM NamespaceImplementsPathMap == Spec => ImplementsPathMap
BY NodesInvariant, InitMaps, NextMaps, PTL DEF Spec, ImplementsPathMap, Flat!Spec
================================================================================
