-------------------------------- MODULE TreeFacts --------------------------------
(* What the operators of Tree compute, for every tree and every path: the entry a   *)
(* path shows after an edit, and the nodes an edit reads and makes.                 *)
EXTENDS Tree, FiniteSetTheorems, SequenceTheorems, WellFoundedInduction, TLAPS

\* A set of numbers that is not empty has a least one.
LEMMA LeastOf ==
    ASSUME NEW T \in SUBSET Nat, T # {}
    PROVE  \E n \in T : \A m \in T : n <= m
<1>1. PICK n \in T : \A m \in T : <<m, n>> \notin OpToRel(<, Nat)
  BY NatLessThanWellFounded, WFMin, Zenon
<1>2. \A m \in T : ~(m < n)
  BY <1>1, Zenon DEF OpToRel
<1>3. \A m \in T : m \in Nat /\ n \in Nat
  OBVIOUS
<1>4. \A m \in T : n <= m
  BY <1>2, <1>3
<1>5. QED
  BY <1>4

\* Induction over the numbers, for a set of them.
LEMMA NumbersAll ==
    ASSUME NEW T \in SUBSET Nat, 0 \in T, \A n \in T : n + 1 \in T
    PROVE  T = Nat
<1> DEFINE Rest == Nat \ T
<1>1. SUFFICES ASSUME Rest # {} PROVE FALSE
  OBVIOUS
<1>2. PICK n \in Rest : \A m \in Rest : n <= m
  <2>1. Rest \in SUBSET Nat
    OBVIOUS
  <2> HIDE DEF Rest
  <2>2. QED
    BY <1>1, <2>1, LeastOf
<1>3. n \in Nat /\ n # 0 /\ n - 1 \in Nat /\ ~(n <= n - 1)
  OBVIOUS
<1>4. n - 1 \in T
  BY <1>2, <1>3
<1>5. n - 1 + 1 = n
  BY <1>3
<1>6. QED
  BY <1>2, <1>4, <1>5

\* The first names of a path.
LEMMA UptoIs ==
    ASSUME NEW p \in Seq(Names), NEW n \in 0..Len(p)
    PROVE  /\ Upto(p, n) \in Seq(Names) /\ Len(Upto(p, n)) = n
           /\ \A i \in 1..n : Upto(p, n)[i] = p[i]
<1>1. Len(p) \in Nat /\ n \in Nat /\ n <= Len(p)
  BY LenProperties
<1>2. \A i \in 1..n : p[i] \in Names
  BY <1>1, ElementOfSeq
<1>3. n \in Int /\ 1 \in Int
  BY <1>1
<1>4. /\ SubSeq(p, 1, n) \in Seq(Names)
      /\ Len(SubSeq(p, 1, n)) = IF 1 <= n THEN n - 1 + 1 ELSE 0
      /\ \A i \in 1..(n - 1 + 1) : SubSeq(p, 1, n)[i] = p[1 + i - 1]
  BY <1>2, <1>3, SubSeqProperties
<1>5. QED
  BY <1>1, <1>4 DEF Upto

\* A path is empty or ends in a name.
LEMMA PathEnds ==
    ASSUME NEW p \in Seq(Names), p # Root
    PROVE  /\ Len(p) \in Nat /\ Len(p) >= 1 /\ p[Len(p)] \in Names
           /\ Upto(p, Len(p) - 1) \in Seq(Names)
           /\ Len(Upto(p, Len(p) - 1)) = Len(p) - 1
           /\ p = Append(Upto(p, Len(p) - 1), p[Len(p)])
<1>1. Len(p) \in Nat /\ Len(p) # 0
  BY EmptySeq, LenProperties DEF Root
<1>2. p[Len(p)] \in Names
  BY <1>1, ElementOfSeq
<1> DEFINE q == Upto(p, Len(p) - 1)
<1>3. Len(p) - 1 \in 0..Len(p)
  BY <1>1
<1>4. /\ q \in Seq(Names) /\ Len(q) = Len(p) - 1
      /\ \A i \in 1..(Len(p) - 1) : q[i] = p[i]
  BY <1>3, UptoIs
<1> HIDE DEF q
<1>5. Append(q, p[Len(p)]) \in Seq(Names) /\ Len(Append(q, p[Len(p)])) = Len(p)
  BY <1>1, <1>2, <1>4, AppendProperties
<1>6. \A i \in 1..Len(p) : Append(q, p[Len(p)])[i] = p[i]
  BY <1>1, <1>2, <1>4, AppendProperties
<1>7. p = Append(q, p[Len(p)])
  BY <1>5, <1>6, SeqEqual
<1>8. QED
  BY <1>1, <1>2, <1>4, <1>7 DEF q

\* Induction over the paths, for a set of them.
LEMMA PathsAll ==
    ASSUME NEW T \in SUBSET Seq(Names), Root \in T,
           \A p \in T, n \in Names : Append(p, n) \in T
    PROVE  T = Seq(Names)
<1> DEFINE Done == {i \in Nat : \A p \in Seq(Names) : Len(p) = i => p \in T}
<1>1. 0 \in Done
  BY EmptySeq DEF Root
<1>2. ASSUME NEW i \in Done
      PROVE  i + 1 \in Done
  <2>1. ASSUME NEW p \in Seq(Names), Len(p) = i + 1
        PROVE  p \in T
    <3>1. p # <<>>
      BY <2>1, EmptySeq
    <3>2. PICK q \in Seq(Names), n \in Names : p = Append(q, n)
      BY <3>1, SequenceEmptyOrAppend
    <3>3. Len(q) = i
      BY <2>1, <3>2, AppendProperties, LenProperties
    <3>4. q \in T
      BY <1>2, <3>2, <3>3
    <3>5. QED
      BY <3>2, <3>4
  <2>2. QED
    BY <2>1
<1>3. Done = Nat
  <2>1. Done \in SUBSET Nat
    OBVIOUS
  <2> HIDE DEF Done
  <2>2. QED
    BY <1>1, <1>2, <2>1, NumbersAll
<1>4. ASSUME NEW p \in Seq(Names)
      PROVE  p \in T
  <2>1. Len(p) \in Nat
    BY LenProperties
  <2>2. Len(p) \in Done
    BY <1>3, <2>1
  <2>3. QED
    BY <2>2
<1>5. QED
  BY <1>4

\* One path lies beneath another when the other is its beginning.
LEMMA BeneathIs ==
    ASSUME NEW p \in Seq(Names), NEW q \in Seq(Names)
    PROVE  Beneath(p, q) <=> Len(q) <= Len(p) /\ \A i \in 1..Len(q) : p[i] = q[i]
<1>1. Len(p) \in Nat /\ Len(q) \in Nat
  BY LenProperties
<1>2. CASE Len(q) <= Len(p)
  <2> DEFINE u == Upto(p, Len(q))
  <2>1. u \in Seq(Names) /\ Len(u) = Len(q)
    BY <1>1, <1>2, SubSeqProperties, ElementOfSeq DEF Upto
  <2>2. \A i \in 1..Len(q) : u[i] = p[i]
    BY <1>1, <1>2, SMT DEF Upto
  <2>3. u = q <=> \A i \in 1..Len(q) : u[i] = q[i]
    BY <2>1, SeqEqual
  <2>4. QED
    BY <1>2, <2>2, <2>3 DEF Beneath
<1>3. QED
  BY <1>2 DEF Beneath

\* Beneath is a partial order, and what lies above one path is a chain.
LEMMA BeneathOrder ==
    /\ \A p \in Seq(Names) : Beneath(p, p)
    /\ \A p, q \in Seq(Names) : Beneath(p, q) /\ Beneath(q, p) => p = q
    /\ \A p, q, r \in Seq(Names) : Beneath(p, q) /\ Beneath(q, r) => Beneath(p, r)
    /\ \A p, q, r \in Seq(Names) :
           Beneath(p, q) /\ Beneath(p, r) => Beneath(q, r) \/ Beneath(r, q)
<1>0. \A p \in Seq(Names) : Len(p) \in Nat
  BY LenProperties
<1>1. \A p \in Seq(Names) : Beneath(p, p)
  BY <1>0, BeneathIs
<1>2. ASSUME NEW p \in Seq(Names), NEW q \in Seq(Names), Beneath(p, q), Beneath(q, p)
      PROVE  p = q
  <2>1. Len(p) = Len(q) /\ \A i \in 1..Len(p) : p[i] = q[i]
    BY <1>0, <1>2, BeneathIs
  <2>2. QED
    BY <2>1, SeqEqual
<1>3. ASSUME NEW p \in Seq(Names), NEW q \in Seq(Names), NEW r \in Seq(Names),
             Beneath(p, q), Beneath(q, r)
      PROVE  Beneath(p, r)
  BY <1>0, <1>3, BeneathIs
<1>4. ASSUME NEW p \in Seq(Names), NEW q \in Seq(Names), NEW r \in Seq(Names),
             Beneath(p, q), Beneath(p, r)
      PROVE  Beneath(q, r) \/ Beneath(r, q)
  BY <1>0, <1>4, BeneathIs
<1>5. QED
  BY <1>1, <1>2, <1>3, <1>4

--------------------------------------------------------------------------------
(* Routes *)

RouteTo(root, p, f, m) ==
    f = [k \in 1..m |-> IF k = 1 THEN root ELSE Child(f[k-1], p[k-1])]

\* The nodes on a route are defined, each by the one before it.
LEMMA RouteExists ==
    ASSUME NEW root, NEW p, NEW m \in Nat
    PROVE  \E f : RouteTo(root, p, f, m)
<1> DEFINE Bad == {i \in Nat : ~ \E f : RouteTo(root, p, f, i)}
<1>1. SUFFICES ASSUME Bad # {} PROVE FALSE
  OBVIOUS
<1>2. PICK n \in Bad : \A i \in Bad : n <= i
  <2>1. Bad \in SUBSET Nat
    OBVIOUS
  <2> HIDE DEF Bad
  <2>2. QED
    BY <1>1, <2>1, LeastOf
<1>3. n \in Nat /\ ~ \E f : RouteTo(root, p, f, n)
  OBVIOUS
<1>4. n # 0
  <2>1. RouteTo(root, p, [k \in 1..0 |-> root], 0)
    BY DEF RouteTo
  <2>2. QED
    BY <1>3, <2>1
<1>5. PICK f : RouteTo(root, p, f, n - 1)
  <2>1. n - 1 \in Nat /\ ~(n <= n - 1)
    BY <1>3, <1>4
  <2>2. n - 1 \notin Bad
    BY <1>2, <2>1
  <2>3. QED
    BY <2>1, <2>2
<1> DEFINE g == [k \in 1..n |-> IF k = 1 THEN root ELSE Child(f[k-1], p[k-1])]
<1>6. \A k \in 1..(n-1) : f[k] = IF k = 1 THEN root ELSE Child(f[k-1], p[k-1])
  BY <1>5 DEF RouteTo
<1>7. \A k \in 1..(n-1) : g[k] = f[k]
  BY <1>3, <1>6
<1>8. \A k \in 1..n : k = 1 \/ k - 1 \in 1..(n-1)
  BY <1>3
<1>9. g = [k \in 1..n |-> IF k = 1 THEN root ELSE Child(g[k-1], p[k-1])]
  BY <1>7, <1>8, Zenon
<1>10. RouteTo(root, p, g, n)
  BY <1>9 DEF RouteTo
<1>11. QED
  BY <1>3, <1>10

\* The recursion of Route, unfolded: the nodes met on the way from the root to p.
LEMMA RouteIs ==
    ASSUME NEW root, NEW p, Len(p) \in Nat
    PROVE  RouteTo(root, p, Route(root, p), Len(p))
<1>1. \E f : RouteTo(root, p, f, Len(p))
  BY RouteExists
<1>2. QED
  BY <1>1 DEF Route, RouteTo

\* The first node of a route is the root, each other one the child of the one
\* before it.
LEMMA RouteSteps ==
    ASSUME NEW root, NEW p \in Seq(Names)
    PROVE  /\ Len(p) \in Nat
           /\ DOMAIN Route(root, p) = 1..Len(p)
           /\ \A k \in 1..Len(p) : Route(root, p)[k] =
                  IF k = 1 THEN root ELSE Child(Route(root, p)[k-1], p[k-1])
<1>1. Len(p) \in Nat
  BY LenProperties
<1>2. RouteTo(root, p, Route(root, p), Len(p))
  BY <1>1, RouteIs
<1> DEFINE f == Route(root, p)
<1> HIDE DEF f
<1>3. f = [k \in 1..Len(p) |-> IF k = 1 THEN root ELSE Child(f[k-1], p[k-1])]
  BY <1>2 DEF RouteTo, f
<1>4. DOMAIN f = 1..Len(p)
  BY <1>3, Zenon
<1>5. \A k \in 1..Len(p) : f[k] = IF k = 1 THEN root ELSE Child(f[k-1], p[k-1])
  BY <1>3, Zenon
<1>6. QED
  BY <1>1, <1>4, <1>5 DEF f

\* The route of a path begins with the route of each path above it.
LEMMA RouteShared ==
    ASSUME NEW root, NEW p \in Seq(Names), NEW q \in Seq(Names), Beneath(q, p)
    PROVE  \A k \in 1..Len(p) : Route(root, q)[k] = Route(root, p)[k]
<1> DEFINE Same == {k \in Nat : k + 1 \in 1..Len(p) => Route(root, q)[k+1] = Route(root, p)[k+1]}
<1>1. /\ Len(p) \in Nat /\ Len(q) \in Nat /\ Len(p) <= Len(q)
      /\ \A i \in 1..Len(p) : q[i] = p[i]
  BY BeneathIs, LenProperties
<1>2. /\ \A k \in 1..Len(p) : Route(root, p)[k] =
              IF k = 1 THEN root ELSE Child(Route(root, p)[k-1], p[k-1])
      /\ \A k \in 1..Len(p) : Route(root, q)[k] =
              IF k = 1 THEN root ELSE Child(Route(root, q)[k-1], q[k-1])
  <2>1. \A k \in 1..Len(p) : k \in 1..Len(q)
    BY <1>1
  <2>2. QED
    BY <2>1, RouteSteps
<1>3. 0 \in Same
  BY <1>1, <1>2
<1>4. ASSUME NEW k \in Same
      PROVE  k + 1 \in Same
  <2>1. SUFFICES ASSUME k + 2 \in 1..Len(p)
                 PROVE  Route(root, q)[k+2] = Route(root, p)[k+2]
    BY <1>1
  <2>2. k + 1 \in 1..Len(p) /\ k + 2 # 1 /\ k + 2 - 1 = k + 1
    BY <1>1, <2>1
  <2>3. Route(root, q)[k+1] = Route(root, p)[k+1]
    BY <2>2
  <2>4. /\ Route(root, q)[k+2] = Child(Route(root, q)[k+1], q[k+1])
        /\ Route(root, p)[k+2] = Child(Route(root, p)[k+1], p[k+1])
    BY <1>2, <2>1, <2>2
  <2>5. QED
    BY <1>1, <2>2, <2>3, <2>4
<1>5. Same = Nat
  <2>1. Same \in SUBSET Nat
    OBVIOUS
  <2> HIDE DEF Same
  <2>2. QED
    BY <1>3, <1>4, <2>1, NumbersAll
<1>6. ASSUME NEW k \in 1..Len(p)
      PROVE  Route(root, q)[k] = Route(root, p)[k]
  <2>1. k - 1 \in Nat /\ k - 1 + 1 = k
    BY <1>1
  <2>2. k - 1 \in Same
    BY <1>5, <2>1
  <2>3. QED
    BY <2>1, <2>2
<1>7. QED
  BY <1>6

\* The node of the directory at a path; Empty where there is none.
NodeOf(e)       == IF IsDir(e) THEN e.node ELSE Empty
NodeAt(root, p) == NodeOf(Get(root, p))

\* The absence of an entry is neither a directory nor a file.
LEMMA NoneIs == ~IsDir(None) /\ ~IsFile(None) /\ NodeOf(None) = Empty
BY DEF None, IsDir, IsFile, NodeOf

\* The empty node has no entry and no child.
LEMMA EmptyHasNone == \A n : Lookup(Empty, n) = None /\ Child(Empty, n) = Empty
BY NoneIs DEF Lookup, Child, Empty

\* The root path shows the root itself, as a directory.
LEMMA RootShows ==
    ASSUME NEW root
    PROVE  Get(root, Root) = Dir(0, root) /\ IsDir(Get(root, Root)) /\ NodeAt(root, Root) = root
BY DEF Get, Dir, IsDir, NodeAt, NodeOf

\* What a path shows is what the node of its parent has under its last name.
LEMMA GetStep ==
    ASSUME NEW root, NEW p \in Seq(Names), NEW n \in Names
    PROVE  /\ Append(p, n) \in Seq(Names) /\ Append(p, n) # Root
           /\ Get(root, Append(p, n)) = Lookup(NodeAt(root, p), n)
           /\ NodeAt(root, Append(p, n)) = Child(NodeAt(root, p), n)
<1> DEFINE q == Append(p, n)
<1>1. /\ Len(p) \in Nat /\ q \in Seq(Names) /\ q # <<>>
      /\ Len(q) = Len(p) + 1 /\ q[Len(p) + 1] = n /\ \A i \in 1..Len(p) : q[i] = p[i]
  BY AppendProperties, LenProperties
<1> HIDE DEF q
<1>2. Beneath(q, p)
  BY <1>1, BeneathIs
<1>3. Get(root, q) = Lookup(Route(root, q)[Len(p) + 1], n)
  BY <1>1 DEF Get, Root
<1>4. Route(root, q)[Len(p) + 1] = NodeAt(root, p)
  <2>1. CASE p = <<>>
    <3>1. Len(p) = 0 /\ Route(root, q)[1] = root
      BY <1>1, <2>1, RouteSteps, EmptySeq
    <3>2. QED
      BY <2>1, <3>1, RootShows DEF Root
  <2>2. CASE p # <<>>
    <3>1. Len(p) \in 1..Len(p) /\ Len(p) + 1 \in 1..Len(q) /\ Len(p) + 1 # 1
      BY <1>1, <2>2, EmptySeq
    <3>2. Route(root, q)[Len(p) + 1] = Child(Route(root, q)[Len(p) + 1 - 1], q[Len(p) + 1 - 1])
      BY <1>1, <3>1, RouteSteps
    <3>3. Len(p) + 1 - 1 = Len(p)
      BY <1>1
    <3>4. Route(root, q)[Len(p) + 1] = Child(Route(root, p)[Len(p)], p[Len(p)])
      BY <1>1, <1>2, <3>1, <3>2, <3>3, RouteShared
    <3>5. QED
      BY <2>2, <3>4 DEF NodeAt, NodeOf, Get, Child, Root
  <2>3. QED
    BY <2>1, <2>2
<1>5. Get(root, q) = Lookup(NodeAt(root, p), n)
  BY <1>3, <1>4
<1>6. NodeAt(root, q) = Child(NodeAt(root, p), n)
  BY <1>5 DEF NodeAt, NodeOf, Child
<1>7. QED
  BY <1>1, <1>5, <1>6 DEF q, Root

\* The paths above a path, the root among them.
Over(p) == {q \in Seq(Names) : q # p /\ Beneath(p, q)}

\* The paths over p are its proper prefixes, the root included: the nodes on its spine.
LEMMA OverIs ==
    ASSUME NEW p \in Seq(Names)
    PROVE  /\ Len(p) \in Nat
           /\ \A k \in 1..Len(p) : /\ Upto(p, k-1) \in Over(p)
                                   /\ Len(Upto(p, k-1)) = k - 1
           /\ \A q \in Over(p) : /\ q \in Seq(Names) /\ Len(q) \in Nat /\ Len(q) < Len(p)
                                 /\ Len(q) + 1 \in 1..Len(p)
                                 /\ q = Upto(p, Len(q))
<1>1. Len(p) \in Nat
  BY LenProperties
<1>2. ASSUME NEW k \in 1..Len(p)
      PROVE  Upto(p, k-1) \in Over(p) /\ Len(Upto(p, k-1)) = k - 1
  <2>1. k - 1 \in 0..Len(p) /\ k - 1 # Len(p) /\ k - 1 <= Len(p)
    BY <1>1
  <2>2. Upto(p, k-1) \in Seq(Names) /\ Len(Upto(p, k-1)) = k - 1
    BY <2>1, UptoIs
  <2>3. QED
    BY <2>1, <2>2 DEF Over, Beneath
<1>3. ASSUME NEW q \in Over(p)
      PROVE  /\ q \in Seq(Names) /\ Len(q) \in Nat /\ Len(q) < Len(p)
             /\ Len(q) + 1 \in 1..Len(p)
             /\ q = Upto(p, Len(q))
  <2>1. q \in Seq(Names) /\ q # p /\ Beneath(p, q) /\ Len(q) \in Nat
    BY LenProperties DEF Over
  <2>2. Len(q) <= Len(p) /\ q = Upto(p, Len(q)) /\ \A i \in 1..Len(q) : p[i] = q[i]
    BY <2>1, BeneathIs DEF Beneath
  <2>3. Len(q) # Len(p)
    BY <2>1, <2>2, SeqEqual
  <2>4. QED
    BY <1>1, <2>1, <2>2, <2>3
<1>4. QED
  BY <1>1, <1>2, <1>3

\* The root is above every other path.
LEMMA RootOver ==
    ASSUME NEW p \in Seq(Names)
    PROVE  /\ Root \in Seq(Names) /\ Len(Root) = 0 /\ Beneath(p, Root)
           /\ p # Root => Root \in Over(p) /\ ~Beneath(Root, p)
<1>1. Root \in Seq(Names) /\ Len(Root) = 0 /\ Len(p) \in Nat
  BY EmptySeq, LenProperties DEF Root
<1>2. SubSeq(p, 1, 0) = <<>>
  BY SubSeqEmpty
<1>3. Beneath(p, Root)
  BY <1>1, <1>2 DEF Beneath, Upto, Root
<1>4. Beneath(Root, p) => p = Root
  BY <1>1, <1>3, BeneathOrder
<1>5. QED
  BY <1>1, <1>3, <1>4 DEF Over

\* What lies over the end of a longer path.
LEMMA OverAppend ==
    ASSUME NEW p \in Seq(Names), NEW n \in Names
    PROVE  Over(Append(p, n)) = Over(p) \cup {p}
<1> DEFINE r == Append(p, n)
<1>1. /\ Len(p) \in Nat /\ r \in Seq(Names) /\ Len(r) = Len(p) + 1
      /\ \A i \in 1..Len(p) : r[i] = p[i]
  BY AppendProperties, LenProperties
<1> HIDE DEF r
<1>2. Beneath(r, p) /\ r # p
  BY <1>1, BeneathIs
<1>3. ASSUME NEW q \in Over(r), q # p
      PROVE  q \in Over(p)
  <2>1. q \in Seq(Names) /\ q # r /\ Beneath(r, q) /\ Len(q) \in Nat /\ Len(q) <= Len(p)
    BY <1>1, OverIs DEF Over
  <2>2. \A i \in 1..Len(q) : r[i] = q[i]
    BY <1>1, <2>1, BeneathIs
  <2>3. Beneath(p, q)
    BY <1>1, <2>1, <2>2, BeneathIs
  <2>4. QED
    BY <1>3, <2>1, <2>3 DEF Over
<1>4. ASSUME NEW q \in Over(p)
      PROVE  q \in Over(r)
  <2>1. q \in Seq(Names) /\ q # p /\ Beneath(p, q) /\ Len(q) \in Nat /\ Len(q) < Len(p)
    BY OverIs DEF Over
  <2>2. Beneath(r, q)
    BY <1>1, <1>2, <2>1, BeneathOrder
  <2>3. q # r
    BY <1>1, <2>1
  <2>4. QED
    BY <2>1, <2>2, <2>3 DEF Over
<1>5. p \in Over(r)
  BY <1>1, <1>2 DEF Over
<1>6. QED
  BY <1>3, <1>4, <1>5 DEF r

\* The nodes of a route are those of the directories over the path.
LEMMA RouteNodes ==
    ASSUME NEW root, NEW p \in Seq(Names)
    PROVE  /\ \A q \in Over(p) : Route(root, p)[Len(q) + 1] = NodeAt(root, q)
           /\ SX!Range(Route(root, p)) = {NodeAt(root, q) : q \in Over(p)}
<1>1. ASSUME NEW q \in Over(p)
      PROVE  Route(root, p)[Len(q) + 1] = NodeAt(root, q)
  <2>1. /\ q \in Seq(Names) /\ Beneath(p, q) /\ Len(q) \in Nat /\ Len(p) \in Nat
        /\ Len(q) + 1 \in 1..Len(p) /\ \A i \in 1..Len(q) : p[i] = q[i]
    BY OverIs, BeneathIs DEF Over
  <2>2. CASE q = <<>>
    <3>1. Len(q) = 0 /\ Route(root, p)[1] = root
      BY <2>1, <2>2, RouteSteps, EmptySeq
    <3>2. QED
      BY <2>2, <3>1, RootShows DEF Root
  <2>3. CASE q # <<>>
    <3>1. Len(q) \in 1..Len(q) /\ Len(q) + 1 # 1 /\ Len(q) + 1 - 1 = Len(q)
      BY <2>1, <2>3, EmptySeq
    <3>2. Route(root, p)[Len(q) + 1] = Child(Route(root, p)[Len(q)], p[Len(q)])
      BY <2>1, <3>1, RouteSteps
    <3>3. Route(root, p)[Len(q) + 1] = Child(Route(root, q)[Len(q)], q[Len(q)])
      BY <2>1, <3>1, <3>2, RouteShared
    <3>4. QED
      BY <2>3, <3>3 DEF NodeAt, NodeOf, Get, Child, Root
  <2>4. QED
    BY <2>2, <2>3
<1>2. DOMAIN Route(root, p) = 1..Len(p) /\ Len(p) \in Nat
  BY RouteSteps
<1>3. ASSUME NEW k \in 1..Len(p)
      PROVE  \E q \in Over(p) : Route(root, p)[k] = NodeAt(root, q)
  <2>1. Upto(p, k-1) \in Over(p) /\ Len(Upto(p, k-1)) + 1 = k
    BY <1>2, OverIs
  <2>2. QED
    BY <1>1, <2>1
<1>4. \A q \in Over(p) : Len(q) + 1 \in 1..Len(p)
  BY OverIs
<1>5. \A x : x \in SX!Range(Route(root, p)) <=> \E k \in 1..Len(p) : x = Route(root, p)[k]
  BY <1>2 DEF SX!Range
<1>6. \A x : x \in SX!Range(Route(root, p)) <=> \E q \in Over(p) : x = NodeAt(root, q)
  BY <1>1, <1>3, <1>4, <1>5, SMTT(60)
<1>7. QED
  BY <1>1, <1>6

\* A path beneath another one goes on from it.
LEMMA BeneathGoesOn ==
    ASSUME NEW p \in Seq(Names), NEW q \in Seq(Names)
    PROVE  /\ Beneath(q, p) <=> \E s \in Seq(Names) : q = p \o s
           /\ Beneath(q, p) /\ q # p <=> \E s \in Seq(Names) : s # Root /\ q = p \o s
<1>1. Len(p) \in Nat /\ Len(q) \in Nat
  BY LenProperties
<1>2. ASSUME Beneath(q, p)
      PROVE  \E s \in Seq(Names) : q = p \o s
  <2>1. Len(p) <= Len(q) /\ \A i \in 1..Len(p) : q[i] = p[i]
    BY <1>2, BeneathIs
  <2> DEFINE s == SubSeq(q, Len(p) + 1, Len(q))
  <2>2. \A i \in (Len(p) + 1)..Len(q) : q[i] \in Names
    BY <1>1, ElementOfSeq
  <2>3. /\ s \in Seq(Names)
        /\ Len(s) = IF Len(p) + 1 <= Len(q) THEN Len(q) - (Len(p) + 1) + 1 ELSE 0
        /\ \A i \in 1..(Len(q) - (Len(p) + 1) + 1) : s[i] = q[Len(p) + 1 + i - 1]
    <3>1. Len(p) + 1 \in Int /\ Len(q) \in Int
      BY <1>1
    <3>2. QED
      BY <2>2, <3>1, SubSeqProperties
  <2> HIDE DEF s
  <2>4. Len(s) = Len(q) - Len(p) /\ \A i \in 1..Len(s) : s[i] = q[Len(p) + i]
    BY <1>1, <2>1, <2>3
  <2>5. /\ p \o s \in Seq(Names) /\ Len(p \o s) = Len(q)
        /\ \A i \in 1..Len(q) : (p \o s)[i] = IF i <= Len(p) THEN p[i] ELSE s[i - Len(p)]
    BY <1>1, <2>1, <2>3, <2>4, ConcatProperties
  <2>6. \A i \in 1..Len(q) : (p \o s)[i] = q[i]
    BY <1>1, <2>1, <2>4, <2>5
  <2>7. q = p \o s
    BY <2>5, <2>6, SeqEqual
  <2>8. QED
    BY <2>3, <2>7
<1>3. ASSUME NEW s \in Seq(Names), q = p \o s
      PROVE  Beneath(q, p)
  <2>1. Len(s) \in Nat /\ Len(q) = Len(p) + Len(s)
        /\ \A i \in 1..Len(p) + Len(s) : q[i] = IF i <= Len(p) THEN p[i] ELSE s[i - Len(p)]
    BY <1>3, ConcatProperties, LenProperties
  <2>2. QED
    BY <1>1, <2>1, BeneathIs
<1>4. \A s \in Seq(Names) : p \o s = p <=> s = Root
  BY ConcatEqualIffEmpty DEF Root
<1>5. QED
  BY <1>2, <1>3, <1>4

\* A subtree is the tree its node is the root of.
LEMMA GetConcat ==
    ASSUME NEW root, NEW p \in Seq(Names), NEW s \in Seq(Names)
    PROVE  /\ p \o s \in Seq(Names)
           /\ NodeAt(root, p \o s) = NodeAt(NodeAt(root, p), s)
           /\ s # Root => Get(root, p \o s) = Get(NodeAt(root, p), s)
<1> DEFINE Fine == {t \in Seq(Names) : NodeAt(root, p \o t) = NodeAt(NodeAt(root, p), t)}
<1>1. \A t \in Seq(Names), n \in Names :
          /\ p \o t \in Seq(Names)
          /\ p \o Append(t, n) = Append(p \o t, n)
  <2>1. ASSUME NEW t \in Seq(Names), NEW n \in Names
        PROVE  p \o t \in Seq(Names) /\ p \o Append(t, n) = Append(p \o t, n)
    <3>1. p \o t \in Seq(Names) /\ <<n>> \in Seq(Names)
      BY ConcatProperties
    <3>2. Append(t, n) = t \o <<n>> /\ Append(p \o t, n) = (p \o t) \o <<n>>
      BY <3>1, AppendIsConcat
    <3>3. QED
      BY <3>1, <3>2, ConcatAssociative
  <2>2. QED
    BY <2>1
<1>2. Root \in Fine
  <2>1. Root \in Seq(Names) /\ p \o Root = p
    BY EmptySeq, ConcatEmptySeq DEF Root
  <2>2. QED
    BY <2>1, RootShows
<1>3. ASSUME NEW t \in Seq(Names), NEW n \in Names, t \in Fine
      PROVE  /\ Append(t, n) \in Fine
             /\ Get(root, p \o Append(t, n)) = Get(NodeAt(root, p), Append(t, n))
  <2>1. p \o t \in Seq(Names) /\ p \o Append(t, n) = Append(p \o t, n)
    BY <1>1
  <2>2. /\ Get(root, Append(p \o t, n)) = Lookup(NodeAt(root, p \o t), n)
        /\ NodeAt(root, Append(p \o t, n)) = Child(NodeAt(root, p \o t), n)
    BY <2>1, GetStep
  <2>3. /\ Append(t, n) \in Seq(Names)
        /\ Get(NodeAt(root, p), Append(t, n)) = Lookup(NodeAt(NodeAt(root, p), t), n)
        /\ NodeAt(NodeAt(root, p), Append(t, n)) = Child(NodeAt(NodeAt(root, p), t), n)
    BY GetStep
  <2>4. NodeAt(root, p \o t) = NodeAt(NodeAt(root, p), t)
    BY <1>3
  <2>5. QED
    BY <2>1, <2>2, <2>3, <2>4
<1>4. Fine = Seq(Names)
  <2>1. Fine \in SUBSET Seq(Names)
    OBVIOUS
  <2>2. \A t \in Fine, n \in Names : Append(t, n) \in Fine
    BY <1>3, <2>1
  <2> HIDE DEF Fine
  <2>3. QED
    BY <1>2, <2>1, <2>2, PathsAll
<1>5. s # Root => Get(root, p \o s) = Get(NodeAt(root, p), s)
  <2>1. SUFFICES ASSUME s # <<>> PROVE Get(root, p \o s) = Get(NodeAt(root, p), s)
    BY DEF Root
  <2>2. PICK t \in Seq(Names), n \in Names : s = Append(t, n)
    BY <2>1, SequenceEmptyOrAppend
  <2>3. QED
    BY <1>3, <1>4, <2>2
<1>6. QED
  BY <1>1, <1>4, <1>5, ConcatProperties

\* Nothing lies in the empty directory.
LEMMA EmptyShows ==
    ASSUME NEW p \in Seq(Names)
    PROVE  NodeAt(Empty, p) = Empty /\ (p # Root => Get(Empty, p) = None)
<1> DEFINE Fine == {t \in Seq(Names) : NodeAt(Empty, t) = Empty}
<1>1. Root \in Fine
  BY EmptySeq, RootShows DEF Root
<1>2. ASSUME NEW t \in Fine, NEW n \in Names
      PROVE  Append(t, n) \in Fine /\ Get(Empty, Append(t, n)) = None
  BY GetStep, EmptyHasNone
<1>3. Fine = Seq(Names)
  <2>1. Fine \in SUBSET Seq(Names)
    OBVIOUS
  <2> HIDE DEF Fine
  <2>2. QED
    BY <1>1, <1>2, <2>1, PathsAll
<1>4. p # Root => Get(Empty, p) = None
  <2>1. SUFFICES ASSUME p # <<>> PROVE Get(Empty, p) = None
    BY DEF Root
  <2>2. PICK t \in Seq(Names), n \in Names : p = Append(t, n)
    BY <2>1, SequenceEmptyOrAppend
  <2>3. QED
    BY <1>2, <1>3, <2>2
<1>5. QED
  BY <1>3, <1>4

\* What lies beneath a path is what its own entry has; above an entry there are
\* directories only.
LEMMA GetBeneath ==
    ASSUME NEW root, NEW p \in Seq(Names), NEW q \in Seq(Names), q # p, Beneath(q, p)
    PROVE  /\ NodeAt(root, p) = Empty => Get(root, q) = None /\ NodeAt(root, q) = Empty
           /\ ~IsDir(Get(root, p)) => Get(root, q) = None /\ NodeAt(root, q) = Empty
<1>1. PICK s \in Seq(Names) : s # Root /\ q = p \o s
  BY BeneathGoesOn
<1>2. Get(root, q) = Get(NodeAt(root, p), s) /\ NodeAt(root, q) = NodeAt(NodeAt(root, p), s)
  BY <1>1, GetConcat
<1>3. ~IsDir(Get(root, p)) => NodeAt(root, p) = Empty
  BY DEF NodeAt, NodeOf
<1>4. QED
  BY <1>1, <1>2, <1>3, EmptyShows

\* A path is blocked exactly when something over it is there and is no directory.
LEMMA BlockedIs ==
    ASSUME NEW root, NEW p \in Seq(Names)
    PROVE  Blocked(root, p) <=>
               \E q \in Over(p) : q # Root /\ Get(root, q) # None /\ ~IsDir(Get(root, q))
<1>1. Len(p) \in Nat
  BY LenProperties
<1>2. ASSUME NEW q \in Over(p), q # Root
      PROVE  /\ Len(q) \in 1..(Len(p) - 1)
             /\ Get(root, q) = Lookup(Route(root, p)[Len(q)], p[Len(q)])
  <2>1. /\ q \in Seq(Names) /\ Beneath(p, q) /\ Len(q) \in Nat /\ Len(q) < Len(p)
        /\ Len(q) # 0
    BY <1>2, OverIs, EmptySeq DEF Over, Root
  <2>2. Len(q) \in 1..Len(q) /\ Len(q) \in 1..(Len(p) - 1)
    BY <1>1, <2>1
  <2>3. Route(root, p)[Len(q)] = Route(root, q)[Len(q)] /\ p[Len(q)] = q[Len(q)]
    BY <2>1, <2>2, RouteShared, BeneathIs
  <2>4. QED
    BY <1>2, <2>2, <2>3 DEF Get
<1>3. ASSUME NEW k \in 1..(Len(p) - 1)
      PROVE  \E q \in Over(p) : q # Root /\ Len(q) = k
  <2>1. k + 1 \in 1..Len(p) /\ k + 1 - 1 = k /\ k # 0
    BY <1>1
  <2>2. Upto(p, k) \in Over(p) /\ Len(Upto(p, k)) = k
    BY <2>1, OverIs
  <2>3. QED
    BY <2>1, <2>2, EmptySeq DEF Root
<1>4. Blocked(root, p) <=>
          \E k \in 1..(Len(p) - 1) : /\ Lookup(Route(root, p)[k], p[k]) # None
                                     /\ ~IsDir(Lookup(Route(root, p)[k], p[k]))
  BY DEF Blocked
<1>5. QED
  BY <1>2, <1>3, <1>4

\* A writer can read a path exactly when it has every node over it.
LEMMA ReadableIs ==
    ASSUME NEW w, NEW p \in Seq(Names)
    PROVE  Readable(w, p) <=>
               \A q \in Over(p) : NodeAt(w.root, q) \in w.known \cup w.made \cup {Empty}
BY RouteNodes DEF Readable

--------------------------------------------------------------------------------
(* Edits *)

\* One node of the rebuilt route: the old one with the new node of the next.
Rejoined(root, p, k, x) ==
    With(Route(root, p)[k], p[k],
         Dir(LET e == Lookup(Route(root, p)[k], p[k]) IN IF e = None THEN 0 ELSE e.meta, x))

SpineTo(root, p, last, f, m) ==
    f = [k \in (Len(p) - m)..Len(p) |-> IF k = Len(p) THEN last ELSE Rejoined(root, p, k, f[k+1])]

\* The nodes of a rebuilt route are defined, each by the one after it.
LEMMA SpineExists ==
    ASSUME NEW root, NEW p, NEW last, Len(p) \in Nat, NEW m \in Nat
    PROVE  \E f : SpineTo(root, p, last, f, m)
<1> DEFINE n == Len(p)
           Fine == {i \in Nat : \E f : SpineTo(root, p, last, f, i)}
<1>1. 0 \in Fine
  <2> DEFINE g == [k \in (n - 0)..n |-> last]
  <2>1. g = [k \in (n - 0)..n |-> IF k = n THEN last ELSE Rejoined(root, p, k, g[k+1])]
    <3>1. \A k \in (n - 0)..n : k = n
      OBVIOUS
    <3>2. QED
      BY <3>1, Zenon
  <2>2. SpineTo(root, p, last, g, 0)
    BY <2>1 DEF SpineTo
  <2>3. QED
    BY <2>2
<1>2. ASSUME NEW i \in Fine
      PROVE  i + 1 \in Fine
  <2>1. i \in Nat /\ i + 1 \in Nat
    OBVIOUS
  <2>2. PICK f : SpineTo(root, p, last, f, i)
    OBVIOUS
  <2> HIDE DEF Fine
  <2> DEFINE g == [k \in (n - (i + 1))..n |-> IF k = n THEN last ELSE Rejoined(root, p, k, f[k+1])]
  <2>3. \A k \in (n - i)..n : f[k] = IF k = n THEN last ELSE Rejoined(root, p, k, f[k+1])
    BY <2>2 DEF SpineTo
  <2>4. \A k \in (n - i)..n : g[k] = f[k]
    BY <2>1, <2>3
  <2>5. \A k \in (n - (i + 1))..n : k = n \/ k + 1 \in (n - i)..n
    BY <2>1
  <2>6. g = [k \in (n - (i + 1))..n |-> IF k = n THEN last ELSE Rejoined(root, p, k, g[k+1])]
    BY <2>4, <2>5, Zenon
  <2>7. SpineTo(root, p, last, g, i + 1)
    BY <2>6 DEF SpineTo
  <2>8. QED
    BY <2>1, <2>7 DEF Fine
<1>3. Fine = Nat
  <2>1. Fine \in SUBSET Nat
    OBVIOUS
  <2> HIDE DEF Fine
  <2>2. QED
    BY <1>1, <1>2, <2>1, NumbersAll
<1>4. m \in Fine
  BY <1>3
<1>5. QED
  BY <1>4

\* The recursion of Spine, unfolded: the nodes rebuilt from the last one up to the root.
LEMMA SpineIs ==
    ASSUME NEW root, NEW p, NEW last, Len(p) \in Nat, Len(p) >= 1
    PROVE  /\ DOMAIN Spine(root, p, last) = 1..Len(p)
           /\ \A k \in 1..Len(p) : Spine(root, p, last)[k] =
                  IF k = Len(p) THEN last ELSE Rejoined(root, p, k, Spine(root, p, last)[k+1])
<1>1. \E f : SpineTo(root, p, last, f, Len(p) - 1)
  <2>1. Len(p) - 1 \in Nat
    OBVIOUS
  <2>2. QED
    BY <2>1, SpineExists
<1>2. Len(p) - (Len(p) - 1) = 1
  OBVIOUS
<1>3. \E f : f = [k \in 1..Len(p) |-> IF k = Len(p) THEN last ELSE Rejoined(root, p, k, f[k+1])]
  BY <1>1, <1>2 DEF SpineTo
<1> DEFINE g == Spine(root, p, last)
<1>4. g = CHOOSE f : f = [k \in 1..Len(p) |->
                            IF k = Len(p) THEN last ELSE Rejoined(root, p, k, f[k+1])]
  BY Zenon DEF Spine, Rejoined
<1> HIDE DEF g
<1>5. g = [k \in 1..Len(p) |-> IF k = Len(p) THEN last ELSE Rejoined(root, p, k, g[k+1])]
  BY <1>3, <1>4, Zenon
<1>6. DOMAIN g = 1..Len(p)
  BY <1>5, Zenon
<1>7. \A k \in 1..Len(p) : g[k] = IF k = Len(p) THEN last ELSE Rejoined(root, p, k, g[k+1])
  BY <1>5, Zenon
<1>8. QED
  BY <1>6, <1>7 DEF g

\* A node with an entry set shows it, and the others as before.
LEMMA WithShows ==
    ASSUME NEW node, NEW n, NEW e
    PROVE  /\ Lookup(With(node, n, e), n) = e
           /\ \A x : x # n => Lookup(With(node, n, e), x) = Lookup(node, x)
BY DEF Lookup, With

\* A node with an entry taken out shows none there, and the others as before.
LEMMA WithoutShows ==
    ASSUME NEW node, NEW n
    PROVE  /\ Lookup(Without(node, n), n) = None
           /\ \A x : x # n => Lookup(Without(node, n), x) = Lookup(node, x)
BY DEF Lookup, Without

\* The next path over a path, from one over it.
LEMMA OverStep ==
    ASSUME NEW p \in Seq(Names), NEW q \in Seq(Names), NEW n \in Names
    PROVE  /\ Append(q, n) \in Over(p) =>
                  q \in Over(p) /\ n = p[Len(q) + 1] /\ Len(q) + 2 \in 1..Len(p)
           /\ Beneath(q, p) => Beneath(Append(q, n), p)
           /\ q \in Over(p) /\ n = p[Len(q) + 1] => Beneath(p, Append(q, n))
<1> DEFINE r == Append(q, n)
<1>1. /\ Len(p) \in Nat /\ Len(q) \in Nat /\ r \in Seq(Names) /\ Len(r) = Len(q) + 1
      /\ r[Len(q) + 1] = n /\ \A i \in 1..Len(q) : r[i] = q[i]
  BY AppendProperties, LenProperties
<1> HIDE DEF r
<1>2. Beneath(r, q)
  BY <1>1, BeneathIs
<1>3. ASSUME r \in Over(p)
      PROVE  q \in Over(p) /\ n = p[Len(q) + 1] /\ Len(q) + 2 \in 1..Len(p)
  <2>1. Beneath(p, r) /\ Len(r) < Len(p)
    BY <1>3, OverIs DEF Over
  <2>2. n = p[Len(q) + 1]
    <3>1. Len(q) + 1 \in 1..Len(r)
      BY <1>1
    <3>2. p[Len(q) + 1] = r[Len(q) + 1]
      BY <1>1, <2>1, <3>1, BeneathIs
    <3>3. QED
      BY <1>1, <3>2
  <2>3. Beneath(p, q) /\ q # p
    BY <1>1, <1>2, <2>1, BeneathOrder
  <2>4. QED
    BY <1>1, <2>1, <2>2, <2>3 DEF Over
<1>4. Beneath(q, p) => Beneath(r, p)
  BY <1>1, <1>2, BeneathOrder
<1>5. ASSUME q \in Over(p), n = p[Len(q) + 1]
      PROVE  Beneath(p, r)
  <2>1. Beneath(p, q) /\ Len(q) < Len(p)
    BY <1>5, OverIs DEF Over
  <2>2. \A i \in 1..Len(q) : p[i] = q[i]
    BY <2>1, BeneathIs
  <2>3. \A i \in 1..Len(r) : p[i] = r[i]
    BY <1>1, <1>5, <2>2
  <2>4. QED
    BY <1>1, <2>1, <2>3, BeneathIs
<1>6. QED
  BY <1>3, <1>4, <1>5 DEF r

\* Over the path of an edit, the tree is rebuilt from the new nodes.
LEMMA SpineOver ==
    ASSUME NEW root, NEW p \in Seq(Names), p # Root, NEW last
    PROVE  \A q \in Over(p) :
               /\ NodeAt(Spine(root, p, last)[1], q) = Spine(root, p, last)[Len(q) + 1]
               /\ q # Root =>
                      /\ IsDir(Get(Spine(root, p, last)[1], q))
                      /\ Get(Spine(root, p, last)[1], q) =
                             Dir(Get(Spine(root, p, last)[1], q).meta, Get(Spine(root, p, last)[1], q).node)
                      /\ Get(Spine(root, p, last)[1], q).meta =
                             IF Get(root, q) = None THEN 0 ELSE Get(root, q).meta
<1> DEFINE spine == Spine(root, p, last)
           r == spine[1]
           There(q) == /\ NodeAt(r, q) = spine[Len(q) + 1]
                       /\ q # Root =>
                              /\ IsDir(Get(r, q)) /\ Get(r, q) = Dir(Get(r, q).meta, Get(r, q).node)
                              /\ Get(r, q).meta = IF Get(root, q) = None THEN 0
                                                  ELSE Get(root, q).meta
           Fine == {q \in Seq(Names) : q \in Over(p) => There(q)}
<1>1. Len(p) \in Nat /\ Len(p) >= 1
  BY PathEnds
<1>2. \A k \in 1..Len(p) : spine[k] = IF k = Len(p) THEN last ELSE Rejoined(root, p, k, spine[k+1])
  BY <1>1, SpineIs
<1> HIDE DEF spine
<1>3. Root \in Fine
  <2>1. Root \in Seq(Names) /\ Len(Root) = 0
    BY EmptySeq DEF Root
  <2>2. QED
    BY <2>1, RootShows
<1>4. ASSUME NEW q \in Fine, NEW n \in Names
      PROVE  Append(q, n) \in Fine
  <2>1. q \in Seq(Names) /\ Append(q, n) \in Seq(Names) /\ Len(Append(q, n)) = Len(q) + 1
        /\ Len(q) \in Nat
    BY AppendProperties, LenProperties
  <2>2. SUFFICES ASSUME Append(q, n) \in Over(p)
                 PROVE  There(Append(q, n))
    BY <2>1
  <2>3. q \in Over(p) /\ n = p[Len(q) + 1] /\ Len(q) + 2 \in 1..Len(p)
    BY <2>1, <2>2, OverStep
  <2> DEFINE k == Len(q) + 1
             e == Lookup(NodeAt(root, q), n)
             d == Dir(IF e = None THEN 0 ELSE e.meta, spine[k+1])
  <2>4. k \in 1..Len(p) /\ k # Len(p) /\ k + 1 = Len(Append(q, n)) + 1
    BY <1>1, <2>1, <2>3
  <2>5. NodeAt(r, q) = spine[k]
    BY <2>3
  <2>6. Route(root, p)[k] = NodeAt(root, q)
    BY <2>3, RouteNodes
  <2>7. spine[k] = With(NodeAt(root, q), n, d)
    BY <1>2, <2>3, <2>4, <2>6 DEF Rejoined
  <2>8. Get(r, Append(q, n)) = d
    BY <2>1, <2>5, <2>7, GetStep, WithShows
  <2>9. Get(root, Append(q, n)) = e
    BY <2>1, GetStep
  <2>10. IsDir(d) /\ d = Dir(d.meta, d.node) /\ d.node = spine[k+1] /\ d.meta = IF e = None THEN 0 ELSE e.meta
    BY DEF Dir, IsDir
  <2>11. NodeAt(r, Append(q, n)) = spine[k+1]
    BY <2>8, <2>10 DEF NodeAt, NodeOf
  <2>12. QED
    BY <2>4, <2>8, <2>9, <2>10, <2>11
<1>5. Fine = Seq(Names)
  <2>1. Fine \in SUBSET Seq(Names)
    OBVIOUS
  <2> HIDE DEF Fine
  <2>2. QED
    BY <1>3, <1>4, <2>1, PathsAll
<1>6. \A q \in Over(p) : There(q)
  <2>1. Over(p) \subseteq Fine
    BY <1>5 DEF Over
  <2>2. QED
    BY <2>1
<1>7. QED
  BY <1>6 DEF spine

\* Neither path is above the other.
Apart(p, q) == ~Beneath(p, q) /\ ~Beneath(q, p)

\* Apart from the path of an edit, the tree stays as it is.
LEMMA SpineApart ==
    ASSUME NEW root, NEW p \in Seq(Names), p # Root, NEW last,
           \A q \in Over(p) : \A x : Len(q) + 1 = Len(p) /\ x # p[Len(p)] =>
               Lookup(last, x) = Lookup(NodeAt(root, q), x)
    PROVE  \A q \in Seq(Names) : Apart(p, q) =>
               Get(Spine(root, p, last)[1], q) = Get(root, q)
<1> DEFINE spine == Spine(root, p, last)
           r == spine[1]
           Fine == {q \in Seq(Names) : Apart(p, q) => Get(r, q) = Get(root, q)}
<1>1. Len(p) \in Nat /\ Len(p) >= 1
  BY PathEnds
<1>2. \A k \in 1..Len(p) : spine[k] = IF k = Len(p) THEN last ELSE Rejoined(root, p, k, spine[k+1])
  BY <1>1, SpineIs
<1>3. \A q \in Over(p) : NodeAt(r, q) = spine[Len(q) + 1]
  BY SpineOver
<1> HIDE DEF spine
<1>4. Root \in Fine
  <2>1. Root \in Seq(Names) /\ Len(Root) = 0
    BY EmptySeq DEF Root
  <2>2. Beneath(p, Root)
    BY RootOver
  <2>3. QED
    BY <2>1, <2>2 DEF Apart
<1>5. ASSUME NEW q \in Fine, NEW n \in Names
      PROVE  Append(q, n) \in Fine
  <2>1. q \in Seq(Names) /\ Append(q, n) \in Seq(Names) /\ Len(q) \in Nat
    BY AppendProperties, LenProperties
  <2>2. SUFFICES ASSUME Apart(p, Append(q, n))
                 PROVE  Get(r, Append(q, n)) = Get(root, Append(q, n))
    BY <2>1
  <2>3. /\ Get(r, Append(q, n)) = Lookup(NodeAt(r, q), n)
        /\ Get(root, Append(q, n)) = Lookup(NodeAt(root, q), n)
    BY <2>1, GetStep
  <2>4. ~Beneath(q, p)
    BY <2>1, <2>2, OverStep DEF Apart
  <2>5. CASE Apart(p, q)
    BY <2>3, <2>5 DEF NodeAt
  <2>6. CASE ~Apart(p, q)
    <3>1. q \in Over(p)
      BY <2>1, <2>4, <2>6, BeneathOrder DEF Apart, Over
    <3>2. n # p[Len(q) + 1]
      BY <2>1, <2>2, <3>1, OverStep DEF Apart
    <3>3. Len(q) + 1 \in 1..Len(p) /\ NodeAt(r, q) = spine[Len(q) + 1]
          /\ Route(root, p)[Len(q) + 1] = NodeAt(root, q)
      BY <1>3, <3>1, OverIs, RouteNodes
    <3>4. CASE Len(q) + 1 = Len(p)
      <4>1. NodeAt(r, q) = last
        BY <1>2, <3>3, <3>4
      <4>2. QED
        BY <2>3, <3>1, <3>2, <3>4, <4>1
    <3>5. CASE Len(q) + 1 # Len(p)
      <4>1. NodeAt(r, q) = Rejoined(root, p, Len(q) + 1, spine[Len(q) + 1 + 1])
        BY <1>2, <3>3, <3>5
      <4>2. Lookup(NodeAt(r, q), n) = Lookup(NodeAt(root, q), n)
        BY <3>2, <3>3, <4>1, WithShows DEF Rejoined
      <4>3. QED
        BY <2>3, <4>2
    <3>6. QED
      BY <3>4, <3>5
  <2>7. QED
    BY <2>5, <2>6
<1>6. Fine = Seq(Names)
  <2>1. Fine \in SUBSET Seq(Names)
    OBVIOUS
  <2> HIDE DEF Fine
  <2>2. QED
    BY <1>4, <1>5, <2>1, PathsAll
<1>7. QED
  BY <1>6 DEF spine

\* A directory on the way to a path keeps its metadata, or is made.
OnTheWay(old, new, q) ==
    /\ Get(old, q) = None \/ IsDir(Get(old, q))
    /\ IsDir(Get(new, q)) /\ Get(new, q) = Dir(Get(new, q).meta, Get(new, q).node)
    /\ Get(new, q).meta = IF Get(old, q) = None THEN 0 ELSE Get(old, q).meta

\* The tree new is old with e at p, and beneath p what e has there; e is None when
\* p is cleared.  Directories on the way are made or stay, all else stays.
Replaced(old, new, p, e) ==
    /\ Get(new, p) = e
    /\ \A q \in Seq(Names) : Apart(p, q) => Get(new, q) = Get(old, q)
    /\ \A s \in Seq(Names) : s # Root => Get(new, p \o s) = Get(NodeOf(e), s)
    /\ \A q \in Over(p) : q # Root => OnTheWay(old, new, q)

IsWriter(w) == w = [f \in {"known", "root", "made", "error"} |-> w[f]]

\* The nodes over the path of an edit are made by it.
NodesOver(root, p, X) == \A q \in Over(p) : NodeAt(root, q) \in X \cup {Empty}
MadeOver(w, p) == NodesOver(w.root, p, w.made)

\* An edit that went through, and one that did not.
Carried(w, w2, p, e) ==
    /\ w2.error = "none"
    /\ Readable(w, p) /\ ~Blocked(w.root, p)
    /\ Replaced(w.root, w2.root, p, e)
    /\ w.made \subseteq w2.made
    /\ MadeOver(w2, p)

Refused(w, w2, why) == w2.error = why /\ w2.root = w.root /\ w2.made = w.made

\* What a failure and a rebuilt path change of a writer, field by field.
LEMMA WriterFields ==
    ASSUME NEW w, IsWriter(w)
    PROVE  /\ \A why : /\ IsWriter(Failed(w, why)) /\ Failed(w, why).known = w.known
                       /\ Refused(w, Failed(w, why), why)
           /\ \A p, last :
                  LET w2 == Rebuilt(w, p, last)
                  IN  /\ IsWriter(w2) /\ w2.known = w.known /\ w2.error = w.error
                      /\ w2.root = Spine(w.root, p, last)[1]
                      /\ w2.made = w.made \cup (SX!Range(Spine(w.root, p, last)) \ {Empty})
<1>1. \A x, y : LET v == [w EXCEPT !.root = x, !.made = w.made \cup y] IN
          /\ IsWriter(v) /\ v.known = w.known /\ v.error = w.error
          /\ v.root = x /\ v.made = w.made \cup y
  BY DEF IsWriter
<1>2. \A why : /\ IsWriter(Failed(w, why)) /\ Failed(w, why).known = w.known
               /\ Refused(w, Failed(w, why), why)
  BY DEF Failed, IsWriter, Refused
<1>3. ASSUME NEW p, NEW last
      PROVE  LET w2 == Rebuilt(w, p, last)
             IN  /\ IsWriter(w2) /\ w2.known = w.known /\ w2.error = w.error
                 /\ w2.root = Spine(w.root, p, last)[1]
                 /\ w2.made = w.made \cup (SX!Range(Spine(w.root, p, last)) \ {Empty})
  BY <1>1 DEF Rebuilt
<1>4. QED
  BY <1>2, <1>3

\* The last node of a route with one entry changed gives the tree with the entry
\* changed.
LEMMA RebuiltIs ==
    ASSUME NEW w, IsWriter(w), w.error = "none",
           NEW p \in Seq(Names), p # Root, NEW last, NEW e,
           Lookup(last, p[Len(p)]) = e,
           \A x : x # p[Len(p)] => Lookup(last, x) = Lookup(Route(w.root, p)[Len(p)], x),
           Readable(w, p), ~Blocked(w.root, p)
    PROVE  /\ IsWriter(Rebuilt(w, p, last)) /\ Rebuilt(w, p, last).known = w.known
           /\ Carried(w, Rebuilt(w, p, last), p, e)
<1> DEFINE w2 == Rebuilt(w, p, last)
           spine == Spine(w.root, p, last)
<1>1. /\ IsWriter(w2) /\ w2.known = w.known /\ w2.error = "none"
      /\ w2.root = spine[1] /\ w2.made = w.made \cup (SX!Range(spine) \ {Empty})
  BY WriterFields
<1>2. Len(p) \in Nat /\ Len(p) >= 1
  BY PathEnds
<1>3. /\ DOMAIN spine = 1..Len(p)
      /\ spine[Len(p)] = last
  BY <1>2, SpineIs
<1>4. PICK q \in Seq(Names), n \in Names : p = Append(q, n)
  BY SequenceEmptyOrAppend DEF Root
<1>5. q \in Over(p) /\ Len(q) + 1 = Len(p) /\ n = p[Len(p)] /\ Len(q) \in Nat
  <2>1. Over(p) = Over(q) \cup {q}
    BY <1>4, OverAppend
  <2>2. QED
    BY <1>4, <2>1, AppendProperties, LenProperties
<1>6. \A u \in Over(p) : /\ NodeAt(w2.root, u) = spine[Len(u) + 1]
                         /\ u # Root =>
                                /\ IsDir(Get(w2.root, u))
                                /\ Get(w2.root, u) = Dir(Get(w2.root, u).meta, Get(w2.root, u).node)
                                /\ Get(w2.root, u).meta = IF Get(w.root, u) = None THEN 0
                                                          ELSE Get(w.root, u).meta
  BY <1>1, SpineOver
<1>7. Get(w2.root, p) = e
  <2>1. Get(w2.root, p) = Lookup(NodeAt(w2.root, q), n)
    BY <1>4, GetStep
  <2>2. NodeAt(w2.root, q) = last
    BY <1>3, <1>5, <1>6
  <2>3. QED
    BY <1>5, <2>1, <2>2
<1>8. \A u \in Seq(Names) : Apart(p, u) => Get(w2.root, u) = Get(w.root, u)
  <2>1. ASSUME NEW u \in Over(p), NEW x, Len(u) + 1 = Len(p), x # p[Len(p)]
        PROVE  Lookup(last, x) = Lookup(NodeAt(w.root, u), x)
    <3>1. NodeAt(w.root, u) = Route(w.root, p)[Len(p)]
      BY <2>1, RouteNodes
    <3>2. QED
      BY <2>1, <3>1
  <2>2. QED
    BY <1>1, <2>1, SpineApart
<1>9. \A s \in Seq(Names) : s # Root => Get(w2.root, p \o s) = Get(NodeOf(e), s)
  BY <1>7, GetConcat DEF NodeAt
<1>10. \A u \in Over(p) : u # Root => Get(w.root, u) = None \/ IsDir(Get(w.root, u))
  BY BlockedIs
<1>11. MadeOver(w2, p)
  <2>1. ASSUME NEW u \in Over(p)
        PROVE  NodeAt(w2.root, u) \in w2.made \cup {Empty}
    <3>1. Len(u) + 1 \in 1..Len(p)
      BY OverIs
    <3>2. spine[Len(u) + 1] \in SX!Range(spine)
      BY <1>3, <3>1 DEF SX!Range
    <3>3. QED
      BY <1>1, <1>6, <3>2
  <2>2. QED
    BY <2>1 DEF MadeOver, NodesOver
<1>12. Replaced(w.root, w2.root, p, e)
  BY <1>6, <1>7, <1>8, <1>9, <1>10 DEF Replaced, OnTheWay
<1>13. QED
  BY <1>1, <1>11, <1>12 DEF Carried

\* insert is refused where a node is missing or the path is blocked; otherwise it carries
\* the entry to its path and leaves everything apart from it alone.
LEMMA InsertIs ==
    ASSUME NEW w, IsWriter(w), NEW p \in Seq(Names), p # Root, NEW e
    PROVE  LET w2 == Insert(w, p, e) IN
           /\ IsWriter(w2) /\ w2.known = w.known
           /\ w.error # "none" => w2 = w
           /\ w.error = "none" =>
                 \/ ~Readable(w, p) /\ Refused(w, w2, "NodeMissing")
                 \/ Readable(w, p) /\ Blocked(w.root, p) /\ Refused(w, w2, "NotADirectory")
                 \/ Carried(w, w2, p, e)
<1>1. CASE w.error = "none" /\ Readable(w, p) /\ ~Blocked(w.root, p)
  <2> DEFINE node == Route(w.root, p)[Len(p)]
             last == With(node, p[Len(p)], e)
  <2>1. Insert(w, p, e) = Rebuilt(w, p, last)
    BY <1>1 DEF Insert
  <2>2. Lookup(last, p[Len(p)]) = e /\ \A x : x # p[Len(p)] => Lookup(last, x) = Lookup(node, x)
    BY WithShows
  <2> HIDE DEF last
  <2>3. QED
    BY <1>1, <2>1, <2>2, RebuiltIs
<1>2. CASE w.error # "none"
  BY <1>2 DEF Insert
<1>3. CASE w.error = "none" /\ ~Readable(w, p)
  <2>1. Insert(w, p, e) = Failed(w, "NodeMissing")
    BY <1>3 DEF Insert
  <2>2. QED
    BY <1>3, <2>1, WriterFields
<1>4. CASE w.error = "none" /\ Readable(w, p) /\ Blocked(w.root, p)
  <2>1. Insert(w, p, e) = Failed(w, "NotADirectory")
    BY <1>4 DEF Insert
  <2>2. QED
    BY <1>4, <2>1, WriterFields
<1>5. QED
  BY <1>1, <1>2, <1>3, <1>4

\* An entry that is there is not blocked.
LEMMA ShownIsOpen ==
    ASSUME NEW root, NEW p \in Seq(Names), Get(root, p) # None
    PROVE  ~Blocked(root, p)
<1>1. ASSUME NEW q \in Over(p)
      PROVE  IsDir(Get(root, q))
  <2>1. q \in Seq(Names) /\ q # p /\ Beneath(p, q)
    BY DEF Over
  <2>2. QED
    BY <2>1, GetBeneath
<1>2. QED
  BY <1>1, BlockedIs

\* remove is refused where a node is missing or nothing is there; otherwise it takes out
\* the entry with what lies beneath it.
LEMMA RemoveIs ==
    ASSUME NEW w, IsWriter(w), NEW p \in Seq(Names), p # Root
    PROVE  LET w2 == Remove(w, p) IN
           /\ IsWriter(w2) /\ w2.known = w.known
           /\ w.error # "none" => w2 = w
           /\ w.error = "none" =>
                 \/ ~Readable(w, p) /\ Refused(w, w2, "NodeMissing")
                 \/ Readable(w, p) /\ Get(w.root, p) = None /\ Refused(w, w2, "NotFound")
                 \/ Get(w.root, p) # None /\ Carried(w, w2, p, None)
<1>1. CASE w.error = "none" /\ Readable(w, p) /\ Get(w.root, p) # None
  <2> DEFINE node == Route(w.root, p)[Len(p)]
             last == Without(node, p[Len(p)])
  <2>1. Remove(w, p) = Rebuilt(w, p, last)
    BY <1>1 DEF Remove
  <2>2. Lookup(last, p[Len(p)]) = None /\ \A x : x # p[Len(p)] => Lookup(last, x) = Lookup(node, x)
    BY WithoutShows
  <2>3. ~Blocked(w.root, p)
    BY <1>1, ShownIsOpen
  <2> HIDE DEF last
  <2>4. QED
    BY <1>1, <2>1, <2>2, <2>3, RebuiltIs
<1>2. CASE w.error # "none"
  BY <1>2 DEF Remove
<1>3. CASE w.error = "none" /\ ~Readable(w, p)
  <2>1. Remove(w, p) = Failed(w, "NodeMissing")
    BY <1>3 DEF Remove
  <2>2. QED
    BY <1>3, <2>1, WriterFields
<1>4. CASE w.error = "none" /\ Readable(w, p) /\ Get(w.root, p) = None
  <2>1. Remove(w, p) = Failed(w, "NotFound")
    BY <1>4 DEF Remove
  <2>2. QED
    BY <1>4, <2>1, WriterFields
<1>5. QED
  BY <1>1, <1>2, <1>3, <1>4

--------------------------------------------------------------------------------
(* The same entry at every path of a set *)

FinitePaths(ps) == IsFiniteSet(ps) /\ ps \subseteq Seq(Names)

\* A finite set of paths without one of them.
LEMMA OnePathLess ==
    ASSUME NEW S, FinitePaths(S), NEW p \in S
    PROVE  FinitePaths(S \ {p}) /\ Cardinality(S \ {p}) = Cardinality(S) - 1
BY FS_RemoveElement DEF FinitePaths

\* A finite set of paths has a longest one.
LEMMA LongestOf ==
    ASSUME NEW ps, FinitePaths(ps), ps # {}
    PROVE  \E p \in ps : \A q \in ps : Len(q) <= Len(p)
<1> DEFINE Has(S) == \E p \in S : \A q \in S : Len(q) <= Len(p)
           Fine == {n \in Nat : \A S : FinitePaths(S) /\ Cardinality(S) = n + 1 => Has(S)}
<1>0. \A p \in Seq(Names) : Len(p) \in Nat
  BY LenProperties
<1>1. 0 \in Fine
  <2>1. ASSUME NEW S, FinitePaths(S), Cardinality(S) = 1
        PROVE  Has(S)
    <3>1. PICK p : S = {p}
      BY <2>1, FS_Singleton DEF FinitePaths
    <3>2. p \in S /\ Len(p) \in Nat
      BY <1>0, <2>1, <3>1 DEF FinitePaths
    <3>3. QED
      BY <3>1, <3>2
  <2>2. QED
    BY <2>1
<1>2. ASSUME NEW n \in Fine
      PROVE  n + 1 \in Fine
  <2>1. ASSUME NEW S, FinitePaths(S), Cardinality(S) = n + 1 + 1
        PROVE  Has(S)
    <3>0. n \in Nat /\ n + 1 + 1 - 1 = n + 1 /\ n + 1 + 1 # 0
      OBVIOUS
    <3>1. S # {}
      BY <2>1, <3>0, FS_EmptySet
    <3>2. PICK x \in S : TRUE
      BY <3>1
    <3>3. FinitePaths(S \ {x}) /\ Cardinality(S \ {x}) = n + 1
      BY <2>1, <3>0, OnePathLess
    <3>4. Has(S \ {x})
      BY <3>3
    <3>5. PICK p \in S \ {x} : \A q \in S \ {x} : Len(q) <= Len(p)
      BY <3>4
    <3>6. Len(p) \in Nat /\ Len(x) \in Nat /\ p \in S
      BY <1>0, <2>1 DEF FinitePaths
    <3>7. CASE Len(x) <= Len(p)
      <4>1. \A q \in S : Len(q) <= Len(p)
        BY <3>5, <3>7
      <4>2. QED
        BY <3>6, <4>1
    <3>8. CASE ~(Len(x) <= Len(p))
      <4>1. \A q \in S : Len(q) \in Nat
        BY <1>0, <2>1 DEF FinitePaths
      <4>2. \A q \in S : Len(q) <= Len(x)
        BY <3>5, <3>6, <3>8, <4>1
      <4>3. QED
        BY <4>2
    <3>9. QED
      BY <3>7, <3>8
  <2> HIDE DEF Has
  <2>2. QED
    BY <2>1
<1>3. Fine = Nat
  <2>1. Fine \in SUBSET Nat
    OBVIOUS
  <2> HIDE DEF Fine
  <2>2. QED
    BY <1>1, <1>2, <2>1, NumbersAll
<1>4. Cardinality(ps) \in Nat /\ Cardinality(ps) # 0
  BY FS_CardinalityType, FS_EmptySet DEF FinitePaths
<1>5. Cardinality(ps) - 1 \in Nat /\ Cardinality(ps) = Cardinality(ps) - 1 + 1
  BY <1>4
<1> HIDE DEF Has
<1>6. Cardinality(ps) - 1 \in Fine => Has(ps)
  BY <1>5
<1>7. Has(ps)
  BY <1>3, <1>5, <1>6
<1>8. QED
  BY <1>7 DEF Has

Ordered(ps, s, n) ==
    /\ s \in [1..n -> ps]
    /\ SX!Range(s) = ps
    /\ \A i, j \in DOMAIN s : i < j => Len(s[i]) <= Len(s[j])

\* Paths can be put in order, those above others first.
LEMMA OrderExists ==
    ASSUME NEW ps, FinitePaths(ps)
    PROVE  \E s : Ordered(ps, s, Cardinality(ps))
<1> DEFINE Has(S) == \E s : Ordered(S, s, Cardinality(S))
           Fine == {n \in Nat : \A S : FinitePaths(S) /\ Cardinality(S) = n => Has(S)}
<1>1. 0 \in Fine
  <2>1. ASSUME NEW S, FinitePaths(S), Cardinality(S) = 0
        PROVE  Has(S)
    <3>1. S = {}
      BY <2>1, FS_EmptySet DEF FinitePaths
    <3> DEFINE s == [i \in 1..0 |-> i]
    <3>2. 1..0 = {}
      OBVIOUS
    <3>3. Ordered({}, s, 0)
      BY <3>2 DEF Ordered, SX!Range
    <3>4. QED
      BY <2>1, <3>1, <3>3
  <2>2. QED
    BY <2>1
<1>2. ASSUME NEW n \in Fine
      PROVE  n + 1 \in Fine
  <2>1. ASSUME NEW S, FinitePaths(S), Cardinality(S) = n + 1
        PROVE  Has(S)
    <3>1. S # {}
      BY <2>1, FS_EmptySet
    <3>2. PICK p \in S : \A q \in S : Len(q) <= Len(p)
      BY <2>1, <3>1, LongestOf
    <3>3. FinitePaths(S \ {p}) /\ Cardinality(S \ {p}) = n
      BY <2>1, FS_RemoveElement DEF FinitePaths
    <3>4. PICK s : Ordered(S \ {p}, s, n)
      BY <3>3
    <3> DEFINE t == [i \in 1..(n+1) |-> IF i = n + 1 THEN p ELSE s[i]]
    <3>5. /\ DOMAIN s = 1..n /\ \A i \in 1..n : s[i] \in S \ {p}
          /\ \A x : x \in S \ {p} <=> \E i \in 1..n : x = s[i]
          /\ \A i, j \in 1..n : i < j => Len(s[i]) <= Len(s[j])
      BY <3>4 DEF Ordered, SX!Range
    <3>6. \A i \in 1..(n+1) : i = n + 1 \/ i \in 1..n
      OBVIOUS
    <3>7. t \in [1..(n+1) -> S] /\ DOMAIN t = 1..(n+1)
      BY <3>5, <3>6
    <3>8. SX!Range(t) = S
      <4>1. n + 1 \in 1..(n+1) /\ \A i \in 1..n : i \in 1..(n+1) /\ i # n + 1
        OBVIOUS
      <4>2. \A x \in S : \E i \in 1..(n+1) : x = t[i]
        <5>1. t[n+1] = p
          BY <4>1
        <5>2. \A x \in S \ {p} : \E i \in 1..n : x = t[i]
          BY <3>5, <4>1
        <5>3. QED
          BY <4>1, <5>1, <5>2
      <4>3. \A i \in 1..(n+1) : t[i] \in S
        BY <3>7
      <4> HIDE DEF t
      <4>4. QED
        BY <3>7, <4>2, <4>3 DEF SX!Range
    <3>9. \A i, j \in 1..(n+1) : i < j => Len(t[i]) <= Len(t[j])
      <4>1. ASSUME NEW i \in 1..(n+1), NEW j \in 1..(n+1), i < j
            PROVE  Len(t[i]) <= Len(t[j])
        <5>1. i \in 1..n /\ i # n + 1 /\ t[i] = s[i] /\ s[i] \in S
          BY <3>5, <4>1
        <5>2. CASE j = n + 1
          BY <3>2, <5>1, <5>2
        <5>3. CASE j # n + 1
          <6>1. j \in 1..n /\ t[j] = s[j]
            BY <5>3
          <6>2. QED
            BY <3>5, <4>1, <5>1, <6>1
        <5>4. QED
          BY <5>2, <5>3
      <4>2. QED
        BY <4>1
    <3>10. Ordered(S, t, n + 1)
      BY <3>7, <3>8, <3>9 DEF Ordered
    <3>11. QED
      BY <2>1, <3>10
  <2> HIDE DEF Has
  <2>2. QED
    BY <2>1
<1>3. Fine = Nat
  <2>1. Fine \in SUBSET Nat
    OBVIOUS
  <2> HIDE DEF Fine
  <2>2. QED
    BY <1>1, <1>2, <2>1, NumbersAll
<1>4. Cardinality(ps) \in Nat
  BY FS_CardinalityType DEF FinitePaths
<1> HIDE DEF Has
<1>5. Has(ps)
  BY <1>3, <1>4
<1>6. QED
  BY <1>5 DEF Has

\* InOrder lists every path of the set once, none before a shorter one.
LEMMA InOrderIs ==
    ASSUME NEW ps, FinitePaths(ps)
    PROVE  /\ Cardinality(ps) \in Nat
           /\ \A i \in 1..Cardinality(ps) : InOrder(ps)[i] \in ps
           /\ \A p \in ps : \E i \in 1..Cardinality(ps) : p = InOrder(ps)[i]
           /\ \A i, j \in 1..Cardinality(ps) : i < j => Len(InOrder(ps)[i]) <= Len(InOrder(ps)[j])
<1>1. \E s : Ordered(ps, s, Cardinality(ps))
  BY OrderExists
<1>2. \E s \in [1..Cardinality(ps) -> ps] :
          SX!Range(s) = ps /\ \A i, j \in DOMAIN s : i < j => Len(s[i]) <= Len(s[j])
  BY <1>1 DEF Ordered
<1>3. Ordered(ps, InOrder(ps), Cardinality(ps))
  BY <1>2, Zenon DEF InOrder, Ordered
<1> DEFINE s == InOrder(ps)
<1> HIDE DEF s
<1>4. Ordered(ps, s, Cardinality(ps))
  BY <1>3 DEF s
<1>5. DOMAIN s = 1..Cardinality(ps) /\ Cardinality(ps) \in Nat
  BY <1>4, FS_CardinalityType DEF Ordered, FinitePaths
<1>6. QED
  BY <1>4, <1>5 DEF Ordered, SX!Range, s

InsertsTo(w, ps, e, f, m) ==
    f = [k \in 0..m |-> IF k = 0 THEN w ELSE Insert(f[k-1], InOrder(ps)[k], e)]

\* The results after the first path, after the second, and so on are defined.
LEMMA InsertsExist ==
    ASSUME NEW w, NEW ps, NEW e, NEW m \in Nat
    PROVE  \E f : InsertsTo(w, ps, e, f, m)
<1> DEFINE Fine == {i \in Nat : \E f : InsertsTo(w, ps, e, f, i)}
<1>1. 0 \in Fine
  <2> DEFINE g == [k \in 0..0 |-> w]
  <2>1. \A k \in 0..0 : k = 0
    OBVIOUS
  <2>2. g = [k \in 0..0 |-> IF k = 0 THEN w ELSE Insert(g[k-1], InOrder(ps)[k], e)]
    BY <2>1, Zenon
  <2>3. InsertsTo(w, ps, e, g, 0)
    BY <2>2 DEF InsertsTo
  <2>4. QED
    BY <2>3
<1>2. ASSUME NEW i \in Fine
      PROVE  i + 1 \in Fine
  <2>1. PICK f : InsertsTo(w, ps, e, f, i)
    OBVIOUS
  <2>2. i \in Nat /\ i + 1 \in Nat
    OBVIOUS
  <2> HIDE DEF Fine
  <2> DEFINE g == [k \in 0..(i+1) |-> IF k = 0 THEN w ELSE Insert(f[k-1], InOrder(ps)[k], e)]
  <2>3. \A k \in 0..i : f[k] = IF k = 0 THEN w ELSE Insert(f[k-1], InOrder(ps)[k], e)
    BY <2>1 DEF InsertsTo
  <2>4. \A k \in 0..i : g[k] = f[k]
    BY <2>2, <2>3
  <2>5. \A k \in 0..(i+1) : k = 0 \/ k - 1 \in 0..i
    BY <2>2
  <2>6. g = [k \in 0..(i+1) |-> IF k = 0 THEN w ELSE Insert(g[k-1], InOrder(ps)[k], e)]
    BY <2>4, <2>5, Zenon
  <2>7. InsertsTo(w, ps, e, g, i + 1)
    BY <2>6 DEF InsertsTo
  <2>8. QED
    BY <2>2, <2>7 DEF Fine
<1>3. Fine = Nat
  <2>1. Fine \in SUBSET Nat
    OBVIOUS
  <2> HIDE DEF Fine
  <2>2. QED
    BY <1>1, <1>2, <2>1, NumbersAll
<1>4. QED
  BY <1>3

\* The recursion of InsertAll, unfolded: one insert per path, in order.
LEMMA InsertAllSteps ==
    ASSUME NEW w, NEW ps, FinitePaths(ps), NEW e
    PROVE  \E done : /\ done[0] = w
                     /\ \A k \in 1..Cardinality(ps) :
                            done[k] = Insert(done[k-1], InOrder(ps)[k], e)
                     /\ done[Cardinality(ps)] = InsertAll(w, ps, e)
<1>1. Cardinality(ps) \in Nat
  BY FS_CardinalityType DEF FinitePaths
<1>2. \E f : InsertsTo(w, ps, e, f, Cardinality(ps))
  BY <1>1, InsertsExist
<1> DEFINE g == CHOOSE f : f = [k \in 0..Cardinality(ps) |->
                                    IF k = 0 THEN w ELSE Insert(f[k-1], InOrder(ps)[k], e)]
<1>3. InsertAll(w, ps, e) = g[Cardinality(ps)]
  BY Zenon DEF InsertAll
<1>4. g = [k \in 0..Cardinality(ps) |-> IF k = 0 THEN w ELSE Insert(g[k-1], InOrder(ps)[k], e)]
  BY <1>2, Zenon DEF InsertsTo
<1> HIDE DEF g
<1>5. \A k \in 0..Cardinality(ps) : g[k] = IF k = 0 THEN w ELSE Insert(g[k-1], InOrder(ps)[k], e)
  BY <1>4, Zenon
<1>6. 0 \in 0..Cardinality(ps) /\ \A k \in 1..Cardinality(ps) : k \in 0..Cardinality(ps) /\ k # 0
  BY <1>1
<1>7. QED
  BY <1>3, <1>5, <1>6

\* The tree new is old with e, which is no directory, at the paths ps, none of them
\* above another.
Placed(old, new, ps, e) ==
    /\ \A p, q \in ps : p \notin Over(q)
    /\ \A p \in ps : Get(new, p) = e
    /\ \A q \in Seq(Names) \ {Root} :
           /\ (\A p \in ps : Apart(p, q)) => Get(new, q) = Get(old, q)
           /\ (\E p \in ps : q \in Over(p)) => OnTheWay(old, new, q)

\* Two paths are equal, one is over the other, or they are apart; over is an order, and the
\* paths over a third one are in line.
LEMMA Position ==
    /\ \A p, q \in Seq(Names) : p = q \/ q \in Over(p) \/ p \in Over(q) \/ Apart(p, q)
    /\ \A p, q \in Seq(Names) : p \in Over(q) => q \notin Over(p) /\ ~Apart(p, q) /\ p # q
    /\ \A p, q \in Seq(Names) : Apart(p, q) => Apart(q, p) /\ q # p
    /\ \A p, q, r \in Seq(Names) : p \in Over(q) /\ q \in Over(r) => p \in Over(r)
    /\ \A p, q, r \in Seq(Names) :
           p \in Over(r) /\ q \in Over(r) => p = q \/ p \in Over(q) \/ q \in Over(p)
BY BeneathOrder DEF Over, Apart

\* Nothing is seen beneath the paths a plain entry was placed at.
LEMMA PlacedBeneath ==
    ASSUME NEW old, NEW new, NEW ps, NEW e, Placed(old, new, ps, e), ~IsDir(e),
           NEW p \in ps, p \in Seq(Names), NEW q \in Seq(Names), p \in Over(q)
    PROVE  Get(new, q) = None
<1>1. ~IsDir(Get(new, p)) /\ q # p /\ Beneath(q, p)
  BY DEF Placed, Over
<1>2. QED
  BY <1>1, GetBeneath

\* What is known of the nodes over a path stays known through an edit elsewhere.
LEMMA OverKept ==
    ASSUME NEW w, NEW w2, NEW p \in Seq(Names), NEW e, Carried(w, w2, p, e),
           NEW q \in Seq(Names), p \in Over(q) => NodeOf(e) = Empty,
           NEW X, NEW Y, X \subseteq Y, w2.made \subseteq Y, NodesOver(w.root, q, X)
    PROVE  NodesOver(w2.root, q, Y)
<1>1. ASSUME NEW u \in Over(q)
      PROVE  NodeAt(w2.root, u) \in Y \cup {Empty}
  <2>1. u \in Seq(Names)
    BY DEF Over
  <2>2. CASE u \in Over(p)
    BY <2>2 DEF Carried, MadeOver, NodesOver
  <2>3. CASE u = p
    <3>1. NodeAt(w2.root, u) = Empty
      BY <2>3 DEF Carried, Replaced, NodeAt
    <3>2. QED
      BY <3>1
  <2>4. CASE p \in Over(u)
    <3>1. p \in Over(q)
      BY <2>1, <2>4, Position
    <3>2. NodeAt(w2.root, p) = Empty
      BY <3>1 DEF Carried, Replaced, NodeAt
    <3>3. u # p /\ Beneath(u, p)
      BY <2>4 DEF Over
    <3>4. NodeAt(w2.root, u) = Empty
      BY <2>1, <3>2, <3>3, GetBeneath
    <3>5. QED
      BY <3>4
  <2>5. CASE Apart(p, u)
    <3>1. NodeAt(w2.root, u) = NodeAt(w.root, u)
      BY <2>1, <2>5 DEF Carried, Replaced, NodeAt
    <3>2. QED
      BY <3>1 DEF NodesOver
  <2>6. QED
    BY <2>1, <2>2, <2>3, <2>4, <2>5, Position
<1>2. QED
  BY <1>1 DEF NodesOver

\* One path more.
LEMMA PlacedMore ==
    ASSUME NEW old, NEW r, NEW new, NEW ps \in SUBSET (Seq(Names) \ {Root}), NEW e,
           ~IsDir(e), e # None,
           Placed(old, r, ps, e),
           NEW p \in Seq(Names) \ {Root}, Replaced(r, new, p, e),
           ~Blocked(r, p), \A q \in ps : p \notin Over(q)
    PROVE  Placed(old, new, ps \cup {p}, e)
<1>1. \A q \in ps : q \notin Over(p)
  <2>1. ASSUME NEW q \in ps, q \in Over(p)
        PROVE  FALSE
    <3>1. Get(r, q) = e /\ q # Root
      BY DEF Placed
    <3>2. QED
      BY <2>1, <3>1, BlockedIs
  <2>2. QED
    BY <2>1
<1>2. \A x, y \in ps \cup {p} : x \notin Over(y)
  BY <1>1 DEF Placed, Over
<1>3. \A x \in ps \cup {p} : Get(new, x) = e
  <2>1. ASSUME NEW x \in ps, x # p
        PROVE  Get(new, x) = e
    <3>1. Apart(p, x) /\ Get(r, x) = e
      BY <1>1, <2>1, Position DEF Placed
    <3>2. QED
      BY <3>1 DEF Replaced
  <2>2. QED
    BY <2>1 DEF Replaced
<1>4. ASSUME NEW q \in Seq(Names) \ {Root}, \A x \in ps \cup {p} : Apart(x, q)
      PROVE  Get(new, q) = Get(old, q)
  BY <1>4 DEF Placed, Replaced
<1>5. ASSUME NEW q \in Seq(Names) \ {Root}, NEW x \in ps \cup {p}, q \in Over(x)
      PROVE  OnTheWay(old, new, q)
  <2>1. CASE \E y \in ps : q \in Over(y)
    <3>1. OnTheWay(old, r, q)
      BY <2>1 DEF Placed
    <3>2. q # p /\ p \notin Over(q)
      BY <1>2, <2>1, Position
    <3>3. CASE q \in Over(p)
      <4>1. OnTheWay(r, new, q)
        BY <3>3 DEF Replaced
      <4>2. QED
        BY <3>1, <4>1, NoneIs DEF OnTheWay
    <3>4. CASE Apart(p, q)
      <4>1. Get(new, q) = Get(r, q)
        BY <3>4 DEF Replaced
      <4>2. QED
        BY <3>1, <4>1 DEF OnTheWay
    <3>5. QED
      BY <3>2, <3>3, <3>4, Position
  <2>2. CASE ~\E y \in ps : q \in Over(y)
    <3>1. q \in Over(p)
      BY <1>5, <2>2
    <3>2. \A y \in ps : Apart(y, q)
      <4>1. ASSUME NEW y \in ps
            PROVE  Apart(y, q)
        <5>1. y # q /\ y \notin Over(q)
          BY <1>1, <3>1, Position
        <5>2. QED
          BY <2>2, <5>1, Position
      <4>2. QED
        BY <4>1
    <3>3. Get(r, q) = Get(old, q)
      BY <3>2 DEF Placed
    <3>4. OnTheWay(r, new, q)
      BY <3>1 DEF Replaced
    <3>5. QED
      BY <3>3, <3>4 DEF OnTheWay
  <2>3. QED
    BY <2>1, <2>2
<1>6. QED
  BY <1>2, <1>3, <1>4, <1>5 DEF Placed

\* The edit of many paths at once: what it needs to have been loaded, when it goes
\* through, and what the tree is then.
LEMMA InsertAllIs ==
    ASSUME NEW w, IsWriter(w), w.error = "none",
           NEW ps \in SUBSET (Seq(Names) \ {Root}), IsFiniteSet(ps),
           NEW e, ~IsDir(e), e # None
    PROVE  LET w2 == InsertAll(w, ps, e) IN
           /\ IsWriter(w2) /\ w2.known = w.known
           /\ (\A p \in ps : Readable(w, p)) => w2.error # "NodeMissing"
           /\ w2.error = "none" =>
                  /\ Placed(w.root, w2.root, ps, e)
                  /\ w.made \subseteq w2.made
                  /\ \A p \in ps : MadeOver(w2, p)
           /\ /\ \A p \in ps : Readable(w, p) /\ ~Blocked(w.root, p)
              /\ \A p, q \in ps : p \notin Over(q)
              => w2.error = "none"
<1> DEFINE order == InOrder(ps)
           n == Cardinality(ps)
           First(k) == {order[i] : i \in 1..k}
           AllRead == \A p \in ps : Readable(w, p)
           AllFree == /\ \A p \in ps : Readable(w, p) /\ ~Blocked(w.root, p)
                      /\ \A p, q \in ps : p \notin Over(q)
           Good(d, k) ==
               /\ IsWriter(d) /\ d.known = w.known
               /\ AllRead => d.error # "NodeMissing" /\ \A p \in ps : Readable(d, p)
               /\ d.error = "none" =>
                      /\ Placed(w.root, d.root, First(k), e)
                      /\ w.made \subseteq d.made
                      /\ \A p \in First(k) : MadeOver(d, p)
               /\ AllFree => d.error = "none"
<1>1. FinitePaths(ps)
  BY DEF FinitePaths
<1>2. /\ n \in Nat
      /\ \A i \in 1..n : order[i] \in ps
      /\ \A p \in ps : \E i \in 1..n : p = order[i]
      /\ \A i, j \in 1..n : i < j => Len(order[i]) <= Len(order[j])
  BY <1>1, InOrderIs
<1>3. PICK done : /\ done[0] = w
                  /\ \A k \in 1..n : done[k] = Insert(done[k-1], order[k], e)
                  /\ done[n] = InsertAll(w, ps, e)
  BY <1>1, InsertAllSteps
<1> DEFINE Fine == {k \in Nat : k <= n => Good(done[k], k)}
<1> HIDE DEF order, n
<1>4. 0 \in Fine
  <2>1. First(0) = {}
    OBVIOUS
  <2>2. Placed(w.root, w.root, {}, e)
    <3>1. \A q \in Seq(Names) \ {Root} : Get(w.root, q) = Get(w.root, q)
      OBVIOUS
    <3>2. QED
      BY <3>1 DEF Placed
  <2>3. Good(w, 0)
    BY <2>1, <2>2
  <2>4. QED
    BY <1>3, <2>3
<1>5. NodeOf(e) = Empty
  BY DEF NodeOf
<1>6. ASSUME NEW k \in Fine
      PROVE  k + 1 \in Fine
  <2>1. SUFFICES ASSUME k + 1 <= n PROVE Good(done[k+1], k + 1)
    OBVIOUS
  <2>2. k \in Nat /\ k <= n /\ k + 1 \in 1..n /\ k + 1 - 1 = k /\ \A i \in 1..k : i \in 1..n /\ i < k + 1
    BY <1>2, <2>1
  <2> DEFINE d == done[k]
             p == order[k+1]
             d2 == Insert(d, p, e)
  <2>3. Good(d, k) /\ done[k+1] = d2
    BY <1>3, <2>2
  <2>4. p \in ps /\ p \in Seq(Names) /\ p # Root
    BY <1>2, <2>2
  <2>5. First(k+1) = First(k) \cup {p} /\ First(k) \subseteq ps
    <3>1. \A i \in 1..(k+1) : i \in 1..k \/ i = k + 1
      BY <2>2
    <3>2. \A i \in 1..k : i \in 1..(k+1) /\ order[i] \in ps
      BY <1>2, <2>2
    <3>3. k + 1 \in 1..(k+1)
      BY <2>2
    <3>4. QED
      BY <3>1, <3>2, <3>3
  <2>6. \A q \in First(k) : p \notin Over(q)
    <3>1. ASSUME NEW i \in 1..k, p \in Over(order[i])
          PROVE  FALSE
      <4>1. order[i] \in ps /\ order[i] \in Seq(Names) /\ i \in 1..n /\ i < k + 1
        BY <1>2, <2>2
      <4>2. Len(order[i]) <= Len(p)
        BY <1>2, <2>2, <4>1
      <4>3. Len(p) < Len(order[i]) /\ Len(p) \in Nat /\ Len(order[i]) \in Nat
        BY <3>1, <4>1, OverIs
      <4>4. QED
        BY <4>2, <4>3
    <3>2. QED
      BY <3>1
  <2> HIDE DEF Good, First, Fine, d, p
  <2>7. /\ IsWriter(d2) /\ d2.known = d.known
        /\ d.error # "none" => d2 = d
        /\ d.error = "none" =>
              \/ ~Readable(d, p) /\ Refused(d, d2, "NodeMissing")
              \/ Readable(d, p) /\ Blocked(d.root, p) /\ Refused(d, d2, "NotADirectory")
              \/ Carried(d, d2, p, e)
    <3>1. IsWriter(d)
      BY <2>3 DEF Good
    <3>2. QED
      BY <2>4, <3>1, InsertIs
  <2> HIDE DEF d2
  <2>8. ASSUME d.error # "none"
        PROVE  Good(d2, k + 1)
    BY <2>3, <2>7, <2>8 DEF Good
  <2>9. ASSUME d.error = "none", Refused(d, d2, "NodeMissing"), ~Readable(d, p)
        PROVE  Good(d2, k + 1)
    <3>1. ~AllRead
      BY <2>3, <2>4, <2>9 DEF Good
    <3>2. QED
      BY <2>3, <2>7, <2>9, <3>1 DEF Good, Refused
  <2>10. ASSUME d.error = "none", Refused(d, d2, "NotADirectory"), Blocked(d.root, p)
         PROVE  Good(d2, k + 1)
    <3>1. ~AllFree
      <4>1. SUFFICES ASSUME AllFree PROVE FALSE
        OBVIOUS
      <4>2. Placed(w.root, d.root, First(k), e)
        BY <2>3, <2>10 DEF Good
      <4>3. PICK q \in Over(p) : q # Root /\ Get(d.root, q) # None /\ ~IsDir(Get(d.root, q))
        BY <2>4, <2>10, BlockedIs
      <4>4. q \in Seq(Names) /\ q \notin ps
        BY <2>4, <4>1, <4>3 DEF Over
      <4>5. ~\E x \in First(k) : q \in Over(x)
        BY <4>2, <4>3, <4>4 DEF Placed, OnTheWay
      <4>6. \A x \in First(k) : Apart(x, q)
        <5>1. ASSUME NEW x \in First(k)
              PROVE  Apart(x, q)
          <6>1. x \in ps /\ x \in Seq(Names) /\ x # q
            BY <2>5, <4>4
          <6>2. x \notin Over(q)
            BY <2>4, <4>1, <4>3, <4>4, <6>1, Position
          <6>3. QED
            BY <4>4, <4>5, <6>1, <6>2, Position
        <5>2. QED
          BY <5>1
      <4>7. Get(d.root, q) = Get(w.root, q)
        BY <4>2, <4>3, <4>4, <4>6 DEF Placed
      <4>8. Blocked(w.root, p)
        BY <2>4, <4>3, <4>7, BlockedIs
      <4>9. QED
        BY <2>4, <4>1, <4>8
    <3>2. AllRead => \A q \in ps : Readable(d2, q)
      BY <2>3, <2>7, <2>10 DEF Good, Refused, Readable
    <3>3. QED
      BY <2>3, <2>7, <2>10, <3>1, <3>2 DEF Good, Refused
  <2>11. ASSUME d.error = "none", Carried(d, d2, p, e)
         PROVE  Good(d2, k + 1)
    <3>1. Placed(w.root, d.root, First(k), e)
      BY <2>3, <2>11 DEF Good
    <3>2. Replaced(d.root, d2.root, p, e) /\ ~Blocked(d.root, p) /\ d2.error = "none"
      BY <2>11 DEF Carried
    <3>3. Placed(w.root, d2.root, First(k+1), e)
      <4>1. First(k) \in SUBSET (Seq(Names) \ {Root})
        BY <2>5
      <4>2. Placed(w.root, d2.root, First(k) \cup {p}, e)
        BY <2>4, <2>6, <3>1, <3>2, <4>1, PlacedMore
      <4>3. QED
        BY <2>5, <4>2
    <3>4. w.made \subseteq d2.made /\ d.made \subseteq d2.made
      BY <2>3, <2>11 DEF Good, Carried
    <3>5. \A q \in First(k+1) : MadeOver(d2, q)
      <4>1. MadeOver(d2, p)
        BY <2>11 DEF Carried
      <4>2. ASSUME NEW q \in First(k)
            PROVE  MadeOver(d2, q)
        <5>1. q \in Seq(Names)
          BY <2>5
        <5>2. NodesOver(d.root, q, d.made)
          BY <2>3, <2>11 DEF Good, MadeOver
        <5>3. NodesOver(d2.root, q, d2.made)
          BY <1>5, <2>4, <2>11, <3>4, <5>1, <5>2, OverKept
        <5>4. QED
          BY <5>3 DEF MadeOver
      <4>3. QED
        BY <2>5, <4>1, <4>2
    <3>6. ASSUME NEW q \in ps, Readable(d, q)
          PROVE  Readable(d2, q)
      <4>1. q \in Seq(Names)
        OBVIOUS
      <4> DEFINE X == d.known \cup d.made
                 Y == d2.known \cup d2.made
      <4>2. NodesOver(d.root, q, X)
        BY <3>6, <4>1, ReadableIs DEF NodesOver
      <4>3. X \subseteq Y /\ d2.made \subseteq Y
        BY <2>7, <3>4
      <4> HIDE DEF X, Y
      <4>4. NodesOver(d2.root, q, Y)
        BY <1>5, <2>4, <2>11, <4>1, <4>2, <4>3, OverKept
      <4>5. QED
        BY <4>1, <4>4, ReadableIs DEF NodesOver, Y
    <3>7. IsWriter(d2) /\ d2.known = w.known
      BY <2>3, <2>7 DEF Good
    <3>8. AllRead => d2.error # "NodeMissing" /\ \A q \in ps : Readable(d2, q)
      BY <2>3, <3>2, <3>6 DEF Good
    <3> HIDE DEF AllRead, AllFree
    <3>9. QED
      BY <3>2, <3>3, <3>4, <3>5, <3>7, <3>8 DEF Good
  <2>12. Good(d2, k + 1)
    BY <2>7, <2>8, <2>9, <2>10, <2>11
  <2>13. QED
    BY <2>3, <2>12
<1>7. Fine = Nat
  <2>1. Fine \in SUBSET Nat
    OBVIOUS
  <2> HIDE DEF Fine
  <2>2. QED
    BY <1>4, <1>6, <2>1, NumbersAll
<1> HIDE DEF Good, Fine
<1>8. n \in Fine
  BY <1>2, <1>7
<1>9. Good(done[n], n)
  <2>1. n <= n
    BY <1>2
  <2>2. QED
    BY <1>8, <2>1 DEF Fine
<1>10. First(n) = ps
  BY <1>2
<1>11. Good(InsertAll(w, ps, e), n)
  BY <1>3, <1>9
<1> HIDE DEF First
<1>12. QED
  BY <1>10, <1>11 DEF Good
================================================================================
