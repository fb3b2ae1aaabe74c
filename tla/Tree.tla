---------------------------------- MODULE Tree ----------------------------------
(* The content-addressed tree of surrealfs-content/src/tree.rs: directory nodes  *)
(* that name their children by digest, the edits that rewrite the nodes on one   *)
(* route and share the others, and the comparison of two trees.                  *)
(*                                                                               *)
(* A digest is injective, so a node stands for its own digest: an entry of kind  *)
(* "dir" holds the node it names.  What a digest cannot give is the node's body: *)
(* an edit reads only the nodes it knows, and reports those it made.             *)
EXTENDS Naturals, Sequences, FiniteSets

SX == INSTANCE SequencesExt

CONSTANTS
    Names,    \* names of directory entries
    Depth     \* bound: components of a path

Root  == <<>>
Paths == UNION {[1..n -> Names] : n \in 1..Depth}

Upto(p, n)     == SubSeq(p, 1, n)
Beneath(p, q)  == Len(q) <= Len(p) /\ Upto(p, Len(q)) = q
Ancestors(p)   == {Upto(p, n) : n \in 1..(Len(p) - 1)}

--------------------------------------------------------------------------------
(* Nodes and entries *)

\* Meta 0 stands for Meta::file() or Meta::dir(), whichever the kind has.
Dir(m, n)      == [kind |-> "dir", meta |-> m, node |-> n]
File(m, c, g)  == [kind |-> "file", meta |-> m, content |-> c, links |-> g]
Symlink(m, t)  == [kind |-> "symlink", meta |-> m, target |-> t]

None          == [kind |-> "none"]

IsDir(e)  == e.kind = "dir"
IsFile(e) == e.kind = "file"

\* The empty directory: a constant that is never stored.
Empty == [n \in {} |-> None]

Lookup(node, n)  == IF n \in DOMAIN node THEN node[n] ELSE None
With(node, n, e) == [x \in DOMAIN node \cup {n} |-> IF x = n THEN e ELSE node[x]]
Without(node, n) == [x \in DOMAIN node \ {n} |-> node[x]]

Child(node, n) == LET e == Lookup(node, n) IN IF IsDir(e) THEN e.node ELSE Empty

\* The nodes in which the components of p are looked up, the root's first.
Route(root, p) ==
    LET at[k \in 1..Len(p)] == IF k = 1 THEN root ELSE Child(at[k-1], p[k-1])
    IN  at

\* A component of p other than the last is not a directory.
Blocked(root, p) ==
    \E k \in 1..(Len(p) - 1) :
        LET e == Lookup(Route(root, p)[k], p[k]) IN e # None /\ ~IsDir(e)

\* tree::get
Get(root, p) ==
    IF p = Root THEN Dir(0, root) ELSE Lookup(Route(root, p)[Len(p)], p[Len(p)])

\* tree::walk: every path of the tree and its entry, here without the node.
Bare(e)       == IF IsDir(e) THEN Dir(e.meta, Empty) ELSE e
PathsOf(root) == {p \in Paths : Get(root, p) # None}
Listing(root) == [p \in PathsOf(root) |-> Bare(Get(root, p))]

\* Every node of the tree that has to be stored.
Nodes(root) ==
    ({root} \cup {Get(root, p).node : p \in {q \in PathsOf(root) : IsDir(Get(root, q))}})
        \ {Empty}

--------------------------------------------------------------------------------
(* Edits: a TreeWriter over the nodes it knows, as a record                      *)

Writer(known, root) == [known |-> known, root |-> root, made |-> {}, error |-> "none"]

\* The nodes of the route rebuilt around the new last one, child before parent;
\* a directory on the way keeps its metadata, a missing one is created.
Spine(root, p, last) ==
    LET at == Route(root, p)
        meta(k) == LET e == Lookup(at[k], p[k]) IN IF e = None THEN 0 ELSE e.meta
        new[k \in 1..Len(p)] ==
            IF k = Len(p) THEN last ELSE With(at[k], p[k], Dir(meta(k), new[k+1]))
    IN  new

Failed(w, why) == [w EXCEPT !.error = why]

\* The route of p can be read, and leads through directories only.
Readable(w, p) == SX!Range(Route(w.root, p)) \subseteq w.known \cup w.made \cup {Empty}

Rebuilt(w, p, last) ==
    LET spine == Spine(w.root, p, last)
    IN  [w EXCEPT !.root = spine[1], !.made = @ \cup (SX!Range(spine) \ {Empty})]

\* TreeWriter::insert: replaces whatever is at p.
Insert(w, p, e) ==
    IF w.error # "none" THEN w
    ELSE IF ~Readable(w, p) THEN Failed(w, "NodeMissing")
    ELSE IF Blocked(w.root, p) THEN Failed(w, "NotADirectory")
    ELSE Rebuilt(w, p, With(Route(w.root, p)[Len(p)], p[Len(p)], e))

\* TreeWriter::remove
Remove(w, p) ==
    IF w.error # "none" THEN w
    ELSE IF ~Readable(w, p) THEN Failed(w, "NodeMissing")
    ELSE IF Get(w.root, p) = None THEN Failed(w, "NotFound")
    ELSE Rebuilt(w, p, Without(Route(w.root, p)[Len(p)], p[Len(p)]))

\* The paths of a finite set, ancestors first.
InOrder(ps) ==
    CHOOSE s \in [1..Cardinality(ps) -> ps] :
        /\ SX!Range(s) = ps
        /\ \A i, j \in DOMAIN s : i < j => Len(s[i]) <= Len(s[j])

\* The same entry at every path of a set.
InsertAll(w, ps, e) ==
    LET done[k \in 0..Cardinality(ps)] ==
            IF k = 0 THEN w ELSE Insert(done[k-1], InOrder(ps)[k], e)
    IN  done[Cardinality(ps)]

--------------------------------------------------------------------------------
(* Comparison *)

\* A bug the runs must catch: what lies beneath an entry that came or went is not
\* walked.
OnlyItself(root, p) == {p}

\* The entry at p of a tree that has it, and everything beneath it.
Whole(root, p) == {q \in PathsOf(root) : Beneath(q, p)}

\* The directories diff_into descends to: both trees have one there, and neither
\* it nor one above it is the same in both.
Compared(old, new) ==
    {p \in Paths \cup {Root} :
        \A k \in 0..Len(p) :
            LET a == Get(old, Upto(p, k))  b == Get(new, Upto(p, k))
            IN  IsDir(a) /\ IsDir(b) /\ a # b}

\* tree::diff, as sets of paths: a directory that stays a directory is compared
\* inside, any other difference is one change.
Diff(old, new) ==
    LET below == {Append(p, n) : p \in {q \in Compared(old, new) : Len(q) < Depth},
                                 n \in Names}
        gone == {p \in below : Get(old, p) # None /\ Get(new, p) = None}
        came == {p \in below : Get(old, p) = None /\ Get(new, p) # None}
    IN  [removed  |-> UNION {Whole(old, p) : p \in gone},
         added    |-> UNION {Whole(new, p) : p \in came},
         modified |-> {p \in below \ (gone \cup came) :
                          /\ Get(old, p) # Get(new, p)
                          /\ ~(IsDir(Get(old, p)) /\ IsDir(Get(new, p)))}]
================================================================================
