-------------------------------- MODULE Namespace --------------------------------
(* A workspace's namespace: the operations of surrealfs-kernel/src/lib.rs on      *)
(* files, directories, symlinks, hard links and metadata, carried out as edits of *)
(* the content-addressed tree (Tree.tla, surrealfs-content/src/tree.rs) over the  *)
(* nodes that view.rs has loaded, and the store's nodes as publications add them  *)
(* and collections remove them.                                                   *)
(*                                                                                *)
(* One workspace is open at a time: what two do to one branch is Publication's    *)
(* subject.  An operation that returns an error and changes nothing is no step.   *)
EXTENDS Tree

CONSTANTS
    Contents,      \* file contents, by their extents
    Target,        \* the target of every symlink
    Metas,         \* metadata: 0 is the default of the entry's kind
    Seeds,         \* trees an earlier history may have published
    EditBound,     \* bound: successful edits, in all workspaces together
    SweepBound     \* bound: collections

ASSUME NamespaceAssumption ==
    0 \in Metas /\ Depth \in Nat \ {0} /\ EditBound \in Nat /\ SweepBound \in Nat

\* An entry as the operations write it: the names a file lists are paths.
Proper(e) ==
    \/ IsDir(e) /\ e = Dir(e.meta, e.node)
    \/ IsFile(e) /\ e = File(e.meta, e.content, e.links)
                 /\ e.links \subseteq Paths /\ IsFiniteSet(e.links)
    \/ e.kind = "symlink" /\ e = Symlink(e.meta, e.target)

\* A tree of the instance: no directory at the last level has entries.
InBounds(tree) ==
    \A p \in Paths :
        LET e == Get(tree, p)
        IN  /\ e = None \/ Proper(e)
            /\ IsDir(e) /\ Len(p) = Depth => e.node = Empty

ASSUME SeedsAssumption == \A tree \in Seeds : InBounds(tree)

VARIABLES
    \* The store.
    head,      \* the tree the branch head shows
    history,   \* the trees of all commits
    store,     \* the nodes of the state_node table
    \* The workspace.
    open,
    root,      \* its namespace_root
    fresh,     \* its new_nodes: what a publication has to write
    touched,   \* the paths its mutation log names
    \* Bookkeeping.
    lost,      \* an operation met a node it could not read
    stray,     \* a name of a hard-linked file was moved, replaced or set apart
    edits, sweeps

wsVars == <<open, root, fresh, touched, lost, stray, edits>>
vars   == <<head, history, store, wsVars, sweeps>>

\* The names of every hard-linked file show one entry, which lists exactly them.
Agreeing(tree) ==
    \A p \in PathsOf(tree) :
        LET e == Get(tree, p)
        IN  IsFile(e) /\ e.links # {} =>
                /\ p \in e.links /\ Cardinality(e.links) > 1
                /\ \A q \in e.links : Get(tree, q) = e

Init ==
    /\ head \in Seeds
    /\ history = {head, Empty}
    /\ store = Nodes(head)
    /\ open = FALSE
    /\ root = head
    /\ fresh = {} /\ touched = {}
    /\ lost = FALSE
    /\ stray = ~Agreeing(head)
    /\ edits = (IF head = Empty THEN 0 ELSE 1)   \* a seed counts as one edit
    /\ sweeps = 0

--------------------------------------------------------------------------------
(* How an operation edits *)

At(p) == Get(root, p)

\* A bug the runs must catch: only one of the paths of an edit is loaded.
OneRoute(ps) ==
    LET p == CHOOSE p \in ps : \A q \in ps : Len(p) <= Len(q)
    IN  SX!Range(Route(root, p)) \cap (store \cup fresh)

\* view::prefetch: the nodes on the way to p, and p's own if it is a directory,
\* as far as the store or the workspace has them.
Prefetched(ps) ==
    (store \cup fresh) \cap
        UNION {SX!Range(Route(root, p)) \cup {Child(Route(root, p)[Len(p)], p[Len(p)])} : p \in ps}

Writing(ps) == Writer(Prefetched(ps), root)

\* A bug the runs must catch: a node the store has already is not written again.
UnstoredOnly(made) == fresh \cup (made \ store)

\* Workspace::apply_edit: every node made is to be published.
Extended(made) == fresh \cup made

\* A bug the runs must catch: only one of the paths of an operation is named.
OneNamed(named) == touched \cup {p \in named : \A q \in named : Len(p) <= Len(q)}

\* The paths of the mutation log after one more operation.
Logged(named) == touched \cup named

\* The edit w, with the paths its mutation names; a node that cannot be read
\* fails the operation, and so does a path through something not a directory.
Edited(w, named) ==
    /\ w.error \in {"none", "NodeMissing"}
    /\ root' = w.root
    /\ fresh' = Extended(w.made)
    /\ touched' = Logged(named)
    /\ lost' = (lost \/ w.error = "NodeMissing")

\* The names of hard-linked files beneath p, and p itself.
Linked(p) == {q \in PathsOf(root) : Beneath(q, p) /\ IsFile(At(q)) /\ At(q).links # {}}

Editing ==
    /\ open
    /\ edits < EditBound
    /\ edits' = edits + 1
    /\ UNCHANGED <<head, history, store, open, sweeps>>

--------------------------------------------------------------------------------
(* The operations *)

\* The names a write goes to: those the entry lists as its hard-link group.
WriteTargets(p, links) == IF links = {} THEN {p} ELSE links

\* write_file: a file keeps its metadata and its group; anything else but a
\* directory is replaced.
WriteFile(p, c) ==
    LET old == At(p)
        links == IF IsFile(old) THEN old.links ELSE {}
        new == File(IF IsFile(old) THEN old.meta ELSE 0, c, links)
        targets == WriteTargets(p, links)
    IN  /\ Editing
        /\ ~IsDir(old)
        /\ Edited(InsertAll(Writing({p} \cup targets), targets, new), {p})
        /\ UNCHANGED stray

Mkdir(p) ==
    /\ Editing
    /\ At(p) = None
    /\ Edited(Insert(Writing({p}), p, Dir(0, Empty)), {p})
    /\ UNCHANGED stray

\* A bug the runs must catch: the names that stay keep the old group.
GroupKept(ps, links) == links

\* write_group: a group of one is no group.
GroupOf(ps, links) == IF Cardinality(ps) > 1 THEN ps ELSE {}

\* unlink of a file or symlink: one edit removes the name, a second one corrects
\* the group of the names that stay.
Unlink(p) ==
    LET old == At(p)
        rest == IF IsFile(old) THEN old.links \ {p} ELSE {}
        cut == Remove(Writing({p}), p)
        regrouped == InsertAll([cut EXCEPT !.known = store \cup fresh], rest,
                               File(old.meta, old.content, GroupOf(rest, old.links)))
    IN  /\ Editing
        /\ old # None /\ ~IsDir(old)
        /\ Edited(IF rest = {} THEN cut ELSE regrouped, {p})
        /\ UNCHANGED stray

\* unlink whose second edit fails: the call returns an error, the name is gone
\* and no mutation says so.
UnlinkHalf(p) ==
    LET old == At(p)
        rest == old.links \ {p}
        cut == Remove(Writing({p}), p)
    IN  /\ Editing
        /\ IsFile(old) /\ rest # {}
        /\ InsertAll([cut EXCEPT !.known = store \cup fresh], rest, old).error = "NotADirectory"
        /\ Edited(cut, {})
        /\ UNCHANGED stray

Rmdir(p) ==
    /\ Editing
    /\ IsDir(At(p)) /\ At(p).node = Empty
    /\ Edited(Remove(Writing({p}), p), {p})
    /\ UNCHANGED stray

\* A bug the runs must catch: a directory is replaced with all it holds.
AnyTarget(from, to) == TRUE

\* What rename may replace: nothing, by anything; an empty directory, by a
\* directory; anything else, by anything else.
MayReplace(from, to) ==
    IF IsDir(to) THEN IsDir(from) /\ to.node = Empty ELSE to = None \/ ~IsDir(from)

\* rename: the entry is inserted at its new name and removed from the old one in
\* one edit; it keeps the group it lists, as do the files beneath it.
Rename(from, to) ==
    /\ Editing
    /\ from # to /\ ~Beneath(to, from)
    /\ At(from) # None
    /\ MayReplace(At(from), At(to))
    /\ \A q \in Whole(root, from) : Len(q) - Len(from) + Len(to) <= Depth
    /\ Edited(Remove(Insert(Writing({from, to}), to, At(from)), from), {from, to})
    /\ stray' = (stray \/ Linked(from) \cup Linked(to) # {})

\* The independent entry a copy leaves behind.
Independent(e) == IF IsFile(e) THEN File(e.meta, e.content, {}) ELSE e

\* copy of a file or symlink.
Copy(from, to) ==
    /\ Editing
    /\ At(from) # None /\ ~IsDir(At(from)) /\ ~IsDir(At(to))
    /\ Edited(Insert(Writing({from, to}), to, Independent(At(from))), {to})
    /\ stray' = (stray \/ Linked(to) # {})

\* copy whose write fails: the mutation is in the log all the same.
CopyFails(from, to) ==
    /\ Editing
    /\ At(from) # None /\ ~IsDir(At(from)) /\ ~IsDir(At(to))
    /\ Insert(Writing({to}), to, Independent(At(from))).error = "NotADirectory"
    /\ touched' = Logged({to})
    /\ UNCHANGED <<root, fresh, lost, stray>>

MakeSymlink(p) ==
    /\ Editing
    /\ At(p) = None
    /\ Edited(Insert(Writing({p}), p, Symlink(0, Target)), {p})
    /\ UNCHANGED stray

\* set_meta: this name's entry only, whatever group it is in.
SetMeta(p, m) ==
    /\ Editing
    /\ At(p) # None /\ At(p).meta # m
    /\ Edited(Insert(Writing({p}), p, [At(p) EXCEPT !.meta = m]), {p})
    /\ stray' = (stray \/ (IsFile(At(p)) /\ At(p).links # {}))

\* link: the group that the entry lists gains a name, and every name of the group lists
\* all of them; a name its own entry does not list gains nothing and stays as it is.
Link(existing, new) ==
    LET old == At(existing)
        group == WriteTargets(existing, old.links) \cup {new}
    IN  /\ Editing
        /\ IsFile(old) /\ At(new) = None
        /\ Edited(InsertAll(Writing({existing} \cup group), group,
                            File(old.meta, old.content, GroupOf(group, old.links))),
                  {existing, new})
        /\ UNCHANGED stray

--------------------------------------------------------------------------------
(* The life of a workspace, and housekeeping *)

\* Kernel::workspace
Open ==
    /\ ~open
    /\ edits < EditBound
    /\ open' = TRUE
    /\ root' = head
    /\ fresh' = {} /\ touched' = {}
    /\ UNCHANGED <<head, history, store, lost, stray, edits, sweeps>>

\* Workspace::publish: new_nodes, the root and the head, in one transaction.
Publish ==
    /\ open
    /\ store' = store \cup fresh
    /\ head' = root
    /\ history' = history \cup {root}
    /\ open' = FALSE
    /\ fresh' = {} /\ touched' = {}
    /\ UNCHANGED <<root, lost, stray, edits, sweeps>>

\* Aborted, dropped, or lost in a crash.
Discard ==
    /\ open
    /\ open' = FALSE
    /\ root' = head
    /\ fresh' = {} /\ touched' = {}
    /\ UNCHANGED <<head, history, store, lost, stray, edits, sweeps>>

\* gc: what the root of any commit reaches.
Reachable == UNION {Nodes(r) : r \in history}

\* Store::gc past the grace: no other node stays.
Collect ==
    /\ sweeps < SweepBound
    /\ ~(store \subseteq Reachable)
    /\ store' = store \cap Reachable
    /\ sweeps' = sweeps + 1
    /\ UNCHANGED <<head, history, wsVars>>

Next ==
    \/ \E p \in Paths, c \in Contents : WriteFile(p, c)
    \/ \E p \in Paths, m \in Metas : SetMeta(p, m)
    \/ \E p \in Paths : \/ Mkdir(p) \/ MakeSymlink(p)
                        \/ Unlink(p) \/ UnlinkHalf(p) \/ Rmdir(p)
    \/ \E p, q \in Paths : Rename(p, q) \/ Copy(p, q) \/ CopyFails(p, q) \/ Link(p, q)
    \/ Open \/ Publish \/ Discard \/ Collect

Spec == Init /\ [][Next]_vars

--------------------------------------------------------------------------------
(* Properties *)

\* Every tree a commit shows can be read from the store, and the workspace's own
\* tree from the store and the nodes it is to publish, whatever was collected in
\* between (publish.rs writes new_nodes only; gc.rs deletes what no root reaches).
NodesComplete ==
    /\ \A r \in history : Nodes(r) \subseteq store
    /\ open => Nodes(root) \subseteq store \cup fresh

\* The nodes an operation prefetches are all its edit reads: no operation fails
\* for a node nobody loaded (kernel/src/view.rs, "without touching storage again").
NothingUnread == ~lost

\* The names of a hard-linked file all show one entry, which lists exactly them,
\* until a name is renamed, replaced or given metadata of its own.
LinkGroupsAgree == ~stray => Agreeing(root)

\* The paths at which two trees differ, what lies beneath a directory aside.
Differ(old, new) == {p \in PathsOf(old) \cup PathsOf(new) : Bare(Get(old, p)) # Bare(Get(new, p))}

\* The directories of both trees that differ in their own metadata.
Restamped(old, new) == {p \in Differ(old, new) : IsDir(Get(old, p)) /\ IsDir(Get(new, p))}

Reported(old, new) ==
    LET d == Diff(old, new) IN d.removed \cup d.added \cup d.modified

\* tree::diff skips subtrees by digest, but reports every path at which the two
\* trees differ and no other, with two exceptions: a directory whose own metadata
\* changed, and what lies beneath a path where a directory took the place of
\* something else, or the reverse.
DiffExact ==
    LET shown == Differ(head, root) \ Restamped(head, root)
        swapped == {p \in shown : \E a \in Ancestors(p) \cap shown :
                        Get(head, a) # None /\ Get(root, a) # None}
    IN  Reported(head, root) = shown \ swapped

\* A path that shows something else than at the base was named by a mutation of
\* the workspace, or lies above or beneath a path that was, or shares a hard-link
\* group with it: what explain is asked about has a recorded cause.
ChangesAreLogged ==
    ~stray /\ open =>
        \A p \in PathsOf(head) \cup PathsOf(root) :
            Bare(Get(head, p)) = Bare(At(p))
            \/ \E t \in touched : \/ Beneath(p, t) \/ Beneath(t, p)
                                  \/ \E e \in {At(p), Get(head, p)} : IsFile(e) /\ t \in e.links

\* Every step of the workspace is one whole operation on the map of paths: the
\* tree edits, the sharing of nodes and the collections cannot be seen.
Flat == INSTANCE PathMap WITH AllPaths <- Paths, Plain <- Dir(0, Empty),
                              view <- Listing(root), published <- Listing(head)
ImplementsPathMap == Flat!Spec

\* A write through a name of a file can be read back through that name.
WritesAreRead ==
    [][\A p \in Paths, c \in Contents : WriteFile(p, c) => Get(root', p).content = c]_vars
================================================================================
