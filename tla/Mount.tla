---------------------------------- MODULE Mount ----------------------------------
(* A mount: the FUSE adapter's requests (surrealfs-fuse/src/lib.rs) on the mount   *)
(* core (surrealfs-mount/src/lib.rs) with its one workspace, its table of inode    *)
(* numbers (inode.rs) and its open files (surrealfs-kernel/src/handle.rs).         *)
(*                                                                                 *)
(* The session thread serves one request at a time; a request is the sequence of   *)
(* its sections, each one hold of the workspace lock with the uses of the other    *)
(* tables around it, which only this thread makes: publish and abort touch neither *)
(* table, so the order of such a use and of one of them does not matter.  Between  *)
(* two sections the supervisor may publish or abort, and at any time, also between *)
(* the two awaits of those, another surface may move the branch head.  The         *)
(* namespace is the flat map that Namespace.tla implements.  A request that fails  *)
(* at once changes nothing and is no step.                                         *)
EXTENDS Tree

CONSTANTS
    Places,         \* the paths of the instance
    Contents,       \* file contents other than the empty one
    Metas,          \* metadata: 0 is Meta::file() and Meta::dir()
    Seed,           \* the paths of the directories and files at the branch head
    RequestBound,   \* bound: requests
    EventBound      \* bound: publications, aborts and commits of other surfaces

ASSUME MountAssumption ==
    /\ Depth \in Nat
    /\ Places \subseteq Paths /\ \A p \in Places : Ancestors(p) \subseteq Places
    /\ Seed \subseteq Places /\ \A p \in Seed : Ancestors(p) \subseteq Seed
    /\ Metas \subseteq Nat /\ 0 \in Metas

VARIABLES
    head,       \* what the branch head shows
    moved,      \* another surface has published since the workspace opened
    made,       \* the publications with a receipt: the root each began at and ended at
    base,       \* the root at which the workspace opened
    tree,       \* what the workspace shows
    closed,     \* the workspace is closed, and none was opened after it
    held,       \* publish or abort is between its two awaits, under the workspace lock
    handles,    \* the open files
    nextFh,     \* the number of the last one
    toPath,     \* the inode table's to_path
    toInode,    \* and to_inode
    nextInode,
    todo,       \* the sections of the current request that are still to run
    requests, events,
    \* Bookkeeping: each file or directory has an identity from its creation on.
    born,       \* the last identity given
    meant,      \* the identity each number was first answered for
    off,        \* the numbers of what was something else in the next workspace
    astray      \* a name of a linked file was set apart from the others

vars == <<head, moved, made, base, tree, closed, held, handles, nextFh, toPath, toInode,
          nextInode, todo, requests, events, born, meant, off, astray>>

table == <<toPath, toInode, nextInode, meant>>

--------------------------------------------------------------------------------
(* Entries and the map of paths *)

NoContent == "empty"

Entry(kind, meta, content, links, id) ==
    [kind |-> kind, meta |-> meta, content |-> content, links |-> links, id |-> id]

NewDir(id)  == Entry("dir", 0, NoContent, {}, id)

Entries == [kind : {"dir", "file", "symlink"}, meta : Metas, content : Contents \cup {NoContent},
            links : SUBSET Places, id : Nat]

\* Entry::content_digest: everything the entry says, and no identity.
DigestOf(e) == IF e = None THEN None ELSE [e EXCEPT !.id = 0]
RootOf(t) == [p \in Places |-> DigestOf(t[p])]

Is(t, p, kind) == t[p] # None /\ t[p].kind = kind
Childless(t, p) == \A q \in Places : q # p /\ Beneath(q, p) => t[q] = None

\* Each of ps can be given an entry: nothing but directories lies above it.
Reachable(t, ps) ==
    \A p \in ps : \A a \in Ancestors(p) : a \notin ps /\ (t[a] = None \/ Is(t, a, "dir"))

\* The entry e at all of ps, with the directories above that are missing.
Placed(t, ps, e) ==
    [q \in Places |->
        IF q \in ps THEN e
        ELSE IF \E p \in ps : Beneath(q, p) THEN None
        ELSE IF t[q] = None /\ \E p \in ps : Beneath(p, q) THEN NewDir(born + 1)
        ELSE t[q]]

\* Workspace::write_file's targets and the entry it leaves at them.
Written(t, p, c) ==
    LET e == IF Is(t, p, "file") THEN [t[p] EXCEPT !.content = c]
             ELSE Entry("file", 0, c, {}, born + 1)
        ps == IF e.links = {} THEN {p} ELSE e.links
    IN  [fits |-> Reachable(t, ps), tree |-> Placed(t, ps, e)]

\* Workspace::unlink: the names that stay are a group no more when one is left.
Unlinked(t, p) ==
    LET rest == t[p].links \ {p}
        cut == [t EXCEPT ![p] = None]
        group == IF Cardinality(rest) > 1 THEN rest ELSE {}
    IN  IF rest = {} THEN cut ELSE Placed(cut, rest, [t[p] EXCEPT !.links = group])

--------------------------------------------------------------------------------
(* The inode table *)

Known == {toPath[n] : n \in DOMAIN toPath}

\* InodeTable::inode_for, with what the number was answered for.
NumberFor(p) ==
    IF p \in DOMAIN toInode THEN UNCHANGED table
    ELSE /\ toPath' = [n \in DOMAIN toPath \cup {nextInode} |->
                          IF n = nextInode THEN p ELSE toPath[n]]
         /\ toInode' = [q \in DOMAIN toInode \cup {p} |->
                          IF q = p THEN nextInode ELSE toInode[q]]
         /\ nextInode' = nextInode + 1
         /\ meant' = [n \in DOMAIN meant \cup {nextInode} |->
                          IF n = nextInode THEN tree[p].id ELSE meant[n]]

\* A bug the runs must catch: the number outlives the name.
Kept(p) == UNCHANGED table

\* InodeTable::forget
Forget(p) ==
    IF p \notin DOMAIN toInode THEN UNCHANGED table
    ELSE /\ toPath' = [n \in DOMAIN toPath \ {toInode[p]} |-> toPath[n]]
         /\ toInode' = [q \in DOMAIN toInode \ {p} |-> toInode[q]]
         /\ UNCHANGED <<nextInode, meant>>

Onto(q, from, to) == to \o SubSeq(q, Len(from) + 1, Len(q))

\* The mapped paths a rename carries along.
Carried(from) == {q \in DOMAIN toInode : Beneath(q, from)}

\* InodeTable::rename: a number that pointed to the new name keeps doing so.
Renumber(from, to) ==
    LET old == Carried(from)
        new == {Onto(q, from, to) : q \in old}
    IN  /\ toPath' = [n \in DOMAIN toPath |->
                         IF \E q \in old : toInode[q] = n THEN Onto(toPath[n], from, to)
                         ELSE toPath[n]]
        /\ toInode' = [q \in (DOMAIN toInode \ old) \cup new |->
                         IF q \in new THEN toInode[Onto(q, to, from)] ELSE toInode[q]]
        /\ UNCHANGED <<nextInode, meant>>

--------------------------------------------------------------------------------
(* Open files *)

Handle(p, bytes, dirty, opened) ==
    [path |-> p, bytes |-> bytes, dirty |-> dirty, opened |-> opened]

\* A bug the runs must catch: any file at the path will do.
SomeFile(h) == (h.opened = None) = (tree[h.path] = None)

\* Workspace::close writes back only to what the handle opened: the same digest,
\* or still nothing.
SameFile(h) == h.opened = DigestOf(tree[h.path])

--------------------------------------------------------------------------------
(* Sections: each is one hold of the workspace lock *)

\* Kernel::open truncating and close at once: the file exists, and is empty.
Make(p) ==
    /\ tree[p] = None \/ Is(tree, p, "file")
    /\ Written(tree, p, NoContent).fits
    /\ tree' = Written(tree, p, NoContent).tree
    /\ born' = born + 1
    /\ UNCHANGED <<handles, nextFh, table, astray>>

\* getattr_path: a number for what is there.
Answer(p) ==
    /\ tree[p] # None
    /\ NumberFor(p)
    /\ UNCHANGED <<tree, handles, nextFh, born, astray>>

\* Workspace::open: with truncation the file may be missing, until the handle is
\* closed.
OpenFile(p, truncate) ==
    LET bytes == IF truncate THEN NoContent ELSE tree[p].content
    IN  /\ Is(tree, p, "file") \/ (truncate /\ tree[p] = None)
        /\ nextFh' = nextFh + 1
        /\ handles' = [i \in DOMAIN handles \cup {nextFh'} |->
                          IF i = nextFh' THEN Handle(p, bytes, truncate, DigestOf(tree[p]))
                          ELSE handles[i]]
        /\ UNCHANGED <<tree, table, born, astray>>

Dropped(i) == [j \in DOMAIN handles \ {i} |-> handles[j]]

\* release: the handle leaves the table, and is written back or discarded.
Release(i) ==
    LET h == handles[i]
        w == Written(tree, h.path, h.bytes)
    IN  /\ i \in DOMAIN handles
        /\ handles' = Dropped(i)
        /\ IF h.dirty /\ SameFile(h)
           THEN w.fits /\ tree' = w.tree /\ born' = born + 1
           ELSE UNCHANGED <<tree, born>>
        /\ UNCHANGED <<nextFh, table, astray>>

SetAttr(p, m) ==
    /\ tree[p] # None
    /\ tree' = [tree EXCEPT ![p].meta = m]
    /\ astray' = (astray \/ (tree[p].links # {} /\ tree' # tree))
    /\ UNCHANGED <<handles, nextFh, table, born>>

MakeEntry(p, kind) ==
    /\ tree[p] = None /\ Reachable(tree, {p})
    /\ tree' = Placed(tree, {p}, Entry(kind, 0, NoContent, {}, born + 1))
    /\ born' = born + 1
    /\ UNCHANGED <<handles, nextFh, table, astray>>

RemoveEntry(p, dir) ==
    /\ tree[p] # None /\ Is(tree, p, "dir") = dir
    /\ IF dir THEN Childless(tree, p) /\ tree' = [tree EXCEPT ![p] = None]
       ELSE Reachable([tree EXCEPT ![p] = None], tree[p].links \ {p}) /\ tree' = Unlinked(tree, p)
    /\ Forget(p)
    /\ UNCHANGED <<handles, nextFh, born, astray>>

Rename(from, to) ==
    LET under == {q \in Places : Beneath(q, from) /\ tree[q] # None}
        onto == {Onto(q, from, to) : q \in under}
        cut == [q \in Places |-> IF q \in under THEN None ELSE tree[q]]
    IN  /\ tree[from] # None /\ ~Beneath(to, from) /\ onto \subseteq Places
        /\ IF Is(tree, to, "dir") THEN Is(tree, from, "dir") /\ Childless(tree, to)
           ELSE tree[to] = None \/ ~Is(tree, from, "dir")
        /\ Reachable(tree, {to})
        /\ tree' = [q \in Places |->
                       IF q \in onto THEN tree[Onto(q, to, from)]
                       ELSE Placed(cut, {to}, None)[q]]
        /\ Renumber(from, to)
        /\ born' = born + 1
        /\ astray' = (astray \/ \E q \in under \cup {to} : tree[q] # None /\ tree[q].links # {})
        /\ UNCHANGED <<handles, nextFh>>

Link(p, new) ==
    LET group == tree[p].links \cup {p, new}
    IN  /\ Is(tree, p, "file") /\ tree[new] = None
        /\ Reachable(tree, group)
        /\ tree' = Placed(tree, group, [tree[p] EXCEPT !.links = group])
        /\ born' = born + 1
        /\ UNCHANGED <<handles, nextFh, table, astray>>

\* truncate of an open file: any size, to zero or with zeroes.
Resize(i) ==
    /\ i \in DOMAIN handles
    /\ handles' = [handles EXCEPT ![i].bytes = NoContent, ![i].dirty = TRUE]
    /\ UNCHANGED <<tree, nextFh, table, born, astray>>

Run(s) ==
    \/ s.what = "make"    /\ Make(s.path)
    \/ s.what = "answer"  /\ Answer(s.path)
    \/ s.what = "open"    /\ OpenFile(s.path, s.truncate)
    \/ s.what = "resize"  /\ Resize(s.file)
    \/ s.what = "release" /\ Release(s.file)
    \/ s.what = "setattr" /\ SetAttr(s.path, s.meta)
    \/ s.what = "entry"   /\ MakeEntry(s.path, s.kind)
    \/ s.what = "remove"  /\ RemoveEntry(s.path, s.dir)
    \/ s.what = "rename"  /\ Rename(s.path, s.to)
    \/ s.what = "link"    /\ Link(s.path, s.to)

--------------------------------------------------------------------------------
(* Requests: the sections of one callback of the adapter, in order               *)

AnswerFor(p)   == [what |-> "answer", path |-> p]
OpenFor(p, t)  == [what |-> "open", path |-> p, truncate |-> t]
AttrFor(p, m)  == [what |-> "setattr", path |-> p, meta |-> m]
FileFor(w, i)  == [what |-> w, file |-> i]

\* Paths a client can name: a child of a numbered directory; a number it was answered,
\* also for what a rename has replaced since; a name it has looked up, which the
\* operating system does before it removes or renames one.
Children == {p \in Places : Upto(p, Len(p) - 1) \in Known}
Numbered == Known \cap Places
LookedUp == DOMAIN toInode \cap Places

\* create, with a mode that is or is not that of Meta::file().
Create(p, m) ==
    <<[what |-> "make", path |-> p], AnswerFor(p), OpenFor(p, TRUE)>>
        \o (IF m = 0 THEN <<>> ELSE <<AttrFor(p, m), AnswerFor(p)>>)

\* setattr with a size resizes the open file it names, or opens one of its own.
Sized(p) ==
    {<<>>} \cup {<<FileFor("resize", i)>> : i \in DOMAIN handles}
           \cup {<<OpenFor(p, FALSE), FileFor("resize", nextFh + 1), FileFor("release", nextFh + 1)>>}

\* Metadata that is not given stays, which is to give what is there.
SetAttrs ==
    UNION {{size \o <<AttrFor(p, m), AnswerFor(p)>> : size \in Sized(p), m \in Metas} :
              p \in Numbered}

Callbacks ==
    UNION {
        {<<AnswerFor(p)>> : p \in Children},                             \* lookup
        {<<OpenFor(p, t)>> : p \in Numbered, t \in BOOLEAN},
        {Create(p, m) : p \in Children, m \in Metas},
        SetAttrs,
        {<<[what |-> "entry", path |-> p, kind |-> k], AnswerFor(p)>> :   \* mkdir, symlink
            p \in Children, k \in {"dir", "symlink"}},
        {<<[what |-> "remove", path |-> p, dir |-> d]>> :                 \* unlink, rmdir
            p \in LookedUp, d \in BOOLEAN},
        {<<[what |-> "rename", path |-> p, to |-> q]>> : p \in LookedUp, q \in Children},
        {<<[what |-> "link", path |-> p, to |-> q], AnswerFor(q)>> :
            p \in Numbered, q \in Children},
        {<<FileFor("release", i)>> : i \in DOMAIN handles}}

outside == <<head, moved, made, base, closed, held, events, off>>

\* Only a resize does without the workspace.
Ready(s) == s.what = "resize" \/ (~held /\ ~closed)

\* A request begins with its first section.
Begin ==
    /\ todo = <<>>
    /\ requests < RequestBound
    /\ requests' = requests + 1
    /\ \E r \in Callbacks : Ready(Head(r)) /\ Run(Head(r)) /\ todo' = Tail(r)
    /\ UNCHANGED outside

Continue ==
    /\ todo # <<>>
    /\ Ready(Head(todo)) /\ Run(Head(todo)) /\ todo' = Tail(todo)
    /\ UNCHANGED <<requests, outside>>

\* A later section fails: what it needs is gone, no workspace could be opened, a
\* limit or the store refuses.  The request ends with an error, and what the earlier
\* ones did stays; a release gives up its handle all the same, and its bytes with it.
BreakOff ==
    /\ todo # <<>>
    /\ Head(todo).what = "resize" \/ ~held
    /\ todo' = <<>>
    /\ handles' = IF Head(todo).what = "release" THEN Dropped(Head(todo).file) ELSE handles
    /\ UNCHANGED <<tree, nextFh, table, born, astray, requests, outside>>

\* write: in the handle alone.
WriteHandle ==
    /\ todo = <<>>
    /\ requests < RequestBound
    /\ requests' = requests + 1
    /\ \E i \in DOMAIN handles, c \in Contents :
           handles' = [handles EXCEPT ![i].bytes = c, ![i].dirty = TRUE]
    /\ UNCHANGED <<tree, nextFh, table, todo, born, astray, outside>>

\* A request of release alone that fails so.
ReleaseFails ==
    /\ todo = <<>> /\ ~held
    /\ requests < RequestBound
    /\ requests' = requests + 1
    /\ \E i \in DOMAIN handles : handles' = Dropped(i)
    /\ UNCHANGED <<tree, nextFh, table, todo, born, astray, outside>>

--------------------------------------------------------------------------------
(* The supervisor and the other surfaces *)

Happening == events < EventBound /\ events' = events + 1

\* MountKernel::publish up to its first await: the commit, or the receipt of one made
\* before at the same root with the same edits, whatever the head is by now.
Publish ==
    /\ Happening
    /\ ~held /\ ~closed
    /\ \/ ~moved /\ head' = tree /\ made' = made \cup {<<base, RootOf(tree)>>}
       \/ <<base, RootOf(tree)>> \in made /\ UNCHANGED <<head, made>>
    /\ closed' = TRUE /\ held' = TRUE
    /\ UNCHANGED <<moved, base, tree, handles, nextFh, table, todo, requests, born, off, astray>>

\* MountKernel::abort up to its first await.
Abort ==
    /\ Happening
    /\ ~held /\ ~closed
    /\ closed' = TRUE /\ held' = TRUE
    /\ UNCHANGED <<head, moved, made, base, tree, handles, nextFh, table, todo, requests, born,
                   off, astray>>

\* The numbers of what the next workspace does not show at its path.
Misplaced(next) ==
    {toInode[p] : p \in {q \in DOMAIN toInode \cap Places :
        (tree[q] = None) # (next[q] = None)
            \/ (tree[q] # None /\ next[q] # None /\ tree[q].id # next[q].id)}}

\* The second await: a workspace at what the head is by then, under the same table
\* and the same open files.
Reopen ==
    /\ held
    /\ tree' = head /\ base' = RootOf(head) /\ moved' = FALSE
    /\ closed' = FALSE /\ held' = FALSE
    /\ off' = off \cup Misplaced(head)
    /\ UNCHANGED <<head, made, handles, nextFh, table, todo, requests, events, born, astray>>

\* No workspace could be opened; the closed one stays.
ReopenFails ==
    /\ held
    /\ held' = FALSE
    /\ UNCHANGED <<head, moved, made, base, tree, closed, handles, nextFh, table, todo, requests,
                   events, born, off, astray>>

\* Another surface publishes: a file of the head gets other bytes or goes away.
Foreign ==
    /\ Happening
    /\ \E p \in Places, c \in Contents \cup {NoContent} :
           /\ Is(head, p, "file") /\ head[p].links = {}
           /\ head' \in {[head EXCEPT ![p].content = c], [head EXCEPT ![p] = None]}
    /\ head' # head
    /\ made' = made \cup {<<RootOf(head), RootOf(head')>>}
    /\ moved' = TRUE
    /\ UNCHANGED <<base, tree, closed, held, handles, nextFh, table, todo, requests, born, off,
                   astray>>

Init ==
    /\ head = [p \in Places |->
                  IF p \notin Seed THEN None
                  ELSE IF \E q \in Seed : q # p /\ Beneath(q, p)
                       THEN NewDir(Len(p)) ELSE Entry("file", 0, NoContent, {}, Len(p))]
    /\ tree = head /\ moved = FALSE /\ made = {} /\ base = RootOf(head)
    /\ closed = FALSE /\ held = FALSE
    /\ handles = <<>> /\ nextFh = 0
    /\ toPath = [n \in {1} |-> Root] /\ toInode = [p \in {Root} |-> 1] /\ nextInode = 2
    /\ meant = [n \in {1} |-> 0]
    /\ todo = <<>> /\ requests = 0 /\ events = 0
    /\ born = Depth /\ off = {} /\ astray = FALSE

Next ==
    \/ Begin \/ Continue \/ BreakOff \/ WriteHandle \/ ReleaseFails
    \/ Publish \/ Abort \/ Reopen \/ ReopenFails \/ Foreign

Spec == Init /\ [][Next]_vars

--------------------------------------------------------------------------------
(* Properties *)

\* The number the table gives for a path leads back to it, and the path shows the
\* file or directory that number was first answered for, however the tree changed
\* in between (inode.rs: numbers follow renames, and none is given a second time);
\* but for the files that a publication or an abort found to be others at the head
\* it opened (inode.rs: what another surface does shows once the mount rebases).
NumbersStandForFiles ==
    ~astray => \A p \in DOMAIN toInode \ {Root} :
        /\ toPath[toInode[p]] = p
        /\ toInode[p] \notin off => tree[p] # None /\ tree[p].id = meant[toInode[p]]

\* A handle that leaves the table with a change of the tree.
ReleasesExactly ==
    \A i \in DOMAIN handles :
      LET h == handles[i]
          t == tree[h.path]
      IN  /\ i \notin DOMAIN handles' /\ tree' # tree /\ ~astray
          => /\ h.opened = DigestOf(t)
             /\ tree'[h.path].content = h.bytes
             /\ \A p \in Places : tree'[p] # tree[p] =>
                    p = h.path \/ (t = None /\ Beneath(h.path, p))
                    \/ (t # None /\ DigestOf(tree[p]) = h.opened)

\* release puts the handle's bytes at the path it was opened at, for every name of
\* the file, or changes nothing at all: never does it change a file that is not
\* what the handle opened.
ReleaseExact == [][ReleasesExactly]_vars

\* What a dirty handle was to write is dropped at close only if its file is no
\* longer there: unlinked, or replaced by different content.
DiscardedOnlyIfGone ==
    [][\A i \in DOMAIN handles :
          LET h == handles[i]
              t == tree[h.path]
          IN  /\ requests' = requests + 1 /\ Begin
              /\ i \notin DOMAIN handles' /\ h.dirty /\ tree' = tree /\ h.bytes # NoContent
              => h.opened = None \/ t = None \/ t.content # h.opened.content]_vars
================================================================================
