--------------------------------- MODULE PathMap ---------------------------------
(* What a workspace promises of its namespace: a map from paths to entries in    *)
(* which every entry lies in a directory, changed by whole operations, seen by   *)
(* nobody else until it is published, and never changed by housekeeping.  There  *)
(* is no tree, no node, no digest and no store here.                             *)
EXTENDS Naturals, Sequences

CONSTANTS
    AllPaths,      \* the paths of the instance
    Plain          \* the entry of a directory made on the way to another path

VARIABLES
    view,       \* the workspace's map, from path to entry
    published   \* the map the branch head shows

pathVars == <<view, published>>

Above(p) == {SubSeq(p, 1, n) : n \in 1..(Len(p) - 1)}
In(p, d) == Len(d) <= Len(p) /\ SubSeq(p, 1, Len(d)) = d

\* Every entry lies in a directory.
Rooted(f) == \A p \in DOMAIN f : \A a \in Above(p) : a \in DOMAIN f /\ f[a].kind = "dir"

\* The operations relate the map before, old, and the map after, new.
IsBare(old, p)  == ~\E q \in DOMAIN old : q # p /\ In(q, p)
Inside(old, ps) == {q \in DOMAIN old : \E p \in ps : q # p /\ In(q, p)}

\* The map after the entries of put are in place and the paths of gone are
\* cleared: directories on the way are made, whatever else there is stays.
Changed(old, put, gone) ==
    LET way  == UNION {Above(p) : p \in DOMAIN put}
        keep == DOMAIN old \ gone
    IN  [p \in DOMAIN put \cup keep \cup way |->
            IF p \in DOMAIN put THEN put[p] ELSE IF p \in keep THEN old[p] ELSE Plain]

Init == view = published /\ Rooted(view)

\* The names a file lists as its own.
NamesOf(e) == IF e.kind = "file" THEN e.links ELSE {}

\* A file, symlink or directory appears, or a file is replaced, under one name or
\* under all the names of a file at once, which then show the same entry.
Put(p, old, new) ==
    /\ p \in DOMAIN new
    /\ new[p].kind = "dir" => p \notin DOMAIN old
    /\ \E ps \in {{p}, NamesOf(new[p])} :
           p \in ps /\ new = Changed(old, [q \in ps |-> new[p]], Inside(old, ps))

\* Metadata changes at one name, and nothing beneath it.
SetMeta(p, old, new) ==
    /\ p \in DOMAIN old \cap DOMAIN new
    /\ new = [old EXCEPT ![p].meta = new[p].meta]

\* A name with nothing beneath it is removed; the other names of its file, if it
\* has any, show one and the same file, wherever they are.
Delete(p, old, new) ==
    /\ p \in DOMAIN old
    /\ IsBare(old, p)
    /\ \E others \in {{}, NamesOf(old[p]) \ {p}} :
           /\ \A q \in others : q \in DOMAIN new /\ new[q].kind = "file"
           /\ \E e \in {new[q] : q \in others} \cup {Plain} :
                  new = Changed(old, [q \in others |-> e], {p} \cup Inside(old, others))

\* A whole subtree changes its name in one step, onto a name that is free or has
\* nothing beneath it.  The entries move as they are: a file goes on listing the
\* names it listed.
Move(from, to, old, new) ==
    LET tree  == {q \in DOMAIN old : In(q, from)}
        moved == {to \o SubSeq(q, Len(from) + 1, Len(q)) : q \in tree}
    IN  /\ from \in DOMAIN old \ DOMAIN new /\ to \in DOMAIN new
        /\ IsBare(old, to)
        /\ new = Changed(old, [q \in moved |-> old[from \o SubSeq(q, Len(to) + 1, Len(q))]],
                         tree \cup {to})

Operation(old, new) ==
    /\ Rooted(new)
    /\ \/ \E p \in AllPaths : Put(p, old, new) \/ SetMeta(p, old, new) \/ Delete(p, old, new)
       \/ \E from, to \in AllPaths : Move(from, to, old, new)

Edit == (\E old \in {view}, new \in {view'} : Operation(old, new)) /\ UNCHANGED published

\* The workspace is closed, its work published or not; a new one sees what is
\* published.
Reopen  == view' = published /\ UNCHANGED published
Publish == published' = view /\ UNCHANGED view

Next == Publish \/ Reopen \/ Edit

Spec == Init /\ [][Next]_pathVars
================================================================================
