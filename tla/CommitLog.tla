------------------------------- MODULE CommitLog -------------------------------
(* What a SurrealFS repository promises of its history, whatever the store      *)
(* does to keep the promise: branches are names of commits, commits and         *)
(* receipts are only ever added, and a publication is one atomic step that puts *)
(* one new commit on top of the branch it publishes to.  There is no lock, no   *)
(* staging, no workspace and no crash here; Publication.tla has them and        *)
(* implements this specification.                                               *)
EXTENDS Naturals

CONSTANTS
    Branches,   \* branch names
    Main,       \* the branch every repository is created with
    None        \* "no record": the parent of the genesis

VARIABLES
    head,       \* branch table: bound name -> commit id
    commit,     \* commit table: commit id -> its row
    receipt     \* receipt table: request id -> evidence of the publication

logVars == <<head, commit, receipt>>

\* A repository is created with one ROOT commit of sequence 0, which main names,
\* and no receipt.
Init ==
    /\ \E genesis \in DOMAIN commit :
        /\ DOMAIN commit = {genesis}
        /\ commit[genesis].parent = None
        /\ commit[genesis].seq = 0
        /\ head = [b \in {Main} |-> genesis]
    /\ DOMAIN receipt = {}

Kept(table) == \A k \in DOMAIN table : k \in DOMAIN table' /\ table'[k] = table[k]

\* One publication: branch b advances by exactly one commit, new to the
\* repository, whose parent is the commit b named until now, whose sequence is
\* above every other, and which one new receipt accounts for.
Publish(b) ==
    /\ Kept(commit) /\ Kept(receipt)
    /\ b \in DOMAIN head
    /\ head[b] \in DOMAIN commit
    /\ head'[b] \notin DOMAIN commit
    /\ head' = [head EXCEPT ![b] = head'[b]]
    /\ DOMAIN commit' = DOMAIN commit \cup {head'[b]}
    /\ commit'[head'[b]].parent = head[b]
    /\ \A c \in DOMAIN commit : commit[c].seq < commit'[head'[b]].seq
    /\ LET request == commit'[head'[b]].request
       IN  /\ request \notin DOMAIN receipt
           /\ DOMAIN receipt' = DOMAIN receipt \cup {request}
           /\ receipt'[request].commit = head'[b]
           /\ receipt'[request].previous = head[b]

\* A fork: a name that was free is bound to some commit of the repository.
Fork(b) ==
    /\ b \notin DOMAIN head
    /\ DOMAIN head' = DOMAIN head \cup {b} /\ Kept(head)
    /\ head'[b] \in DOMAIN commit
    /\ UNCHANGED <<commit, receipt>>

Next == \E b \in Branches : Publish(b) \/ Fork(b)

Spec == Init /\ [][Next]_logVars
================================================================================
