--------------------------------- MODULE Archive ---------------------------------
(* Portable archives (surrealfs-store/src/archive.rs): one repository is exported  *)
(* to a file while it goes on publishing, and the file is imported into another    *)
(* one, which publishes and collects garbage (gc.rs) meanwhile.  The export is one  *)
(* query per table and the import one statement per row; neither takes the publish *)
(* lock nor runs in a transaction, and each can stop anywhere.                     *)
(*                                                                                 *)
(* Every record but a branch or a snapshot is named by what it says, so a table is *)
(* the set of its rows.  A publication is one step here; Publication.tla has its   *)
(* parts.  A repository state is one file at the top, one in a subdirectory and    *)
(* one value of the KV map, each a chunk or absent.                                *)
EXTENDS Naturals, Sequences, FiniteSets

CONSTANTS
    Chunks,         \* contents a publication can bring
    None,           \* "absent"
    Main,           \* the branch name
    SourceBound, TargetBound,   \* bounds: commits of each repository
    RacingBound,    \* bound: how many of the source's fall into an export
    ExportBound, ImportBound, CrashBound, SweepBound, AgeBound  \* bounds

ASSUME ArchiveAssumption == None \notin Chunks

Content == {"chunk", "node"}
Tables == {"chunk", "node", "root", "commit", "branch", "snapshot", "span", "mutation"}

VARIABLES
    source, target, \* the two repositories: table -> rows
    reading,        \* the export's next table, 0 when none is under way
    file,           \* the archive: its rows, its end marker, and the source at its start
    import,         \* the import: its phase, the archive it read, the rows left
    old,            \* chunks and nodes of the target past the grace period
    sweep,          \* the collection: its phase, the roots it read, the chunks it
                    \* reached, the rows it will remove
    exposed,        \* history: how an import lost the grace period's protection, "slow" by
                    \* outlasting it, "listed" by a row that a collection had listed before
    exports, racing, imports, crashes, sweeps, ages

vars == <<source, target, reading, file, import, old, sweep, exposed,
          exports, racing, imports, crashes, sweeps, ages>>

counters == <<exports, racing, imports, crashes, sweeps, ages>>

--------------------------------------------------------------------------------
(* Rows *)

Present(xs) == xs \ {None}
EmptyState == [top |-> None, sub |-> None, kv |-> None]

\* The three nodes a state can consist of, each named by what it says.
TopNode(s) == <<"dir", s.top, s.sub>>
KvNode(s) == <<"kv", s.kv, None>>
NodesOf(s) == {TopNode(s), KvNode(s)} \cup {<<"sub", x, None>> : x \in Present({s.sub})}
ChunksOf(s) == Present({s.top, s.sub, s.kv})
RowsOf(t, s) == IF t = "chunk" THEN ChunksOf(s) ELSE NodesOf(s)

\* A commit is named by the commits below it: its history, from the genesis on.
Genesis == <<[state |-> EmptyState, at |-> "genesis", seq |-> 0]>>
Parent(h) == SubSeq(h, 1, Len(h) - 1)
Top(h) == h[Len(h)]

NoRows == [t \in Tables |-> {}]

\* Store::ensure_repository
NewRepository ==
    [NoRows EXCEPT !["node"] = NodesOf(EmptyState), !["root"] = {EmptyState},
                   !["commit"] = {Genesis}, !["branch"] = {<<Main, Genesis>>}]

HeadOf(repo) == (CHOOSE r \in repo["branch"] : r[1] = Main)[2]
Highest(repo) == CHOOSE n \in {Top(h).seq : h \in repo["commit"]} :
                    \A h \in repo["commit"] : Top(h).seq <= n

\* The rows of branches and snapshots are replaced by name.
Upsert(rows, t, r) ==
    IF t \in {"branch", "snapshot"} THEN {q \in rows : q[1] # r[1]} \cup {r} ELSE rows \cup {r}

\* The repository with the commit h on top of Main, and h's span and mutation.
Committed(repo, h) ==
    LET s == Top(h).state
    IN  [t \in Tables |->
            CASE t = "chunk" -> repo[t] \cup ChunksOf(s)
              [] t = "node" -> repo[t] \cup NodesOf(s)
              [] t = "root" -> repo[t] \cup {s}
              [] t = "branch" -> Upsert(repo[t], t, <<Main, h>>)
              [] t = "snapshot" -> repo[t]
              [] OTHER -> repo[t] \cup {h}]

\* The states a publication can make of s: any of the three contents changes.
Changed(s) ==
    {[s EXCEPT ![part] = x] : part \in {"top", "sub", "kv"}, x \in Chunks \cup {None}} \ {s}

\* Another publication at repo, by the tool call whose span it names.
Published(repo, at) ==
    LET head == HeadOf(repo)
    IN  {Committed(repo, Append(head, [state |-> s, at |-> at, seq |-> Highest(repo) + 1])) :
            s \in Changed(Top(head).state)}

\* What the row r of table t names in the tables below it, however deep.
StateWhole(repo, s) ==
    s \in repo["root"] /\ NodesOf(s) \subseteq repo["node"] /\ ChunksOf(s) \subseteq repo["chunk"]

Resolves(repo, t, r) ==
    CASE t = "root" -> StateWhole(repo, r)
      [] t = "commit" -> /\ StateWhole(repo, Top(r).state)
                         /\ r # Genesis => r \in repo["span"] /\ Parent(r) \in repo["commit"]
      [] t = "mutation" -> r \in repo["commit"]
      [] t \in {"branch", "snapshot"} -> r[2] \in repo["commit"]
      [] OTHER -> TRUE

--------------------------------------------------------------------------------
(* The source and the export *)

\* What the source does after the last export concerns nobody.
SourceLive == IF reading # 0 THEN racing < RacingBound ELSE exports < ExportBound

SourcePublish ==
    /\ Cardinality(source["commit"]) <= SourceBound /\ SourceLive
    /\ source' \in Published(source, "source")
    /\ racing' = IF reading # 0 THEN racing + 1 ELSE racing
    /\ UNCHANGED <<target, reading, file, import, old, sweep, exposed,
                   exports, imports, crashes, sweeps, ages>>

\* Store::create_snapshot, of the head.
Savepoint ==
    /\ source["snapshot"] = {} /\ SourceLive
    /\ source' = [source EXCEPT !["snapshot"] = {<<"savepoint", HeadOf(source)>>}]
    /\ UNCHANGED <<target, reading, file, import, old, sweep, exposed, counters>>

\* export_archive's queries.  Runs and tool calls are part of their span.
ExportOrder == <<"chunk", "node", "root", "commit", "branch", "snapshot", "span", "mutation">>

ExportStart ==
    /\ reading = 0 /\ exports < ExportBound
    /\ reading' = 1
    /\ file' = [rows |-> NoRows, ended |-> FALSE, since |-> source]
    /\ exports' = exports + 1
    /\ UNCHANGED <<source, target, import, old, sweep, exposed,
                   racing, imports, crashes, sweeps, ages>>

ExportTable ==
    /\ reading \in DOMAIN ExportOrder
    /\ LET t == ExportOrder[reading] IN file' = [file EXCEPT !.rows[t] = source[t]]
    /\ reading' = reading + 1
    /\ UNCHANGED <<source, target, import, old, sweep, exposed, counters>>

\* ArchiveWriter::finish
ExportEnd ==
    /\ reading = Len(ExportOrder) + 1
    /\ file' = [file EXCEPT !.ended = TRUE]
    /\ reading' = 0
    /\ UNCHANGED <<source, target, import, old, sweep, exposed, counters>>

\* A crash, or a file that cannot be written on, leaves what was written.
ExportStops ==
    /\ reading # 0 /\ crashes < CrashBound
    /\ reading' = 0 /\ crashes' = crashes + 1
    /\ UNCHANGED <<source, target, file, import, old, sweep, exposed,
                   exports, racing, imports, sweeps, ages>>

--------------------------------------------------------------------------------
(* The import *)

\* A bug the runs must catch: a stream that stops is taken for one that ends.
EndOptional == \A s \in file.rows["root"] : {TopNode(s), KvNode(s)} \subseteq file.rows["node"]

\* read_archive: the terminator is there, and so are the two nodes each root names.
Accepted ==
    /\ file.ended
    /\ \A s \in file.rows["root"] : {TopNode(s), KvNode(s)} \subseteq file.rows["node"]

ImportStart ==
    /\ import.phase # "rows" /\ imports < ImportBound
    /\ file.rows # NoRows /\ Accepted
    /\ sweep.phase = "idle"                     \* ensure_repository takes the lock once
    /\ import' = [phase |-> "rows", archive |-> file, left |-> file.rows]
    /\ imports' = imports + 1
    /\ UNCHANGED <<source, target, reading, file, old, sweep, exposed,
                   exports, racing, crashes, sweeps, ages>>

\* Bugs the runs must catch: a name, or a commit, before what it names.
NamesFirst == <<"chunk", "branch", "node", "root", "span", "commit", "mutation", "snapshot">>
CommitsFirst == <<"chunk", "node", "root", "commit", "span", "mutation", "branch", "snapshot">>

\* import_archive's loops.
ImportOrder == <<"chunk", "node", "root", "span", "commit", "mutation", "branch", "snapshot">>

\* The table the import is at.
At(t) ==
    /\ import.phase = "rows" /\ import.left[t] # {}
    /\ \E i \in DOMAIN ImportOrder :
        ImportOrder[i] = t /\ \A j \in 1..(i - 1) : import.left[ImportOrder[j]] = {}

\* Commits come in the order of their sequences; another table in that of its query.
Upcoming(t, r) ==
    /\ r \in import.left[t]
    /\ t = "commit" => \A h \in import.left[t] : Top(r).seq <= Top(h).seq

\* The unique index commit_repo_sequence_unique refuses a second commit of a number.
Refused(t, r) == t = "commit" /\ \E h \in target[t] : h # r /\ Top(h).seq = Top(r).seq

\* A chunk or a node that is written again is young again.  If a collection listed it
\* before, it is deleted all the same.
ImportRow(t) ==
    /\ At(t)
    /\ \E r \in import.left[t] :
        /\ Upcoming(t, r) /\ ~Refused(t, r)
        /\ target' = [target EXCEPT ![t] = Upsert(@, t, r)]
        /\ import' = [import EXCEPT !.left[t] = @ \ {r}]
        /\ old' = [u \in Content |-> IF u = t THEN old[u] \ {r} ELSE old[u]]
        /\ exposed' = IF sweep.phase = t /\ r \in sweep.doomed THEN exposed \cup {"listed"} ELSE exposed
    /\ UNCHANGED <<source, reading, file, sweep, counters>>

ImportRefused ==
    /\ At("commit")
    /\ \E r \in import.left["commit"] : Upcoming("commit", r) /\ Refused("commit", r)
    /\ import' = [import EXCEPT !.phase = "failed"]
    /\ UNCHANGED <<source, target, reading, file, old, sweep, exposed, counters>>

\* The engine fails at any row, or in the final check.
ImportFails ==
    /\ import.phase = "rows" /\ crashes < CrashBound
    /\ import' = [import EXCEPT !.phase = "failed"]
    /\ crashes' = crashes + 1
    /\ UNCHANGED <<source, target, reading, file, old, sweep, exposed,
                   exports, racing, imports, sweeps, ages>>

\* The final check: each root of the archive loads.
Loads(s) == s \in target["root"] /\ {TopNode(s), KvNode(s)} \subseteq target["node"]

ImportEnd ==
    /\ import.phase = "rows" /\ import.left = NoRows
    /\ import' = [import EXCEPT !.phase =
                    IF \A s \in import.archive.rows["root"] : Loads(s) THEN "done" ELSE "failed"]
    /\ UNCHANGED <<source, target, reading, file, old, sweep, exposed, counters>>

\* No collection is under way.
Idle == [phase |-> "idle", roots |-> {}, reached |-> {}, doomed |-> {}]

\* The target's process stops: import and collection with it.
TargetCrash ==
    /\ import.phase = "rows" /\ crashes < CrashBound
    /\ import' = [import EXCEPT !.phase = "stopped"]
    /\ sweep' = Idle
    /\ crashes' = crashes + 1
    /\ UNCHANGED <<source, target, reading, file, old, exposed,
                   exports, racing, imports, sweeps, ages>>

--------------------------------------------------------------------------------
(* The target's own publications and collections *)

\* The rows it writes are young; what it shares with its base is named by that.
TargetPublish ==
    /\ Cardinality({h \in target["commit"] : Top(h).at = "target"}) < TargetBound
    /\ sweep.phase = "idle"
    /\ target' \in Published(target, "target")
    /\ old' = [t \in Content |-> old[t] \ RowsOf(t, Top(HeadOf(target')).state)]
    /\ UNCHANGED <<source, reading, file, import, sweep, exposed, counters>>

\* The grace period goes by.  An import, or a collection, that takes as long is not
\* what it is made for.
Ages ==
    /\ ages < AgeBound
    /\ old' = [t \in Content |-> target[t]]
    /\ exposed' = IF import.phase = "rows" \/ sweep.phase # "idle" THEN exposed \cup {"slow"} ELSE exposed
    /\ ages' = ages + 1
    /\ UNCHANGED <<source, target, reading, file, import, sweep,
                   exports, racing, imports, crashes, sweeps>>

\* Store::gc, which holds the publish lock throughout.  It reads the roots, and fails
\* at one whose nodes are not there.
SweepStart ==
    /\ sweep.phase = "idle" /\ sweeps < SweepBound
    /\ \A s \in target["root"] : {TopNode(s), KvNode(s)} \subseteq target["node"]
    /\ sweep' = [Idle EXCEPT !.phase = "roots", !.roots = target["root"]]
    /\ sweeps' = sweeps + 1
    /\ UNCHANGED <<source, target, reading, file, import, old, exposed,
                   exports, racing, imports, crashes, ages>>

\* A bug the runs must catch: the walk does not go down into subdirectories.
ReachedShallow(s, nodes) ==
    {x \in Present({s.top}) : TopNode(s) \in nodes} \cup {x \in Present({s.kv}) : KvNode(s) \in nodes}

\* walk_tree: the chunks that the listed nodes below a root name.
Reached(s, nodes) ==
    {x \in Present({s.top}) : TopNode(s) \in nodes}
        \cup {x \in Present({s.sub}) : {TopNode(s), <<"sub", s.sub, None>>} \subseteq nodes}
        \cup {x \in Present({s.kv}) : KvNode(s) \in nodes}

\* A node below one that is not listed is not met.
Met(s, nodes) == IF TopNode(s) \in nodes THEN NodesOf(s) ELSE {TopNode(s), KvNode(s)}

\* It lists the nodes and walks them from the roots.
SweepNodes ==
    /\ sweep.phase = "roots"
    /\ sweep' = [phase |-> "node", roots |-> {},
                 reached |-> UNION {Reached(s, target["node"]) : s \in sweep.roots},
                 doomed |-> (target["node"] \cap old["node"])
                                \ UNION {Met(s, target["node"]) : s \in sweep.roots}]
    /\ UNCHANGED <<source, target, reading, file, import, old, exposed, counters>>

\* It deletes what it listed, row by row, by name: no row is read again.
SweepRow(t) ==
    /\ sweep.phase = t
    /\ \E r \in sweep.doomed :
        /\ target' = [target EXCEPT ![t] = @ \ {r}]
        /\ old' = [u \in Content |-> IF u = t THEN old[u] \ {r} ELSE old[u]]
        /\ sweep' = [sweep EXCEPT !.doomed = @ \ {r}]
    /\ UNCHANGED <<source, reading, file, import, exposed, counters>>

\* After the nodes it lists the chunks.
SweepChunks ==
    /\ sweep.phase = "node" /\ sweep.doomed = {}
    /\ sweep' = [Idle EXCEPT !.phase = "chunk",
                             !.doomed = (target["chunk"] \cap old["chunk"]) \ sweep.reached]
    /\ UNCHANGED <<source, target, reading, file, import, old, exposed, counters>>

SweepEnd ==
    /\ sweep.phase = "chunk" /\ sweep.doomed = {}
    /\ sweep' = Idle
    /\ UNCHANGED <<source, target, reading, file, import, old, exposed, counters>>

\* A query of the collection fails.
SweepFails ==
    /\ sweep.phase # "idle" /\ crashes < CrashBound
    /\ sweep' = Idle
    /\ crashes' = crashes + 1
    /\ UNCHANGED <<source, target, reading, file, import, old, exposed,
                   exports, racing, imports, sweeps, ages>>

--------------------------------------------------------------------------------

NoFile == [rows |-> NoRows, ended |-> FALSE, since |-> NoRows]

Init ==
    /\ source = NewRepository
    /\ target = NewRepository
    /\ reading = 0 /\ file = NoFile
    /\ import = [phase |-> "idle", archive |-> NoFile, left |-> NoRows]
    /\ old = [t \in Content |-> {}]
    /\ sweep = Idle /\ exposed = {}
    /\ exports = 0 /\ racing = 0 /\ imports = 0 /\ crashes = 0 /\ sweeps = 0 /\ ages = 0

Next ==
    \/ SourcePublish \/ Savepoint
    \/ ExportStart \/ ExportTable \/ ExportEnd \/ ExportStops
    \/ ImportStart \/ (\E t \in Tables : ImportRow(t)) \/ ImportRefused \/ ImportFails
    \/ ImportEnd \/ TargetCrash
    \/ TargetPublish \/ Ages
    \/ SweepStart \/ SweepNodes \/ SweepChunks \/ (\E t \in Content : SweepRow(t))
    \/ SweepEnd \/ SweepFails

Spec == Init /\ [][Next]_vars

--------------------------------------------------------------------------------
(* Properties *)

\* Whatever an import has written when it fails or stops, and whatever the target
\* publishes and collects meanwhile, chunks and nodes of stopped imports included, no
\* root, commit, mutation, branch or snapshot of the target names content or a record
\* that is not there ("Content first: an importer can then verify every reference it
\* meets").  Claimed until an import writes a row that a collection has listed for
\* removal, or outlasts the grace period: those may lose it.  And claimed of exports
\* into which no publication falls: TargetReadable is about those.
ReferencesResolve ==
    racing = 0 /\ exposed = {} => \A t \in Tables : \A r \in target[t] : Resolves(target, t, r)

\* The tables whose rows nothing may have removed.
Lasting == {"root", "commit", "span", "mutation"} \cup (IF exposed = {} THEN Content ELSE {})

\* An import that reports success has brought everything the source held when the
\* export began: content, history and provenance, and each name at its commit, or
\* where a publication of the target's own took it from there.  No later collection
\* takes any of it.
RoundTrip ==
    import.phase = "done" =>
        LET since == import.archive.since
        IN  /\ \A t \in Lasting : since[t] \subseteq target[t]
            /\ \A t \in {"branch", "snapshot"} : \A r \in since[t] :
                \E q \in target[t] : q[1] = r[1] /\ SubSeq(q[2], 1, Len(r[2])) = r[2]

\* Once an import has moved a branch or a snapshot, all the content, history and
\* provenance of its archive is there, whether the import then succeeds, is refused,
\* fails at a later row or in the final check, or stops.
NamesComeLast ==
    (\E t \in {"branch", "snapshot"} : import.left[t] # import.archive.rows[t]) =>
        \A t \in Lasting : import.archive.rows[t] \subseteq target[t]

\* Every branch and snapshot of the target can be read: the archive that put it
\* there carried all of it.  (Claimed of every archive that read_archive accepts.)
TargetReadable ==
    \A t \in {"branch", "snapshot"} : \A r \in target[t] :
        r[2] \in target["commit"] /\ StateWhole(target, Top(r[2]).state)
================================================================================
