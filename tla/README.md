# A verification of SurrealFS in TLA+

SurrealFS is a versioned file and key/value repository on an embedded SurrealDB.
Callers edit a private *workspace* over a branch head and publish it as one
atomic, immutable commit; agents reach it through tool calls, recorded runs and a
FUSE mount, and whole repositories travel as archives. These modules model the
publication protocol, the namespace a workspace edits, the mount, archives, the
opening of a store and what agents do with it, each beside the concurrency,
failures and crashes the code meets. TLC checks them on small instances; TLAPS
proves the safety of publication, of the namespace, of store ownership, of the
calls of agents, of archives and of mounts for instances of any size, and that
publication and namespace implement their abstract specifications.
Paths below are under `src/crates/`.

## 1. The system

| Component (crate) | State it keeps | Operations | Talks to |
|---|---|---|---|
| workspace, kernel (`surrealfs-kernel/src/lib.rs`) | base head and root, namespace root, KV map, mutation log, staged bytes, open flag | reads, writes, `rename`, `copy`, `link`, `set_meta`, `publish`, `abort`; `fork`, `savepoint`, `revert_to` | store, content |
| publication (`surrealfs-store/src/publish.rs`, `plan.rs`) | rows `branch`, `commit`, `receipt`, `state_root`, `state_node`, `chunk`; `publish_lock` | `ensure_repository`, `stage_chunks`, `receipt`, `publish` | the engine's transactions |
| branches, snapshots (`branches.rs`) | rows `branch`, `snapshot` | `branch_create`, `snapshot_create`, `snapshot_resolve` | publication, by the head rows |
| collection (`gc.rs`) | none of its own; `publish_lock` | `gc` | publication, staging, by the chunk and node rows |
| reads, spans (`read.rs`) | rows `workspace`, `tool_call` | `load_root`, `workspace_open`, `workspace_abort`, `tool_start`, `tool_finish`, `explain_path` | kernel, MCP, run |
| opening (`store/src/lib.rs`, `surrealfs-core`) | `migration_receipt` rows, ownership lock | `open_with`, `apply_migrations`, `acquire_lock` | everything |
| archive (`archive.rs`) | none | `export`, `read_archive`, `import_archive` | all tables |
| node cache (`resident.rs`) | nodes by digest, insertion order | `get`, `insert`, `clear` | kernel views |
| tree and chunks (`surrealfs-content`, `kernel/src/view.rs`) | immutable directory nodes | insert, remove, `get`, `diff`, chunking | workspace |
| file handles (`kernel/src/handle.rs`) | bytes, digest at open, dirty flag | `open`, `pread`, `pwrite`, `truncate`, `close` | workspace, mount |
| host boundary (`kernel/src/host.rs`) | none | `ingest`, `apply` | workspace, host files |
| mount (`surrealfs-mount`, `surrealfs-fuse`) | inode table, open handles, mtimes, one workspace, each behind its own lock | lookup, create, open, write, release, unlink, rename, publish, abort | handles, workspace |
| run, MCP (`surrealfs-run`, `surrealfs-mcp`) | tool spans | `run_in`, `with_span` | kernel |
| types, cipher, model, CLI, SDK, sandbox, testkit | none that outlives a call | parsing, digests, sealing, forwarding | |

**How they interact.** A workspace lives in memory until `publish`: it stages its
chunks with one UPSERT each (no lock, no transaction), then `Store::publish`
takes the process-wide `publish_lock`, looks for a receipt, and runs one
transaction that compares the branch head with the workspace's base, verifies
the staged chunks, allocates a sequence number and writes all rows. `gc` takes
the same lock, but staging and `branch_create` do not. What survives a crash is
the rows; the lock, the workspaces and a running collection do not.

**What is hard.** Two publications over one head; retries of what already
happened; staging beside a collection that lists first and deletes later; forks
beside publications; death between any two of these steps; states that recur
after an undo or a revert, so that anything keyed by a *state* confuses two
moments of history; edits that share nodes by digest; hard-link groups that every
operation has to keep in step; requests of a mount that let the workspace lock go
half way; tables exported and rows imported one by one; migrations cut off in the
middle. `PROJECT.json` lists every such hazard with its line and the properties
that watch it.

**What makes each component correct.** Publication: no lost update, each request
applied once, a total order of commits, answers about the caller's own work.
Collection: no published state loses content. Workspace records: COMMITTED means
committed. Tree: an edit changes its path and nothing else; link groups agree.
Handles: bytes are written back or their loss is reported. Mount: one number, one
path. Migrations: an interrupted upgrade never serves a half-built schema.
Archive: an archive imports to the repository it was taken from.

## 2. The modules

| Module | Models | Rests on |
|---|---|---|
| `CommitLog` | the abstract promise of history: branches name commits, commits and receipts are only added, one step is one whole publication or one fork | |
| `Publication` | the publication protocol, with workspaces, staging, the lock, reverts, collections, crashes | implements `CommitLog` |
| `PublicationSafety`, `PublicationAnswers` | the proofs about `Publication` | |
| `Tree` | directory nodes by digest, insert, remove, get, walk and diff as operators | |
| `PathMap` | the abstract promise of a workspace's namespace: a map from paths to entries changed by whole operations | |
| `Namespace` | the workspace's operations as edits of digest nodes, publication of nodes, collection of nodes | `Tree`; implements `PathMap` |
| `TreeFacts` | lemmas on what each operator of `Tree` does, at any depth | `Tree` |
| `NamespaceSafety` | the proofs about `Namespace` | `TreeFacts` |
| `Mount` | FUSE requests, inode table, file handles and the workspace behind them | `Tree` (paths) |
| `MountSafety` | the proofs about `Mount` | |
| `Archive` | export, the archive file, import, beside the publications and collections of both repositories | |
| `ArchiveSafety` | the proofs about `Archive` | |
| `Opening` | lock file, engine lock, migrations and their ledger, repository creation | |
| `OpeningSafety` | the proof about `Opening` | |
| `Agents` | tool calls, runs, ingests and applies of the process that owns the store, and the directory of the host | composes `Opening` |
| `AgentsSafety` | the proofs about `Agents` | `OpeningSafety` |
| `MC...` | instances for TLC: symmetry sets, seeds, path sets | |

### Publication: state

| Variable | Code |
|---|---|
| `head`, `commit`, `receipt` | rows of those tables; a name or id that is absent is not in the DOMAIN |
| `age` | the chunk rows, with whether `created_at` lies within the default grace |
| `record` | the `workspace` rows: OPEN, COMMITTED with the final commit, or ABORTED |
| `lock` | holder of `Store::publish_lock` (a session or the collector) |
| `phase`, `ws`, `todo`, `tx`, `answer` | where a session's call is; its `Workspace` or revert plan; chunks not yet written; what its open transaction has read; what the last call returned |
| `sweep` | the running collection and the rows it has listed |
| `sweeps`, `crashes` | counters of the bounds |

A *session* is one `Workspace` from open to close, or one `revert_to`. A state is
a function from *slots* (file paths and KV keys) to the chunk the slot holds.
Digests are injective: a digest of a tuple is the tuple.

### Publication: actions

| Action | Code |
|---|---|
| `Open`, `Put`, `Remove`, `Abort`, `Drop` | `Kernel::workspace`; `write_file`/`kv_set`; `unlink`/`kv_delete`; `abort`; a `Workspace` dropped unclosed |
| `CallNamed`, `CallAuto` | `Workspace::publish` with the caller's request id, or the derived one |
| `RevertTo` | `Kernel::revert_to` up to its plan |
| `StageChunk` | one UPSERT of `stage_chunks` |
| `Submit` | the budget check before the lock |
| `Enter` | the lock is acquired, receipt fast path, `check_replay` |
| `Decide` | the transaction reads: each refusal of `publish_tx` in its order, else parent and sequence |
| `Commit` | the transaction's rows appear; the lock is released; the workspace closes |
| `Fail` | an engine error in any of these steps |
| `Fork` | `branch_create`, which takes no lock |
| `SweepStart`, `SweepDelete`, `SweepEnd`, `SweepFail` | `gc`: mark and list, one DELETE per row, the normal end and the early return of a failed DELETE |
| `Age`, `Crash` | the grace period passes; the process dies and the store is opened again |

What is read before `publish_lock` (base head, root) and what is read inside the
transaction (head, receipt, sequence) are separate steps of the model from the
writes, so the lock and the head comparison are what the properties rest on:
the mutants that drop one of them are caught.

### Abstractions

One repository. A state is a map of slots: directories, symlinks, link groups,
metadata and nodes are the subject of `Namespace`. The refusal of a plan whose
*metadata bytes* exceed the budget has the same effect as the mutation budget and
is the same refusal. `staged_limit` (bytes in one workspace) is left out:
refused edits change nothing. Author and message are not part of commit ids in
the model: leaving them out makes ids collide sooner, never later. A crash loses
no committed row (the engine's promise). `snapshot_create` binds names nothing
else here reads. Sealing of chunk bodies changes no digest.
The schema's unique index on (repository, domain_sequence) and the engine's own
detection of write conflicts are left out: the properties hold without them, so
they are a second line that the lock and the head comparison never need.

### Tree, Namespace, PathMap

A digest is injective, so a node stands for its own digest and a directory entry
holds the node it names. What a digest cannot give is the *body*: an edit reads
only the nodes that are known, which are what `view::prefetch` loaded of the
store and of the workspace's own `new_nodes`, and it fails with `NodeMissing`
otherwise. `store` is the `state_node` table, `root` and `fresh` the workspace's
`namespace_root` and `new_nodes`, `touched` the paths its mutation log names.
`WriteFile`, `Mkdir`, `Unlink`, `Rmdir`, `Rename`, `Copy`, `MakeSymlink`,
`SetMeta` and `Link` have the guards of the methods of those names, in their
order, and one edit each of one or more paths (`InsertAll` for a link group);
`UnlinkHalf` and `CopyFails` are the error paths that leave something behind.
`Publish` writes `fresh` and nothing else (`write_state`), `Collect` deletes every
node no commit reaches, whatever workspace is open.

`PathMap` is this project's own abstract statement: a map from paths to entries, with
relations between the map before and after each operation. It is modelled on the
repository's reference implementation (`surrealfs-model`) except for what happens to the
names of hard-linked files, where it follows the kernel: there the two differ (§3,
divergences without a run).
`Namespace` is proved to implement `PathMap` with `view <- Listing(root)`, so neither
sharing, nor collections, nor the order of node writes can be seen. `Link` gives the new
name to the group the entry *lists*, so a renamed member that no list names stays out of
it, as in the code. One workspace is open at a time: what two do to one branch is
`Publication`'s subject. Seeds stand for what an earlier history has published (a
hard-linked pair, or one whose directory was renamed, which the code lets go out of step)
and count as one edit.

### Mount

The session thread serves one request at a time (`SurrealFuse::block_on`). A
request is a sequence of *sections* in `todo`, each one hold of the workspace lock
with the uses of the other tables around it: `Create` is open-and-close, the
answer's attributes, the second open, and the adapter's `setattr` for any mode but
644; `SetAttrs` is a resize of an open file, or open, resize and release of one of its own, or
neither, then `setattr` and the answer. `BreakOff` is a section that fails with the
sections before it done, `ReleaseFails` a write-back that fails after the handle left the
table.

Between sections the supervisor acts and other surfaces commit (`Foreign`). `publish` and
`abort` hold the workspace lock over two awaits each, and are two steps: `Publish` commits,
or is answered with the receipt of an earlier publication of the same edits over the same
root (`made` keeps those, by the roots they began and ended at), `Abort` closes the
workspace, and then `Reopen` takes up whatever the head shows by then, under the same inode
table and the same open files; `ReopenFails` leaves the mount on the closed workspace. What
the new workspace shows differently at a numbered path is set down in `off`.

Handles carry path, bytes, dirty flag and the digest at
open (`DigestOf`, the whole entry). `id` gives every file an identity from its
creation, `meant` remembers what each number was first answered for; the code
keeps neither, the properties need them. A removed or renamed name is one the
operating system has looked up (`LookedUp`); any other request may come by a number
whose name was replaced since (`Numbered`).

### Archive

A table is the set of its rows, since all but branches and snapshots are named by what they
say. `ExportTable` is one query; `ExportStops` and `ExportEnd` leave a file with or without
its end marker; `Accepted` is `read_archive`; `ImportRow` is one UPSERT, in the order of
`import_archive` (commits by sequence); `ImportRefused` the unique index on sequences;
`ImportFails` an engine error at any row or in the final check; `ImportEnd` that check,
which loads roots but no chunks. The source publishes and takes savepoints while it is
exported, the target publishes, collects and crashes while it imports. A collection reads
the roots (`SweepStart`), lists and walks the nodes (`SweepNodes`, with `Reached` and `Met`
for `walk_tree`), deletes the old ones it did not meet one by one, lists the chunks and
deletes those (`SweepRow`, `SweepChunks`), and may fail at any query. `Ages` lets the grace
period go by, after which all that is in the store is `old` until it is written again.
`exposed` records how an import lost the protection of the grace period: `"listed"` when it
wrote a row that a collection had listed before, `"slow"` when it, or a collection, took as
long as the period. A publication is one step here. `racing` counts the publications that
fall into an export: the passing runs have none, the run `torn` one.

### Opening

`lock` is `surrealfs.lock`, `engine` the storage engine's own hold on the
directory, which the last owner gives back some time after its store is dropped
(`dropped`, `EngineReleased`) and a killed process at once. A process goes through
`AcquireLock`, `OpenEngine` or `GiveUp` (the deadline), per migration
`SkipApplied`, `RefuseInterrupted` or `StartMigration`, `RunDdl` or `BreakOff`,
`FinishMigration`, then `WriteManifest`, `EnsureRepository`, `Close`; `Crash` at
any place. The directory is new or one an older build, with fewer migrations, has
closed.

### Agents

Extends `Opening`: calls run while some process owns the store, and die with it; the rows
stay. `SpanOpens`, `ToolCallOpens`, `SpanCloses`, `ToolCallCloses` are the four statements
of `tool_start` and `tool_finish`. A tool call edits and publishes (`with_span`); a run
changes the directory (`Spawn`) and ingests it; an ingest reads file by file and publishes
if anything differs; `apply` verifies file by file and writes file by file. A call keeps its
staged edits (`muts`). A publication without a request id is known by the state it starts
from and its edits (`SameRequest`), so `Replay`, which comes before the head is compared,
answers it with the receipt of an equal one another call has made; `Publish` makes a commit,
which bears the call's span, and `Conflict` is the refused publication, `NoWorkspace` the
early return that leaves the span RUNNING. `Interfere` is what people and other programs do
to the directory. Repository and directory both have hard links: link groups on one side,
inodes on the other. A call is *disturbed* when the directory changed under it by other
hands since it opened its workspace, or began to apply.

## 3. The runs

| Run | Instance | Shows |
|---|---|---|
| `publication` | 3 sessions, 2 branches, 1 path, 1 chunk, 1 shared request id, 1 edit each, 1 crash | the eight history properties below |
| `collection` | 2 sessions, 1 path, 1 KV key, 1 chunk, 2 edits with a budget of 1, 1 collection, 1 crash (255,768 states) | `TypeOK`, `NoDanglingContent`, `CallsAnswered` |
| `namespace` | 2 names, depth 2, 2 contents, 2 metadata values, 3 edits of any kind, 1 collection, any number of publications and workspaces (56,141 states) | the six namespace properties |
| `mount` | 2 directories with a file each, 4 requests, 2 events between sections or awaits (1,616,656 states) | `NumbersStandForFiles`, `ReleaseExact` |
| `archive` | source and target with 1 commit of their own each, 2 imports, 1 failure or crash, 1 collection, the grace period once (1,077,091 states) | `ReferencesResolve`, `RoundTrip`, `NamesComeLast` |
| `agents` | 2 processes, 1 migration, 2 calls of any kind, 2 names, 2 contents, 1 foreign change, 1 crash (1,610,209 states) | the six agent properties |
| `replay`, `grace`, `links`, `writeback`, `torn`, `record` | as small as the case allows | a violation each: findings 1 to 6, in this order |

Publication:

- `HistoryExplainsState`: each commit's state is its parent's state with its own
  mutations applied: no lost update.
- `OneReceiptPerCommit`: commits and receipts account for each other.
- `SequenceOrdersHistory`: the domain sequence is a total order over all branches.
- `WorkspaceRecordsTruthful`: a record says COMMITTED exactly when its commit exists.
- `AnswersTruthful`: a receipt names a commit that holds the caller's work.
- `ConflictsArePermanent`: a head that was passed is never the head again.
- `SecondLineIdle`: the checks `publish_tx` repeats never decide anything, and
  content is missing only where a collection has run.
- `ImplementsCommitLog`: refinement of `CommitLog`.
- `NoDanglingContent`: every chunk a published state names is stored.
- `TypeOK`: types, references between rows, and the budget of plans at the lock.
- `CallsAnswered`: a publish call returns unless the process dies.

Namespace:

- `NodesComplete`: every published tree can be read from the store, and the
  workspace's from the store and what it will publish, whatever was collected.
- `NothingUnread`: what an operation prefetches is all its edit reads.
- `LinkGroupsAgree`: the names of a hard-linked file show one entry that lists
  exactly them. Claimed until a name is renamed, replaced or given metadata of its
  own (`stray`): after that the code does let groups diverge (finding 3).
- `DiffExact`: `tree::diff` reports the paths that differ and no other, with two
  exceptions it states: a directory whose own metadata alone changed (`Restamped`), and
  what lies beneath a directory that became something else or the reverse.
- `ChangesAreLogged`: every difference from the base has a logged cause.
- `ImplementsPathMap`: refinement of `PathMap`.

Mount:

- `NumbersStandForFiles`: a number leads to the file it was first answered for,
  through renames of whole directories, replacement and creation anew. Excepted are the
  numbers whose file a publication or an abort found replaced at the head it opened (`off`).
- `ReleaseExact`: a release changes the file the handle opened, or nothing.

Archive:

- `ReferencesResolve`: at every moment of an import, failed or not, no row of the
  target names what is not there, beside collections that find the nodes and chunks of
  stopped imports old and unreachable. Claimed until an import writes a row that a
  collection has listed, or outlasts the grace period (`exposed`), and of exports into
  which no publication falls (finding 5 is about the others).
- `RoundTrip`: a successful import has brought all the source held at the start.
- `NamesComeLast`: once an import has moved one branch or snapshot, all the content,
  history and provenance of its archive is in the target. An import that fails after that,
  at a later name or in the final check, leaves names moved and nothing dangling.

Agents:

- `OwnedAndMigrated`: the owner is alone, holds both locks and has a full schema.
- `CommitsExplained`: the rows that explain a commit exist, however calls died.
- `OutcomesTruthful`: the edit of a SUCCEEDED tool call is in a commit, its own or, if it
  has none, one that another call made with the same edit of the same state; a FAILED call
  has no commit; span and `tool_call` row agree.
- `FilesRecorded`: an undisturbed ingest holds every file of the directory.
- `ApplyExact`, `UnseenWorkKept`: an undisturbed apply leaves what the target
  holds, and overwrites nothing that no commit holds.

**Why the bounds are enough.** Three sessions are a winner, a loser and a revert that
brings an old state back, the fewest with which states recur and request ids meet. Two
branch names give a fork beside a publication and two branches that share a parent. One
edit decides between equal and different work; two edits (with a budget of one) reach
the refusal and an overwrite in one log. One chunk is kept in one state and collected in
another. One collection suffices because each starts from the rows alone. One crash hits
every pair of steps; after it no volatile state is left for a second to lose. Two names
at depth two give a directory, its sibling and entries in both, which is what rename,
replacement and a link group across directories need; three edits over a seed break
every dropped guard the mutants try. Four requests are the fewest in which a file is
opened, written, replaced by a rename and released; two events are a publication or an
abort with another surface's commit before it, or between its awaits, or a publication
and its replay. Two commits give the archive a parent (the first is the genesis both
repositories begin with) and a state that shares nodes with it; longer histories are the
theorems'. Two imports are a repetition after a failure, and what the stopped one leaves
is the collection's litter. Two calls meet in every pair of steps. With one migration an
older ledger is either empty or complete in `agents`: a partly applied one occurs only
in the theorem `StoreOwnership`, which is about any number of migrations. Deadlock is
not checked: when sessions, requests, calls or edits are used up the system rightly
stops.

**Fairness.** A call that was made runs on: `WF` on its steps, since nothing in
`publish` waits but for the lock. `SF` on `Enter`, since `publish_lock` is a tokio
`Mutex`, which serves its waiters in order of arrival, so a waiter for which the
lock is free again and again gets it. A collection runs on (`WF`). Opening,
editing, calling, collecting, failing and crashing are never required.

**Findings.**
1. (`replay`) The derived request id hashes the base *root*, while the comment on
   `Workspace::publish` (kernel `lib.rs:701`) says it is derived from the base
   *head*. Publish an edit, revert to before it, make the same edit: the second
   publish is answered `Replayed`, and the edit is not in the branch.
2. (`grace`) `gc.rs:31` says objects are never collected before the grace has
   passed "whatever the reachability analysis says", but a listed row is deleted
   without being read again, and staging refreshes it under no lock. No published
   state is harmed (`NoDanglingContent` is proved): the publication that staged
   the chunk is refused as corrupt and can be retried.
3. (`links`) `write_file` writes to the names the *entry* lists, and `rename` does
   not change them. After write a, link a b, rename b to c, a write to c lands at a
   and b; c keeps its content, against "a write through any of them is a write to
   all of them" (kernel `lib.rs:493`).
4. (`writeback`) `Workspace::close` compares the digest of the whole entry. A chmod
   of an open file, also the one the FUSE `create` sends itself for a mode other
   than 644, makes release drop the bytes without an error, although the file is
   neither "unlinked, or replaced by different content" (`handle.rs:189`).
5. (`torn`) A publication between two of the export's queries leaves an archive
   that verifies and imports although a branch names a commit that is not in it.
   "An importer can then verify every reference" (`archive.rs:265`), but checks
   only that roots have nodes.
6. (`record`) `run_in` is to "record exactly what it changed" (`surrealfs-run`), but
   `ingest` never looks for files that have gone.

**Divergences without a run.** These are stated as exceptions of the properties above, at
the definitions named; without the exception TLC refutes the property.

- `diff` is to "show what changed between two commits" (CLI, `main.rs:50`), but `diff_into`
  never compares the metadata of two directories (`tree.rs:491`): after a chmod of a
  directory the roots differ and it prints "no changes". (`Restamped` in `DiffExact`.)
- "Anything a commit's root reaches is retained" (`gc.rs:69`), but a collection deletes
  what it listed without reading it again, and an import takes no lock: the nodes that a
  stopped import left are listed as old, the import is run again and writes them and the
  commits over them, and the collection deletes them. (`exposed`, by `"listed"`, in
  `ReferencesResolve`.)
- "The commit is attributed to it" (`tools.rs:398`), but the derived request id covers no
  span: of two tool calls that make the same edit of the same state the second is answered
  with the first one's receipt, and its span is closed SUCCEEDED with no commit of its own.
  (The second case of `OutcomesTruthful`.)
- "`apply` refuses to write when the directory has changed underneath it" (`host.rs:7`),
  but it verifies all files before it writes the first: a file that is edited in between is
  overwritten. (`disturbed` in `UnseenWorkKept`.)
- "The resulting state roots must match" (`surrealfs-model/src/lib.rs:5`), but the kernel's
  rename carries a file's list of links to the new path, and `RefModel::rename` (:155)
  leaves it at the old one. The generated sequences of the kernel's tests contain neither
  links nor renames. (`Move` in `PathMap` follows the kernel.)

## 4. The proofs

The theorems hold for any sets of sessions, branches, keys and chunks and any
bounds, from the assumptions on the constants in `Publication`: `Main` is a
branch, paths are finite and no KV key is a path, the special values are
different from the others, the bounds are numbers.

`TypeOK` is not inductive: that a plan asks for the lock within the budget, and
that a new row is well typed, depends on what the fields of a workspace are in
each phase; `TypeInv` adds that (`Shape`). The safety
properties need more. `IInv` adds:

- `Locked`: whoever is past `Enter` and before its answer holds the lock, hence is
  alone, and no collection runs beside it;
- `PlanKnown`: a plan is for a branch and a base that exist, and its state names
  only chunks that are published already or carried by its own mutations;
- `PlanReady`: what an open transaction has read is still so when it commits: no
  receipt for the request, the head equal to the base, the required chunks stored,
  the new commit id unused, the sequence above all others;
- `ContentSafe`: nothing that a collection has listed is referenced. This is where
  the lock matters: a new commit, the only way to become referenced, cannot appear
  while a collection runs;
- `HeadMovesUp`: the head of a session's branch is its base, or has a higher
  sequence (`Overtaken`) and keeps it, so a passed head never comes back;
- `Recorded`: a record and the workspace's one commit agree, and only a closed
  workspace has a commit.

`SafeInit` and `SafeNext` show it inductive, with one lemma per group of actions:
`SafeEdits`, `SafeCalls`, `SafePublishes` (with `SafeRefuse`, `SafeCommit`) and
`SafeOthers`. `SessionRests` and `HistoryRests` carry what a step leaves alone.
From `Invariance` follow `TypeCorrect`, `ExactlyOnce`, `TotalOrder`,
`ContentKept`, `RecordsTruthful` and `ConflictsFinal`; `Implements` adds one case
per kind of step of the abstract log.

`StoreOwnership` (in `OpeningSafety`) proves `OwnedAndMigrated` of `Opening` for any
number of processes, migrations and crashes. `OwnedAndMigrated` speaks of owners
only, so `OpeningInv` says what each step on the way has secured: `HoldsLock`
(whoever is past `acquire_lock` is the holder), `HoldsEngine` (whoever is past
`open_with` has the engine, and it is not being released), `LedgerTruthful` (a
migration marked APPLIED has run), `Passed` (all below the one in hand are
APPLIED) and `InHand` (what each place of `apply_migrations` knows of the migration
in hand). `Passed` at the place after the last migration, with `LedgerTruthful`,
gives the full schema.

`PublicationAnswers` proves what a published state *is*. `AInv` is inductive together
with `IInv`. `RowTold`: a commit is named by the digest of its row, its log explains its
state over its parent's (`Tells`, over the file slots only when a revert made it), and its
receipt's hash is that of this work. `PlanTold`: so does the log of a plan, and its
request id fits it (`Signed`). `PlanStaged`: what a plan requires is staged or published,
and stored as long as nothing was collected. `PlanNew`, `Answered`, `Idle`: a holder's
request has no receipt, an answer is about the caller's own work, and the second line
has decided nothing. Digests being injective, equal command hashes mean an equal base
state and log, and a log explains one state only (`ExplainedOnce`); that is how a
replayed receipt is known to be about the caller's work. `Explained` asks for the last
mutation of a slot, so a log grows by one edit at a time without an induction.
`NoLostUpdate`, `ReceiptsTruthful` and `SecondLineNeverDecides` follow.

`AgentsSafety` composes. `AgentsInv` is `OpeningInv` with `CallsInv`: `AgentTypeOK`, which
says of every tree that the members of a link group show one entry (`Grouped`);
`Linked` (the names of one inode show one content); `OneCommitEach` (a span is on one
commit at most); `CommitsMade` (a commit of one edit shows what that edit makes of the
commit before it); and for each call `SpanInv` (its two rows and its commit, phase by
phase, with `Held`: a call that will say it succeeded has its edit in a commit), `MadeInv`
(what it stages is its edits over its base, so that an equal publication has made an equal
tree), `FirstInv` (a name an ingest remembers for an inode is in its tree), `ReadingInv`
(what an undisturbed ingest has read is in its tree) and `ApplyInv` (what is left of an
apply, that what it has not come to shows a content its commits hold, and what it has
written or removed stays so). The hard part is hard links: a write to one name changes
others, so a file that was written counts as `Settled` also when another file of its inode
was written since. `ActsKeep` carries what a step of one call leaves alone in the others;
a step that changes the directory disturbs every other call in it. Assumed of the
constants: there is at least one file name, and `None` is no call, file, entry or inode.

`ArchiveSafety` has `ArchiveInv`:

- `ArchiveTypeOK`: rows keep their types, a name stands for one commit, `Main` is
  there, and a commit of the source comes after its parent in the sequence;
- `Whole(source)`: the source names only what it holds;
- `ExportInv`: the source covers what it held when the export began, and so does each
  table already read: equal or more rows, names where they were or on top of it
  (`Covers`), which survives any publication;
- `AnchorInv`: content in the source and in every archive is named by a root there whose
  nodes are there too, so that a walk from the roots comes to it;
- `ImportInv`: the target covers the records and names the import has brought
  (`Brought`), which survives publications, collections and the import's own writes, and
  the tables are begun in order (`InOrder`);
- `CollectInv`, as long as nothing was exposed: the chunks and nodes `Claimed` by the
  import or by roots are in the target, no collection has listed them, and what a
  collection has still to list it reaches from the roots it read. What the import brings
  is young until it ends, and has a root once its roots are written, so one or the other
  protects it at every moment;
- `ReferencesInv`: if no publication fell into the export, the archive is whole, and so
  is the target at every moment. A row finds what it names because the tables it names
  rows of come first, and its parent because of the order by sequence
  (`ImportedResolves`); a sweep takes nothing that is claimed (`SweepsRow`).

`EverythingArrives` and `NamesStandOnHistory` need no condition on the export,
`NothingNamedIsMissing` has those its property states.

`MountSafety` first proves what paths are: *beneath* is a partial order in which the
places above one path are a chain, and what a rename carries keeps its order and can be
found from the new name (`BeneathOrder`, `AncestorsAre`, `OntoIs`, `OntoKeepsOrder`).
From there on no proof looks into a path. `MountInv`, until a
name of a linked file is set apart (`astray`), has three parts:

- `Trees`, of the workspace and of the head that it may reopen at: above an entry are
  directories only (`Rooted`), and the names of a link group show one entry that lists
  them (`Grouped`). One lemma for each edit (`WrittenIs`,
  `CutIs`, `UnlinkedIs`, `MadeIs`, `LinkedIs`, `AttrIs`, `ShiftedIs`) shows that it
  leaves a tree and which files stay themselves (`Keeps`);
- `NumbersInv`, `MeantInv`: a mapped path's number leads back to it, and the path shows what
  the number was answered for, unless the number is in `off`. This is why removal has to
  forget and rename has to carry the numbers of everything beneath: `ForgetKeeps`,
  `RenumberKeeps`. A number whose name a rename replaced stays in `to_path`, and no path
  leads to it;
- `HandlesInv` and the types of what is left of a request (`todo`), since a section runs
  on what an earlier one, before a publication perhaps, has set up.

Assumed of the constants: places and seeds are closed under their parents, and metadata
are numbers with 0 among them.

`TreeFacts` says of each operator of `Tree` what it does to what a tree *shows* (`Get`)
and to the nodes it needs, for trees of any depth. The operators are recursive functions,
and each lemma speaks of one path at a time, so what they need of induction is over the
number of names of that path or the size of a finite set of paths. That much the prover can
do with `WFMin` of `WellFoundedInduction`: among the values at which a claim fails there
would be a least one. They end in two facts:

- `Insert` and `Remove` are refused, or `Carried`: the path shows the new entry and what
  hangs under it, ancestors show directories, every other path shows what it did, and each
  node of the new tree is one of the old tree, one just made, or one that came with the
  entry. `InsertAll` is the same for all its paths (`Placed`);
- an edit whose writer knows the nodes above its paths (`Readable`) reads no other.

`NamespaceSafety` proves every property of the run `namespace`.

- `NodesInv`: the head is in the history, all trees of the history have their nodes in the
  store, no tree goes deeper than `Depth` (`Trim`), and an open workspace has each node
  either *reachable from some commit* or among its own `fresh` ones. `NodesComplete` is not
  inductive without that: a node that is merely in the store may be collected while the
  workspace still shares it. With it, a collection keeps what workspaces share, a
  publication turns `fresh` nodes into reachable ones, and prefetching finds all that an
  edit reads (`NodesStayComplete`, `NothingStaysUnread`).
- `GroupsInv`: unless a name was set apart, link groups agree in the tree *and in its
  base*, to which a workspace that is dropped returns. `GroupsStay` is the common
  argument: an edit that treats a whole group alike and touches no other file keeps the
  others. It gives `LinkGroupsStayAgreed`, and `UnlinksAreWhole`: the second edit of an
  unlink finds the other names, so `UnlinkHalf` needs a group that was broken before.
- `LoggedInv`: what differs from the base has a cause among the touched paths (`Caused`).
  Every edit has a cause for all it changes, a write to a group because the other names
  list the one that was touched (`GroupCause`, which rests on `GroupsInv`), and causes add
  up over edits (`CausedBoth`), since a name that listed a touched path either listed it
  in the base or has changed for a logged reason itself (`ChangesStayLogged`).
- `DiffIs`: the comparison of any two trees, which descends only where two directories
  differ, finds the paths that differ, directories restamped alone aside: equal digests mean
  equal subtrees, so what is skipped differs nowhere. `DiffStaysExact` needs no more.
- `NamespaceImplementsPathMap`: one lemma for each kind of edit shows that the listing
  changes exactly by the operation of the map: a path is changed where the edit shows
  something else (`Shown`, `ChangedIs`), whatever nodes are shared, and a moved subtree
  shows at the new path what it showed at the old one. A publication and a collection
  change no listing.

Assumed of the constants: 0 is a metadata value and the depth is at least 1
(`NamespaceAssumption`), and a seed is a tree such operations can leave
(`SeedsAssumption`): its entries are well formed, link lists are finite sets of paths, and
a directory at the last level is empty. Seeds need not have link groups that agree.

**Only model-checked.** `CallsAnswered` is liveness, and its fairness speaks of ENABLED:
both are beyond the prover. The findings are counterexamples, which TLC finds. Every
other property of a passing run is stated by a theorem, and nothing proved rests on what
is only checked. The bounds of the runs on depth, edits, crashes and the like are
constants in the theorems, of any value.

## 5. Limits and what is not modelled

**Limits of the models.** Each is a choice that hides something; this is what.

- `Namespace` has one workspace open at a time, and `Archive` and `Agents` take a
  publication as one step: the interleavings inside a publication are
  `Publication`'s.
- `Archive`: `ReferencesResolve` stops where an import writes a row that a collection has
  listed (§3), and where an import or a collection takes as long as the grace
  period; the grace of a collection asked for with `0` is that of `Ages`. Receipts and
  parent edges are in no archive and not in the model.
- The import and the collection of `Archive` run in one process, whose publish lock keeps
  publications, but not imports, out of a collection.
- `Agents` has a flat directory without subdirectories, symlinks, exclusions or a
  size limit, and leaves out the backup and the dry run of `apply`. `ApplyExact`
  and `FilesRecorded` do not speak of link groups: when every name of a group was
  modified, `apply` links each to a sibling that still holds the old content, and
  a second ingest of hard-linked files is refused. `apply` also reports symlinks
  as written without writing them.
- `Mount` leaves out the mtime cache, reads and directory listings; the metadata
  of an entry is one value.
- `DiffExact` excepts the contents of a directory that became a file, or the
  reverse: `tree::diff` reports the one path. It excepts a directory whose own metadata
  alone changed too, which `tree::diff` does not report at all (§3).
- `Mount` edits its workspace as a map of paths; the error paths of `unlink` and `copy`
  that leave something behind are `Namespace`'s.
- `UnseenWorkKept` and `ApplyExact` are claimed of an apply that nobody disturbed; the
  race between check and write is left to the code, which does nothing against it (§3).

**Not modelled.** Content-defined chunking, canonical encoding, sealing, record
framing, JSON-RPC, argument parsing and output: conversions without control of
their own that these properties tell apart. The operating-system sandboxes:
configuration. The resident node cache: one mutex around a map of immutable,
verified nodes, in which no two steps can be told apart. Listings, `log`, `explain`
and `timeline`: queries. The CLI's `migrate`, which opens the engine without
`surrealfs.lock`: the engine's own lock still excludes a second opener.

**What could come next.** Two workspaces over one tree, with the store's nodes between
them, would join `Namespace` and `Publication`; directories in `Agents` would bring
`ingest` and `apply` closer to the code. `MountSafety` states the order of paths for
itself (`BeneathOrder`, `AncestorsAre`), since names of `Mount` and of `TreeFacts` meet.
