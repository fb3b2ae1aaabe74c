------------------------------ MODULE Publication ------------------------------
(* The publication protocol of SurrealFS: what happens between a caller opening *)
(* a private workspace and the branch head moving, with every other actor that  *)
(* touches the same tables in between.                                          *)
(*                                                                              *)
(*   surrealfs-kernel/src/lib.rs     Workspace, publish, abort, fork, revert_to *)
(*   surrealfs-store/src/publish.rs  staging, publish lock, publication tx      *)
(*   surrealfs-store/src/gc.rs       the sweep of unreferenced chunks           *)
(*                                                                              *)
(* A session is one Workspace value, from open to close, or one call of         *)
(* revert_to.  The state of a repository is a function from slots (file paths   *)
(* and KV keys) to the chunk the slot holds; the tree that encodes it is not    *)
(* modelled here.  Digests are injective: the digest of a tuple is the tuple.   *)
EXTENDS Naturals, Sequences, FiniteSets

CONSTANTS
    Sessions,       \* workspaces and reverts, each used once
    Branches, Main, \* branch names, and the one a repository is created with
    Paths, KvKeys,  \* the two halves of a state: files, key/value pairs
    Chunks,         \* content chunks, by digest
    CallerIds,      \* request ids callers may choose themselves
    None,           \* no record, no chunk, nobody
    Collector,      \* the garbage collector, as a holder of the publish lock
    MutationBudget, \* MAX_PUBLICATION_MUTATIONS
    EditBound,      \* bound: mutations staged in one workspace
    SweepBound,     \* bound: collections started
    CrashBound      \* bound: crashes of the store-owning process

ASSUME MainAssumption == Main \in Branches
ASSUME SlotAssumption == IsFiniteSet(Paths) /\ Paths \cap KvKeys = {}
ASSUME NoneAssumption == None \notin Chunks \cup Sessions \cup Branches
ASSUME CollectorAssumption == Collector \notin Sessions \cup {None}
ASSUME BoundAssumption == MutationBudget \in Nat /\ EditBound \in Nat
                          /\ SweepBound \in Nat /\ CrashBound \in Nat

VARIABLES
    \* The store: rows that survive a crash.
    head,       \* branch: name -> commit id, for the names that are bound
    commit,     \* commit: id -> [parent, root, request, mutations, seq, workspace]
    receipt,    \* receipt: request id -> [hash, commit, previous, seq]
    age,        \* chunk: stored digest -> 0 (within the default grace) or 1
    record,     \* workspace: session -> [status, final], its persisted row
    \* The process: everything a crash forgets.
    lock,       \* who holds Store::publish_lock
    phase,      \* how far each session has got
    ws,         \* the Workspace value, or the CommitPlan of a revert
    todo,       \* chunks stage_chunks has not written yet
    tx,         \* what the open transaction read: [parent, seq]
    answer,     \* what the last call of the session returned
    sweep,      \* the collection in progress: [running, doomed, grace]
    sweeps, crashes

storeVars == <<head, commit, receipt, age, record>>
memVars   == <<lock, phase, ws, todo, tx, answer, sweep>>
vars      == <<storeVars, memVars, sweeps, crashes>>

--------------------------------------------------------------------------------
(* Data *)

Slots  == Paths \cup KvKeys
States == [Slots -> Chunks \cup {None}]
EmptyState == [x \in Slots |-> None]

\* WriteFile/KvSet carry the chunk they store, Unlink/KvDelete carry none.
Mutations == [slot : Slots, chunk : Chunks \cup {None}]

GenesisId == <<"genesis">>

\* A bug the runs must catch: a commit named by its state alone.
CommitDigestOfState(parent, root, request, count) == <<root, count>>

\* The commit digest of the code: parent, new root, request id, and the number
\* of mutations (author and message are the same or free text).
CommitDigest(parent, root, request, count) == <<parent, root, request, count>>

Genesis == CommitDigest(None, EmptyState, GenesisId, 0)

\* kernel: the id derived when the caller names none.  It hashes the base ROOT.
AutoId(b, base, edits) == <<"auto", b, commit[base].root, edits>>
RevertId(from, target) == <<"revert", from, target>>
CallerId(r) == <<"caller", r>>

\* CommitPlan::command_hash
CommandHash(s) ==
    <<ws[s].branch, ws[s].request, commit[ws[s].base].root, ws[s].edits>>

\* f with k bound to v: an UPSERT or CREATE of one row.
Bind(f, k, v) == [x \in DOMAIN f \cup {k} |-> IF x = k THEN v ELSE f[x]]

\* The staged content a publication must find in the store.
Required(edits) == {edits[i].chunk : i \in DOMAIN edits} \ {None}
Stored == DOMAIN age
ChunksOf(state) == {state[x] : x \in Slots} \ {None}

\* A bug the runs must catch: sequences counted along the branch alone.
SeqScopeOfHead(b) == {head[b]}

\* The commits a new commit of branch b comes after: all of the repository's.
SeqScope(b) == DOMAIN commit

\* n is the highest domain sequence in the scope.
Highest(n, b) ==
    /\ \E c \in SeqScope(b) : commit[c].seq = n
    /\ \A c \in SeqScope(b) : commit[c].seq <= n

NoWorkspace == [branch |-> None, base |-> None, view |-> EmptyState, edits |-> <<>>,
                staged |-> {}, request |-> None, workspace |-> FALSE]
NoTx     == [parent |-> None, seq |-> 0]
NoAnswer == [outcome |-> "none", commit |-> None]
NoSweep  == [running |-> FALSE, doomed |-> {}, grace |-> 1]

Init ==
    /\ head = [b \in {Main} |-> Genesis]
    /\ commit = [c \in {Genesis} |->
                    [parent |-> None, root |-> EmptyState, request |-> GenesisId,
                     mutations |-> <<>>, seq |-> 0, workspace |-> None]]
    /\ receipt = [r \in {} |-> None]
    /\ age = [c \in {} |-> 0]
    /\ record = [s \in Sessions |-> [status |-> "none", final |-> None]]
    /\ lock = None
    /\ phase = [s \in Sessions |-> "unused"]
    /\ ws = [s \in Sessions |-> NoWorkspace]
    /\ todo = [s \in Sessions |-> {}]
    /\ tx = [s \in Sessions |-> NoTx]
    /\ answer = [s \in Sessions |-> NoAnswer]
    /\ sweep = NoSweep
    /\ sweeps = 0
    /\ crashes = 0

--------------------------------------------------------------------------------
(* Workspaces *)

Forget(s) ==
    /\ ws' = [ws EXCEPT ![s] = NoWorkspace]
    /\ answer' = [answer EXCEPT ![s] = NoAnswer]

\* Kernel::workspace: the head is read, its root loaded, a record created.
Open(s, b) ==
    /\ phase[s] = "unused"
    /\ b \in DOMAIN head
    /\ phase' = [phase EXCEPT ![s] = "open"]
    /\ ws' = [ws EXCEPT ![s] = [branch |-> b, base |-> head[b],
                                view |-> commit[head[b]].root, edits |-> <<>>,
                                staged |-> {}, request |-> None, workspace |-> TRUE]]
    /\ record' = [record EXCEPT ![s] = [status |-> "OPEN", final |-> None]]
    /\ UNCHANGED <<head, commit, receipt, age, lock, todo, tx, answer, sweep,
                   sweeps, crashes>>

\* Workspace w with slot x set to chunk c, or emptied.
Edited(w, x, c) ==
    [w EXCEPT !.view = [w.view EXCEPT ![x] = c],
              !.edits = Append(w.edits, [slot |-> x, chunk |-> c]),
              !.staged = w.staged \cup ({c} \ {None})]

\* One staged mutation: the view changes, the log grows, the bytes stay in memory.
Edit(s, x, c) ==
    /\ phase[s] = "open"
    /\ Len(ws[s].edits) < EditBound
    /\ ws' = [ws EXCEPT ![s] = Edited(ws[s], x, c)]
    /\ UNCHANGED <<storeVars, lock, phase, todo, tx, answer, sweep, sweeps, crashes>>

\* write_file, kv_set
Put(s, x, c) == c # None /\ Edit(s, x, c)

\* unlink, kv_delete: NotFound, and nothing staged, when the slot is empty
Remove(s, x) == ws[s].view[x] # None /\ Edit(s, x, None)

\* Workspace::abort, possible while the workspace is open and no call is running.
Abort(s) ==
    /\ phase[s] = "open"
    /\ record' = [record EXCEPT ![s].status = "ABORTED"]
    /\ ws' = [ws EXCEPT ![s] = [ws[s] EXCEPT !.edits = <<>>, !.staged = {}]]
    /\ phase' = [phase EXCEPT ![s] = "closed"]
    /\ UNCHANGED <<head, commit, receipt, age, lock, todo, tx, answer, sweep,
                   sweeps, crashes>>

\* A Workspace dropped without abort: its record stays OPEN.
Drop(s) ==
    /\ phase[s] = "open"
    /\ phase' = [phase EXCEPT ![s] = "gone"]
    /\ Forget(s)
    /\ UNCHANGED <<storeVars, lock, todo, tx, sweep, sweeps, crashes>>

--------------------------------------------------------------------------------
(* Publishing: Workspace::publish, then Store::publish *)

\* The call: a request id is fixed, and every staged chunk is to be written.
Call(s, request) ==
    /\ phase[s] = "open"
    /\ ws' = [ws EXCEPT ![s] = [ws[s] EXCEPT !.request = request]]
    /\ todo' = [todo EXCEPT ![s] = ws[s].staged]
    /\ answer' = [answer EXCEPT ![s] = NoAnswer]
    /\ phase' = [phase EXCEPT ![s] = "staging"]
    /\ UNCHANGED <<storeVars, lock, tx, sweep, sweeps, crashes>>

CallNamed(s, r) == Call(s, CallerId(r))
CallAuto(s) == Call(s, AutoId(ws[s].branch, ws[s].base, ws[s].edits))

\* The elements of a finite set in some fixed order.
Listed(S) == CHOOSE o \in [1..Cardinality(S) -> S] :
                 \A i, j \in 1..Cardinality(S) : o[i] = o[j] => i = j

\* The mutations of a revert: the files that differ, in some fixed order.  What
\* differs among the key/value pairs is not in the log.
Reversal(from, to) ==
    LET changed == {p \in Paths : from[p] # to[p]}
    IN  [i \in 1..Cardinality(changed) |->
            [slot |-> Listed(changed)[i], chunk |-> to[Listed(changed)[i]]]]

\* Kernel::revert_to: a plan for a new commit that reuses target's root.  When no
\* file differs the call ends with NotFound before there is a plan.
RevertTo(s, b, target) ==
    /\ phase[s] = "unused"
    /\ b \in DOMAIN head
    /\ target \in DOMAIN commit
    /\ LET from == commit[head[b]].root
           to == commit[target].root
       IN  /\ \E p \in Paths : from[p] # to[p]
           /\ ws' = [ws EXCEPT ![s] = [branch |-> b, base |-> head[b], view |-> to,
                                       edits |-> Reversal(from, to), staged |-> {},
                                       request |-> RevertId(head[b], target),
                                       workspace |-> FALSE]]
    /\ phase' = [phase EXCEPT ![s] = "staging"]
    /\ UNCHANGED <<storeVars, lock, todo, tx, answer, sweep, sweeps, crashes>>

\* Store::stage_chunks: one UPSERT at a time, under no lock and in no transaction.
StageChunk(s, c) ==
    /\ phase[s] = "staging"
    /\ c \in todo[s]
    /\ todo' = [todo EXCEPT ![s] = @ \ {c}]
    /\ age' = Bind(age, c, 0)
    /\ UNCHANGED <<head, commit, receipt, record, lock, phase, ws, tx, answer, sweep,
                   sweeps, crashes>>

\* The call returns an error: a workspace stays open, a revert has nothing left.
Refuse(s, why) ==
    /\ phase' = [phase EXCEPT ![s] = IF ws[s].workspace THEN "open" ELSE "closed"]
    /\ answer' = [answer EXCEPT ![s] = [outcome |-> why, commit |-> None]]
    /\ todo' = [todo EXCEPT ![s] = {}]
    /\ tx' = [tx EXCEPT ![s] = NoTx]
    /\ UNCHANGED <<storeVars, ws, sweep, sweeps, crashes>>

\* A bug the runs must catch: the receipt is returned and the workspace stays open.
FinishOpen(s, outcome, c) ==
    /\ phase' = [phase EXCEPT ![s] = "open"]
    /\ answer' = [answer EXCEPT ![s] = [outcome |-> outcome, commit |-> c]]
    /\ ws' = [ws EXCEPT ![s] = [ws[s] EXCEPT !.staged = {}]]
    /\ tx' = [tx EXCEPT ![s] = NoTx]

\* The call returns a receipt: the workspace is closed for good.
Finish(s, outcome, c) ==
    /\ phase' = [phase EXCEPT ![s] = "closed"]
    /\ answer' = [answer EXCEPT ![s] = [outcome |-> outcome, commit |-> c]]
    /\ ws' = [ws EXCEPT ![s] = [ws[s] EXCEPT !.staged = {}]]
    /\ tx' = [tx EXCEPT ![s] = NoTx]

\* A bug the runs must catch: the budget is not looked at.
NeverOverBudget(edits) == FALSE

OverBudget(edits) == Len(edits) > MutationBudget

\* Everything is staged.  The budget is checked before the lock is asked for.
Submit(s) ==
    /\ phase[s] = "staging"
    /\ todo[s] = {}
    /\ IF OverBudget(ws[s].edits)
       THEN Refuse(s, "OverBudget") /\ UNCHANGED lock
       ELSE /\ phase' = [phase EXCEPT ![s] = "waiting"]
            /\ UNCHANGED <<storeVars, lock, ws, todo, tx, answer, sweep, sweeps, crashes>>

\* A bug the runs must catch: the publish lock is not taken.
LockUnneeded == TRUE

LockFree == lock = None

\* A bug the runs must catch: the guard outlives the call that took it.
Leak == UNCHANGED lock

\* The guard of publish_lock is dropped.
Release == lock' = None

\* A bug the runs must catch: a receipt answers whatever command carries its id.
SameIdSuffices(s) == TRUE

\* check_replay: the stored command must be this one.
SameCommand(s) == receipt[ws[s].request].hash = CommandHash(s)

\* The lock is acquired and the receipt table asked: a known request id ends the
\* call here, before the branch head is looked at.
Enter(s) ==
    /\ phase[s] = "waiting"
    /\ LockFree
    /\ IF ws[s].request \notin DOMAIN receipt
       THEN /\ phase' = [phase EXCEPT ![s] = "entered"]
            /\ lock' = s
            /\ UNCHANGED <<storeVars, ws, todo, tx, answer, sweep, sweeps, crashes>>
       ELSE /\ UNCHANGED lock
            /\ IF SameCommand(s)
               THEN /\ Finish(s, "Replayed", receipt[ws[s].request].commit)
                    /\ UNCHANGED <<storeVars, todo, sweep, sweeps, crashes>>
               ELSE Refuse(s, "RequestMismatch")

NewCommitId(s) ==
    CommitDigest(head[ws[s].branch], ws[s].view, ws[s].request, Len(ws[s].edits))

\* A bug the runs must catch: the expected head is not compared.
AnyHead(s) == FALSE
HeadMoved(s) == head[ws[s].branch] # ws[s].base

\* A bug the runs must catch: the staged content is taken for granted.
NothingMissing(s) == FALSE
ContentMissing(s) == ~(Required(ws[s].edits) \subseteq Stored)

\* What publish_tx refuses a plan for, in the order it asks.
Refusal(s) ==
    IF ws[s].request \in DOMAIN receipt THEN "Ambiguous"
    ELSE IF ws[s].branch \notin DOMAIN head THEN "NotFound"
    ELSE IF HeadMoved(s) THEN "HeadConflict"
    ELSE IF head[ws[s].branch] \notin DOMAIN commit THEN "Corruption"
    ELSE IF ContentMissing(s) THEN "Corruption"
    ELSE IF NewCommitId(s) \in DOMAIN commit THEN "Clash"
    ELSE "none"

\* The transaction begins and reads: refused and cancelled, or ready to commit.
Decide(s) ==
    /\ phase[s] = "entered"
    /\ IF Refusal(s) # "none"
       THEN Refuse(s, Refusal(s)) /\ Release
       ELSE /\ phase' = [phase EXCEPT ![s] = "decided"]
            /\ \E n \in {commit[c].seq : c \in DOMAIN commit} :
                /\ Highest(n, ws[s].branch)
                /\ tx' = [tx EXCEPT ![s] = [parent |-> head[ws[s].branch],
                                            seq |-> n + 1]]
            /\ UNCHANGED <<storeVars, lock, ws, todo, answer, sweep, sweeps, crashes>>

\* The transaction commits: every row it wrote appears at once.
Commit(s) ==
    /\ phase[s] = "decided"
    /\ LET w == ws[s]
           id == CommitDigest(tx[s].parent, w.view, w.request, Len(w.edits))
       IN  /\ commit' = Bind(commit, id,
                  [parent |-> tx[s].parent, root |-> w.view, request |-> w.request,
                   mutations |-> w.edits, seq |-> tx[s].seq,
                   workspace |-> IF w.workspace THEN s ELSE None])
           /\ receipt' = Bind(receipt, w.request,
                  [hash |-> CommandHash(s), commit |-> id, previous |-> tx[s].parent,
                   seq |-> tx[s].seq])
           /\ head' = [head EXCEPT ![w.branch] = id]
           /\ record' = IF w.workspace
                        THEN [record EXCEPT ![s] = [status |-> "COMMITTED", final |-> id]]
                        ELSE record
           /\ Finish(s, "Applied", id)
    /\ Release
    /\ UNCHANGED <<age, todo, sweep, sweeps, crashes>>

\* The engine fails: a chunk is not written, the receipt or a row is not read, or
\* the transaction does not commit.  Nothing but staged chunks is left behind.
Fail(s) ==
    /\ phase[s] \in {"staging", "waiting", "entered", "decided"}
    /\ phase[s] = "waiting" => LockFree
    /\ Refuse(s, "Storage")
    /\ IF lock = s THEN Release ELSE UNCHANGED lock

--------------------------------------------------------------------------------
(* The other actors *)

\* A bug the runs must catch: branch_create rebinds a name, as snapshot_create does.
NameReusable(b) == TRUE

NameFree(b) == b \notin DOMAIN head

\* Store::branch_create, under no lock: a free name is bound to a commit.
Fork(b, c) ==
    /\ NameFree(b)
    /\ c \in DOMAIN commit
    /\ head' = Bind(head, b, c)
    /\ UNCHANGED <<commit, receipt, age, record, memVars, sweeps, crashes>>

\* A bug the runs must catch: only what the branch heads show is kept.
HeadRoots == {commit[head[b]].root : b \in DOMAIN head}

\* The state_root rows a collection starts from: one per published state, and
\* they are never removed.
RetainedRoots == {commit[c].root : c \in DOMAIN commit}

Referenced == UNION {ChunksOf(root) : root \in RetainedRoots}

\* Store::gc, under the publish lock: mark from every state root, then list the
\* chunk rows no root reaches and that are not younger than the grace period.
SweepStart(grace) ==
    /\ LockFree
    /\ sweeps < SweepBound
    /\ sweeps' = sweeps + 1
    /\ lock' = Collector
    /\ sweep' = [running |-> TRUE, grace |-> grace,
                 doomed |-> {c \in Stored \ Referenced : age[c] >= grace}]
    /\ UNCHANGED <<storeVars, phase, ws, todo, tx, answer, crashes>>

\* One DELETE per listed row; the row is not read again.
SweepDelete(c) ==
    /\ c \in sweep.doomed
    /\ sweep' = [sweep EXCEPT !.doomed = @ \ {c}]
    /\ age' = [d \in Stored \ {c} |-> age[d]]
    /\ UNCHANGED <<head, commit, receipt, record, lock, phase, ws, todo, tx, answer,
                   sweeps, crashes>>

\* The call returns and its guard is dropped.
SweepStop ==
    /\ sweep.running
    /\ sweep' = NoSweep
    /\ Release
    /\ UNCHANGED <<storeVars, phase, ws, todo, tx, answer, sweeps, crashes>>

SweepEnd == sweep.doomed = {} /\ SweepStop

\* A DELETE fails: the rows after it stay.
SweepFail == sweep.doomed # {} /\ SweepStop

\* Time: a chunk row outlives the default grace period.
Age(c) ==
    /\ c \in Stored /\ age[c] = 0
    /\ age' = [age EXCEPT ![c] = 1]
    /\ UNCHANGED <<head, commit, receipt, record, memVars, sweeps, crashes>>

\* The process dies and the store is opened again: committed rows are there,
\* nothing else is.  No workspace record changes.
Crash ==
    /\ crashes < CrashBound
    /\ crashes' = crashes + 1
    /\ LET lost == {s \in Sessions : phase[s] \notin {"unused", "closed"}}
       IN  /\ phase' = [s \in Sessions |-> IF s \in lost THEN "gone" ELSE phase[s]]
           /\ ws' = [s \in Sessions |-> IF s \in lost THEN NoWorkspace ELSE ws[s]]
           /\ answer' = [s \in Sessions |-> IF s \in lost THEN NoAnswer ELSE answer[s]]
    /\ lock' = None
    /\ todo' = [s \in Sessions |-> {}]
    /\ tx' = [s \in Sessions |-> NoTx]
    /\ sweep' = NoSweep
    /\ UNCHANGED <<storeVars, sweeps>>

--------------------------------------------------------------------------------

Edits(s) ==
    \/ \E b \in Branches : Open(s, b)
    \/ \E x \in Slots, c \in Chunks : Put(s, x, c)
    \/ \E x \in Slots : Remove(s, x)
    \/ Abort(s)
    \/ Drop(s)

Calls(s) ==
    \/ \E r \in CallerIds : CallNamed(s, r)
    \/ CallAuto(s)
    \/ \E b \in Branches, c \in DOMAIN commit : RevertTo(s, b, c)

Publishes(s) ==
    \/ \E c \in Chunks : StageChunk(s, c)
    \/ Submit(s)
    \/ Enter(s)
    \/ Decide(s)
    \/ Commit(s)
    \/ Fail(s)

Sweeps ==
    \/ \E grace \in {0, 1} : SweepStart(grace)
    \/ \E c \in Chunks : SweepDelete(c)
    \/ SweepEnd
    \/ SweepFail

Next ==
    \/ \E s \in Sessions : Edits(s) \/ Calls(s) \/ Publishes(s)
    \/ \E b \in Branches, c \in DOMAIN commit : Fork(b, c)
    \/ Sweeps
    \/ \E c \in Chunks : Age(c)
    \/ Crash

Spec == Init /\ [][Next]_vars

--------------------------------------------------------------------------------
(* Fairness: a publish call that was made runs on, and so does a collection;    *)
(* tokio's Mutex queues its waiters, so each of them gets the lock in the end.  *)
(* Nobody has to open a workspace, to edit, to publish or to collect.           *)

Fairness ==
    /\ \A s \in Sessions :
        /\ WF_vars(\E c \in Chunks : StageChunk(s, c))
        /\ WF_vars(Submit(s))
        /\ SF_vars(Enter(s))
        /\ WF_vars(Decide(s))
        /\ WF_vars(Commit(s))
    /\ WF_vars(\E c \in Chunks : SweepDelete(c))
    /\ WF_vars(SweepEnd)

FairSpec == Spec /\ Fairness

--------------------------------------------------------------------------------
(* Properties *)

Phases == {"unused", "open", "staging", "waiting", "entered", "decided", "closed",
           "gone"}
Outcomes == {"none", "Applied", "Replayed", "RequestMismatch", "OverBudget",
             "Ambiguous", "NotFound", "HeadConflict", "Corruption", "Clash",
             "Storage"}
CommitIds == DOMAIN commit

HistoryTypeOK ==
    /\ DOMAIN head \subseteq Branches /\ head \in [DOMAIN head -> CommitIds]
    /\ \A c \in CommitIds :
        /\ commit[c].parent \in CommitIds \cup {None}
        /\ commit[c].root \in States
        /\ commit[c].mutations \in Seq(Mutations)
        /\ commit[c].seq \in Nat
        /\ commit[c].workspace \in Sessions \cup {None}
    /\ \A r \in DOMAIN receipt :
        /\ receipt[r].commit \in CommitIds
        /\ receipt[r].previous \in CommitIds
        /\ receipt[r].seq \in Nat

RecordTypeOK ==
    record \in [Sessions -> [status : {"none", "OPEN", "COMMITTED", "ABORTED"},
                             final : CommitIds \cup {None}]]

WorkspaceTypeOK(w) ==
    /\ w.branch \in Branches \cup {None}
    /\ w.base \in CommitIds \cup {None}
    /\ w.view \in States
    /\ w.edits \in Seq(Mutations)
    /\ w.staged \subseteq Chunks
    /\ w.workspace \in BOOLEAN

SessionTypeOK ==
    /\ phase \in [Sessions -> Phases]
    /\ \A s \in Sessions : WorkspaceTypeOK(ws[s])
    /\ todo \in [Sessions -> SUBSET Chunks]
    /\ tx \in [Sessions -> [parent : CommitIds \cup {None}, seq : Nat]]
    /\ answer \in [Sessions -> [outcome : Outcomes, commit : CommitIds \cup {None}]]

SweepTypeOK ==
    /\ Stored \subseteq Chunks /\ age \in [Stored -> {0, 1}]
    /\ lock \in Sessions \cup {None, Collector}
    /\ sweep \in [running : BOOLEAN, doomed : SUBSET Chunks, grace : {0, 1}]
    /\ sweeps \in 0..SweepBound
    /\ crashes \in 0..CrashBound

\* A plan that asks for the publish lock is within the publication budget.
PlansBounded ==
    \A s \in Sessions :
        phase[s] \in {"waiting", "entered", "decided"}
            => Len(ws[s].edits) <= MutationBudget

\* Every row and every in-memory value is of its type, references between rows
\* lead to rows, and what reaches the publish lock is bounded.
TypeOK ==
    /\ HistoryTypeOK
    /\ RecordTypeOK
    /\ SessionTypeOK
    /\ SweepTypeOK
    /\ PlansBounded

\* What a mutation log says slot x holds, given what it held before: the chunk of
\* the last mutation of x, or what was there when there is none.
Explained(before, edits, x, after) ==
    \/ /\ \A i \in DOMAIN edits : edits[i].slot # x
       /\ after = before
    \/ \E i \in DOMAIN edits :
        /\ edits[i].slot = x
        /\ \A j \in DOMAIN edits : j > i => edits[j].slot # x
        /\ after = edits[i].chunk

\* No lost update.  The state a commit publishes is its parent's state with the
\* commit's own mutations applied and nothing else: a workspace that was edited
\* over an older head never wipes out what was published since.  (The log of a
\* revert covers the files only.)
HistoryExplainsState ==
    \A c \in CommitIds \ {Genesis} :
        \A x \in (IF commit[c].workspace = None THEN Paths ELSE Slots) :
            Explained(commit[commit[c].parent].root[x], commit[c].mutations, x,
                      commit[c].root[x])

\* Exactly once.  Commits and receipts account for each other: every commit but
\* the genesis has the receipt of its request, every receipt has its commit, so
\* no request id was ever applied twice, on whatever branch, across crashes.
OneReceiptPerCommit ==
    /\ \A c \in CommitIds \ {Genesis} :
        /\ commit[c].request \in DOMAIN receipt
        /\ receipt[commit[c].request].commit = c
        /\ receipt[commit[c].request].previous = commit[c].parent
        /\ receipt[commit[c].request].seq = commit[c].seq
    /\ \A r \in DOMAIN receipt :
        /\ receipt[r].commit \in CommitIds \ {Genesis}
        /\ commit[receipt[r].commit].request = r

\* The domain sequence totally orders the commits of all branches, as the unique
\* index on (repository, domain_sequence) demands, and agrees with parenthood.
SequenceOrdersHistory ==
    /\ \A c, d \in CommitIds : commit[c].seq = commit[d].seq => c = d
    /\ \A c \in CommitIds \ {Genesis} :
        /\ commit[c].parent \in CommitIds
        /\ commit[commit[c].parent].seq < commit[c].seq

\* Every chunk that some published state names is in the store, whatever a
\* collection deletes while sessions stage, publish, fail and crash around it.
NoDanglingContent ==
    \A c \in CommitIds : ChunksOf(commit[c].root) \subseteq Stored

\* Every workspace record tells the truth: it says COMMITTED, with its commit,
\* exactly when a commit of that workspace exists.  An aborted workspace, and one
\* that was dropped or lost in a crash, left no commit behind.
WorkspaceRecordsTruthful ==
    \A s \in Sessions :
        /\ record[s].status = "COMMITTED" =>
            /\ record[s].final \in CommitIds
            /\ commit[record[s].final].workspace = s
        /\ \A c \in CommitIds : commit[c].workspace = s =>
            record[s] = [status |-> "COMMITTED", final |-> c]

\* A receipt is about the caller's own work: the commit it names is there, holds
\* the state and the log the caller staged and, unless the answer is a replay, is
\* the child of the head the caller started from.
AnswersTruthful ==
    \A s \in Sessions : phase[s] = "closed" =>
        /\ answer[s].outcome \in {"Applied", "Replayed"} =>
            /\ answer[s].commit \in CommitIds
            /\ commit[answer[s].commit].root = ws[s].view
            /\ commit[answer[s].commit].mutations = ws[s].edits
            /\ commit[answer[s].commit].request = ws[s].request
        /\ answer[s].outcome = "Applied" =>
            commit[answer[s].commit].parent = ws[s].base

\* A conflict is honest and final: a head once passed is never the head again,
\* though states recur, so a plan that was refused can never be applied later.
ConflictsArePermanent ==
    \A s \in Sessions :
        answer[s].outcome = "HeadConflict" => head[ws[s].branch] # ws[s].base

\* The checks publish_tx repeats as a second line of defence never decide
\* anything, and content is found missing only where a collection has run.
SecondLineIdle ==
    \A s \in Sessions :
        /\ answer[s].outcome \notin {"Ambiguous", "NotFound", "Clash"}
        /\ answer[s].outcome = "Corruption" => sweeps > 0

Log == INSTANCE CommitLog WITH head <- head, commit <- commit, receipt <- receipt

\* The store implements the abstract log: through staging, locks, collections and
\* crashes, each step is one whole publication, one fork, or nothing to history.
ImplementsCommitLog == Log!Spec

\* A publish call that was made returns, unless the process dies: nobody waits
\* for the publish lock for ever.
CallsAnswered ==
    \A s \in Sessions :
        phase[s] \in {"staging", "waiting", "entered", "decided"}
            ~> phase[s] \in {"open", "closed", "gone"}

\* What the comment on Workspace::publish says of a derived request id: it comes
\* from the base head, so only identical work over the same base is a replay.
\* (Publishing nothing at all is left out: replaying that loses nothing.)
ReplaysShareTheirBase ==
    \A s \in Sessions :
        /\ phase[s] = "closed"
        /\ answer[s].outcome = "Replayed"
        /\ ws[s].request[1] = "auto"
        /\ ws[s].edits # <<>>
        => commit[answer[s].commit].parent = ws[s].base

\* What the comment on DEFAULT_GRACE_SECONDS says of a collection: an object is
\* never collected before this much time has passed since it was written.
RecentChunksKept ==
    [][\A c \in Stored :
        sweep.running /\ sweep.grace = 1 /\ age[c] = 0 => c \in Stored']_vars
================================================================================
