--------------------------- MODULE PublicationSafety ---------------------------
(* Theorems about Publication, for every number of sessions, branches, chunks,  *)
(* slots, collections and crashes: its types, the inductive invariant, the      *)
(* properties that follow from it, and that it implements CommitLog.            *)
EXTENDS Publication, FiniteSetTheorems, TLAPS

(* Helpers *)

\* A state names chunk c exactly when some slot holds it.
LEMMA ChunksOfMember ==
    ASSUME NEW state, NEW c
    PROVE  c \in ChunksOf(state) <=> c # None /\ \E x \in Slots : state[x] = c
BY DEF ChunksOf

\* A chunk is referenced exactly when the state of some commit names it.
LEMMA ReferencedMember ==
    ASSUME NEW c
    PROVE  c \in Referenced <=> \E k \in DOMAIN commit : c \in ChunksOf(commit[k].root)
BY DEF Referenced, RetainedRoots

\* A mutation log requires the chunks its mutations carry.
LEMMA RequiredMember ==
    ASSUME NEW edits, NEW c
    PROVE  c \in Required(edits) <=> c # None /\ \E i \in DOMAIN edits : edits[i].chunk = c
BY DEF Required

\* Listing a finite set gives each of its elements one index.
LEMMA ListedType ==
    ASSUME NEW S, IsFiniteSet(S)
    PROVE  /\ Cardinality(S) \in Nat
           /\ Listed(S) \in [1..Cardinality(S) -> S]
           /\ \A i, j \in 1..Cardinality(S) : Listed(S)[i] = Listed(S)[j] => i = j
<1>1. Cardinality(S) \in Nat /\ ExistsBijection(1..Cardinality(S), S)
  BY FS_CardinalityType
<1>2. PICK f : f \in Bijection(1..Cardinality(S), S)
  BY <1>1 DEF ExistsBijection
<1>3. /\ f \in [1..Cardinality(S) -> S]
      /\ \A i, j \in 1..Cardinality(S) : f[i] = f[j] => i = j
  BY <1>2 DEF Bijection, Injection, IsInjective
<1>4. QED
  BY <1>1, <1>3 DEF Listed

\* The log of a revert is a sequence of mutations.
LEMMA ReversalType ==
    ASSUME NEW from \in States, NEW to \in States
    PROVE  Reversal(from, to) \in Seq(Mutations)
<1> DEFINE changed == {p \in Paths : from[p] # to[p]}
           n == Cardinality(changed)
<1>1. IsFiniteSet(changed)
  BY SlotAssumption, FS_Subset
<1>2. n \in Nat /\ Listed(changed) \in [1..n -> changed]
  BY <1>1, ListedType
<1>3. \A i \in 1..n : [slot |-> Listed(changed)[i], chunk |-> to[Listed(changed)[i]]]
                        \in Mutations
  <2> TAKE i \in 1..n
  <2>1. Listed(changed)[i] \in Slots
    BY <1>2 DEF Slots
  <2>2. QED
    BY <2>1 DEF Mutations, States
<1> HIDE DEF n
<1>4. [i \in 1..n |-> [slot |-> Listed(changed)[i], chunk |-> to[Listed(changed)[i]]]]
        \in Seq(Mutations)
  BY <1>2, <1>3
<1>5. QED
  BY <1>4 DEF Reversal, n

--------------------------------------------------------------------------------
(* Types *)

\* The shape of a workspace value, whose request id is of no one type.
Fields == {"branch", "base", "view", "edits", "staged", "request", "workspace"}
Shaped(w) == w = [f \in Fields |-> w[f]]

Shape == DOMAIN ws = Sessions /\ \A s \in Sessions : Shaped(ws[s])

TypeInv == TypeOK /\ Shape

\* The empty state is a state.
LEMMA EmptyStateType == EmptyState \in States
BY DEF EmptyState, States

\* An unused session holds nothing, which is well typed.
LEMMA NoWorkspaceType ==
    /\ WorkspaceTypeOK(NoWorkspace)
    /\ Shaped(NoWorkspace)
<1>1. NoWorkspace.edits \in Seq(Mutations)
  BY DEF NoWorkspace
<1>2. QED
  BY <1>1, EmptyStateType DEF NoWorkspace, WorkspaceTypeOK, Shaped, Fields

\* A new repository has the types.
LEMMA TypeInit == Init => TypeInv
<1> SUFFICES ASSUME Init PROVE TypeInv
  OBVIOUS
<1>1. CommitIds = {Genesis}
  BY DEF Init, CommitIds
<1>2. HistoryTypeOK
  <2>1. commit[Genesis] = [parent |-> None, root |-> EmptyState, request |-> GenesisId,
                           mutations |-> <<>>, seq |-> 0, workspace |-> None]
    BY DEF Init
  <2>2. commit[Genesis].mutations \in Seq(Mutations)
    BY <2>1
  <2>3. /\ commit[Genesis].parent = None
        /\ commit[Genesis].root \in States
        /\ commit[Genesis].seq = 0
        /\ commit[Genesis].workspace = None
    BY <2>1, EmptyStateType
  <2>4. /\ DOMAIN head \subseteq Branches /\ head \in [DOMAIN head -> CommitIds]
        /\ DOMAIN receipt = {}
    BY <1>1, MainAssumption DEF Init
  <2>5. QED
    BY <1>1, <2>2, <2>3, <2>4 DEF HistoryTypeOK
<1>3. RecordTypeOK
  BY DEF Init, RecordTypeOK
<1>4. \A s \in Sessions : ws[s] = NoWorkspace /\ phase[s] = "unused"
  BY DEF Init
<1>5. SessionTypeOK
  <2>1. tx \in [Sessions -> [parent : CommitIds \cup {None}, seq : Nat]]
    BY DEF Init, NoTx
  <2>2. answer \in [Sessions -> [outcome : Outcomes, commit : CommitIds \cup {None}]]
    BY DEF Init, NoAnswer, Outcomes
  <2>3. phase \in [Sessions -> Phases] /\ todo \in [Sessions -> SUBSET Chunks]
    BY DEF Init, Phases
  <2>4. QED
    BY <1>4, <2>1, <2>2, <2>3, NoWorkspaceType DEF SessionTypeOK
<1>6. SweepTypeOK
  BY BoundAssumption DEF Init, SweepTypeOK, NoSweep, Stored
<1>7. PlansBounded
  BY <1>4 DEF PlansBounded
<1>8. Shape
  BY <1>4, NoWorkspaceType DEF Init, Shape
<1>9. QED
  BY <1>2, <1>3, <1>5, <1>6, <1>7, <1>8 DEF TypeInv, TypeOK

\* A step that gives one session a new workspace value, well typed and of the
\* right shape, keeps all workspaces well typed.
LEMMA OneWorkspace ==
    ASSUME SessionTypeOK, Shape, CommitIds \subseteq CommitIds',
           NEW s \in Sessions, NEW w, WorkspaceTypeOK(w), Shaped(w),
           ws' = [ws EXCEPT ![s] = w]
    PROVE  Shape' /\ \A t \in Sessions : WorkspaceTypeOK(ws[t])'
<1>1. /\ DOMAIN ws' = Sessions
      /\ ws'[s] = w
      /\ \A t \in Sessions \ {s} : ws'[t] = ws[t]
  BY DEF Shape
<1>2. Shape'
  BY <1>1 DEF Shape
<1>3. \A t \in Sessions : WorkspaceTypeOK(ws[t])'
  <2> TAKE t \in Sessions
  <2>1. WorkspaceTypeOK(ws[t])
    BY DEF SessionTypeOK
  <2>2. ws'[t] = IF t = s THEN w ELSE ws[t]
    BY <1>1
  <2>3. QED
    BY <2>1, <2>2 DEF WorkspaceTypeOK
<1>4. QED
  BY <1>2, <1>3

\* Staging one mutation in a well-typed workspace leaves it well typed.
LEMMA EditedTyped ==
    ASSUME NEW w, WorkspaceTypeOK(w), Shaped(w),
           NEW x \in Slots, NEW c \in Chunks \cup {None}
    PROVE  LET e == Edited(w, x, c)
           IN  /\ WorkspaceTypeOK(e) /\ Shaped(e)
               /\ e.branch = w.branch /\ e.base = w.base /\ e.workspace = w.workspace
               /\ e.request = w.request /\ e.staged = w.staged \cup ({c} \ {None})
               /\ e.view = [w.view EXCEPT ![x] = c]
               /\ e.edits = Append(w.edits, [slot |-> x, chunk |-> c])
<1> DEFINE e == Edited(w, x, c)
           m == [slot |-> x, chunk |-> c]
<1>1. /\ e.branch = w.branch /\ e.base = w.base /\ e.workspace = w.workspace
      /\ e.request = w.request /\ e.staged = w.staged \cup ({c} \ {None})
      /\ e.view = [w.view EXCEPT ![x] = c]
      /\ e.edits = Append(w.edits, m)
      /\ Shaped(e)
  BY DEF Edited, Shaped, Fields
<1> HIDE DEF e
<1>2. m \in Mutations
  BY DEF Mutations
<1>3. e.edits \in Seq(Mutations)
  BY <1>1, <1>2 DEF WorkspaceTypeOK
<1>4. e.view \in States
  BY <1>1 DEF WorkspaceTypeOK, States
<1>5. WorkspaceTypeOK(e)
  BY <1>1, <1>3, <1>4 DEF WorkspaceTypeOK
<1>6. QED
  BY <1>1, <1>5 DEF e

\* What the other steps of a session do to its workspace leaves it well typed.
LEMMA ChangedTyped ==
    ASSUME NEW w, WorkspaceTypeOK(w), Shaped(w), NEW r
    PROVE  /\ LET e == [w EXCEPT !.staged = {}]
              IN  WorkspaceTypeOK(e) /\ Shaped(e) /\ e.edits = w.edits
           /\ LET e == [w EXCEPT !.request = r]
              IN  WorkspaceTypeOK(e) /\ Shaped(e) /\ e.edits = w.edits
           /\ LET e == [w EXCEPT !.edits = <<>>, !.staged = {}]
              IN  WorkspaceTypeOK(e) /\ Shaped(e)
<1>1. LET e == [w EXCEPT !.staged = {}]
      IN  WorkspaceTypeOK(e) /\ Shaped(e) /\ e.edits = w.edits
  BY DEF WorkspaceTypeOK, Shaped, Fields
<1>2. LET e == [w EXCEPT !.request = r]
      IN  WorkspaceTypeOK(e) /\ Shaped(e) /\ e.edits = w.edits
  BY DEF WorkspaceTypeOK, Shaped, Fields
<1>3. LET e == [w EXCEPT !.edits = <<>>, !.staged = {}]
      IN  WorkspaceTypeOK(e) /\ Shaped(e)
  <2> DEFINE e == [w EXCEPT !.edits = <<>>, !.staged = {}]
  <2>1. /\ e.branch = w.branch /\ e.base = w.base /\ e.workspace = w.workspace
        /\ e.view = w.view /\ e.staged = {} /\ e.edits = <<>>
        /\ Shaped(e)
    BY DEF Shaped, Fields
  <2> HIDE DEF e
  <2>2. e.edits \in Seq(Mutations)
    BY <2>1
  <2>3. WorkspaceTypeOK(e)
    BY <2>1, <2>2 DEF WorkspaceTypeOK
  <2>4. QED
    BY <2>1, <2>3 DEF e
<1>4. QED
  BY <1>1, <1>2, <1>3

\* A workspace or a revert begins well typed.
LEMMA NewTyped ==
    ASSUME NEW b \in Branches, NEW k \in CommitIds, NEW view \in States,
           NEW log \in Seq(Mutations), NEW r, NEW own \in BOOLEAN
    PROVE  LET w == [branch |-> b, base |-> k, view |-> view, edits |-> log,
                     staged |-> {}, request |-> r, workspace |-> own]
           IN  WorkspaceTypeOK(w) /\ Shaped(w)
BY DEF WorkspaceTypeOK, Shaped, Fields

\* Opening, editing, aborting and dropping a workspace keep the types.
LEMMA TypeEdits ==
    ASSUME TypeInv, NEW s \in Sessions, Edits(s)
    PROVE  TypeInv'
<1> USE DEF TypeInv, TypeOK
<1>1. ASSUME NEW b \in Branches, Open(s, b) PROVE TypeInv'
  <2> DEFINE w == [branch |-> b, base |-> head[b], view |-> commit[head[b]].root,
                   edits |-> <<>>, staged |-> {}, request |-> None, workspace |-> TRUE]
  <2>1. /\ head[b] \in CommitIds /\ commit[head[b]].root \in States
        /\ CommitIds' = CommitIds
    BY <1>1 DEF HistoryTypeOK, Open, CommitIds
  <2>2. WorkspaceTypeOK(w) /\ Shaped(w)
    <3>1. <<>> \in Seq(Mutations)
      OBVIOUS
    <3>2. QED
      BY <2>1, <3>1, NewTyped
  <2>3. Shape' /\ \A t \in Sessions : WorkspaceTypeOK(ws[t])'
    BY <1>1, <2>1, <2>2, OneWorkspace DEF Open
  <2>4. SessionTypeOK'
    BY <1>1, <2>1, <2>3 DEF Open, SessionTypeOK, Phases
  <2>5. HistoryTypeOK' /\ RecordTypeOK' /\ SweepTypeOK'
    BY <1>1, <2>1 DEF Open, HistoryTypeOK, RecordTypeOK, SweepTypeOK, Stored, CommitIds
  <2>6. PlansBounded'
    BY <1>1 DEF Open, PlansBounded, SessionTypeOK, Shape
  <2>7. QED
    BY <2>3, <2>4, <2>5, <2>6
<1>2. ASSUME NEW x \in Slots, NEW c \in Chunks \cup {None}, Edit(s, x, c) PROVE TypeInv'
  <2>1. CommitIds' = CommitIds
    BY <1>2 DEF Edit, storeVars, CommitIds
  <2>2. LET w == Edited(ws[s], x, c) IN WorkspaceTypeOK(w) /\ Shaped(w)
    BY EditedTyped DEF SessionTypeOK, Shape
  <2>3. Shape' /\ \A t \in Sessions : WorkspaceTypeOK(ws[t])'
    BY <1>2, <2>1, <2>2, OneWorkspace DEF Edit
  <2>4. SessionTypeOK'
    BY <1>2, <2>1, <2>3 DEF Edit, SessionTypeOK
  <2>5. HistoryTypeOK' /\ RecordTypeOK' /\ SweepTypeOK'
    BY <1>2, <2>1 DEF Edit, HistoryTypeOK, RecordTypeOK, SweepTypeOK, Stored, storeVars, CommitIds
  <2>6. PlansBounded'
    BY <1>2 DEF Edit, PlansBounded, SessionTypeOK, Shape
  <2>7. QED
    BY <2>3, <2>4, <2>5, <2>6
<1>3. ASSUME Abort(s) PROVE TypeInv'
  <2>1. CommitIds' = CommitIds
    BY <1>3 DEF Abort, CommitIds
  <2>2. LET w == [ws[s] EXCEPT !.edits = <<>>, !.staged = {}]
        IN  WorkspaceTypeOK(w) /\ Shaped(w)
    BY ChangedTyped DEF SessionTypeOK, Shape
  <2>3. Shape' /\ \A t \in Sessions : WorkspaceTypeOK(ws[t])'
    BY <1>3, <2>1, <2>2, OneWorkspace DEF Abort
  <2>4. SessionTypeOK'
    BY <1>3, <2>1, <2>3 DEF Abort, SessionTypeOK, Phases
  <2>5. HistoryTypeOK' /\ SweepTypeOK'
    BY <1>3, <2>1 DEF Abort, HistoryTypeOK, SweepTypeOK, Stored, CommitIds
  <2>6. RecordTypeOK'
    BY <1>3, <2>1 DEF Abort, RecordTypeOK
  <2>7. PlansBounded'
    BY <1>3 DEF Abort, PlansBounded, SessionTypeOK, Shape
  <2>8. QED
    BY <2>3, <2>4, <2>5, <2>6, <2>7
<1>4. ASSUME Drop(s) PROVE TypeInv'
  <2>1. CommitIds' = CommitIds
    BY <1>4 DEF Drop, storeVars, CommitIds
  <2>2. Shape' /\ \A t \in Sessions : WorkspaceTypeOK(ws[t])'
    BY <1>4, <2>1, NoWorkspaceType, OneWorkspace DEF Drop, Forget
  <2>3. SessionTypeOK'
    BY <1>4, <2>1, <2>2 DEF Drop, Forget, SessionTypeOK, Phases, NoAnswer, Outcomes
  <2>4. HistoryTypeOK' /\ RecordTypeOK' /\ SweepTypeOK'
    BY <1>4, <2>1 DEF Drop, HistoryTypeOK, RecordTypeOK, SweepTypeOK, Stored, storeVars, CommitIds
  <2>5. PlansBounded'
    BY <1>4 DEF Drop, Forget, PlansBounded, SessionTypeOK, Shape
  <2>6. QED
    BY <2>2, <2>3, <2>4, <2>5
<1>5. QED
  BY <1>1, <1>2, <1>3, <1>4 DEF Edits, Put, Remove

\* A call to publish and a call to revert_to keep the types.
LEMMA TypeCalls ==
    ASSUME TypeInv, NEW s \in Sessions, Calls(s)
    PROVE  TypeInv'
<1> USE DEF TypeInv, TypeOK
<1>1. ASSUME NEW r, Call(s, r) PROVE TypeInv'
  <2>1. CommitIds' = CommitIds
    BY <1>1 DEF Call, storeVars, CommitIds
  <2>2. WorkspaceTypeOK(ws[s]) /\ Shaped(ws[s])
    BY DEF SessionTypeOK, Shape
  <2>3. LET w == [ws[s] EXCEPT !.request = r] IN WorkspaceTypeOK(w) /\ Shaped(w)
    BY <2>2, ChangedTyped
  <2>4. Shape' /\ \A t \in Sessions : WorkspaceTypeOK(ws[t])'
    BY <1>1, <2>1, <2>3, OneWorkspace DEF Call
  <2>5. SessionTypeOK'
    BY <1>1, <2>1, <2>2, <2>4
       DEF Call, SessionTypeOK, Phases, NoAnswer, Outcomes, WorkspaceTypeOK
  <2>6. HistoryTypeOK' /\ RecordTypeOK' /\ SweepTypeOK'
    BY <1>1, <2>1 DEF Call, HistoryTypeOK, RecordTypeOK, SweepTypeOK, Stored, storeVars, CommitIds
  <2>7. PlansBounded'
    BY <1>1 DEF Call, PlansBounded, SessionTypeOK, Shape
  <2>8. QED
    BY <2>4, <2>5, <2>6, <2>7
<1>2. ASSUME NEW b \in Branches, NEW k \in CommitIds, RevertTo(s, b, k) PROVE TypeInv'
  <2> DEFINE from == commit[head[b]].root
             to == commit[k].root
             w == [branch |-> b, base |-> head[b], view |-> to,
                   edits |-> Reversal(from, to), staged |-> {},
                   request |-> RevertId(head[b], k), workspace |-> FALSE]
  <2>1. /\ head[b] \in CommitIds /\ from \in States /\ to \in States
        /\ CommitIds' = CommitIds
    BY <1>2 DEF HistoryTypeOK, RevertTo, storeVars, CommitIds
  <2>2. WorkspaceTypeOK(w) /\ Shaped(w)
    <3>1. Reversal(from, to) \in Seq(Mutations)
      BY <2>1, ReversalType
    <3>2. QED
      BY <2>1, <3>1, NewTyped
  <2>3. Shape' /\ \A t \in Sessions : WorkspaceTypeOK(ws[t])'
    BY <1>2, <2>1, <2>2, OneWorkspace DEF RevertTo
  <2>4. SessionTypeOK'
    BY <1>2, <2>1, <2>3 DEF RevertTo, SessionTypeOK, Phases
  <2>5. HistoryTypeOK' /\ RecordTypeOK' /\ SweepTypeOK'
    BY <1>2, <2>1 DEF RevertTo, HistoryTypeOK, RecordTypeOK, SweepTypeOK, Stored, storeVars, CommitIds
  <2>6. PlansBounded'
    BY <1>2 DEF RevertTo, PlansBounded, SessionTypeOK, Shape
  <2>7. QED
    BY <2>3, <2>4, <2>5, <2>6
<1>3. QED
  BY <1>1, <1>2 DEF Calls, CallNamed, CallAuto, CommitIds

\* A call that returns an error keeps the types, whoever holds the lock next.
LEMMA TypeRefuse ==
    ASSUME TypeInv, NEW s \in Sessions, NEW why \in Outcomes, Refuse(s, why),
           lock' \in Sessions \cup {None, Collector}
    PROVE  TypeInv'
<1> USE DEF TypeInv, TypeOK
<1>1. CommitIds' = CommitIds /\ ws' = ws
  BY DEF Refuse, storeVars, CommitIds
<1>2. Shape' /\ \A t \in Sessions : WorkspaceTypeOK(ws[t])'
  BY <1>1 DEF SessionTypeOK, Shape, WorkspaceTypeOK
<1>3. SessionTypeOK'
  BY <1>1, <1>2 DEF Refuse, SessionTypeOK, Phases, NoTx
<1>4. HistoryTypeOK' /\ RecordTypeOK' /\ SweepTypeOK'
  BY <1>1 DEF Refuse, HistoryTypeOK, RecordTypeOK, SweepTypeOK, Stored, storeVars, CommitIds
<1>5. PlansBounded'
  BY <1>1 DEF Refuse, PlansBounded, SessionTypeOK
<1>6. QED
  BY <1>2, <1>3, <1>4, <1>5

\* A call that returns a receipt keeps the sessions well typed.
LEMMA TypeFinish ==
    ASSUME TypeInv, NEW s \in Sessions, NEW outcome \in Outcomes, NEW k \in CommitIds',
           CommitIds \subseteq CommitIds', Finish(s, outcome, k), todo' = todo
    PROVE  SessionTypeOK' /\ Shape' /\ PlansBounded'
<1> USE DEF TypeInv, TypeOK
<1>1. LET w == [ws[s] EXCEPT !.staged = {}] IN WorkspaceTypeOK(w) /\ Shaped(w)
  BY ChangedTyped DEF SessionTypeOK, Shape
<1>2. Shape' /\ \A t \in Sessions : WorkspaceTypeOK(ws[t])'
  BY <1>1, OneWorkspace DEF Finish
<1>3. SessionTypeOK'
  BY <1>2 DEF Finish, SessionTypeOK, Phases, NoTx
<1>4. PlansBounded'
  BY DEF Finish, PlansBounded, SessionTypeOK, Shape
<1>5. QED
  BY <1>2, <1>3, <1>4

\* The transaction that commits adds one well-typed commit and one well-typed
\* receipt, and moves the head to a commit that is there.
LEMMA TypeCommit ==
    ASSUME TypeInv, NEW s \in Sessions, Commit(s),
           tx[s].parent \in CommitIds, ws[s].branch \in DOMAIN head
    PROVE  TypeInv'
<1> DEFINE id == CommitDigest(tx[s].parent, ws[s].view, ws[s].request, Len(ws[s].edits))
           row == [parent |-> tx[s].parent, root |-> ws[s].view,
                   request |-> ws[s].request, mutations |-> ws[s].edits,
                   seq |-> tx[s].seq,
                   workspace |-> IF ws[s].workspace THEN s ELSE None]
           evidence == [hash |-> CommandHash(s), commit |-> id,
                        previous |-> tx[s].parent, seq |-> tx[s].seq]
<1> USE DEF TypeInv, TypeOK
<1>1. /\ commit' = Bind(commit, id, row)
      /\ receipt' = Bind(receipt, ws[s].request, evidence)
      /\ head' = [head EXCEPT ![ws[s].branch] = id]
      /\ record' = IF ws[s].workspace
                   THEN [record EXCEPT ![s] = [status |-> "COMMITTED", final |-> id]]
                   ELSE record
      /\ Finish(s, "Applied", id) /\ lock' = None
      /\ UNCHANGED <<age, todo, sweep, sweeps, crashes>>
  BY DEF Commit, Release
<1>2. WorkspaceTypeOK(ws[s]) /\ tx[s].seq \in Nat
  BY DEF SessionTypeOK
<1>3. /\ row.parent \in CommitIds /\ row.root \in States
      /\ row.mutations \in Seq(Mutations) /\ row.seq \in Nat
      /\ row.workspace \in Sessions \cup {None}
  BY <1>2 DEF WorkspaceTypeOK
<1>4. evidence.commit = id /\ evidence.previous \in CommitIds /\ evidence.seq \in Nat
  BY <1>2
<1> HIDE DEF id, row, evidence
<1>5. /\ CommitIds' = CommitIds \cup {id}
      /\ commit'[id] = row
      /\ \A k \in CommitIds : k # id => commit'[k] = commit[k]
  BY <1>1 DEF Bind, CommitIds
<1>6. /\ DOMAIN receipt' = DOMAIN receipt \cup {ws[s].request}
      /\ receipt'[ws[s].request] = evidence
      /\ \A r \in DOMAIN receipt : r # ws[s].request => receipt'[r] = receipt[r]
  BY <1>1 DEF Bind
<1>7. HistoryTypeOK'
  <2>1. DOMAIN head' \subseteq Branches /\ head' \in [DOMAIN head' -> CommitIds']
    BY <1>1, <1>5 DEF HistoryTypeOK
  <2>2. \A k \in CommitIds' :
            /\ commit'[k].parent \in CommitIds' \cup {None}
            /\ commit'[k].root \in States
            /\ commit'[k].mutations \in Seq(Mutations)
            /\ commit'[k].seq \in Nat
            /\ commit'[k].workspace \in Sessions \cup {None}
    BY <1>3, <1>5 DEF HistoryTypeOK
  <2>3. \A r \in DOMAIN receipt' :
            /\ receipt'[r].commit \in CommitIds'
            /\ receipt'[r].previous \in CommitIds'
            /\ receipt'[r].seq \in Nat
    BY <1>4, <1>5, <1>6 DEF HistoryTypeOK
  <2>4. QED
    BY <2>1, <2>2, <2>3 DEF HistoryTypeOK
<1>8. RecordTypeOK'
  BY <1>1, <1>5 DEF RecordTypeOK
<1>9. SessionTypeOK' /\ Shape' /\ PlansBounded'
  <2>1. "Applied" \in Outcomes
    BY DEF Outcomes
  <2>2. QED
    BY <1>1, <1>5, <2>1, TypeFinish
<1>10. SweepTypeOK'
  BY <1>1 DEF SweepTypeOK, Stored
<1>11. QED
  BY <1>7, <1>8, <1>9, <1>10

\* Staging, submitting, entering, deciding and failing keep the types.
LEMMA TypePublishes ==
    ASSUME TypeInv, NEW s \in Sessions
    PROVE  /\ \A c \in Chunks : StageChunk(s, c) => TypeInv'
           /\ Submit(s) => TypeInv'
           /\ Enter(s) => TypeInv'
           /\ Decide(s) => TypeInv'
           /\ Fail(s) => TypeInv'
<1> USE DEF TypeInv, TypeOK
<1>1. ASSUME NEW c \in Chunks, StageChunk(s, c) PROVE TypeInv'
  <2>1. UNCHANGED <<head, commit, receipt, record, lock, phase, ws, tx, answer,
                    sweep, sweeps, crashes>> /\ CommitIds' = CommitIds
    BY <1>1 DEF StageChunk, CommitIds
  <2>2. Shape' /\ \A t \in Sessions : WorkspaceTypeOK(ws[t])'
    BY <2>1 DEF SessionTypeOK, Shape, WorkspaceTypeOK
  <2>3. SessionTypeOK' /\ SweepTypeOK'
    BY <1>1, <2>1, <2>2 DEF StageChunk, SessionTypeOK, SweepTypeOK, Stored, Bind
  <2>4. HistoryTypeOK' /\ RecordTypeOK' /\ PlansBounded'
    BY <2>1 DEF HistoryTypeOK, RecordTypeOK, PlansBounded, CommitIds
  <2>5. QED
    BY <2>2, <2>3, <2>4
<1>2. ASSUME Submit(s) PROVE TypeInv'
  <2>1. CASE OverBudget(ws[s].edits)
    <3>1. "OverBudget" \in Outcomes
      BY DEF Outcomes
    <3>2. QED
      BY <1>2, <2>1, <3>1, TypeRefuse DEF Submit, SweepTypeOK, Stored
  <2>2. CASE ~OverBudget(ws[s].edits)
    <3>1. /\ phase' = [phase EXCEPT ![s] = "waiting"]
          /\ UNCHANGED <<storeVars, lock, ws, todo, tx, answer, sweep, sweeps, crashes>>
          /\ CommitIds' = CommitIds
      BY <1>2, <2>2 DEF Submit, storeVars, CommitIds
    <3>2. Shape' /\ \A t \in Sessions : WorkspaceTypeOK(ws[t])'
      BY <3>1 DEF SessionTypeOK, Shape, WorkspaceTypeOK
    <3>3. SessionTypeOK'
      BY <3>1, <3>2 DEF SessionTypeOK, Phases
    <3>4. HistoryTypeOK' /\ RecordTypeOK' /\ SweepTypeOK'
      BY <3>1 DEF HistoryTypeOK, RecordTypeOK, SweepTypeOK, Stored, storeVars, CommitIds
    <3>5. Len(ws[s].edits) <= MutationBudget
      BY <2>2, BoundAssumption DEF OverBudget, SessionTypeOK, WorkspaceTypeOK
    <3>6. PlansBounded'
      BY <3>1, <3>5 DEF PlansBounded, SessionTypeOK
    <3>7. QED
      BY <3>2, <3>3, <3>4, <3>6
  <2>3. QED
    BY <2>1, <2>2
<1>3. ASSUME Enter(s) PROVE TypeInv'
  <2>1. CASE ws[s].request \notin DOMAIN receipt
    <3>1. /\ phase' = [phase EXCEPT ![s] = "entered"] /\ lock' = s
          /\ UNCHANGED <<storeVars, ws, todo, tx, answer, sweep, sweeps, crashes>>
          /\ CommitIds' = CommitIds /\ phase[s] = "waiting"
      BY <1>3, <2>1 DEF Enter, storeVars, CommitIds
    <3>2. Shape' /\ \A t \in Sessions : WorkspaceTypeOK(ws[t])'
      BY <3>1 DEF SessionTypeOK, Shape, WorkspaceTypeOK
    <3>3. SessionTypeOK'
      BY <3>1, <3>2 DEF SessionTypeOK, Phases
    <3>4. HistoryTypeOK' /\ RecordTypeOK' /\ SweepTypeOK'
      BY <3>1 DEF HistoryTypeOK, RecordTypeOK, SweepTypeOK, Stored, storeVars, CommitIds
    <3>5. PlansBounded'
      BY <3>1 DEF PlansBounded, SessionTypeOK
    <3>6. QED
      BY <3>2, <3>3, <3>4, <3>5
  <2>2. CASE ws[s].request \in DOMAIN receipt /\ SameCommand(s)
    <3> DEFINE k == receipt[ws[s].request].commit
    <3>1. /\ Finish(s, "Replayed", k)
          /\ UNCHANGED <<storeVars, lock, todo, sweep, sweeps, crashes>>
      BY <1>3, <2>2 DEF Enter
    <3>2. k \in CommitIds /\ CommitIds' = CommitIds /\ "Replayed" \in Outcomes
      BY <2>2, <3>1 DEF HistoryTypeOK, storeVars, CommitIds, Outcomes
    <3> HIDE DEF k
    <3>3. SessionTypeOK' /\ Shape' /\ PlansBounded'
      BY <3>1, <3>2, TypeFinish
    <3>4. HistoryTypeOK' /\ RecordTypeOK' /\ SweepTypeOK'
      BY <3>1 DEF HistoryTypeOK, RecordTypeOK, SweepTypeOK, Stored, storeVars, CommitIds
    <3>5. QED
      BY <3>3, <3>4
  <2>3. CASE ws[s].request \in DOMAIN receipt /\ ~SameCommand(s)
    <3>1. Refuse(s, "RequestMismatch") /\ UNCHANGED lock /\ "RequestMismatch" \in Outcomes
      BY <1>3, <2>3 DEF Enter, Outcomes
    <3>2. QED
      BY <3>1, TypeRefuse DEF SweepTypeOK, Stored
  <2>4. QED
    BY <2>1, <2>2, <2>3
<1>4. ASSUME Decide(s) PROVE TypeInv'
  <2>1. CASE Refusal(s) # "none"
    <3>1. Refusal(s) \in Outcomes
      BY DEF Refusal, Outcomes
    <3>2. Refuse(s, Refusal(s)) /\ lock' = None
      BY <1>4, <2>1 DEF Decide, Release
    <3>3. QED
      BY <3>1, <3>2, TypeRefuse
  <2>2. CASE Refusal(s) = "none"
    <3>1. PICK n \in {commit[c].seq : c \in CommitIds} :
            tx' = [tx EXCEPT ![s] = [parent |-> head[ws[s].branch], seq |-> n + 1]]
      BY <1>4, <2>2 DEF Decide, CommitIds
    <3>2. /\ phase' = [phase EXCEPT ![s] = "decided"] /\ phase[s] = "entered"
          /\ UNCHANGED <<storeVars, lock, ws, todo, answer, sweep, sweeps, crashes>>
          /\ CommitIds' = CommitIds
      BY <1>4, <2>2 DEF Decide, storeVars, CommitIds
    <3>3. n \in Nat /\ head[ws[s].branch] \in CommitIds
      BY <2>2 DEF HistoryTypeOK, Refusal, CommitIds
    <3>4. Shape' /\ \A t \in Sessions : WorkspaceTypeOK(ws[t])'
      BY <3>2 DEF SessionTypeOK, Shape, WorkspaceTypeOK
    <3>5. SessionTypeOK'
      BY <3>1, <3>2, <3>3, <3>4 DEF SessionTypeOK, Phases
    <3>6. HistoryTypeOK' /\ RecordTypeOK' /\ SweepTypeOK'
      BY <3>2 DEF HistoryTypeOK, RecordTypeOK, SweepTypeOK, Stored, storeVars, CommitIds
    <3>7. PlansBounded'
      BY <3>2 DEF PlansBounded, SessionTypeOK
    <3>8. QED
      BY <3>4, <3>5, <3>6, <3>7
  <2>3. QED
    BY <2>1, <2>2
<1>5. ASSUME Fail(s) PROVE TypeInv'
  <2>1. "Storage" \in Outcomes
    BY DEF Outcomes
  <2>2. QED
    BY <1>5, <2>1, TypeRefuse DEF Fail, Release, SweepTypeOK
<1>6. QED
  BY <1>1, <1>2, <1>3, <1>4, <1>5

\* Forks, collections, the passing of time and crashes keep the types.
LEMMA TypeOthers ==
    ASSUME TypeInv
    PROVE  /\ \A b \in Branches, k \in CommitIds : Fork(b, k) => TypeInv'
           /\ Sweeps => TypeInv'
           /\ \A c \in Chunks : Age(c) => TypeInv'
           /\ Crash => TypeInv'
<1> USE DEF TypeInv, TypeOK
<1>1. ASSUME UNCHANGED <<commit, phase, ws, todo, tx, answer>>
      PROVE  SessionTypeOK' /\ Shape' /\ PlansBounded' /\ CommitIds' = CommitIds
  <2>1. CommitIds' = CommitIds
    BY <1>1 DEF CommitIds
  <2>2. Shape' /\ \A t \in Sessions : WorkspaceTypeOK(ws[t])'
    BY <1>1, <2>1 DEF SessionTypeOK, Shape, WorkspaceTypeOK
  <2>3. QED
    BY <1>1, <2>1, <2>2 DEF SessionTypeOK, PlansBounded
<1>2. ASSUME NEW b \in Branches, NEW k \in CommitIds, Fork(b, k) PROVE TypeInv'
  <2>1. UNCHANGED <<commit, receipt, age, record, lock, phase, ws, todo, tx, answer,
                    sweep, sweeps, crashes>> /\ head' = Bind(head, b, k)
    BY <1>2 DEF Fork, memVars
  <2>2. SessionTypeOK' /\ Shape' /\ PlansBounded' /\ CommitIds' = CommitIds
    BY <1>1, <2>1
  <2>3. HistoryTypeOK' /\ RecordTypeOK' /\ SweepTypeOK'
    BY <2>1, <2>2 DEF HistoryTypeOK, RecordTypeOK, SweepTypeOK, Stored, Bind
  <2>4. QED
    BY <2>2, <2>3
<1>3. ASSUME NEW grace \in {0, 1}, SweepStart(grace) PROVE TypeInv'
  <2>1. UNCHANGED <<storeVars, phase, ws, todo, tx, answer, crashes>>
    BY <1>3 DEF SweepStart
  <2>2. SessionTypeOK' /\ Shape' /\ PlansBounded' /\ CommitIds' = CommitIds
    BY <1>1, <2>1 DEF storeVars
  <2>3. HistoryTypeOK' /\ RecordTypeOK'
    BY <2>1, <2>2 DEF HistoryTypeOK, RecordTypeOK, storeVars
  <2>4. SweepTypeOK'
    BY <1>3, BoundAssumption DEF SweepStart, SweepTypeOK, Stored, storeVars
  <2>5. QED
    BY <2>2, <2>3, <2>4
<1>4. ASSUME NEW c \in Chunks, SweepDelete(c) PROVE TypeInv'
  <2>1. UNCHANGED <<head, commit, receipt, record, phase, ws, todo, tx, answer>>
    BY <1>4 DEF SweepDelete
  <2>2. SessionTypeOK' /\ Shape' /\ PlansBounded' /\ CommitIds' = CommitIds
    BY <1>1, <2>1
  <2>3. HistoryTypeOK' /\ RecordTypeOK'
    BY <2>1, <2>2 DEF HistoryTypeOK, RecordTypeOK
  <2>4. SweepTypeOK'
    BY <1>4 DEF SweepDelete, SweepTypeOK, Stored
  <2>5. QED
    BY <2>2, <2>3, <2>4
<1>5. ASSUME SweepStop PROVE TypeInv'
  <2>1. UNCHANGED <<storeVars, phase, ws, todo, tx, answer>>
    BY <1>5 DEF SweepStop
  <2>2. SessionTypeOK' /\ Shape' /\ PlansBounded' /\ CommitIds' = CommitIds
    BY <1>1, <2>1 DEF storeVars
  <2>3. HistoryTypeOK' /\ RecordTypeOK'
    BY <2>1, <2>2 DEF HistoryTypeOK, RecordTypeOK, storeVars
  <2>4. SweepTypeOK'
    BY <1>5 DEF SweepStop, SweepTypeOK, Stored, NoSweep, Release, storeVars
  <2>5. QED
    BY <2>2, <2>3, <2>4
<1>6. ASSUME NEW c \in Chunks, Age(c) PROVE TypeInv'
  <2>1. UNCHANGED <<head, commit, receipt, record, memVars>>
    BY <1>6 DEF Age
  <2>2. SessionTypeOK' /\ Shape' /\ PlansBounded' /\ CommitIds' = CommitIds
    BY <1>1, <2>1 DEF memVars
  <2>3. HistoryTypeOK' /\ RecordTypeOK'
    BY <2>1, <2>2 DEF HistoryTypeOK, RecordTypeOK
  <2>4. SweepTypeOK'
    BY <1>6 DEF Age, SweepTypeOK, Stored, memVars
  <2>5. QED
    BY <2>2, <2>3, <2>4
<1>7. ASSUME Crash PROVE TypeInv'
  <2> DEFINE lost == {s \in Sessions : phase[s] \notin {"unused", "closed"}}
  <2>1. UNCHANGED storeVars /\ CommitIds' = CommitIds
    BY <1>7 DEF Crash, storeVars, CommitIds
  <2>2. /\ phase' = [s \in Sessions |-> IF s \in lost THEN "gone" ELSE phase[s]]
        /\ ws' = [s \in Sessions |-> IF s \in lost THEN NoWorkspace ELSE ws[s]]
        /\ answer' = [s \in Sessions |-> IF s \in lost THEN NoAnswer ELSE answer[s]]
        /\ lock' = None
        /\ todo' = [s \in Sessions |-> {}]
        /\ tx' = [s \in Sessions |-> NoTx]
    BY <1>7 DEF Crash
  <2> HIDE DEF lost
  <2>3. Shape'
    BY <2>2, NoWorkspaceType DEF Shape
  <2>4. \A t \in Sessions : WorkspaceTypeOK(ws[t])'
    <3>1. WorkspaceTypeOK(NoWorkspace)'
      BY <2>1, NoWorkspaceType DEF WorkspaceTypeOK
    <3>2. \A t \in Sessions : ws'[t] \in {NoWorkspace, ws[t]}
      BY <2>2
    <3>3. QED
      BY <2>1, <3>1, <3>2 DEF SessionTypeOK, WorkspaceTypeOK
  <2>5. SessionTypeOK'
    BY <2>1, <2>2, <2>4 DEF SessionTypeOK, Phases, NoTx, NoAnswer, Outcomes
  <2>6. HistoryTypeOK' /\ RecordTypeOK'
    BY <2>1 DEF HistoryTypeOK, RecordTypeOK, storeVars
  <2>7. SweepTypeOK'
    BY <1>7, <2>1, BoundAssumption DEF Crash, SweepTypeOK, Stored, NoSweep, storeVars
  <2>8. PlansBounded'
    BY <2>2 DEF PlansBounded
  <2>9. QED
    BY <2>3, <2>5, <2>6, <2>7, <2>8
<1>8. QED
  BY <1>2, <1>3, <1>4, <1>5, <1>6, <1>7 DEF Sweeps, SweepEnd, SweepFail

\* A step that changes nothing keeps the types.
LEMMA TypeStutter == TypeInv /\ UNCHANGED vars => TypeInv'
BY DEF TypeInv, TypeOK, HistoryTypeOK, RecordTypeOK, SessionTypeOK, SweepTypeOK, Stored,
       PlansBounded, Shape, WorkspaceTypeOK, CommitIds, vars, storeVars, memVars


(* The inductive invariant *)

\* The phases in which a session holds the publish lock, and in which it has a plan.
Holding  == {"entered", "decided"}
Planning == {"open", "staging", "waiting"} \cup Holding

\* The lock is held by the session that entered, or by the collection that runs.
Locked ==
    /\ \A s \in Sessions : phase[s] \in Holding <=> lock = s
    /\ sweep.running <=> lock = Collector
    /\ ~sweep.running => sweep.doomed = {}

\* What a published state names is stored, and no collection is about to delete it.
ContentSafe == Referenced \subseteq Stored /\ sweep.doomed \cap Referenced = {}

\* A plan is for a branch that exists, over a commit that exists, and its state
\* names only chunks that are published already or carried by its own mutations.
PlanKnown(s) ==
    phase[s] \in Planning =>
        /\ ws[s].branch \in DOMAIN head
        /\ ws[s].base \in CommitIds
        /\ ChunksOf(ws[s].view) \subseteq Referenced \cup Required(ws[s].edits)

\* What a transaction has read is still so when it commits.
PlanReady(s) ==
    phase[s] = "decided" =>
        /\ ws[s].request \notin DOMAIN receipt
        /\ tx[s].parent = ws[s].base
        /\ head[ws[s].branch] = ws[s].base
        /\ CommitDigest(tx[s].parent, ws[s].view, ws[s].request, Len(ws[s].edits))
             \notin CommitIds
        /\ \A c \in CommitIds : commit[c].seq < tx[s].seq
        /\ Required(ws[s].edits) \subseteq Stored

\* The branch of session s is at a later commit than its base.
Overtaken(s) ==
    /\ ws[s].branch \in DOMAIN head
    /\ ws[s].base \in CommitIds
    /\ commit[ws[s].base].seq < commit[head[ws[s].branch]].seq

\* A head is the base of a plan or has moved up from it, for good.
HeadMovesUp(s) ==
    /\ phase[s] \in Planning => head[ws[s].branch] = ws[s].base \/ Overtaken(s)
    /\ answer[s].outcome = "HeadConflict" => phase[s] # "unused" /\ Overtaken(s)

\* The record of a workspace and its commit, if any, agree; committing closes it.
Recorded(s) ==
    /\ record[s].status = "COMMITTED" =>
        /\ record[s].final \in CommitIds
        /\ commit[record[s].final].workspace = s
    /\ \A c \in CommitIds : commit[c].workspace = s =>
        /\ record[s] = [status |-> "COMMITTED", final |-> c]
        /\ phase[s] = "closed"

SessionInv(s) == PlanKnown(s) /\ PlanReady(s) /\ HeadMovesUp(s) /\ Recorded(s)

HistoryInv == Genesis \in CommitIds /\ OneReceiptPerCommit /\ SequenceOrdersHistory

IInv ==
    /\ TypeInv
    /\ Locked
    /\ ContentSafe
    /\ HistoryInv
    /\ \A s \in Sessions : SessionInv(s)

--------------------------------------------------------------------------------
(* Steps that leave the history alone *)

\* The branches, the commits and the receipts, and with them what is referenced,
\* stay; no chunk row disappears.
SameHistory ==
    /\ UNCHANGED <<head, commit, receipt>>
    /\ Stored \subseteq Stored'

\* Nothing happens to the sessions other than s.
OthersRest(s) ==
    \A t \in Sessions \ {s} :
        /\ phase'[t] = phase[t] /\ ws'[t] = ws[t] /\ tx'[t] = tx[t]
        /\ answer'[t] = answer[t] /\ record'[t] = record[t]

\* The digests, receipts and sequences of an unchanged history stay in order.
LEMMA HistoryRests ==
    ASSUME UNCHANGED <<head, commit, receipt>>
    PROVE  /\ CommitIds' = CommitIds /\ Referenced' = Referenced
           /\ HistoryInv => HistoryInv'
<1>1. CommitIds' = CommitIds
  BY DEF CommitIds
<1>2. Referenced' = Referenced
  BY DEF Referenced, RetainedRoots, ChunksOf
<1>3. HistoryInv => HistoryInv'
  BY <1>1 DEF HistoryInv, OneReceiptPerCommit, SequenceOrdersHistory
<1>4. QED
  BY <1>1, <1>2, <1>3

\* A session to which nothing happens keeps its invariant.
LEMMA SessionRests ==
    ASSUME SameHistory, NEW t \in Sessions, SessionInv(t),
           phase'[t] = phase[t], ws'[t] = ws[t], tx'[t] = tx[t],
           answer'[t] = answer[t], record'[t] = record[t]
    PROVE  SessionInv(t)'
<1>1. CommitIds' = CommitIds /\ Referenced' = Referenced
  BY HistoryRests DEF SameHistory
<1>2. PlanKnown(t)'
  BY <1>1 DEF SameHistory, SessionInv, PlanKnown, ChunksOf, Required
<1>3. PlanReady(t)'
  BY <1>1 DEF SameHistory, SessionInv, PlanReady, CommitDigest, Required
<1>4. HeadMovesUp(t)' /\ Recorded(t)'
  BY <1>1 DEF SameHistory, SessionInv, HeadMovesUp, Overtaken, Recorded
<1>5. QED
  BY <1>2, <1>3, <1>4 DEF SessionInv

\* A step of one session, outside the history, has only that session to answer for.
LEMMA SessionSteps ==
    ASSUME IInv, NEW s \in Sessions, TypeInv', SameHistory, OthersRest(s),
           sweep' = sweep, Locked', SessionInv(s)'
    PROVE  IInv'
<1>1. CommitIds' = CommitIds /\ Referenced' = Referenced /\ HistoryInv'
  BY HistoryRests DEF SameHistory, IInv
<1>2. ContentSafe'
  BY <1>1 DEF IInv, ContentSafe, SameHistory
<1>3. \A t \in Sessions : SessionInv(t)'
  BY SessionRests DEF IInv, OthersRest
<1>4. QED
  BY <1>1, <1>2, <1>3 DEF IInv

\* Opening, editing, aborting and dropping a workspace keep the invariant.
LEMMA SafeEdits ==
    ASSUME IInv, NEW s \in Sessions, Edits(s)
    PROVE  IInv'
<1>1. TypeInv' /\ TypeInv /\ Locked /\ SessionInv(s)
  BY TypeEdits DEF IInv
<1>2. /\ head \in [DOMAIN head -> CommitIds] /\ DOMAIN ws = Sessions
      /\ phase \in [Sessions -> Phases] /\ WorkspaceTypeOK(ws[s]) /\ Shaped(ws[s])
      /\ answer \in [Sessions -> [outcome : Outcomes, commit : CommitIds \cup {None}]]
  BY <1>1 DEF TypeInv, TypeOK, HistoryTypeOK, SessionTypeOK, Shape
<1>3. /\ DOMAIN record = Sessions
      /\ \A k \in CommitIds : commit[k].workspace = s => phase[s] = "closed"
  BY <1>1 DEF TypeInv, TypeOK, RecordTypeOK, SessionInv, Recorded
<1>4. ASSUME NEW b \in Branches, Open(s, b) PROVE IInv'
  <2>1. /\ b \in DOMAIN head /\ head[b] \in CommitIds /\ phase[s] = "unused" /\ phase'[s] = "open"
        /\ ws'[s].branch = b /\ ws'[s].base = head[b]
        /\ ws'[s].view = commit[head[b]].root
        /\ record'[s] = [status |-> "OPEN", final |-> None]
        /\ UNCHANGED <<head, commit, receipt, age, lock, answer, sweep>>
    BY <1>2, <1>3, <1>4 DEF Open
  <2>2. SameHistory /\ OthersRest(s)
    BY <1>2, <1>4 DEF Open, SameHistory, OthersRest, Stored, TypeInv
  <2>3. Locked'
    BY <1>1, <1>2, <1>4, <2>1 DEF Open, Locked, Holding
  <2>4. CommitIds' = CommitIds /\ Referenced' = Referenced
    BY <2>1, HistoryRests
  <2>5. PlanKnown(s)' /\ PlanReady(s)'
    <3>1. ChunksOf(commit[head[b]].root) \subseteq Referenced
      BY <2>1, ReferencedMember DEF CommitIds
    <3>2. ChunksOf(ws[s].view)' \subseteq Referenced
      BY <2>1, <3>1 DEF ChunksOf
    <3>3. QED
      BY <2>1, <2>4, <3>2 DEF PlanKnown, PlanReady
  <2>6. HeadMovesUp(s)' /\ Recorded(s)'
    BY <1>1, <1>3, <2>1, <2>4 DEF HeadMovesUp, Overtaken, Recorded, SessionInv
  <2>7. QED
    BY <1>1, <2>1, <2>2, <2>3, <2>5, <2>6, SessionSteps DEF SessionInv
<1>5. ASSUME NEW x \in Slots, NEW c \in Chunks \cup {None}, Edit(s, x, c) PROVE IInv'
  <2>1. /\ ws' = [ws EXCEPT ![s] = Edited(ws[s], x, c)]
        /\ phase[s] = "open" /\ phase' = phase
        /\ UNCHANGED <<head, commit, receipt, age, record, lock, tx, answer, sweep>>
    BY <1>5 DEF Edit, storeVars
  <2>2. /\ ws'[s].branch = ws[s].branch /\ ws'[s].base = ws[s].base
        /\ ws'[s].view = [ws[s].view EXCEPT ![x] = c]
        /\ ws'[s].edits = Append(ws[s].edits, [slot |-> x, chunk |-> c])
    BY <1>2, <2>1, EditedTyped
  <2>3. SameHistory /\ OthersRest(s) /\ Locked'
    BY <1>1, <1>2, <2>1 DEF SameHistory, OthersRest, Stored, Locked
  <2>4. CommitIds' = CommitIds /\ Referenced' = Referenced
    BY <2>1, HistoryRests
  <2>5. PlanKnown(s)'
    <3>1. ChunksOf(ws'[s].view) \subseteq ChunksOf(ws[s].view) \cup ({c} \ {None})
      BY <1>2, <2>2 DEF ChunksOf, WorkspaceTypeOK, States
    <3>2. Required(ws[s].edits) \cup ({c} \ {None}) \subseteq Required(ws'[s].edits)
      <4> DEFINE e == ws[s].edits
                 m == [slot |-> x, chunk |-> c]
      <4>1. e \in Seq(Mutations) /\ ws'[s].edits = Append(e, m)
        BY <1>2, <2>2 DEF WorkspaceTypeOK
      <4> HIDE DEF e
      <4>2. /\ \A i \in DOMAIN e : i \in DOMAIN Append(e, m) /\ Append(e, m)[i] = e[i]
            /\ Len(e) + 1 \in DOMAIN Append(e, m) /\ Append(e, m)[Len(e) + 1] = m
        BY <4>1
      <4>3. Required(e) \cup ({c} \ {None}) \subseteq Required(Append(e, m))
        BY <4>2 DEF Required
      <4>4. QED
        BY <4>1, <4>3 DEF e
    <3>3. ChunksOf(ws'[s].view) \subseteq Referenced \cup Required(ws'[s].edits)
      BY <1>1, <2>1, <3>1, <3>2 DEF SessionInv, PlanKnown, Planning
    <3>4. ChunksOf(ws[s].view)' = ChunksOf(ws'[s].view)
          /\ Required(ws[s].edits)' = Required(ws'[s].edits)
      BY DEF ChunksOf, Required
    <3>5. QED
      BY <1>1, <2>1, <2>2, <2>4, <3>3, <3>4 DEF SessionInv, PlanKnown, Planning
  <2>6. PlanReady(s)' /\ HeadMovesUp(s)' /\ Recorded(s)'
    BY <1>1, <2>1, <2>2, <2>4
       DEF SessionInv, PlanReady, HeadMovesUp, Overtaken, Recorded, Planning
  <2>7. QED
    BY <1>1, <2>1, <2>3, <2>5, <2>6, SessionSteps DEF SessionInv
<1>6. ASSUME Abort(s) PROVE IInv'
  <2>1. /\ phase[s] = "open" /\ phase'[s] = "closed" /\ ws'[s].branch = ws[s].branch
        /\ ws'[s].base = ws[s].base /\ record'[s].status = "ABORTED"
        /\ UNCHANGED <<head, commit, receipt, age, lock, answer, sweep>>
    BY <1>1, <1>2, <1>3, <1>6 DEF Abort, TypeInv, TypeOK, RecordTypeOK, Shaped, Fields
  <2>2. SameHistory /\ OthersRest(s)
    BY <1>2, <1>6, <2>1 DEF Abort, SameHistory, OthersRest, Stored
  <2>3. Locked'
    BY <1>1, <1>2, <1>6, <2>1 DEF Abort, Locked, Holding
  <2>4. CommitIds' = CommitIds /\ Referenced' = Referenced
    BY <2>1, HistoryRests
  <2>5. SessionInv(s)'
    BY <1>1, <1>3, <2>1, <2>4 DEF SessionInv, PlanKnown, PlanReady, HeadMovesUp,
       Overtaken, Recorded, Planning, Holding
  <2>6. QED
    BY <1>1, <2>1, <2>2, <2>3, <2>5, SessionSteps
<1>7. ASSUME Drop(s) PROVE IInv'
  <2>1. /\ phase[s] = "open" /\ phase'[s] = "gone" /\ answer'[s].outcome = "none"
        /\ UNCHANGED <<head, commit, receipt, age, record, lock, tx, sweep>>
    BY <1>2, <1>7 DEF Drop, Forget, storeVars, NoAnswer
  <2>2. SameHistory /\ OthersRest(s)
    BY <1>2, <1>7, <2>1 DEF Drop, Forget, SameHistory, OthersRest, Stored
  <2>3. Locked'
    BY <1>1, <1>2, <1>7, <2>1 DEF Drop, Locked, Holding
  <2>4. CommitIds' = CommitIds /\ Referenced' = Referenced
    BY <2>1, HistoryRests
  <2>5. SessionInv(s)'
    BY <1>1, <1>3, <2>1, <2>4 DEF SessionInv, PlanKnown, PlanReady, HeadMovesUp,
       Overtaken, Recorded, Planning, Holding
  <2>6. QED
    BY <1>1, <2>1, <2>2, <2>3, <2>5, SessionSteps
<1>8. QED
  BY <1>4, <1>5, <1>6, <1>7, Zenon DEF Edits, Put, Remove

\* A call to publish and a call to revert_to keep the invariant.
LEMMA SafeCalls ==
    ASSUME IInv, NEW s \in Sessions, Calls(s)
    PROVE  IInv'
<1>1. TypeInv' /\ TypeInv /\ Locked /\ SessionInv(s)
  BY TypeCalls DEF IInv
<1>2. /\ head \in [DOMAIN head -> CommitIds] /\ DOMAIN ws = Sessions
      /\ phase \in [Sessions -> Phases] /\ WorkspaceTypeOK(ws[s]) /\ Shaped(ws[s])
      /\ answer \in [Sessions -> [outcome : Outcomes, commit : CommitIds \cup {None}]]
  BY <1>1 DEF TypeInv, TypeOK, HistoryTypeOK, SessionTypeOK, Shape
<1>3. ASSUME NEW r, Call(s, r) PROVE IInv'
  <2>1. /\ phase[s] = "open" /\ phase'[s] = "staging" /\ answer'[s].outcome = "none"
        /\ ws'[s].branch = ws[s].branch /\ ws'[s].base = ws[s].base
        /\ ws'[s].view = ws[s].view /\ ws'[s].edits = ws[s].edits
        /\ UNCHANGED <<head, commit, receipt, age, record, lock, tx, sweep>>
    BY <1>2, <1>3 DEF Call, storeVars, NoAnswer, Shaped, Fields
  <2>2. SameHistory /\ OthersRest(s)
    BY <1>2, <1>3, <2>1 DEF Call, SameHistory, OthersRest, Stored
  <2>3. Locked'
    BY <1>1, <1>2, <1>3, <2>1 DEF Call, Locked, Holding
  <2>4. CommitIds' = CommitIds /\ Referenced' = Referenced
    BY <2>1, HistoryRests
  <2>5. PlanKnown(s)'
    BY <1>1, <2>1, <2>4 DEF SessionInv, PlanKnown, Planning, ChunksOf, Required
  <2>6. PlanReady(s)' /\ HeadMovesUp(s)' /\ Recorded(s)'
    BY <1>1, <2>1, <2>4
       DEF SessionInv, PlanReady, HeadMovesUp, Overtaken, Recorded, Planning
  <2>7. QED
    BY <1>1, <2>1, <2>2, <2>3, <2>5, <2>6, SessionSteps DEF SessionInv
<1>4. ASSUME NEW b \in Branches, NEW k \in CommitIds, RevertTo(s, b, k) PROVE IInv'
  <2>1. /\ phase[s] = "unused" /\ phase'[s] = "staging" /\ b \in DOMAIN head /\ head[b] \in CommitIds
        /\ ws'[s].branch = b /\ ws'[s].base = head[b] /\ ws'[s].view = commit[k].root
        /\ UNCHANGED <<head, commit, receipt, age, record, lock, tx, answer, sweep>>
    BY <1>2, <1>4 DEF RevertTo, storeVars
  <2>2. SameHistory /\ OthersRest(s)
    BY <1>2, <1>4, <2>1 DEF RevertTo, SameHistory, OthersRest, Stored
  <2>3. Locked'
    BY <1>1, <1>2, <1>4, <2>1 DEF RevertTo, Locked, Holding
  <2>4. CommitIds' = CommitIds /\ Referenced' = Referenced
    BY <2>1, HistoryRests
  <2>5. PlanKnown(s)'
    <3>1. ChunksOf(commit[k].root) \subseteq Referenced
      BY ReferencedMember DEF CommitIds
    <3>2. ChunksOf(ws[s].view)' \subseteq Referenced
      BY <2>1, <3>1 DEF ChunksOf
    <3>3. QED
      BY <2>1, <2>4, <3>2 DEF PlanKnown
  <2>6. PlanReady(s)' /\ HeadMovesUp(s)' /\ Recorded(s)'
    BY <1>1, <2>1, <2>4 DEF SessionInv, PlanReady, HeadMovesUp, Overtaken, Recorded
  <2>7. QED
    BY <1>1, <2>1, <2>2, <2>3, <2>5, <2>6, SessionSteps DEF SessionInv
<1>5. QED
  BY <1>3, <1>4 DEF Calls, CallNamed, CallAuto, CommitIds

\* Forks, collections, the passing of time and crashes keep the invariant.
LEMMA SafeOthers ==
    ASSUME IInv
    PROVE  /\ \A b \in Branches, k \in CommitIds : Fork(b, k) => IInv'
           /\ Sweeps => IInv'
           /\ \A c \in Chunks : Age(c) => IInv'
           /\ Crash => IInv'
<1>1. /\ TypeInv /\ Locked /\ ContentSafe /\ HistoryInv
      /\ \A s \in Sessions : SessionInv(s)
  BY DEF IInv
<1>2. /\ head \in [DOMAIN head -> CommitIds] /\ age \in [Stored -> {0, 1}]
      /\ sweep \in [running : BOOLEAN, doomed : SUBSET Chunks, grace : {0, 1}]
      /\ phase \in [Sessions -> Phases]
  BY <1>1 DEF TypeInv, TypeOK, HistoryTypeOK, SweepTypeOK, SessionTypeOK
<1>3. \A s \in Sessions : phase[s] = "decided" => lock = s
  BY <1>1 DEF Locked, Holding
<1>4. ASSUME NEW b \in Branches, NEW k \in CommitIds, Fork(b, k) PROVE IInv'
  <2>1. /\ b \notin DOMAIN head /\ head' = Bind(head, b, k)
        /\ UNCHANGED <<commit, receipt, age, record, lock, phase, ws, tx, answer, sweep>>
    BY <1>4 DEF Fork, NameFree, memVars
  <2>2. CommitIds' = CommitIds /\ Referenced' = Referenced /\ Stored' = Stored
    BY <2>1 DEF CommitIds, Referenced, RetainedRoots, ChunksOf, Stored
  <2>3. \A a \in DOMAIN head : a \in DOMAIN head' /\ head'[a] = head[a]
    BY <2>1 DEF Bind
  <2>4. Locked' /\ ContentSafe' /\ HistoryInv'
    BY <1>1, <2>1, <2>2 DEF Locked, ContentSafe, HistoryInv,
       OneReceiptPerCommit, SequenceOrdersHistory
  <2>5. \A s \in Sessions : SessionInv(s)'
    <3> TAKE s \in Sessions
    <3>1. SessionInv(s)
      BY <1>1
    <3>2. PlanKnown(s)'
      BY <2>1, <2>2, <2>3, <3>1 DEF SessionInv, PlanKnown, ChunksOf, Required
    <3>3. PlanReady(s)'
      BY <2>1, <2>2, <2>3, <3>1
         DEF SessionInv, PlanKnown, PlanReady, CommitDigest, Required, Planning, Holding
    <3>4. HeadMovesUp(s)' /\ Recorded(s)'
      BY <2>1, <2>2, <2>3, <3>1
         DEF SessionInv, PlanKnown, HeadMovesUp, Overtaken, Recorded
    <3>5. QED
      BY <3>2, <3>3, <3>4 DEF SessionInv
  <2>6. QED
    BY <1>4, <1>1, <2>4, <2>5, TypeOthers DEF IInv
<1>5. ASSUME NEW grace \in {0, 1}, SweepStart(grace) PROVE IInv'
  <2>1. /\ UNCHANGED <<head, commit, receipt, age, record, phase, ws, tx, answer>>
        /\ lock = None /\ lock' = Collector
        /\ sweep' = [running |-> TRUE, grace |-> grace,
                     doomed |-> {c \in Stored \ Referenced : age[c] >= grace}]
    BY <1>5 DEF SweepStart, LockFree, storeVars
  <2>2. SameHistory /\ CommitIds' = CommitIds /\ Referenced' = Referenced
    BY <2>1, HistoryRests DEF SameHistory, Stored
  <2>3. Locked'
    BY <1>1, <2>1, CollectorAssumption, NoneAssumption DEF Locked
  <2>4. ContentSafe' /\ HistoryInv'
    BY <1>1, <2>1, <2>2, HistoryRests DEF ContentSafe, SameHistory
  <2>5. \A s \in Sessions : SessionInv(s)'
    BY <1>1, <2>1, <2>2, SessionRests
  <2>6. QED
    BY <1>1, <1>5, <2>3, <2>4, <2>5, TypeOthers DEF IInv, Sweeps
<1>6. ASSUME NEW c \in Chunks, SweepDelete(c) PROVE IInv'
  <2>1. /\ UNCHANGED <<head, commit, receipt, record, lock, phase, ws, tx, answer>>
        /\ c \in sweep.doomed
        /\ sweep' = [sweep EXCEPT !.doomed = @ \ {c}]
        /\ age' = [d \in Stored \ {c} |-> age[d]]
    BY <1>6 DEF SweepDelete
  <2>2. CommitIds' = CommitIds /\ Referenced' = Referenced /\ HistoryInv'
    BY <1>1, <2>1, HistoryRests
  <2>3. Locked' /\ lock = Collector
    BY <1>1, <1>2, <2>1 DEF Locked
  <2>4. ContentSafe'
    BY <1>1, <1>2, <2>1, <2>2 DEF ContentSafe, Stored
  <2>5. \A s \in Sessions : SessionInv(s)'
    <3> TAKE s \in Sessions
    <3>1. SessionInv(s) /\ phase[s] # "decided"
      BY <1>1, <1>3, <2>3, CollectorAssumption
    <3>2. PlanKnown(s)' /\ PlanReady(s)'
      BY <2>1, <2>2, <3>1 DEF SessionInv, PlanKnown, PlanReady, ChunksOf, Required
    <3>3. HeadMovesUp(s)' /\ Recorded(s)'
      BY <2>1, <2>2, <3>1 DEF SessionInv, HeadMovesUp, Overtaken, Recorded
    <3>4. QED
      BY <3>2, <3>3 DEF SessionInv
  <2>6. QED
    BY <1>1, <1>6, <2>2, <2>3, <2>4, <2>5, TypeOthers DEF IInv, Sweeps
<1>7. ASSUME SweepEnd \/ SweepFail PROVE IInv'
  <2>1. /\ UNCHANGED <<head, commit, receipt, age, record, phase, ws, tx, answer>>
        /\ lock' = None /\ sweep.running /\ sweep' = NoSweep
    BY <1>7 DEF SweepEnd, SweepFail, SweepStop, Release, storeVars
  <2>2. SameHistory /\ CommitIds' = CommitIds /\ Referenced' = Referenced
    BY <2>1, HistoryRests DEF SameHistory, Stored
  <2>3. Locked'
    BY <1>1, <2>1, CollectorAssumption, NoneAssumption DEF Locked, NoSweep
  <2>4. ContentSafe' /\ HistoryInv'
    BY <1>1, <2>1, <2>2, HistoryRests
       DEF ContentSafe, SameHistory, NoSweep
  <2>5. \A s \in Sessions : SessionInv(s)'
    BY <1>1, <2>1, <2>2, SessionRests
  <2>6. QED
    BY <1>1, <1>7, <2>3, <2>4, <2>5, TypeOthers DEF IInv, Sweeps
<1>8. ASSUME NEW c \in Chunks, Age(c) PROVE IInv'
  <2>1. /\ UNCHANGED <<head, commit, receipt, record, lock, phase, ws, tx, answer, sweep>>
        /\ c \in Stored /\ age' = [age EXCEPT ![c] = 1]
    BY <1>8 DEF Age, memVars
  <2>2. Stored \subseteq Stored'
    BY <1>2, <2>1 DEF Stored
  <2>3. SameHistory /\ Referenced' = Referenced /\ HistoryInv'
    BY <1>1, <2>1, <2>2, HistoryRests DEF SameHistory
  <2>4. Locked' /\ ContentSafe'
    BY <1>1, <2>1, <2>2, <2>3 DEF Locked, ContentSafe
  <2>5. \A s \in Sessions : SessionInv(s)'
    BY <1>1, <2>1, <2>3, SessionRests
  <2>6. QED
    BY <1>1, <1>8, <2>3, <2>4, <2>5, TypeOthers DEF IInv
<1>9. ASSUME Crash PROVE IInv'
  <2> DEFINE lost == {s \in Sessions : phase[s] \notin {"unused", "closed"}}
  <2>1. /\ UNCHANGED <<head, commit, receipt, age, record>>
        /\ phase' = [s \in Sessions |-> IF s \in lost THEN "gone" ELSE phase[s]]
        /\ ws' = [s \in Sessions |-> IF s \in lost THEN NoWorkspace ELSE ws[s]]
        /\ answer' = [s \in Sessions |-> IF s \in lost THEN NoAnswer ELSE answer[s]]
        /\ lock' = None /\ sweep' = NoSweep
    BY <1>9 DEF Crash, storeVars
  <2>2. SameHistory /\ CommitIds' = CommitIds /\ Referenced' = Referenced
    BY <2>1, HistoryRests DEF SameHistory, Stored
  <2>3. Locked'
    BY <2>1, CollectorAssumption, NoneAssumption DEF Locked, NoSweep, Holding
  <2>4. ContentSafe' /\ HistoryInv'
    BY <1>1, <2>1, <2>2, HistoryRests
       DEF ContentSafe, SameHistory, NoSweep
  <2>5. \A s \in Sessions : SessionInv(s)'
    <3> TAKE s \in Sessions
    <3>1. SessionInv(s) /\ phase'[s] \notin Planning
      BY <1>1, <2>1 DEF Planning, Holding
    <3>2. PlanKnown(s)' /\ PlanReady(s)' /\ Recorded(s)'
      BY <2>1, <2>2, <3>1
         DEF SessionInv, PlanKnown, PlanReady, Recorded, Planning, Holding
    <3>3. HeadMovesUp(s)'
      <4>1. CASE s \in lost
        BY <2>1, <3>1, <4>1 DEF HeadMovesUp, NoAnswer
      <4>2. CASE s \notin lost
        BY <2>1, <2>2, <3>1, <4>2 DEF SessionInv, HeadMovesUp, Overtaken
      <4>3. QED
        BY <4>1, <4>2
    <3>4. QED
      BY <3>2, <3>3 DEF SessionInv
  <2>6. QED
    BY <1>1, <1>9, <2>3, <2>4, <2>5, TypeOthers DEF IInv
<1>10. QED
  BY <1>4, <1>5, <1>6, <1>7, <1>8, <1>9 DEF Sweeps

\* A call that returns an error keeps the invariant; a conflict is only reported
\* when the branch has moved up.
LEMMA SafeRefuse ==
    ASSUME IInv, NEW s \in Sessions, NEW why \in Outcomes, Refuse(s, why), TypeInv',
           Locked', phase[s] \in Planning,
           why = "HeadConflict" => head[ws[s].branch] # ws[s].base
    PROVE  IInv'
<1>1. TypeInv /\ Locked /\ SessionInv(s)
  BY DEF IInv
<1>2. /\ phase \in [Sessions -> Phases]
      /\ answer \in [Sessions -> [outcome : Outcomes, commit : CommitIds \cup {None}]]
  BY <1>1 DEF TypeInv, TypeOK, SessionTypeOK
<1>3. /\ phase'[s] \in {"open", "closed"} /\ answer'[s].outcome = why
      /\ UNCHANGED <<head, commit, receipt, age, record, ws, sweep>>
  BY <1>2 DEF Refuse, storeVars
<1>4. SameHistory /\ OthersRest(s)
  BY <1>2, <1>3 DEF Refuse, SameHistory, OthersRest, Stored, TypeInv, TypeOK, SessionTypeOK
<1>5. CommitIds' = CommitIds /\ Referenced' = Referenced
  BY <1>3, HistoryRests
<1>6. PlanKnown(s)'
  BY <1>1, <1>3, <1>5 DEF SessionInv, PlanKnown, Planning, Holding, ChunksOf, Required
<1>7. PlanReady(s)' /\ Recorded(s)'
  BY <1>1, <1>3, <1>5 DEF SessionInv, PlanReady, Recorded, Planning, Holding
<1>8. HeadMovesUp(s)'
  BY <1>1, <1>3, <1>5 DEF SessionInv, HeadMovesUp, Overtaken, Planning, Holding
<1>9. QED
  BY <1>1, <1>3, <1>4, <1>6, <1>7, <1>8, SessionSteps DEF SessionInv

\* Staging, submitting, entering, deciding and failing keep the invariant.
LEMMA SafePublishes ==
    ASSUME IInv, NEW s \in Sessions
    PROVE  /\ \A c \in Chunks : StageChunk(s, c) => IInv'
           /\ Submit(s) => IInv'
           /\ Enter(s) => IInv'
           /\ Decide(s) => IInv'
           /\ Fail(s) => IInv'
<1>1. TypeInv /\ Locked /\ SessionInv(s) /\ HistoryInv
  BY DEF IInv
<1>2. /\ phase \in [Sessions -> Phases] /\ DOMAIN ws = Sessions
      /\ WorkspaceTypeOK(ws[s]) /\ Shaped(ws[s])
      /\ answer \in [Sessions -> [outcome : Outcomes, commit : CommitIds \cup {None}]]
      /\ DOMAIN tx = Sessions
  BY <1>1 DEF TypeInv, TypeOK, SessionTypeOK, Shape
<1>3. ASSUME NEW c \in Chunks, StageChunk(s, c) PROVE IInv'
  <2>1. /\ UNCHANGED <<head, commit, receipt, record, lock, phase, ws, tx, answer, sweep>>
        /\ age' = Bind(age, c, 0)
    BY <1>3 DEF StageChunk
  <2>2. SameHistory /\ OthersRest(s)
    BY <2>1 DEF SameHistory, OthersRest, Stored, Bind
  <2>3. Locked' /\ SessionInv(s)'
    BY <1>1, <2>1, <2>2, SessionRests DEF Locked
  <2>4. QED
    BY <1>1, <1>3, <2>1, <2>2, <2>3, TypePublishes, SessionSteps
<1>4. ASSUME Submit(s) PROVE IInv'
  <2>1. TypeInv' /\ phase[s] = "staging"
    BY <1>1, <1>4, TypePublishes DEF Submit
  <2>2. CASE OverBudget(ws[s].edits)
    <3>1. Refuse(s, "OverBudget") /\ UNCHANGED lock
      BY <1>4, <2>2 DEF Submit
    <3>2. Locked'
      BY <1>1, <1>2, <2>1, <3>1 DEF Refuse, Locked, Holding
    <3>3. "OverBudget" \in Outcomes /\ "OverBudget" # "HeadConflict"
      BY DEF Outcomes
    <3>4. QED
      BY <2>1, <3>1, <3>2, <3>3, SafeRefuse DEF Planning, Holding
  <2>3. CASE ~OverBudget(ws[s].edits)
    <3>1. /\ phase' = [phase EXCEPT ![s] = "waiting"]
          /\ UNCHANGED <<head, commit, receipt, age, record, lock, ws, tx, answer, sweep>>
      BY <1>4, <2>3 DEF Submit, storeVars
    <3>2. SameHistory /\ OthersRest(s)
      BY <1>2, <3>1 DEF SameHistory, OthersRest, Stored
    <3>3. Locked'
      BY <1>1, <1>2, <2>1, <3>1 DEF Locked, Holding
    <3>4. CommitIds' = CommitIds /\ Referenced' = Referenced
      BY <3>1, HistoryRests
    <3>5. PlanKnown(s)'
      BY <1>1, <1>2, <2>1, <3>1, <3>4
         DEF SessionInv, PlanKnown, Planning, ChunksOf, Required
    <3>6. PlanReady(s)' /\ HeadMovesUp(s)' /\ Recorded(s)'
      BY <1>1, <1>2, <2>1, <3>1, <3>4
         DEF SessionInv, PlanReady, HeadMovesUp, Overtaken, Recorded, Planning
    <3>7. QED
      BY <2>1, <3>1, <3>2, <3>3, <3>5, <3>6, SessionSteps DEF SessionInv
  <2>4. QED
    BY <2>2, <2>3
<1>5. ASSUME Enter(s) PROVE IInv'
  <2>1. TypeInv' /\ phase[s] = "waiting" /\ lock = None
    BY <1>1, <1>5, TypePublishes DEF Enter, LockFree
  <2>2. CASE ws[s].request \notin DOMAIN receipt
    <3>1. /\ phase' = [phase EXCEPT ![s] = "entered"] /\ lock' = s
          /\ UNCHANGED <<head, commit, receipt, age, record, ws, tx, answer, sweep>>
      BY <1>5, <2>2 DEF Enter, storeVars
    <3>2. SameHistory /\ OthersRest(s)
      BY <1>2, <3>1 DEF SameHistory, OthersRest, Stored
    <3>3. Locked'
      BY <1>1, <1>2, <2>1, <3>1, NoneAssumption, CollectorAssumption
         DEF Locked, Holding
    <3>4. CommitIds' = CommitIds /\ Referenced' = Referenced
      BY <3>1, HistoryRests
    <3>5. PlanKnown(s)'
      BY <1>1, <1>2, <2>1, <3>1, <3>4
         DEF SessionInv, PlanKnown, Planning, ChunksOf, Required
    <3>6. PlanReady(s)' /\ HeadMovesUp(s)' /\ Recorded(s)'
      BY <1>1, <1>2, <2>1, <3>1, <3>4
         DEF SessionInv, PlanReady, HeadMovesUp, Overtaken, Recorded, Planning
    <3>7. QED
      BY <2>1, <3>1, <3>2, <3>3, <3>5, <3>6, SessionSteps DEF SessionInv
  <2>3. CASE ws[s].request \in DOMAIN receipt /\ SameCommand(s)
    <3> DEFINE k == receipt[ws[s].request].commit
    <3>1. /\ Finish(s, "Replayed", k)
          /\ UNCHANGED <<head, commit, receipt, age, record, lock, sweep>>
      BY <1>5, <2>3 DEF Enter, storeVars
    <3> HIDE DEF k
    <3>2. /\ phase'[s] = "closed" /\ answer'[s].outcome = "Replayed"
          /\ ws'[s].branch = ws[s].branch /\ ws'[s].base = ws[s].base
      BY <1>2, <3>1 DEF Finish, Shaped, Fields
    <3>3. SameHistory /\ OthersRest(s)
      BY <1>2, <3>1 DEF Finish, SameHistory, OthersRest, Stored
    <3>4. Locked'
      BY <1>1, <1>2, <2>1, <3>1 DEF Finish, Locked, Holding
    <3>5. CommitIds' = CommitIds /\ Referenced' = Referenced
      BY <3>1, HistoryRests
    <3>6. SessionInv(s)'
      BY <1>1, <3>1, <3>2, <3>5 DEF SessionInv, PlanKnown, PlanReady, HeadMovesUp,
         Overtaken, Recorded, Planning, Holding
    <3>7. QED
      BY <2>1, <3>1, <3>3, <3>4, <3>6, SessionSteps
  <2>4. CASE ws[s].request \in DOMAIN receipt /\ ~SameCommand(s)
    <3>1. Refuse(s, "RequestMismatch") /\ UNCHANGED lock
      BY <1>5, <2>4 DEF Enter
    <3>2. Locked'
      BY <1>1, <1>2, <2>1, <3>1 DEF Refuse, Locked, Holding
    <3>3. "RequestMismatch" \in Outcomes /\ "RequestMismatch" # "HeadConflict"
      BY DEF Outcomes
    <3>4. QED
      BY <2>1, <3>1, <3>2, <3>3, SafeRefuse DEF Planning, Holding
  <2>5. QED
    BY <2>2, <2>3, <2>4
<1>6. ASSUME Decide(s) PROVE IInv'
  <2>1. TypeInv' /\ phase[s] = "entered" /\ lock = s
    BY <1>1, <1>6, TypePublishes DEF Decide, Locked, Holding
  <2>2. CASE Refusal(s) # "none"
    <3>1. Refuse(s, Refusal(s)) /\ lock' = None
      BY <1>6, <2>2 DEF Decide, Release
    <3>2. Locked'
      BY <1>1, <1>2, <2>1, <3>1, NoneAssumption, CollectorAssumption
         DEF Refuse, Locked, Holding
    <3>3. /\ Refusal(s) \in Outcomes
          /\ Refusal(s) = "HeadConflict" => head[ws[s].branch] # ws[s].base
      BY DEF Refusal, Outcomes, HeadMoved
    <3>4. QED
      BY <2>1, <3>1, <3>2, <3>3, SafeRefuse DEF Planning, Holding
  <2>3. CASE Refusal(s) = "none"
    <3>1. PICK n \in {commit[c].seq : c \in CommitIds} :
            /\ \A c \in CommitIds : commit[c].seq <= n
            /\ tx' = [tx EXCEPT ![s] = [parent |-> head[ws[s].branch], seq |-> n + 1]]
      BY <1>6, <2>3 DEF Decide, CommitIds, Highest, SeqScope
    <3>2. /\ phase' = [phase EXCEPT ![s] = "decided"]
          /\ UNCHANGED <<head, commit, receipt, age, record, lock, ws, answer, sweep>>
      BY <1>6, <2>3 DEF Decide, storeVars
    <3>3. /\ ws[s].request \notin DOMAIN receipt
          /\ head[ws[s].branch] = ws[s].base
          /\ NewCommitId(s) \notin CommitIds
          /\ Required(ws[s].edits) \subseteq Stored
      BY <2>3 DEF Refusal, HeadMoved, ContentMissing, CommitIds
    <3>4. SameHistory /\ OthersRest(s)
      BY <1>2, <3>1, <3>2 DEF SameHistory, OthersRest, Stored
    <3>5. Locked'
      BY <1>1, <1>2, <2>1, <3>2 DEF Locked, Holding
    <3>6. CommitIds' = CommitIds /\ Referenced' = Referenced
      BY <3>2, HistoryRests
    <3>7. PlanKnown(s)'
      BY <1>1, <1>2, <2>1, <3>2, <3>6
         DEF SessionInv, PlanKnown, Planning, Holding, ChunksOf, Required
    <3>8. PlanReady(s)'
      <4>1. tx'[s].parent = head[ws[s].branch] /\ tx'[s].seq = n + 1
        BY <1>2, <3>1
      <4>2. \A c \in CommitIds : commit[c].seq < tx'[s].seq
        BY <1>1, <3>1, <4>1 DEF TypeInv, TypeOK, HistoryTypeOK
      <4>3. QED
        BY <3>2, <3>3, <3>6, <4>1, <4>2
           DEF PlanReady, NewCommitId, CommitDigest, Required, Stored
    <3>9. HeadMovesUp(s)' /\ Recorded(s)'
      BY <1>1, <1>2, <2>1, <3>2, <3>6
         DEF SessionInv, HeadMovesUp, Overtaken, Recorded, Planning, Holding
    <3>10. QED
      BY <2>1, <3>2, <3>4, <3>5, <3>7, <3>8, <3>9, SessionSteps DEF SessionInv
  <2>4. QED
    BY <2>2, <2>3
<1>7. ASSUME Fail(s) PROVE IInv'
  <2>1. /\ TypeInv' /\ phase[s] \in Planning /\ Refuse(s, "Storage")
        /\ lock' = IF lock = s THEN None ELSE lock
    BY <1>1, <1>7, TypePublishes DEF Fail, Release, Planning, Holding
  <2>2. Locked'
    BY <1>1, <1>2, <2>1, NoneAssumption, CollectorAssumption
       DEF Refuse, Locked, Holding
  <2>3. "Storage" \in Outcomes /\ "Storage" # "HeadConflict"
    BY DEF Outcomes
  <2>4. QED
    BY <2>1, <2>2, <2>3, SafeRefuse
<1>8. QED
  BY <1>3, <1>4, <1>5, <1>6, <1>7

\* The transaction that commits keeps the invariant.
LEMMA SafeCommit ==
    ASSUME IInv, NEW s \in Sessions, Commit(s)
    PROVE  IInv'
<1> DEFINE b == ws[s].branch
           r == ws[s].request
           id == CommitDigest(tx[s].parent, ws[s].view, r, Len(ws[s].edits))
           row == [parent |-> tx[s].parent, root |-> ws[s].view, request |-> r,
                   mutations |-> ws[s].edits, seq |-> tx[s].seq,
                   workspace |-> IF ws[s].workspace THEN s ELSE None]
           evidence == [hash |-> CommandHash(s), commit |-> id,
                        previous |-> tx[s].parent, seq |-> tx[s].seq]
<1>1. /\ TypeInv /\ Locked /\ ContentSafe /\ HistoryInv
      /\ \A t \in Sessions : SessionInv(t)
  BY DEF IInv
<1>2. /\ phase[s] = "decided"
      /\ commit' = Bind(commit, id, row)
      /\ receipt' = Bind(receipt, r, evidence)
      /\ head' = [head EXCEPT ![b] = id]
      /\ record' = IF ws[s].workspace
                   THEN [record EXCEPT ![s] = [status |-> "COMMITTED", final |-> id]]
                   ELSE record
      /\ Finish(s, "Applied", id) /\ lock' = None
      /\ UNCHANGED <<age, sweep>>
  BY DEF Commit, Release
<1>3. /\ row.parent = ws[s].base /\ row.root = ws[s].view /\ row.request = r
      /\ row.seq = tx[s].seq /\ row.workspace \in {s, None}
      /\ row.workspace = s => ws[s].workspace
      /\ ws[s].workspace => row.workspace = s
      /\ evidence.commit = id /\ evidence.previous = ws[s].base
      /\ evidence.seq = tx[s].seq
      /\ id \notin CommitIds /\ r \notin DOMAIN receipt
      /\ \A c \in CommitIds : commit[c].seq < tx[s].seq
      /\ Required(ws[s].edits) \subseteq Stored
      /\ head[b] = ws[s].base /\ b \in DOMAIN head /\ ws[s].base \in CommitIds
      /\ ChunksOf(ws[s].view) \subseteq Referenced \cup Required(ws[s].edits)
  BY <1>1, <1>2, NoneAssumption
     DEF SessionInv, PlanReady, PlanKnown, Planning, Holding
<1>4. TypeInv'
  BY <1>1, <1>3, TypeCommit
<1> HIDE DEF b, r, id, row, evidence
<1>5. /\ CommitIds' = CommitIds \cup {id} /\ commit'[id] = row
      /\ \A c \in CommitIds : commit'[c] = commit[c]
  BY <1>2, <1>3 DEF Bind, CommitIds
<1>6. /\ DOMAIN receipt' = DOMAIN receipt \cup {r} /\ receipt'[r] = evidence
      /\ \A q \in DOMAIN receipt : receipt'[q] = receipt[q]
  BY <1>2, <1>3 DEF Bind
<1>7. /\ lock = s /\ phase'[s] = "closed" /\ answer'[s].outcome = "Applied"
      /\ \A t \in Sessions \ {s} : phase[t] \notin Holding
  BY <1>1, <1>2 DEF Locked, Holding, Finish, TypeInv, TypeOK, SessionTypeOK
<1>8. OthersRest(s)
  BY <1>1, <1>2 DEF Finish, OthersRest, TypeInv, TypeOK, SessionTypeOK, RecordTypeOK, Shape
<1>9. Locked' /\ sweep.doomed = {}
  BY <1>1, <1>2, <1>7, <1>8, CollectorAssumption, NoneAssumption
     DEF Locked, Holding, OthersRest
<1>10. Referenced \subseteq Referenced' /\ ContentSafe'
  <2>1. \A c : c \in Referenced' <=> c \in Referenced \/ c \in ChunksOf(ws[s].view)
    <3>1. ASSUME NEW c
          PROVE  c \in Referenced' <=> \E k \in CommitIds' : c \in ChunksOf(commit'[k].root)
      BY DEF Referenced, RetainedRoots, ChunksOf, CommitIds
    <3>2. ASSUME NEW c
          PROVE  c \in Referenced <=> \E k \in CommitIds : c \in ChunksOf(commit[k].root)
      BY ReferencedMember DEF CommitIds
    <3>3. QED
      BY <1>3, <1>5, <3>1, <3>2
  <2>2. Referenced' \subseteq Stored
    BY <1>1, <1>3, <2>1 DEF ContentSafe
  <2>3. QED
    BY <1>2, <1>9, <2>1, <2>2 DEF ContentSafe, Stored
<1>11. HistoryInv'
  <2>1. Genesis \in CommitIds' /\ id # Genesis
    BY <1>1, <1>3, <1>5 DEF HistoryInv
  <2>2. OneReceiptPerCommit'
    <3>1. ASSUME NEW c \in CommitIds \ {Genesis}
          PROVE  /\ commit'[c].request \in DOMAIN receipt'
                 /\ receipt'[commit'[c].request].commit = c
                 /\ receipt'[commit'[c].request].previous = commit'[c].parent
                 /\ receipt'[commit'[c].request].seq = commit'[c].seq
      BY <1>1, <1>5, <1>6 DEF HistoryInv, OneReceiptPerCommit
    <3>2. /\ commit'[id].request \in DOMAIN receipt'
          /\ receipt'[commit'[id].request].commit = id
          /\ receipt'[commit'[id].request].previous = commit'[id].parent
          /\ receipt'[commit'[id].request].seq = commit'[id].seq
      BY <1>3, <1>5, <1>6
    <3>3. ASSUME NEW q \in DOMAIN receipt
          PROVE  /\ receipt'[q].commit \in CommitIds' \ {Genesis}
                 /\ commit'[receipt'[q].commit].request = q
      BY <1>1, <1>5, <1>6 DEF HistoryInv, OneReceiptPerCommit
    <3>4. /\ receipt'[r].commit \in CommitIds' \ {Genesis}
          /\ commit'[receipt'[r].commit].request = r
      BY <1>3, <1>5, <1>6, <2>1
    <3>5. Genesis' = Genesis
      BY DEF Genesis, CommitDigest, EmptyState, GenesisId
    <3>6. QED
      BY <1>5, <1>6, <3>1, <3>2, <3>3, <3>4, <3>5 DEF OneReceiptPerCommit
  <2>3. SequenceOrdersHistory'
    <3>1. \A c \in CommitIds : commit'[c].seq < commit'[id].seq
      BY <1>3, <1>5
    <3>2. \A c, d \in CommitIds' : commit'[c].seq = commit'[d].seq => c = d
      <4>1. \A c \in CommitIds : commit'[c].seq # commit'[id].seq
        BY <1>1, <1>3, <1>5 DEF TypeInv, TypeOK, HistoryTypeOK, SessionTypeOK
      <4>2. QED
        BY <1>1, <1>5, <4>1 DEF HistoryInv, SequenceOrdersHistory
    <3>3. ASSUME NEW c \in CommitIds' \ {Genesis}
          PROVE  /\ commit'[c].parent \in CommitIds'
                 /\ commit'[commit'[c].parent].seq < commit'[c].seq
      BY <1>1, <1>3, <1>5, <3>1 DEF HistoryInv, SequenceOrdersHistory
    <3>4. Genesis' = Genesis
      BY DEF Genesis, CommitDigest, EmptyState, GenesisId
    <3>5. QED
      BY <3>2, <3>3, <3>4 DEF SequenceOrdersHistory
  <2>4. QED
    BY <2>1, <2>2, <2>3 DEF HistoryInv, Genesis, CommitDigest, EmptyState, GenesisId
<1>12. \A t \in Sessions \ {s} : SessionInv(t)'
  <2> TAKE t \in Sessions \ {s}
  <2>1. /\ SessionInv(t) /\ phase'[t] = phase[t] /\ ws'[t] = ws[t]
        /\ answer'[t] = answer[t] /\ record'[t] = record[t]
    BY <1>1, <1>8 DEF OthersRest
  <2>2. head' \in [DOMAIN head -> CommitIds'] /\ \A a \in DOMAIN head :
            head'[a] = IF a = b THEN id ELSE head[a]
    BY <1>1, <1>2, <1>5 DEF TypeInv, TypeOK, HistoryTypeOK
  <2>3. PlanKnown(t)' /\ PlanReady(t)'
    BY <1>5, <1>7, <1>10, <2>1, <2>2
       DEF SessionInv, PlanKnown, PlanReady, Holding, ChunksOf, Required
  <2>4. HeadMovesUp(t)'
    <3>1. ASSUME ws[t].branch \in DOMAIN head, ws[t].base \in CommitIds,
                 head[ws[t].branch] = ws[t].base \/ Overtaken(t)
          PROVE  head'[ws[t].branch] = ws[t].base \/ Overtaken(t)'
      <4>1. CASE ws[t].branch = b
        BY <1>3, <1>5, <2>1, <2>2, <3>1, <4>1 DEF Overtaken
      <4>2. CASE ws[t].branch # b
        BY <1>5, <2>1, <2>2, <3>1, <4>2, <1>1
           DEF Overtaken, TypeInv, TypeOK, HistoryTypeOK
      <4>3. QED
        BY <4>1, <4>2
    <3>2. ASSUME Overtaken(t) PROVE Overtaken(t)'
      <4>1. CASE ws[t].branch = b
        BY <1>3, <1>5, <2>1, <2>2, <3>2, <4>1 DEF Overtaken
      <4>2. CASE ws[t].branch # b
        BY <1>5, <2>1, <2>2, <3>2, <4>2, <1>1
           DEF Overtaken, TypeInv, TypeOK, HistoryTypeOK
      <4>3. QED
        BY <4>1, <4>2
    <3>3. QED
      BY <2>1, <3>1, <3>2 DEF SessionInv, HeadMovesUp, PlanKnown
  <2>5. Recorded(t)'
    BY <1>3, <1>5, <2>1, NoneAssumption DEF SessionInv, Recorded
  <2>6. QED
    BY <2>3, <2>4, <2>5 DEF SessionInv
<1>13. SessionInv(s)'
  <2>1. PlanKnown(s)' /\ PlanReady(s)' /\ HeadMovesUp(s)'
    BY <1>7 DEF PlanKnown, PlanReady, HeadMovesUp, Planning, Holding
  <2>2. Recorded(s) /\ \A c \in CommitIds : commit[c].workspace # s
    BY <1>1, <1>2 DEF SessionInv, Recorded
  <2>3. DOMAIN record = Sessions
    BY <1>1 DEF TypeInv, TypeOK, RecordTypeOK
  <2>4. Recorded(s)'
    BY <1>2, <1>3, <1>5, <1>7, <2>2, <2>3, NoneAssumption DEF Recorded
  <2>5. QED
    BY <2>1, <2>4 DEF SessionInv
<1>14. QED
  BY <1>4, <1>9, <1>10, <1>11, <1>12, <1>13 DEF IInv

--------------------------------------------------------------------------------
(* The theorems *)

\* A repository that was just created satisfies the invariant.
LEMMA SafeInit == Init => IInv
<1> SUFFICES ASSUME Init PROVE IInv
  OBVIOUS
<1>1. TypeInv
  BY TypeInit
<1>2. /\ CommitIds = {Genesis} /\ commit[Genesis].root = EmptyState
      /\ commit[Genesis].workspace = None /\ DOMAIN receipt = {}
  BY DEF Init, CommitIds
<1>3. \A s \in Sessions : /\ phase[s] = "unused" /\ answer[s].outcome = "none"
                          /\ record[s].status = "none"
  BY DEF Init, NoAnswer
<1>4. lock = None /\ sweep = NoSweep
  BY DEF Init
<1>5. Locked
  BY <1>3, <1>4, NoneAssumption, CollectorAssumption DEF Locked, Holding, NoSweep
<1>6. Referenced = {}
  BY <1>2 DEF Referenced, RetainedRoots, ChunksOf, EmptyState, CommitIds
<1>7. ContentSafe
  BY <1>6 DEF ContentSafe
<1>8. HistoryInv
  BY <1>2 DEF HistoryInv, OneReceiptPerCommit, SequenceOrdersHistory
<1>9. \A s \in Sessions : SessionInv(s)
  BY <1>2, <1>3, NoneAssumption
     DEF SessionInv, PlanKnown, PlanReady, HeadMovesUp, Recorded, Planning, Holding
<1>10. QED
  BY <1>1, <1>5, <1>7, <1>8, <1>9 DEF IInv

\* Whatever a session, a fork, a collection, the clock or a crash does next, the
\* invariant holds after it.
LEMMA SafeNext == IInv /\ [Next]_vars => IInv'
<1> SUFFICES ASSUME IInv, [Next]_vars PROVE IInv'
  OBVIOUS
<1>1. ASSUME NEW s \in Sessions, Edits(s) PROVE IInv'
  BY <1>1, SafeEdits
<1>2. ASSUME NEW s \in Sessions, Calls(s) PROVE IInv'
  BY <1>2, SafeCalls
<1>3. ASSUME NEW s \in Sessions, Publishes(s) PROVE IInv'
  BY <1>3, SafePublishes, SafeCommit DEF Publishes
<1>4. ASSUME NEW b \in Branches, NEW k \in DOMAIN commit, Fork(b, k) PROVE IInv'
  BY <1>4, SafeOthers DEF CommitIds
<1>5. CASE Sweeps
  BY <1>5, SafeOthers
<1>6. ASSUME NEW c \in Chunks, Age(c) PROVE IInv'
  BY <1>6, SafeOthers
<1>7. CASE Crash
  BY <1>7, SafeOthers
<1>8. CASE UNCHANGED vars
  <2>1. TypeInv'
    BY <1>8, TypeStutter DEF IInv
  <2>2. /\ SameHistory /\ sweep' = sweep /\ lock' = lock /\ phase' = phase
        /\ ws' = ws /\ tx' = tx /\ answer' = answer /\ record' = record
    BY <1>8 DEF vars, storeVars, memVars, SameHistory, Stored
  <2>3. Locked' /\ ContentSafe' /\ HistoryInv'
    BY <2>2, HistoryRests
       DEF IInv, Locked, ContentSafe, SameHistory
  <2>4. \A t \in Sessions : SessionInv(t)'
    BY <2>2, SessionRests DEF IInv
  <2>5. QED
    BY <2>1, <2>3, <2>4 DEF IInv
<1>9. QED
  BY <1>1, <1>2, <1>3, <1>4, <1>5, <1>6, <1>7, <1>8 DEF Next

\* The invariant holds in every reachable state.
THEOREM Invariance == Spec => []IInv
BY SafeInit, SafeNext, PTL DEF Spec

\* Every row and every value in memory is of its type, references between rows
\* lead to rows, and no plan above MAX_PUBLICATION_MUTATIONS reaches the lock.
THEOREM TypeCorrect == Spec => []TypeOK
<1>1. IInv => TypeOK
  BY DEF IInv, TypeInv
<1>2. QED
  BY <1>1, Invariance, PTL

\* However many sessions publish, on however many branches, with crashes between
\* any two steps: commits and receipts account for each other, one to one, so no
\* request is applied twice.
THEOREM ExactlyOnce == Spec => []OneReceiptPerCommit
<1>1. IInv => OneReceiptPerCommit
  BY DEF IInv, HistoryInv
<1>2. QED
  BY <1>1, Invariance, PTL

\* The domain sequence numbers the commits of all branches without repetition,
\* parents below children.
THEOREM TotalOrder == Spec => []SequenceOrdersHistory
<1>1. IInv => SequenceOrdersHistory
  BY DEF IInv, HistoryInv
<1>2. QED
  BY <1>1, Invariance, PTL

\* No collection, with any grace period, however often it runs or is cut short by
\* a crash, deletes a chunk that a published state names.
THEOREM ContentKept == Spec => []NoDanglingContent
<1>1. IInv => NoDanglingContent
  BY DEF IInv, ContentSafe, NoDanglingContent, Referenced, RetainedRoots, CommitIds
<1>2. QED
  BY <1>1, Invariance, PTL

\* A workspace record says COMMITTED exactly when the commit it names exists.
THEOREM RecordsTruthful == Spec => []WorkspaceRecordsTruthful
<1>1. IInv => WorkspaceRecordsTruthful
  BY DEF IInv, SessionInv, Recorded, WorkspaceRecordsTruthful
<1>2. QED
  BY <1>1, Invariance, PTL

\* A plan refused with HeadConflict stays refused: its branch never names its base
\* again.
THEOREM ConflictsFinal == Spec => []ConflictsArePermanent
<1>1. IInv => ConflictsArePermanent
  BY DEF IInv, TypeInv, TypeOK, HistoryTypeOK, SessionInv, HeadMovesUp, Overtaken,
     ConflictsArePermanent
<1>2. QED
  BY <1>1, Invariance, PTL


(* The refinement: the head, commit and receipt tables are the abstract log as *)
(* they stand.                                                                *)

\* A repository that was just created is a log of one commit.
LEMMA RefinesInit == Init => Log!Init
BY DEF Init, Log!Init, Genesis, CommitDigest

\* The transaction that commits is one whole publication on the plan's branch.
LEMMA RefinesCommit ==
    ASSUME IInv, NEW s \in Sessions, Commit(s)
    PROVE  Log!Publish(ws[s].branch)
<1> DEFINE b == ws[s].branch
           r == ws[s].request
           id == CommitDigest(tx[s].parent, ws[s].view, r, Len(ws[s].edits))
           row == [parent |-> tx[s].parent, root |-> ws[s].view, request |-> r,
                   mutations |-> ws[s].edits, seq |-> tx[s].seq,
                   workspace |-> IF ws[s].workspace THEN s ELSE None]
           evidence == [hash |-> CommandHash(s), commit |-> id,
                        previous |-> tx[s].parent, seq |-> tx[s].seq]
<1>1. /\ commit' = Bind(commit, id, row)
      /\ receipt' = Bind(receipt, r, evidence)
      /\ head' = [head EXCEPT ![b] = id]
  BY DEF Commit
<1>2. /\ row.parent = head[b] /\ row.request = r /\ row.seq = tx[s].seq
      /\ evidence.commit = id /\ evidence.previous = head[b]
      /\ id \notin CommitIds /\ r \notin DOMAIN receipt
      /\ \A c \in CommitIds : commit[c].seq < tx[s].seq
      /\ b \in DOMAIN head /\ head[b] \in CommitIds
  BY DEF Commit, IInv, SessionInv, PlanReady, PlanKnown, Planning, Holding
<1> HIDE DEF b, r, id, row, evidence
<1>3. /\ DOMAIN commit' = DOMAIN commit \cup {id} /\ commit'[id] = row
      /\ \A c \in DOMAIN commit : commit'[c] = commit[c]
  BY <1>1, <1>2 DEF Bind, CommitIds
<1>4. /\ DOMAIN receipt' = DOMAIN receipt \cup {r} /\ receipt'[r] = evidence
      /\ \A q \in DOMAIN receipt : receipt'[q] = receipt[q]
  BY <1>1, <1>2 DEF Bind
<1>5. head'[b] = id /\ head' = [head EXCEPT ![b] = head'[b]]
  BY <1>1, <1>2
<1>6. Log!Publish(b)
  BY <1>2, <1>3, <1>4, <1>5 DEF Log!Publish, Log!Kept, CommitIds
<1>7. QED
  BY <1>6 DEF b

\* branch_create is one fork of the log.
LEMMA RefinesFork ==
    ASSUME NEW b \in Branches, NEW k \in DOMAIN commit, Fork(b, k)
    PROVE  Log!Fork(b)
<1>1. b \notin DOMAIN head /\ head' = Bind(head, b, k) /\ UNCHANGED <<commit, receipt>>
  BY DEF Fork, NameFree
<1>2. /\ DOMAIN head' = DOMAIN head \cup {b} /\ head'[b] = k
      /\ \A a \in DOMAIN head : head'[a] = head[a]
  BY <1>1 DEF Bind
<1>3. QED
  BY <1>1, <1>2 DEF Log!Fork, Log!Kept

\* Every other step of a session leaves the log as it is.
LEMMA RefinesStutter ==
    ASSUME NEW s \in Sessions
    PROVE  /\ Edits(s) => UNCHANGED Log!logVars
           /\ Calls(s) => UNCHANGED Log!logVars
           /\ Publishes(s) => Commit(s) \/ UNCHANGED Log!logVars
<1> USE DEF Log!logVars, storeVars
<1>1. Edits(s) => UNCHANGED Log!logVars
  BY DEF Edits, Open, Put, Remove, Edit, Abort, Drop
<1>2. Calls(s) => UNCHANGED Log!logVars
  BY DEF Calls, CallNamed, CallAuto, Call, RevertTo
<1>3. Publishes(s) => Commit(s) \/ UNCHANGED Log!logVars
  BY DEF Publishes, StageChunk, Submit, Enter, Decide, Fail, Refuse
<1>4. QED
  BY <1>1, <1>2, <1>3

\* Through staging, locks, collections and crashes, every step of the store is one
\* whole publication, one fork, or nothing to the history.
THEOREM Implements == Spec => ImplementsCommitLog
<1>1. IInv /\ [Next]_vars => [Log!Next]_(Log!logVars)
  <2> SUFFICES ASSUME IInv, [Next]_vars PROVE Log!Next \/ UNCHANGED Log!logVars
    OBVIOUS
  <2>1. ASSUME NEW s \in Sessions, Edits(s) \/ Calls(s) \/ Publishes(s)
        PROVE  Log!Next \/ UNCHANGED Log!logVars
    <3>1. CASE Commit(s)
      <4>1. ws[s].branch \in Branches
        BY <3>1 DEF Commit, IInv, TypeInv, TypeOK, HistoryTypeOK, SessionInv, PlanKnown,
           Planning, Holding
      <4>2. QED
        BY <3>1, <4>1, RefinesCommit DEF Log!Next
    <3>2. CASE ~Commit(s)
      BY <2>1, <3>2, RefinesStutter
    <3>3. QED
      BY <3>1, <3>2
  <2>2. ASSUME NEW b \in Branches, NEW k \in DOMAIN commit, Fork(b, k)
        PROVE  Log!Next \/ UNCHANGED Log!logVars
    BY <2>2, RefinesFork DEF Log!Next
  <2>3. ASSUME Sweeps \/ (\E c \in Chunks : Age(c)) \/ Crash \/ UNCHANGED vars
        PROVE  Log!Next \/ UNCHANGED Log!logVars
    BY <2>3 DEF Sweeps, SweepStart, SweepDelete, SweepEnd, SweepFail, SweepStop, Age,
       Crash, vars, storeVars, Log!logVars
  <2>4. QED
    BY <2>1, <2>2, <2>3 DEF Next
<1>2. QED
  BY RefinesInit, Invariance, <1>1, PTL DEF Spec, ImplementsCommitLog, Log!Spec
================================================================================
