--------------------------- MODULE PublicationAnswers ---------------------------
(* What a publication means, for every value of the constants: the log of each  *)
(* commit explains its state, receipts are about the caller's own work, and the *)
(* checks publish_tx repeats never decide anything.                             *)
EXTENDS PublicationSafety

\* The slots whose changes a log must account for: a revert logs files only.
Covered(own) == IF own THEN Slots ELSE Paths

\* The log edits says what became of state before, slot by slot.
Tells(before, edits, after, slots) ==
    \A x \in slots : Explained(before[x], edits, x, after[x])

\* A request id a workspace publishes under; a revert's says where it leads.
OwnRequest(r) == r[1] \in {"caller", "auto"}
RevertRequest(r, from, root) ==
    \E t \in CommitIds : r = RevertId(from, t) /\ root = commit[t].root

\* The request id of a piece of work, by a workspace or a revert, fits the work.
Signed(own, r, from, root) ==
    IF own THEN OwnRequest(r) ELSE RevertRequest(r, from, root)

\* A plan's log explains its view, and its request id fits it once it is called.
PlanTold(s) ==
    phase[s] \in Planning =>
        /\ Tells(commit[ws[s].base].root, ws[s].edits, ws[s].view,
                 Covered(ws[s].workspace))
        /\ IF phase[s] = "open" THEN ws[s].workspace
           ELSE Signed(ws[s].workspace, ws[s].request, ws[s].base, ws[s].view)

\* What a plan requires is published or staged; while nothing was ever collected,
\* all that is staged is stored by the time the lock is asked for.
PlanStaged(s) ==
    phase[s] \in Planning =>
        /\ Required(ws[s].edits) \subseteq
               IF ws[s].workspace THEN ws[s].staged ELSE Referenced
        /\ sweeps = 0 /\ phase[s] # "open" => ws[s].staged \subseteq Stored \cup todo[s]
        /\ phase[s] \in {"waiting"} \cup Holding => todo[s] = {}

\* While a session holds the lock no receipt appears for its request.
PlanNew(s) == phase[s] \in Holding => ws[s].request \notin DOMAIN receipt

\* A receipt is an answer to a closed session, about its own work.
Answered(s) ==
    answer[s].outcome \in {"Applied", "Replayed"} =>
        /\ phase[s] = "closed"
        /\ answer[s].commit \in CommitIds
        /\ commit[answer[s].commit].root = ws[s].view
        /\ commit[answer[s].commit].mutations = ws[s].edits
        /\ commit[answer[s].commit].request = ws[s].request
        /\ answer[s].outcome = "Applied" =>
            commit[answer[s].commit].parent = ws[s].base

\* The second line has decided nothing for session s.
Idle(s) ==
    /\ answer[s].outcome \notin {"Ambiguous", "NotFound", "Clash"}
    /\ answer[s].outcome = "Corruption" => sweeps > 0

PlanInv(s) == PlanTold(s) /\ PlanStaged(s) /\ PlanNew(s) /\ Answered(s) /\ Idle(s)

\* A commit is named by the digest of its row; its log, its request id and the
\* command hash of its receipt are those of the work it published.
RowTold(c) ==
    /\ c = CommitDigest(commit[c].parent, commit[c].root, commit[c].request,
                        Len(commit[c].mutations))
    /\ c # Genesis =>
        /\ Tells(commit[commit[c].parent].root, commit[c].mutations, commit[c].root,
                 Covered(commit[c].workspace # None))
        /\ Signed(commit[c].workspace # None, commit[c].request, commit[c].parent,
                  commit[c].root)
        /\ \E b \in Branches : receipt[commit[c].request].hash =
               <<b, commit[c].request, commit[commit[c].parent].root,
                 commit[c].mutations>>

RowsTold == \A c \in CommitIds : RowTold(c)

\* The invariant of this module, inductive together with IInv.
AInv ==
    /\ sweep.running => sweeps > 0
    /\ RowsTold
    /\ \A s \in Sessions : PlanInv(s)

--------------------------------------------------------------------------------
(* What a log explains *)

\* A log explains one outcome only.
LEMMA ExplainedOnce ==
    ASSUME NEW before, NEW edits \in Seq(Mutations), NEW x, NEW a, NEW b,
           Explained(before, edits, x, a), Explained(before, edits, x, b)
    PROVE  a = b
<1>1. \A i, j \in DOMAIN edits : i > j \/ j > i \/ i = j
  OBVIOUS
<1>2. QED
  BY <1>1 DEF Explained

\* An empty log explains that nothing changed.
LEMMA NothingTold ==
    ASSUME NEW state, NEW slots
    PROVE  Tells(state, <<>>, state, slots)
BY DEF Tells, Explained

\* A mutation that is staged is explained by the longer log, and what was
\* explained before stays so.
LEMMA EditTold ==
    ASSUME NEW before, NEW edits \in Seq(Mutations), NEW view \in States,
           NEW x \in Slots, NEW c \in Chunks \cup {None},
           Tells(before, edits, view, Slots)
    PROVE  Tells(before, Append(edits, [slot |-> x, chunk |-> c]),
                 [view EXCEPT ![x] = c], Slots)
<1> DEFINE m == [slot |-> x, chunk |-> c]
           longer == Append(edits, m)
<1>1. /\ DOMAIN edits = 1..Len(edits) /\ Len(edits) \in Nat
      /\ DOMAIN longer = 1..Len(edits) + 1
      /\ longer[Len(edits) + 1] = m /\ \A i \in DOMAIN edits : longer[i] = edits[i]
  BY DEF Mutations
<1> HIDE DEF longer
<1>2. ASSUME NEW y \in Slots PROVE Explained(before[y], longer, y, [view EXCEPT ![x] = c][y])
  <2>1. Explained(before[y], edits, y, view[y])
    BY DEF Tells
  <2>2. CASE y = x
    <3>1. /\ Len(edits) + 1 \in DOMAIN longer /\ longer[Len(edits) + 1].slot = x
          /\ \A j \in DOMAIN longer : ~(j > Len(edits) + 1)
          /\ [view EXCEPT ![x] = c][y] = longer[Len(edits) + 1].chunk
      BY <1>1, <2>2 DEF States
    <3>2. QED
      BY <2>2, <3>1 DEF Explained
  <2>3. CASE y # x
    <3>1. /\ [view EXCEPT ![x] = c][y] = view[y]
          /\ \A j \in DOMAIN longer : j \in DOMAIN edits \/ longer[j].slot # y
          /\ \A i \in DOMAIN edits : i \in DOMAIN longer /\ longer[i] = edits[i]
      BY <1>1, <2>3 DEF States
    <3>2. QED
      BY <2>1, <3>1 DEF Explained
  <2>4. QED
    BY <2>2, <2>3
<1>3. QED
  BY <1>2 DEF Tells, longer

\* Listing a finite set leaves out none of its elements.
LEMMA ListedAll ==
    ASSUME NEW S, IsFiniteSet(S), NEW e \in S
    PROVE  \E i \in 1..Cardinality(S) : Listed(S)[i] = e
<1> DEFINE n == Cardinality(S)
<1>1. /\ n \in Nat /\ Listed(S) \in [1..n -> S]
      /\ \A i, j \in 1..n : Listed(S)[i] = Listed(S)[j] => i = j
  BY ListedType
<1>2. Listed(S) \in Injection(1..n, S)
  BY <1>1 DEF Injection, IsInjective
<1>3. Cardinality(1..n) = n
  BY <1>1, FS_Interval
<1>4. Listed(S) \in Surjection(1..n, S)
  BY <1>2, <1>3, FS_Injection
<1>5. QED
  BY <1>4 DEF Surjection

\* The log of a revert explains what became of every file.
LEMMA ReversalTells ==
    ASSUME NEW from, NEW to
    PROVE  Tells(from, Reversal(from, to), to, Paths)
<1> DEFINE changed == {p \in Paths : from[p] # to[p]}
           n == Cardinality(changed)
           log == Reversal(from, to)
<1>1. IsFiniteSet(changed)
  BY SlotAssumption, FS_Subset
<1>2. /\ n \in Nat /\ Listed(changed) \in [1..n -> changed]
      /\ \A i, j \in 1..n : Listed(changed)[i] = Listed(changed)[j] => i = j
  BY <1>1, ListedType
<1>3. /\ DOMAIN log = 1..n
      /\ \A i \in 1..n : /\ log[i].slot = Listed(changed)[i]
                         /\ log[i].chunk = to[Listed(changed)[i]]
  BY DEF Reversal
<1>4. \A p \in changed : \E i \in 1..n : Listed(changed)[i] = p
  BY <1>1, ListedAll
<1> HIDE DEF n, log
<1>5. ASSUME NEW p \in Paths PROVE Explained(from[p], log, p, to[p])
  <2>1. CASE from[p] = to[p]
    <3>1. \A i \in DOMAIN log : log[i].slot # p
      BY <1>2, <1>3, <2>1
    <3>2. QED
      BY <2>1, <3>1 DEF Explained
  <2>2. CASE from[p] # to[p]
    <3>1. PICK i \in 1..n : Listed(changed)[i] = p
      BY <1>4, <2>2
    <3>2. \A j \in DOMAIN log : j > i => log[j].slot # p
      BY <1>2, <1>3, <3>1
    <3>3. QED
      BY <1>3, <3>1, <3>2 DEF Explained
  <2>3. QED
    BY <2>1, <2>2
<1>6. QED
  BY <1>5 DEF Tells, log

--------------------------------------------------------------------------------
(* What stays *)

\* No commit disappears or changes.
Grown ==
    /\ CommitIds \subseteq CommitIds'
    /\ \A c \in CommitIds : commit'[c] = commit[c]

\* Nothing happens to session s.
Rests(s) ==
    /\ phase'[s] = phase[s] /\ ws'[s] = ws[s]
    /\ todo'[s] = todo[s] /\ answer'[s] = answer[s]

\* A chunk row disappears only once a collection has been started.
Collected ==
    /\ sweeps > 0 => sweeps' > 0
    /\ sweeps' = 0 => sweeps = 0 /\ Stored \subseteq Stored'

\* What is referenced stays so while the history grows.
LEMMA ReferencedGrows ==
    ASSUME Grown
    PROVE  Referenced \subseteq Referenced'
<1>1. ASSUME NEW c \in Referenced PROVE c \in Referenced'
  <2>1. PICK k \in CommitIds : c \in ChunksOf(commit[k].root)
    BY <1>1, ReferencedMember DEF CommitIds
  <2>2. k \in CommitIds' /\ c \in ChunksOf(commit'[k].root)
    BY <2>1 DEF Grown
  <2>3. QED
    BY <2>2 DEF Referenced, RetainedRoots, ChunksOf, CommitIds
<1>2. QED
  BY <1>1

\* A session to which nothing happens keeps its part, whatever is published beside
\* it, unless it holds the lock and its own request is answered.
LEMMA PlanRests ==
    ASSUME Grown, Collected, NEW s \in Sessions, Rests(s), PlanKnown(s), PlanInv(s),
           phase[s] \in Holding => DOMAIN receipt' = DOMAIN receipt
    PROVE  PlanInv(s)'
<1>1. PlanTold(s)'
  <2> SUFFICES ASSUME phase[s] \in Planning PROVE PlanTold(s)'
    BY DEF PlanTold, Rests
  <2>1. commit'[ws[s].base] = commit[ws[s].base]
    BY DEF PlanKnown, Grown
  <2>2. Tells(commit[ws[s].base].root, ws[s].edits, ws[s].view,
              Covered(ws[s].workspace))'
    BY <2>1 DEF PlanInv, PlanTold, Rests, Tells, Explained, Covered
  <2>3. Signed(ws[s].workspace, ws[s].request, ws[s].base, ws[s].view)
        => Signed(ws[s].workspace, ws[s].request, ws[s].base, ws[s].view)'
    BY DEF Signed, OwnRequest, RevertRequest, RevertId, Grown, Rests
  <2>4. QED
    BY <2>2, <2>3 DEF PlanInv, PlanTold, Rests
<1>2. PlanStaged(s)'
  BY ReferencedGrows DEF PlanInv, PlanStaged, Rests, Collected, Required
<1>3. PlanNew(s)'
  BY DEF PlanInv, PlanNew, Rests
<1>4. Answered(s)' /\ Idle(s)'
  BY DEF PlanInv, Answered, Idle, Grown, Rests, Collected
<1>5. QED
  BY <1>1, <1>2, <1>3, <1>4 DEF PlanInv

\* The rows of an unchanged history stay what they are.
LEMMA RowsRest ==
    ASSUME UNCHANGED <<commit, receipt>>
    PROVE  /\ Grown
           /\ RowsTold => RowsTold'
<1>1. CommitIds' = CommitIds
  BY DEF CommitIds
<1>2. ASSUME NEW c, RowTold(c) PROVE RowTold(c)'
  BY <1>1, <1>2 DEF RowTold, Tells, Explained, Covered, Signed, OwnRequest,
     RevertRequest, RevertId, Genesis, CommitDigest, EmptyState, GenesisId
<1>3. QED
  BY <1>1, <1>2 DEF Grown, RowsTold

\* A step of one session, outside the history, has only that session to answer for.
LEMMA PlanSteps ==
    ASSUME IInv, AInv, NEW s \in Sessions,
           UNCHANGED <<commit, receipt, sweep, sweeps>>, Stored \subseteq Stored',
           \A t \in Sessions \ {s} : Rests(t), PlanInv(s)'
    PROVE  AInv'
<1>1. Grown /\ RowsTold'
  <2>1. UNCHANGED <<commit, receipt>> /\ RowsTold
    BY DEF AInv
  <2>2. QED
    BY <2>1, RowsRest
<1>2. Collected
  BY DEF Collected
<1>3. ASSUME NEW t \in Sessions \ {s} PROVE PlanInv(t)'
  <2>1. PlanKnown(t) /\ PlanInv(t)
    BY DEF IInv, SessionInv, AInv
  <2>2. QED
    BY <1>1, <1>2, <2>1, PlanRests
<1>4. QED
  BY <1>1, <1>3 DEF AInv

--------------------------------------------------------------------------------
(* The steps of one session *)

\* Opening, editing, aborting and dropping a workspace keep the invariant.
LEMMA ToldEdits ==
    ASSUME IInv, AInv, NEW s \in Sessions, Edits(s)
    PROVE  AInv'
<1>1. /\ PlanInv(s) /\ PlanKnown(s) /\ DOMAIN ws = Sessions
      /\ phase \in [Sessions -> Phases] /\ WorkspaceTypeOK(ws[s]) /\ Shaped(ws[s])
      /\ DOMAIN answer = Sessions
  BY DEF IInv, AInv, SessionInv, TypeInv, TypeOK, SessionTypeOK, Shape
<1>2. ASSUME NEW b \in Branches, Open(s, b) PROVE AInv'
  <2>1. /\ phase[s] = "unused" /\ phase'[s] = "open" /\ ws'[s].base = head[b]
        /\ ws'[s].view = commit[head[b]].root /\ ws'[s].edits = <<>>
        /\ ws'[s].workspace = TRUE
        /\ UNCHANGED <<commit, receipt, age, todo, answer, sweep, sweeps>>
        /\ \A t \in Sessions \ {s} : Rests(t)
    BY <1>1, <1>2 DEF Open, Rests
  <2>2. PlanTold(s)'
    BY <2>1, NothingTold DEF PlanTold
  <2>3. PlanStaged(s)'
    BY <2>1 DEF PlanStaged, Required, Holding
  <2>4. PlanNew(s)' /\ Answered(s)' /\ Idle(s)'
    BY <1>1, <2>1 DEF PlanInv, PlanNew, Answered, Idle, Holding
  <2>5. QED
    BY <2>1, <2>2, <2>3, <2>4, PlanSteps DEF PlanInv, Stored
<1>3. ASSUME NEW x \in Slots, NEW c \in Chunks \cup {None}, Edit(s, x, c) PROVE AInv'
  <2> DEFINE m == [slot |-> x, chunk |-> c]
  <2>1. /\ ws' = [ws EXCEPT ![s] = Edited(ws[s], x, c)]
        /\ phase[s] = "open" /\ phase'[s] = "open"
        /\ UNCHANGED <<commit, receipt, age, todo, answer, sweep, sweeps>>
        /\ \A t \in Sessions \ {s} : Rests(t)
    BY <1>1, <1>3 DEF Edit, storeVars, Rests
  <2>2. /\ ws'[s].base = ws[s].base /\ ws'[s].workspace = ws[s].workspace
        /\ ws'[s].view = [ws[s].view EXCEPT ![x] = c]
        /\ ws'[s].edits = Append(ws[s].edits, m)
        /\ ws'[s].staged = ws[s].staged \cup ({c} \ {None})
    BY <1>1, <2>1, EditedTyped
  <2>3. /\ Tells(commit[ws[s].base].root, ws[s].edits, ws[s].view, Slots)
        /\ ws[s].workspace /\ Required(ws[s].edits) \subseteq ws[s].staged
        /\ ws[s].view \in States /\ ws[s].edits \in Seq(Mutations)
    BY <1>1, <2>1 DEF PlanInv, PlanTold, PlanStaged, Covered, WorkspaceTypeOK, Planning
  <2>4. PlanTold(s)'
    <3>1. Tells(commit[ws[s].base].root, Append(ws[s].edits, m),
                [ws[s].view EXCEPT ![x] = c], Slots)
      BY <2>3, EditTold
    <3> HIDE DEF m
    <3>2. Tells(commit'[ws'[s].base].root, ws'[s].edits, ws'[s].view, Slots)
      BY <2>1, <2>2, <3>1
    <3>3. QED
      BY <2>1, <2>2, <2>3, <3>2 DEF PlanTold, Tells, Explained, Covered, Slots
  <2>5. PlanStaged(s)'
    <3>1. m.chunk = c
      OBVIOUS
    <3> HIDE DEF m
    <3>2. \A i \in DOMAIN Append(ws[s].edits, m) :
              Append(ws[s].edits, m)[i] = m
              \/ (i \in DOMAIN ws[s].edits /\ Append(ws[s].edits, m)[i] = ws[s].edits[i])
      BY <2>3
    <3>3. Required(Append(ws[s].edits, m)) \subseteq Required(ws[s].edits) \cup ({c} \ {None})
      BY <3>1, <3>2 DEF Required
    <3>4. Required(ws'[s].edits) \subseteq ws'[s].staged /\ ws'[s].workspace
      BY <2>2, <2>3, <3>3
    <3>5. Required(ws[s].edits)' = Required(ws'[s].edits)
      BY DEF Required
    <3>6. QED
      BY <2>1, <3>4, <3>5 DEF PlanStaged, Holding
  <2>6. PlanNew(s)' /\ Answered(s)' /\ Idle(s)'
    BY <1>1, <2>1 DEF PlanInv, PlanNew, Answered, Idle, Holding
  <2>7. QED
    BY <2>1, <2>4, <2>5, <2>6, PlanSteps DEF PlanInv, Stored
<1>4. ASSUME Abort(s) \/ Drop(s) PROVE AInv'
  <2>1. /\ phase[s] = "open" /\ phase'[s] \notin Planning
        /\ answer'[s] \in {answer[s], NoAnswer}
        /\ UNCHANGED <<commit, receipt, age, sweep, sweeps>>
        /\ \A t \in Sessions \ {s} : Rests(t)
    BY <1>1, <1>4 DEF Abort, Drop, Forget, storeVars, Rests, Planning, Holding
  <2>2. PlanInv(s)'
    BY <1>1, <2>1 DEF PlanInv, PlanTold, PlanStaged, PlanNew, Answered, Idle,
       Planning, NoAnswer
  <2>3. QED
    BY <2>1, <2>2, PlanSteps DEF Stored
<1>5. QED
  BY <1>2, <1>3, <1>4, Zenon DEF Edits, Put, Remove

\* A call to publish and a call to revert_to keep the invariant.
LEMMA ToldCalls ==
    ASSUME IInv, AInv, NEW s \in Sessions, Calls(s)
    PROVE  AInv'
<1>1. /\ PlanInv(s) /\ DOMAIN ws = Sessions /\ DOMAIN todo = Sessions
      /\ phase \in [Sessions -> Phases] /\ Shaped(ws[s]) /\ DOMAIN answer = Sessions
  BY DEF IInv, AInv, TypeInv, TypeOK, SessionTypeOK, Shape
<1>2. ASSUME NEW r, OwnRequest(r), Call(s, r) PROVE AInv'
  <2>1. /\ phase[s] = "open" /\ phase'[s] = "staging" /\ answer'[s].outcome = "none"
        /\ ws'[s].base = ws[s].base /\ ws'[s].view = ws[s].view
        /\ ws'[s].edits = ws[s].edits /\ ws'[s].workspace = ws[s].workspace
        /\ ws'[s].staged = ws[s].staged /\ ws'[s].request = r
        /\ todo'[s] = ws[s].staged
        /\ UNCHANGED <<commit, receipt, age, sweep, sweeps>>
        /\ \A t \in Sessions \ {s} : Rests(t)
    BY <1>1, <1>2 DEF Call, storeVars, NoAnswer, Shaped, Fields, Rests
  <2>2. PlanTold(s)'
    BY <1>1, <1>2, <2>1 DEF PlanInv, PlanTold, Planning, Tells, Explained, Covered,
       Signed, OwnRequest
  <2>3. PlanStaged(s)'
    BY <1>1, <2>1 DEF PlanInv, PlanTold, PlanStaged, Planning, Holding, Required, Stored
  <2>4. PlanNew(s)' /\ Answered(s)' /\ Idle(s)'
    BY <2>1 DEF PlanNew, Answered, Idle, Holding
  <2>5. QED
    BY <2>1, <2>2, <2>3, <2>4, PlanSteps DEF PlanInv, Stored
<1>3. ASSUME NEW b \in Branches, NEW k \in CommitIds, RevertTo(s, b, k) PROVE AInv'
  <2> DEFINE from == commit[head[b]].root
             to == commit[k].root
  <2>1. /\ phase[s] = "unused" /\ phase'[s] = "staging" /\ ws'[s].base = head[b]
        /\ ws'[s].view = to /\ ws'[s].edits = Reversal(from, to)
        /\ ws'[s].workspace = FALSE /\ ws'[s].staged = {}
        /\ ws'[s].request = RevertId(head[b], k)
        /\ UNCHANGED <<commit, receipt, age, todo, answer, sweep, sweeps>>
        /\ \A t \in Sessions \ {s} : Rests(t)
    BY <1>1, <1>3 DEF RevertTo, storeVars, Rests
  <2>2. CommitIds' = CommitIds /\ Referenced' = Referenced
    BY <2>1 DEF CommitIds, Referenced, RetainedRoots, ChunksOf
  <2>3. PlanTold(s)'
    <3>1. Tells(from, Reversal(from, to), to, Paths)
      BY ReversalTells
    <3>2. RevertRequest(RevertId(head[b], k), head[b], to)
      BY DEF RevertRequest
    <3>3. QED
      BY <2>1, <2>2, <3>1, <3>2, SMTT(60)
         DEF PlanTold, Tells, Explained, Covered, Signed, RevertRequest, RevertId
  <2>4. PlanStaged(s)'
    <3> DEFINE changed == {p \in Paths : from[p] # to[p]}
    <3>1. IsFiniteSet(changed)
      BY SlotAssumption, FS_Subset
    <3>2. Listed(changed) \in [1..Cardinality(changed) -> changed]
      BY <3>1, ListedType
    <3>3. \A i \in DOMAIN Reversal(from, to) :
              \E p \in Paths : Reversal(from, to)[i].chunk = to[p]
      BY <3>2 DEF Reversal
    <3>4. Required(Reversal(from, to)) \subseteq ChunksOf(to)
      BY <3>3 DEF Required, ChunksOf, Slots
    <3>5. ChunksOf(to) \subseteq Referenced
      BY ReferencedMember DEF CommitIds
    <3>6. QED
      BY <2>1, <2>2, <3>4, <3>5 DEF PlanStaged, Required, Holding
  <2>5. PlanNew(s)' /\ Answered(s)' /\ Idle(s)'
    BY <1>1, <2>1 DEF PlanInv, PlanNew, Answered, Idle, Holding
  <2>6. QED
    BY <2>1, <2>3, <2>4, <2>5, PlanSteps DEF PlanInv, Stored
<1>4. ASSUME NEW q PROVE OwnRequest(CallerId(q))
  BY DEF OwnRequest, CallerId
<1>5. OwnRequest(AutoId(ws[s].branch, ws[s].base, ws[s].edits))
  BY DEF OwnRequest, AutoId
<1>6. QED
  BY <1>2, <1>3, <1>4, <1>5 DEF Calls, CallNamed, CallAuto, CommitIds

\* A call that returns an error keeps the invariant, when the error is not one of
\* the second line's.
LEMMA ToldRefuse ==
    ASSUME IInv, AInv, NEW s \in Sessions, NEW why, Refuse(s, why),
           why \notin {"Applied", "Replayed", "Ambiguous", "NotFound", "Clash"},
           why = "Corruption" => sweeps > 0,
           phase[s] \in Planning \ {"open"}
    PROVE  AInv'
<1>1. /\ PlanInv(s) /\ DOMAIN todo = Sessions
      /\ phase \in [Sessions -> Phases] /\ DOMAIN answer = Sessions
  BY DEF IInv, AInv, TypeInv, TypeOK, SessionTypeOK
<1>2. /\ phase'[s] = IF ws[s].workspace THEN "open" ELSE "closed"
      /\ answer'[s].outcome = why /\ ws' = ws
      /\ UNCHANGED <<commit, receipt, age, sweep, sweeps>>
      /\ \A t \in Sessions \ {s} : Rests(t)
  BY <1>1 DEF Refuse, storeVars, Rests
<1>3. Referenced' = Referenced /\ CommitIds' = CommitIds
  BY <1>2 DEF Referenced, RetainedRoots, ChunksOf, CommitIds
<1>4. PlanTold(s)' /\ PlanStaged(s)' /\ PlanNew(s)'
  BY <1>1, <1>2, <1>3 DEF PlanInv, PlanTold, PlanStaged, PlanNew, Tells, Explained,
     Covered, Planning, Holding, Required
<1>5. Answered(s)' /\ Idle(s)'
  BY <1>2 DEF Answered, Idle
<1>6. QED
  BY <1>2, <1>4, <1>5, PlanSteps DEF PlanInv, Stored

\* The commit a receipt leads to is the caller's own work, when the request id and
\* the command hash are the caller's: the request id tells a revert from a
\* workspace, a revert's target gives its state, and a workspace's state follows
\* from the root and the log that the hash covers.
LEMMA ReplayTruthful ==
    ASSUME IInv, AInv, NEW s \in Sessions, phase[s] = "waiting",
           ws[s].request \in DOMAIN receipt, SameCommand(s)
    PROVE  LET c == receipt[ws[s].request].commit
           IN  /\ c \in CommitIds
               /\ commit[c].root = ws[s].view
               /\ commit[c].mutations = ws[s].edits
               /\ commit[c].request = ws[s].request
<1> DEFINE c == receipt[ws[s].request].commit
           r == ws[s].request
           before == commit[ws[s].base].root
<1>1. /\ c \in CommitIds \ {Genesis} /\ commit[c].request = r
      /\ RowTold(c) /\ PlanTold(s) /\ PlanKnown(s)
  BY DEF IInv, HistoryInv, OneReceiptPerCommit, AInv, RowsTold, PlanInv, SessionInv
<1>2. PICK b \in Branches : receipt[r].hash =
          <<b, commit[c].request, commit[commit[c].parent].root, commit[c].mutations>>
  BY <1>1 DEF RowTold
<1>3. commit[c].mutations = ws[s].edits /\ commit[commit[c].parent].root = before
  BY <1>2 DEF SameCommand, CommandHash
<1>4. /\ Signed(ws[s].workspace, r, ws[s].base, ws[s].view)
      /\ Tells(before, ws[s].edits, ws[s].view, Covered(ws[s].workspace))
      /\ Signed(commit[c].workspace # None, r, commit[c].parent, commit[c].root)
      /\ Tells(before, ws[s].edits, commit[c].root, Covered(commit[c].workspace # None))
  BY <1>1, <1>3 DEF PlanTold, Planning, RowTold
<1>5. /\ ws[s].edits \in Seq(Mutations) /\ ws[s].view \in States
      /\ ws[s].workspace \in BOOLEAN /\ commit[c].root \in States
  BY <1>1 DEF IInv, TypeInv, TypeOK, SessionTypeOK, WorkspaceTypeOK, HistoryTypeOK
<1> HIDE DEF c, r, before
<1>6. ~(OwnRequest(r) /\ \E from, root : RevertRequest(r, from, root))
  BY DEF OwnRequest, RevertRequest, RevertId
<1>7. CASE ws[s].workspace
  <2>1. commit[c].workspace # None
    BY <1>4, <1>6, <1>7 DEF Signed
  <2>2. \A x \in Slots : commit[c].root[x] = ws[s].view[x]
    BY <1>4, <1>5, <1>7, <2>1, ExplainedOnce DEF Tells, Covered
  <2>3. QED
    BY <1>1, <1>3, <1>5, <2>2 DEF States, c, r
<1>8. CASE ~ws[s].workspace
  <2>1. commit[c].workspace = None
    BY <1>4, <1>6, <1>8 DEF Signed
  <2>2. PICK t \in CommitIds : r = RevertId(ws[s].base, t) /\ ws[s].view = commit[t].root
    BY <1>4, <1>8 DEF Signed, RevertRequest
  <2>3. PICK u \in CommitIds : r = RevertId(commit[c].parent, u)
                               /\ commit[c].root = commit[u].root
    BY <1>4, <2>1 DEF Signed, RevertRequest
  <2>4. t = u
    BY <2>2, <2>3 DEF RevertId
  <2>5. QED
    BY <1>1, <1>3, <2>2, <2>3, <2>4 DEF c, r
<1>9. QED
  BY <1>5, <1>7, <1>8

\* What publish_tx asks a second time is settled: the request is still new, the
\* branch and its head are there, the commit id is fresh because it contains the
\* request; and while nothing was ever collected the staged content is there.
LEMMA SecondLineSettled ==
    ASSUME IInv, AInv, NEW s \in Sessions, phase[s] = "entered"
    PROVE  /\ Refusal(s) \notin {"Applied", "Replayed", "Ambiguous", "NotFound", "Clash"}
           /\ Refusal(s) = "Corruption" => sweeps > 0
<1>1. /\ PlanInv(s) /\ PlanKnown(s) /\ RowsTold /\ HistoryInv /\ ContentSafe
      /\ head \in [DOMAIN head -> CommitIds] /\ sweeps \in Nat
  BY DEF IInv, AInv, SessionInv, TypeInv, TypeOK, HistoryTypeOK, SweepTypeOK
<1>2. ws[s].request \notin DOMAIN receipt /\ ws[s].branch \in DOMAIN head
  BY <1>1 DEF PlanInv, PlanNew, PlanKnown, Planning, Holding
<1>3. NewCommitId(s) \notin DOMAIN commit
  <2> SUFFICES ASSUME NewCommitId(s) \in CommitIds PROVE FALSE
    BY DEF CommitIds
  <2> DEFINE c == NewCommitId(s)
  <2>1. commit[c].request = ws[s].request
    <3>1. c = CommitDigest(commit[c].parent, commit[c].root, commit[c].request,
                           Len(commit[c].mutations))
      BY <1>1 DEF RowsTold, RowTold
    <3>2. c[3] = ws[s].request
      BY DEF NewCommitId, CommitDigest
    <3> HIDE DEF c
    <3>3. c[3] = commit[c].request
      BY <3>1 DEF CommitDigest
    <3>4. QED
      BY <3>2, <3>3
  <2>2. c = Genesis
    BY <1>1, <1>2, <2>1 DEF HistoryInv, OneReceiptPerCommit
  <2>3. ws[s].request = GenesisId
    BY <2>2 DEF NewCommitId, Genesis, CommitDigest
  <2>4. Signed(ws[s].workspace, ws[s].request, ws[s].base, ws[s].view)
    BY <1>1 DEF PlanInv, PlanTold, Planning, Holding
  <2>5. ws[s].request[1] \in {"caller", "auto", "revert"}
    BY <2>4 DEF Signed, OwnRequest, RevertRequest, RevertId
  <2>6. GenesisId[1] = "genesis"
    BY DEF GenesisId
  <2>7. QED
    BY <2>3, <2>5, <2>6
<1>4. ASSUME sweeps = 0 PROVE ~ContentMissing(s)
  <2>1. ws[s].staged \subseteq Stored /\ Referenced \subseteq Stored
    BY <1>1, <1>4 DEF PlanInv, PlanStaged, Planning, Holding, ContentSafe
  <2>2. Required(ws[s].edits) \subseteq Stored
    BY <1>1, <2>1 DEF PlanInv, PlanStaged, Planning, Holding
  <2>3. QED
    BY <2>2 DEF ContentMissing
<1>5. ws[s].branch \in DOMAIN head => head[ws[s].branch] \in DOMAIN commit
  BY <1>1 DEF CommitIds
<1>6. QED
  BY <1>1, <1>2, <1>3, <1>4, <1>5 DEF Refusal

\* Staging, submitting, entering, deciding and failing keep the invariant.
LEMMA ToldPublishes ==
    ASSUME IInv, AInv, NEW s \in Sessions
    PROVE  /\ \A c \in Chunks : StageChunk(s, c) => AInv'
           /\ Submit(s) => AInv'
           /\ Enter(s) => AInv'
           /\ Decide(s) => AInv'
           /\ Fail(s) => AInv'
<1>1. /\ PlanInv(s) /\ PlanKnown(s) /\ DOMAIN todo = Sessions /\ DOMAIN ws = Sessions
      /\ phase \in [Sessions -> Phases] /\ DOMAIN answer = Sessions /\ Shaped(ws[s])
  BY DEF IInv, AInv, SessionInv, TypeInv, TypeOK, SessionTypeOK, Shape
<1>2. ASSUME phase[s] \in Planning \ {"open"}, phase'[s] \in Planning \ {"open"},
             UNCHANGED <<commit, receipt, ws, answer, sweep, sweeps>>,
             Stored \subseteq Stored', \A t \in Sessions \ {s} : Rests(t),
             ws[s].staged \subseteq Stored \cup todo[s]
                 => ws[s].staged \subseteq Stored' \cup todo'[s],
             phase'[s] \in {"waiting"} \cup Holding => todo'[s] = {},
             phase'[s] \in Holding => ws[s].request \notin DOMAIN receipt
      PROVE  AInv'
  <2>1. Referenced' = Referenced /\ CommitIds' = CommitIds
    BY <1>2 DEF Referenced, RetainedRoots, ChunksOf, CommitIds
  <2>2. PlanTold(s)'
    BY <1>1, <1>2, <2>1 DEF PlanInv, PlanTold, Tells, Explained, Covered, Signed,
       OwnRequest, RevertRequest, RevertId
  <2>3. PlanStaged(s)' /\ PlanNew(s)'
    BY <1>1, <1>2, <2>1 DEF PlanInv, PlanStaged, PlanNew, Required
  <2>4. Answered(s)' /\ Idle(s)'
    BY <1>1, <1>2, <2>1 DEF PlanInv, Answered, Idle, Planning, Holding
  <2>5. QED
    BY <1>2, <2>2, <2>3, <2>4, PlanSteps DEF PlanInv
<1>3. ASSUME NEW c \in Chunks, StageChunk(s, c) PROVE AInv'
  <2>1. /\ phase[s] = "staging" /\ phase'[s] = "staging"
        /\ todo'[s] = todo[s] \ {c} /\ Stored' = Stored \cup {c}
        /\ UNCHANGED <<commit, receipt, ws, answer, sweep, sweeps>>
        /\ \A t \in Sessions \ {s} : Rests(t)
    BY <1>1, <1>3 DEF StageChunk, Bind, Stored, Rests
  <2>2. QED
    BY <1>2, <2>1 DEF Planning, Holding
<1>4. ASSUME Submit(s) PROVE AInv'
  <2>1. CASE OverBudget(ws[s].edits)
    BY <1>4, <2>1, ToldRefuse DEF Submit, Planning
  <2>2. CASE ~OverBudget(ws[s].edits)
    <3>1. /\ phase[s] = "staging" /\ phase'[s] = "waiting" /\ todo[s] = {}
          /\ UNCHANGED <<commit, receipt, age, ws, todo, answer, sweep, sweeps>>
          /\ \A t \in Sessions \ {s} : Rests(t)
      BY <1>1, <1>4, <2>2 DEF Submit, storeVars, Rests
    <3>2. QED
      BY <1>2, <3>1 DEF Planning, Holding, Stored
  <2>3. QED
    BY <2>1, <2>2
<1>5. ASSUME Enter(s) PROVE AInv'
  <2>1. CASE ws[s].request \notin DOMAIN receipt
    <3>1. /\ phase[s] = "waiting" /\ phase'[s] = "entered"
          /\ UNCHANGED <<commit, receipt, age, ws, todo, answer, sweep, sweeps>>
          /\ \A t \in Sessions \ {s} : Rests(t)
      BY <1>1, <1>5, <2>1 DEF Enter, storeVars, Rests
    <3>2. todo[s] = {}
      BY <1>1, <3>1 DEF PlanInv, PlanStaged, Planning
    <3>3. QED
      BY <1>2, <2>1, <3>1, <3>2 DEF Planning, Holding, Stored
  <2>2. CASE ws[s].request \in DOMAIN receipt /\ SameCommand(s)
    <3> DEFINE c == receipt[ws[s].request].commit
    <3>1. /\ c \in CommitIds /\ commit[c].root = ws[s].view
          /\ commit[c].mutations = ws[s].edits /\ commit[c].request = ws[s].request
      BY <1>5, <2>2, ReplayTruthful DEF Enter
    <3> HIDE DEF c
    <3>2. /\ phase'[s] = "closed" /\ answer'[s].outcome = "Replayed"
          /\ answer'[s].commit = c /\ ws'[s].view = ws[s].view
          /\ ws'[s].edits = ws[s].edits /\ ws'[s].request = ws[s].request
          /\ UNCHANGED <<commit, receipt, age, sweep, sweeps>>
          /\ \A t \in Sessions \ {s} : Rests(t)
      BY <1>1, <1>5, <2>2
         DEF Enter, Finish, storeVars, Rests, c, Shaped, Fields
    <3>3. CommitIds' = CommitIds
      BY <3>2 DEF CommitIds
    <3>4. PlanInv(s)'
      BY <3>1, <3>2, <3>3 DEF PlanInv, PlanTold, PlanStaged, PlanNew, Answered, Idle,
         Planning, Holding
    <3>5. QED
      BY <3>2, <3>4, PlanSteps DEF Stored
  <2>3. CASE ws[s].request \in DOMAIN receipt /\ ~SameCommand(s)
    BY <1>5, <2>3, ToldRefuse DEF Enter, Planning
  <2>4. QED
    BY <2>1, <2>2, <2>3
<1>6. ASSUME Decide(s) PROVE AInv'
  <2>1. CASE Refusal(s) # "none"
    BY <1>6, <2>1, SecondLineSettled, ToldRefuse DEF Decide, Planning, Holding
  <2>2. CASE Refusal(s) = "none"
    <3>1. /\ phase[s] = "entered" /\ phase'[s] = "decided"
          /\ UNCHANGED <<commit, receipt, age, ws, todo, answer, sweep, sweeps>>
          /\ \A t \in Sessions \ {s} : Rests(t)
      BY <1>1, <1>6, <2>2 DEF Decide, storeVars, Rests
    <3>2. todo[s] = {} /\ ws[s].request \notin DOMAIN receipt
      BY <1>1, <3>1 DEF PlanInv, PlanStaged, PlanNew, Planning, Holding
    <3>3. QED
      BY <1>2, <3>1, <3>2 DEF Planning, Holding, Stored
  <2>3. QED
    BY <2>1, <2>2
<1>7. ASSUME Fail(s) PROVE AInv'
  BY <1>7, ToldRefuse DEF Fail, Planning, Holding
<1>8. QED
  BY <1>3, <1>4, <1>5, <1>6, <1>7

\* The transaction that commits keeps the invariant: the row it adds is told by
\* the plan, and the rows that were there, and their receipts, stay.
LEMMA ToldCommit ==
    ASSUME IInv, AInv, NEW s \in Sessions, Commit(s)
    PROVE  AInv'
<1> DEFINE w == ws[s]
           r == ws[s].request
           id == CommitDigest(tx[s].parent, w.view, r, Len(w.edits))
           row == [parent |-> tx[s].parent, root |-> w.view, request |-> r,
                   mutations |-> w.edits, seq |-> tx[s].seq,
                   workspace |-> IF w.workspace THEN s ELSE None]
           evidence == [hash |-> CommandHash(s), commit |-> id,
                        previous |-> tx[s].parent, seq |-> tx[s].seq]
<1>1. /\ phase[s] = "decided" /\ lock = s /\ HistoryInv
      /\ PlanKnown(s) /\ PlanReady(s) /\ PlanInv(s) /\ RowsTold
      /\ DOMAIN ws = Sessions /\ Shaped(ws[s]) /\ w.branch \in Branches
      /\ phase \in [Sessions -> Phases] /\ DOMAIN answer = Sessions
      /\ ws[s].workspace \in BOOLEAN
  BY NoneAssumption DEF Commit, IInv, AInv, SessionInv, TypeInv, TypeOK, SessionTypeOK,
     HistoryTypeOK, Shape, WorkspaceTypeOK, Locked, Holding, PlanKnown, Planning
<1>2. /\ commit' = Bind(commit, id, row)
      /\ receipt' = Bind(receipt, r, evidence)
      /\ Finish(s, "Applied", id)
      /\ UNCHANGED <<age, todo, sweep, sweeps>>
  BY DEF Commit
<1>3. /\ row.parent = w.base /\ row.root = w.view /\ row.request = r
      /\ row.mutations = w.edits /\ (row.workspace # None <=> w.workspace)
      /\ evidence.hash = <<w.branch, r, commit[w.base].root, w.edits>>
      /\ id = CommitDigest(w.base, w.view, r, Len(w.edits))
      /\ id \notin CommitIds /\ r \notin DOMAIN receipt /\ w.base \in CommitIds
  BY <1>1, NoneAssumption DEF PlanReady, PlanKnown, Planning, Holding, CommandHash
<1>4. /\ Tells(commit[w.base].root, w.edits, w.view, Covered(w.workspace))
      /\ Signed(w.workspace, r, w.base, w.view)
  BY <1>1 DEF PlanInv, PlanTold, Planning, Holding
<1> HIDE DEF id, row, evidence, r
<1>5. /\ CommitIds' = CommitIds \cup {id} /\ commit'[id] = row
      /\ \A c \in CommitIds : commit'[c] = commit[c]
  BY <1>2, <1>3 DEF Bind, CommitIds
<1>6. /\ DOMAIN receipt' = DOMAIN receipt \cup {r} /\ receipt'[r] = evidence
      /\ \A q \in DOMAIN receipt : receipt'[q] = receipt[q]
  BY <1>2, <1>3 DEF Bind
<1>7. Genesis' = Genesis /\ Genesis \in CommitIds
  BY <1>1 DEF HistoryInv, Genesis, CommitDigest, EmptyState, GenesisId
<1>8. ASSUME NEW own, NEW q, NEW from, NEW root, Signed(own, q, from, root)
      PROVE  Signed(own, q, from, root)'
  BY <1>5, <1>8 DEF Signed, OwnRequest, RevertRequest, RevertId
<1>9. ASSUME NEW c \in CommitIds PROVE RowTold(c)'
  <2>1. RowTold(c) /\ commit'[c] = commit[c]
    BY <1>1, <1>5 DEF RowsTold
  <2>2. CASE c = Genesis
    BY <1>7, <2>1, <2>2 DEF RowTold, CommitDigest
  <2>3. CASE c # Genesis
    <3>1. /\ commit[c].request \in DOMAIN receipt /\ commit[c].parent \in CommitIds
      BY <1>1, <2>3 DEF HistoryInv, OneReceiptPerCommit, SequenceOrdersHistory
    <3>2. /\ receipt'[commit[c].request] = receipt[commit[c].request]
          /\ commit'[commit[c].parent] = commit[commit[c].parent]
      BY <1>5, <1>6, <3>1
    <3>3. Signed(commit[c].workspace # None, commit[c].request, commit[c].parent,
                 commit[c].root)
          => Signed(commit[c].workspace # None, commit[c].request, commit[c].parent,
                    commit[c].root)'
      BY <1>5, <2>1 DEF Signed, OwnRequest, RevertRequest, RevertId
    <3>4. (c = CommitDigest(commit[c].parent, commit[c].root, commit[c].request,
                            Len(commit[c].mutations)))'
      BY <2>1 DEF RowTold, CommitDigest
    <3>5. Tells(commit[commit[c].parent].root, commit[c].mutations, commit[c].root,
                Covered(commit[c].workspace # None))'
      BY <2>1, <2>3, <3>2 DEF RowTold, Tells, Explained, Covered, Slots
    <3>6. Signed(commit[c].workspace # None, commit[c].request, commit[c].parent,
                 commit[c].root)'
      BY <2>1, <2>3, <3>3 DEF RowTold
    <3>7. (\E b \in Branches : receipt[commit[c].request].hash =
               <<b, commit[c].request, commit[commit[c].parent].root,
                 commit[c].mutations>>)'
      BY <2>1, <2>3, <3>2 DEF RowTold
    <3>8. QED
      BY <3>4, <3>5, <3>6, <3>7 DEF RowTold
  <2>4. QED
    BY <2>2, <2>3
<1>10. ASSUME NEW c, c = id PROVE RowTold(c)'
  <2>1. commit'[c] = row /\ commit'[w.base] = commit[w.base]
    BY <1>3, <1>5, <1>10
  <2>2. c = CommitDigest(row.parent, row.root, row.request, Len(row.mutations))
    BY <1>3, <1>10
  <2>3. Tells(commit[w.base].root, row.mutations, row.root, Covered(row.workspace # None))
    BY <1>3, <1>4 DEF Covered
  <2>4. Signed(row.workspace # None, row.request, row.parent, row.root)
    BY <1>3, <1>4 DEF Signed
  <2>5. Signed(commit[c].workspace # None, commit[c].request, commit[c].parent,
               commit[c].root)'
    BY <1>5, <2>1, <2>4 DEF Signed, OwnRequest, RevertRequest, RevertId
  <2>6. \E b \in Branches : receipt'[row.request].hash =
            <<b, row.request, commit'[row.parent].root, row.mutations>>
    BY <1>1, <1>3, <1>6, <2>1
  <2>7. Tells(commit[commit[c].parent].root, commit[c].mutations, commit[c].root,
              Covered(commit[c].workspace # None))'
    BY <1>3, <2>1, <2>3, SMTT(60) DEF Tells, Explained, Covered, Slots
  <2>8. QED
    BY <2>1, <2>2, <2>5, <2>6, <2>7 DEF RowTold, CommitDigest
<1>11. RowsTold'
  BY <1>5, <1>9, <1>10 DEF RowsTold
<1>12. ASSUME NEW t \in Sessions \ {s} PROVE PlanInv(t)'
  <2>1. PlanKnown(t) /\ PlanInv(t) /\ phase[t] \notin Holding
    BY <1>1 DEF IInv, SessionInv, AInv, Locked
  <2>2. Rests(t)
    BY <1>1, <1>2 DEF Finish, Rests
  <2>3. Grown /\ Collected
    BY <1>2, <1>5 DEF Grown, Collected, Stored
  <2>4. QED
    BY <2>1, <2>2, <2>3, PlanRests
<1>13. PlanInv(s)'
  <2>1. /\ phase'[s] = "closed" /\ answer'[s].outcome = "Applied"
        /\ answer'[s].commit = id /\ ws'[s].view = w.view /\ ws'[s].edits = w.edits
        /\ ws'[s].request = r /\ ws'[s].base = w.base
    BY <1>1, <1>2 DEF Finish, Shaped, Fields, r
  <2>2. Answered(s)' /\ Idle(s)'
    BY <1>3, <1>5, <2>1 DEF Answered, Idle
  <2>3. QED
    BY <2>1, <2>2 DEF PlanInv, PlanTold, PlanStaged, PlanNew, Planning, Holding
<1>14. QED
  BY <1>2, <1>11, <1>12, <1>13 DEF AInv

--------------------------------------------------------------------------------
(* The other actors *)

\* Forks, collections, the passing of time and crashes keep the invariant.
LEMMA ToldOthers ==
    ASSUME IInv, AInv
    PROVE  /\ \A b \in Branches, k \in CommitIds : Fork(b, k) => AInv'
           /\ Sweeps => AInv'
           /\ \A c \in Chunks : Age(c) => AInv'
           /\ Crash => AInv'
<1>1. /\ RowsTold /\ sweeps \in Nat /\ phase \in [Sessions -> Phases]
      /\ \A s \in Sessions : PlanKnown(s) /\ PlanInv(s)
      /\ sweep.running => sweeps > 0
      /\ ~sweep.running => sweep.doomed = {}
  BY DEF IInv, AInv, SessionInv, TypeInv, TypeOK, SweepTypeOK, SessionTypeOK, Locked
<1>2. ASSUME commit' = commit, receipt' = receipt PROVE Grown /\ RowsTold'
  BY <1>1, <1>2, RowsRest
<1>3. ASSUME commit' = commit, receipt' = receipt, Collected,
             sweep'.running => sweeps' > 0, \A s \in Sessions : Rests(s)
      PROVE  AInv'
  <2>1. Grown /\ RowsTold'
    BY <1>2, <1>3
  <2>2. ASSUME NEW s \in Sessions PROVE PlanInv(s)'
    BY <1>1, <1>3, <2>1, PlanRests
  <2>3. QED
    BY <1>3, <2>1, <2>2 DEF AInv
<1>4. ASSUME NEW b \in Branches, NEW k \in CommitIds, Fork(b, k) PROVE AInv'
  BY <1>1, <1>3, <1>4 DEF Fork, memVars, Collected, Rests, Stored
<1>5. ASSUME NEW grace \in {0, 1}, SweepStart(grace) PROVE AInv'
  BY <1>1, <1>3, <1>5 DEF SweepStart, storeVars, Collected, Rests
<1>6. ASSUME NEW c \in Chunks, SweepDelete(c) PROVE AInv'
  <2>1. sweeps > 0 /\ sweeps' = sweeps
    BY <1>1, <1>6 DEF SweepDelete
  <2>2. QED
    BY <1>1, <1>3, <1>6, <2>1 DEF SweepDelete, Collected, Rests
<1>7. ASSUME SweepStop PROVE AInv'
  BY <1>1, <1>3, <1>7 DEF SweepStop, storeVars, NoSweep, Collected, Rests, Stored
<1>8. ASSUME NEW c \in Chunks, Age(c) PROVE AInv'
  BY <1>1, <1>3, <1>8 DEF Age, memVars, Collected, Rests, Stored
<1>9. ASSUME Crash PROVE AInv'
  <2>1. /\ UNCHANGED <<commit, receipt, age, sweeps>> /\ sweep' = NoSweep
        /\ \A s \in Sessions :
            IF phase[s] \in {"unused", "closed"}
            THEN phase'[s] = phase[s] /\ ws'[s] = ws[s] /\ answer'[s] = answer[s]
            ELSE phase'[s] = "gone" /\ answer'[s] = NoAnswer
    BY <1>9 DEF Crash, storeVars
  <2>2. Grown /\ RowsTold'
    BY <1>2, <2>1
  <2>3. ASSUME NEW s \in Sessions PROVE PlanInv(s)'
    <3>1. phase'[s] \notin Planning /\ PlanInv(s)
      BY <1>1, <2>1 DEF Planning, Holding
    <3>2. Answered(s)' /\ Idle(s)'
      BY <2>1, <2>2, <3>1 DEF PlanInv, Answered, Idle, Grown, NoAnswer
    <3>3. QED
      BY <3>1, <3>2 DEF PlanInv, PlanTold, PlanStaged, PlanNew, Planning
  <2>4. QED
    BY <2>1, <2>2, <2>3 DEF AInv, NoSweep
<1>10. QED
  BY <1>4, <1>5, <1>6, <1>7, <1>8, <1>9 DEF Sweeps, SweepEnd, SweepFail

--------------------------------------------------------------------------------
(* The theorems *)

\* A repository that was just created satisfies the invariant.
LEMMA ToldInit == Init => AInv
<1> SUFFICES ASSUME Init PROVE AInv
  OBVIOUS
<1>1. RowsTold
  <2>1. CommitIds = {Genesis}
    BY DEF Init, CommitIds
  <2>2. /\ commit[Genesis].parent = None /\ commit[Genesis].root = EmptyState
        /\ commit[Genesis].request = GenesisId /\ commit[Genesis].mutations = <<>>
    BY DEF Init
  <2>3. RowTold(Genesis)
    BY <2>2 DEF RowTold, Genesis, CommitDigest
  <2>4. QED
    BY <2>1, <2>3 DEF RowsTold
<1>2. ASSUME NEW s \in Sessions PROVE PlanInv(s)
  <2>1. phase[s] = "unused" /\ answer[s].outcome = "none"
    BY DEF Init, NoAnswer
  <2>2. QED
    BY <2>1 DEF PlanInv, PlanTold, PlanStaged, PlanNew, Answered, Idle, Planning, Holding
<1>3. ~sweep.running
  BY DEF Init, NoSweep
<1>4. QED
  BY <1>1, <1>2, <1>3 DEF AInv

\* Every step keeps the invariant, together with the one of PublicationSafety.
LEMMA ToldNext == IInv /\ AInv /\ [Next]_vars => AInv'
<1> SUFFICES ASSUME IInv, AInv, [Next]_vars PROVE AInv'
  OBVIOUS
<1>1. ASSUME NEW s \in Sessions, Edits(s) PROVE AInv'
  BY <1>1, ToldEdits
<1>2. ASSUME NEW s \in Sessions, Calls(s) PROVE AInv'
  BY <1>2, ToldCalls
<1>3. ASSUME NEW s \in Sessions, Publishes(s) PROVE AInv'
  BY <1>3, ToldPublishes, ToldCommit DEF Publishes
<1>4. ASSUME NEW b \in Branches, NEW k \in DOMAIN commit, Fork(b, k) PROVE AInv'
  BY <1>4, ToldOthers DEF CommitIds
<1>5. CASE Sweeps
  BY <1>5, ToldOthers
<1>6. ASSUME NEW c \in Chunks, Age(c) PROVE AInv'
  BY <1>6, ToldOthers
<1>7. CASE Crash
  BY <1>7, ToldOthers
<1>8. CASE UNCHANGED vars
  <2>1. commit' = commit /\ receipt' = receipt
    BY <1>8 DEF vars, storeVars
  <2>2. Grown /\ RowsTold'
    BY <2>1, RowsRest DEF AInv
  <2>3. ASSUME NEW s \in Sessions PROVE PlanInv(s)'
    <3>1. Collected /\ Rests(s) /\ receipt' = receipt
      BY <1>8 DEF vars, storeVars, memVars, Collected, Rests, Stored
    <3>2. QED
      BY <2>2, <3>1, PlanRests DEF IInv, SessionInv, AInv
  <2>4. QED
    BY <1>8, <2>2, <2>3 DEF AInv, vars, memVars
<1>9. QED
  BY <1>1, <1>2, <1>3, <1>4, <1>5, <1>6, <1>7, <1>8 DEF Next

\* Both invariants hold in every reachable state.
THEOREM Truthful == Spec => [](IInv /\ AInv)
<1>1. Init => IInv /\ AInv
  BY SafeInit, ToldInit
<1>2. IInv /\ AInv /\ [Next]_vars => IInv' /\ AInv'
  BY SafeNext, ToldNext
<1>3. QED
  BY <1>1, <1>2, PTL DEF Spec

\* No lost update: however many workspaces and reverts publish on however many
\* branches, each published state is its parent's with the commit's log applied.
THEOREM NoLostUpdate == Spec => []HistoryExplainsState
<1>1. AInv => HistoryExplainsState
  BY DEF AInv, RowsTold, RowTold, Tells, Covered, HistoryExplainsState
<1>2. QED
  BY <1>1, Truthful, PTL

\* Every receipt, of a first publication or of a replay after any number of
\* crashes, names a commit with the state, the log and the request of the caller.
THEOREM ReceiptsTruthful == Spec => []AnswersTruthful
<1>1. AInv => AnswersTruthful
  BY DEF AInv, PlanInv, Answered, AnswersTruthful
<1>2. QED
  BY <1>1, Truthful, PTL

\* The publish lock settles what publish_tx asks again: it never answers Ambiguous,
\* NotFound or Clash, nor Corruption before a collection was started.
THEOREM SecondLineNeverDecides == Spec => []SecondLineIdle
<1>1. AInv => SecondLineIdle
  BY DEF AInv, PlanInv, Idle, SecondLineIdle
<1>2. QED
  BY <1>1, Truthful, PTL

================================================================================
