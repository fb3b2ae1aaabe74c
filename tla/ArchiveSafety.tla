------------------------------ MODULE ArchiveSafety ------------------------------
(* Export, import and collection, proved for every content, every number of         *)
(* publications and every order of the steps.                                      *)
EXTENDS Archive, FiniteSetTheorems, SequenceTheorems, TLAPS

Named == {"branch", "snapshot"}
Logged == {"commit", "span", "mutation"}

States == [top : Chunks \cup {None}, sub : Chunks \cup {None}, kv : Chunks \cup {None}]
Steps == [state : States, at : {"genesis", "source", "target"}, seq : Nat]
Histories == Seq(Steps) \ {<<>>}

\* The rows of a repository, of an archive, or of what an import has left.
Typed(rows) ==
    /\ rows = [t \in Tables |-> rows[t]]
    /\ rows["root"] \subseteq States
    /\ \A t \in Logged : rows[t] \subseteq Histories
    /\ \A t \in Named : rows[t] \subseteq {Main, "savepoint"} \X Histories

\* A name stands for one commit.
OneEach(rows) == \A t \in Named : \A q, r \in rows[t] : q[1] = r[1] => q = r

\* A repository that can be published to.
Living(repo) ==
    /\ Typed(repo) /\ OneEach(repo)
    /\ \E r \in repo["branch"] : r[1] = Main
    /\ IsFiniteSet(repo["commit"]) /\ repo["commit"] # {}

\* A commit comes after its parent.
Ascends(h) == h # Genesis => Len(h) > 1 /\ Top(Parent(h)).seq < Top(h).seq

\* Rows the source has held: every commit comes after its parent.
FromSource(rows) ==
    /\ Typed(rows) /\ OneEach(rows)
    /\ \A h \in rows["commit"] : Ascends(h)

ArchiveTypeOK ==
    /\ Living(source) /\ FromSource(source) /\ Living(target)
    /\ reading \in 0..(Len(ExportOrder) + 1)
    /\ file = [rows |-> file.rows, ended |-> file.ended, since |-> file.since]
    /\ FromSource(file.rows) /\ FromSource(file.since) /\ file.ended \in BOOLEAN
    /\ import = [phase |-> import.phase, archive |-> import.archive, left |-> import.left]
    /\ FromSource(import.archive.rows) /\ FromSource(import.archive.since)
    /\ Typed(import.left) /\ \A t \in Tables : import.left[t] \subseteq import.archive.rows[t]
    /\ sweep = [phase |-> sweep.phase, roots |-> sweep.roots,
                reached |-> sweep.reached, doomed |-> sweep.doomed]
    /\ old = [t \in Content |-> old[t]]
    /\ racing \in Nat

\* Nothing a repository, or an archive, names is missing from it.
Whole(repo) == \A t \in Tables : \A r \in repo[t] : Resolves(repo, t, r)

Extends(q, r) == Len(r) <= Len(q) /\ \A i \in 1..Len(r) : q[i] = r[i]

\* Table t of rows is in repo, names where it has them or further on.
Covers(rows, repo, t) ==
    IF t \in Named THEN \A r \in rows[t] : \E q \in repo[t] : q[1] = r[1] /\ Extends(q[2], r[2])
    ELSE rows[t] \subseteq repo[t]

\* The tables an export has read.
ReadTables == IF file.ended THEN Tables
              ELSE {t \in Tables : \E i \in 1..(reading - 1) : ExportOrder[i] = t}

\* An archive holds at least what the source held at its start.
ExportInv ==
    /\ reading # 0 => ~file.ended
    /\ reading # 0 => \A t \in Tables : Covers(file.since, source, t)
    /\ \A t \in ReadTables : Covers(file.since, file.rows, t)

\* The content among the rows is named by a root of theirs whose nodes are there.
Anchored(rows, roots, nodes) ==
    \A t \in Content : \A r \in rows[t] : \E s \in roots : r \in RowsOf(t, s) /\ NodesOf(s) \subseteq nodes

\* Each table is read before those that its rows are named by.
AnchorInv ==
    /\ Anchored(source, source["root"], source["node"])
    /\ reading # 0 => Anchored(file.rows,
                               IF reading > 3 THEN file.rows["root"] ELSE source["root"],
                               IF reading > 2 THEN file.rows["node"] ELSE source["node"])
    /\ file.ended => Anchored(file.rows, file.rows["root"], file.rows["node"])
    /\ Anchored(import.archive.rows, import.archive.rows["root"], import.archive.rows["node"])

\* What the import has brought.
Brought == [t \in Tables |-> import.archive.rows[t] \ import.left[t]]

\* A table is begun when those before it are done.
InOrder ==
    \A i, j \in 1..8 :
        i < j /\ import.left[ImportOrder[j]] # import.archive.rows[ImportOrder[j]]
            => import.left[ImportOrder[i]] = {}

\* What an import has brought stays; a collection may take content, see CollectInv.
ImportInv ==
    /\ \A t \in Tables : Covers(import.archive.since, import.archive.rows, t)
    /\ \A t \in Tables \ Content : Covers(Brought, target, t)
    /\ import.phase = "done" => \A t \in Tables : import.left[t] = {}
    /\ InOrder

\* The chunks, or nodes, that no collection may take: those an import brings or has
\* brought with their roots, and those that roots of whole archives name.
Claimed(t) ==
    (IF import.phase = "rows" \/ import.left["root"] = {} THEN Brought[t] ELSE {})
        \cup (IF racing = 0 THEN UNION {RowsOf(t, s) : s \in target["root"]} ELSE {})

\* They are there, a collection will not list them, and it has not listed them.
CollectInv ==
    exposed = {} =>
        /\ \A t \in Content :
            /\ Claimed(t) \subseteq target[t]
            /\ import.phase = "rows" => Brought[t] \cap old[t] = {}
            /\ sweep.phase = t => sweep.doomed \cap Claimed(t) = {}
            /\ sweep.phase = "roots" => \A r \in Claimed(t) \cap old[t] :
                \E s \in sweep.roots : r \in RowsOf(t, s) /\ NodesOf(s) \subseteq target["node"]
        /\ sweep.phase = "node" => Claimed("chunk") \cap old["chunk"] \subseteq sweep.reached

\* An export into which no publication falls holds what the source held, all of it.
ExportExact ==
    /\ reading # 0 =>
        /\ Whole(file.since)
        /\ \A t \in Tables \ {"snapshot"} : source[t] = file.since[t]
        /\ \A t \in ReadTables \ {"snapshot"} : file.rows[t] = file.since[t]
        /\ "snapshot" \in ReadTables => \A r \in file.rows["snapshot"] : r[2] \in file.since["commit"]
    /\ file.ended => Whole(file.rows)

ReferencesInv ==
    racing = 0 => /\ ExportExact /\ Whole(import.archive.rows)
                  /\ exposed = {} => Whole(target)

ArchiveInv ==
    /\ ArchiveTypeOK /\ Whole(source) /\ ExportInv /\ AnchorInv /\ ImportInv
    /\ CollectInv /\ ReferencesInv

--------------------------------------------------------------------------------
(* Histories *)

\* Among finitely many numbers there is a greatest: of the parts from one of them on,
\* no other is a part of its own.
LEMMA GreatestOf ==
    ASSUME NEW S \in SUBSET Nat, IsFiniteSet(S), S # {}
    PROVE  \E n \in S : \A m \in S : m <= n
<1> DEFINE from(n) == {m \in S : n <= m}
           parts == {from(n) : n \in S}
<1>1. IsWellFoundedOn(StrictSubsetOrdering(S), FiniteSubsetsOf(S))
  BY FS_StrictSubsetOrderingWellFounded
<1>2. parts # {} /\ parts \subseteq FiniteSubsetsOf(S)
  <2>1. \A n \in S : from(n) \subseteq S
    OBVIOUS
  <2>2. \A n \in S : IsFiniteSet(from(n))
    BY <2>1, FS_Subset
  <2>3. QED
    BY <2>1, <2>2 DEF FiniteSubsetsOf
<1>3. PICK x \in parts : \A y \in parts : <<y, x>> \notin StrictSubsetOrdering(S)
  <2> HIDE DEF parts
  <2>1. QED
    BY <1>1, <1>2, WFMin
<1>4. PICK n \in S : x = from(n)
  OBVIOUS
<1>5. ASSUME NEW m \in S, n < m PROVE FALSE
  <2>1. \A k \in S : m <= k => n <= k
    BY <1>5
  <2>2. n <= n /\ ~(m <= n)
    BY <1>5
  <2>3. from(m) \subseteq from(n) /\ n \in from(n) /\ n \notin from(m) /\ from(n) \subseteq S
    BY <2>1, <2>2
  <2>4. from(m) \in parts
    OBVIOUS
  <2> HIDE DEF parts, from
  <2>5. <<from(m), x>> \in StrictSubsetOrdering(S)
    BY <1>4, <2>3 DEF StrictSubsetOrdering
  <2>6. QED
    BY <1>3, <2>4, <2>5
<1>6. QED
  BY <1>4, <1>5

\* A history is a non-empty list of steps.
LEMMA HistoryTyped ==
    ASSUME NEW h \in Histories
    PROVE  /\ h \in Seq(Steps) /\ Len(h) \in Nat /\ Len(h) > 0 /\ Top(h) \in Steps
           /\ Top(h).state \in States /\ Top(h).seq \in Nat
           /\ \A i \in 1..Len(h) : h[i] \in Steps
<1>1. h \in Seq(Steps) /\ Len(h) \in Nat /\ Len(h) > 0
  BY EmptySeq DEF Histories
<1>2. \A i \in 1..Len(h) : h[i] \in Steps
  BY <1>1, ElementOfSeq
<1>3. Top(h) \in Steps
  BY <1>1, <1>2 DEF Top
<1>4. QED
  BY <1>1, <1>2, <1>3 DEF Steps

\* The genesis is a history of the empty state.
LEMMA GenesisTyped == Genesis \in Histories /\ Top(Genesis).state = EmptyState /\ EmptyState \in States
BY DEF Genesis, Histories, Steps, States, EmptyState, Top

\* A commit on top of a history.
LEMMA OnTop ==
    ASSUME NEW h \in Histories, NEW e \in Steps
    PROVE  LET n == Append(h, e)
           IN  /\ n \in Histories /\ Len(n) = Len(h) + 1 /\ Top(n) = e /\ Parent(n) = h
               /\ Extends(n, h) /\ n # Genesis
<1> DEFINE n == Append(h, e)
<1>1. /\ h \in Seq(Steps) /\ Len(h) \in Nat /\ Len(h) > 0
  BY HistoryTyped
<1>2. /\ n \in Seq(Steps) /\ n # <<>> /\ Len(n) = Len(h) + 1
      /\ \A i \in 1..Len(h) : n[i] = h[i]
      /\ n[Len(h) + 1] = e
  BY <1>1, AppendProperties
<1>3. Parent(n) = h
  <2>1. Parent(n) = SubSeq(n, 1, Len(h))
    BY <1>1, <1>2 DEF Parent
  <2>2. Len(SubSeq(n, 1, Len(h))) = Len(h) /\ SubSeq(n, 1, Len(h)) \in Seq(Steps)
        /\ \A i \in 1..Len(h) : SubSeq(n, 1, Len(h))[i] = n[i]
    BY <1>1, <1>2
  <2>3. QED
    BY <1>1, <1>2, <2>1, <2>2, SeqEqual
<1>4. Len(Genesis) = 1
  BY DEF Genesis
<1>5. QED
  BY <1>1, <1>2, <1>3, <1>4 DEF Histories, Top, Extends

\* Extending is an order on histories.
LEMMA ExtendsTransitive ==
    ASSUME NEW a \in Histories, NEW b \in Histories, NEW c \in Histories,
           Extends(a, b), Extends(b, c)
    PROVE  Extends(a, c)
BY HistoryTyped DEF Extends

\* Every history extends itself.
LEMMA ExtendsReflexive == \A h \in Histories : Extends(h, h)
BY HistoryTyped DEF Extends

\* A history begins with each one it extends.
LEMMA ExtendsPrefix ==
    ASSUME NEW a \in Histories, NEW b \in Histories, Extends(a, b)
    PROVE  SubSeq(a, 1, Len(b)) = b
<1>1. /\ a \in Seq(Steps) /\ b \in Seq(Steps) /\ Len(b) \in Nat /\ Len(a) \in Nat
      /\ Len(b) > 0 /\ Len(b) <= Len(a)
  BY HistoryTyped DEF Extends
<1>2. /\ SubSeq(a, 1, Len(b)) \in Seq(Steps) /\ Len(SubSeq(a, 1, Len(b))) = Len(b)
      /\ \A i \in 1..Len(b) : SubSeq(a, 1, Len(b))[i] = a[i]
  BY <1>1
<1>3. QED
  BY <1>1, <1>2, SeqEqual DEF Extends

\* Rows cover themselves.
LEMMA CoversItself ==
    ASSUME NEW rows, Typed(rows)
    PROVE  \A t \in Tables : Covers(rows, rows, t)
BY ExtendsReflexive DEF Covers, Typed, Named

\* Covering is transitive.
LEMMA CoversTransitive ==
    ASSUME NEW a, NEW b, NEW c, NEW t \in Tables, Typed(a), Typed(b), Typed(c),
           Covers(a, b, t), Covers(b, c, t)
    PROVE  Covers(a, c, t)
<1>1. CASE t \notin Named
  BY <1>1 DEF Covers
<1>2. CASE t \in Named
  <2> SUFFICES ASSUME NEW r \in a[t]
               PROVE  \E q \in c[t] : q[1] = r[1] /\ Extends(q[2], r[2])
    BY <1>2 DEF Covers
  <2>1. PICK p \in b[t] : p[1] = r[1] /\ Extends(p[2], r[2])
    BY <1>2 DEF Covers
  <2>2. PICK q \in c[t] : q[1] = p[1] /\ Extends(q[2], p[2])
    BY <1>2 DEF Covers
  <2>3. r[2] \in Histories /\ p[2] \in Histories /\ q[2] \in Histories
    BY <1>2 DEF Typed
  <2>4. Extends(q[2], r[2])
    BY <2>1, <2>2, <2>3, ExtendsTransitive
  <2>5. QED
    BY <2>1, <2>2, <2>4
<1>3. QED
  BY <1>1, <1>2

--------------------------------------------------------------------------------
(* Repositories *)

\* What it is for nothing to be missing, table by table.
LEMMA WholeTables ==
    ASSUME NEW repo
    PROVE  Whole(repo) <=>
             /\ \A s \in repo["root"] : StateWhole(repo, s)
             /\ \A h \in repo["commit"] :
                    /\ StateWhole(repo, Top(h).state)
                    /\ h # Genesis => h \in repo["span"] /\ Parent(h) \in repo["commit"]
             /\ \A h \in repo["mutation"] : h \in repo["commit"]
             /\ \A t \in Named : \A r \in repo[t] : r[2] \in repo["commit"]
BY DEF Whole, Resolves, Tables, Named

\* A living repository has one main branch, and its head is a history.
LEMMA HeadTyped ==
    ASSUME NEW repo, Living(repo)
    PROVE  /\ HeadOf(repo) \in Histories
           /\ <<Main, HeadOf(repo)>> \in repo["branch"]
           /\ \A r \in repo["branch"] : r[1] = Main => r[2] = HeadOf(repo)
<1> DEFINE head == CHOOSE r \in repo["branch"] : r[1] = Main
<1>1. head \in repo["branch"] /\ head[1] = Main
  BY DEF Living
<1>2. \A r \in repo["branch"] : r = <<r[1], r[2]>> /\ r[2] \in Histories
  BY DEF Living, Typed, Named
<1>3. \A q, r \in repo["branch"] : q[1] = r[1] => q = r
  BY DEF Living, OneEach, Named
<1>4. HeadOf(repo) = head[2]
  BY DEF HeadOf
<1> HIDE DEF head
<1>5. QED
  BY <1>1, <1>2, <1>3, <1>4

\* The highest sequence number is at or above every commit's.
LEMMA HighestTyped ==
    ASSUME NEW repo, Living(repo)
    PROVE  Highest(repo) \in Nat /\ \A h \in repo["commit"] : Top(h).seq <= Highest(repo)
<1> DEFINE S == {Top(h).seq : h \in repo["commit"]}
           f == [h \in repo["commit"] |-> Top(h).seq]
<1>1. repo["commit"] \subseteq Histories /\ IsFiniteSet(repo["commit"]) /\ repo["commit"] # {}
  BY DEF Living, Typed, Logged
<1>2. \A h \in repo["commit"] : Top(h).seq \in Nat
  BY <1>1, HistoryTyped
<1>3. S \in SUBSET Nat /\ S # {}
  BY <1>1, <1>2
<1>4. IsFiniteSet(S)
  <2>1. f \in Surjection(repo["commit"], S)
    BY DEF Surjection
  <2>2. QED
    BY <1>1, <2>1, FS_Surjection
<1>5. PICK n \in S : \A m \in S : m <= n
  <2> HIDE DEF S
  <2>1. QED
    BY <1>3, <1>4, GreatestOf
<1>6. \E k \in S : \A h \in repo["commit"] : Top(h).seq <= k
  BY <1>5
<1>7. Highest(repo) \in S /\ \A h \in repo["commit"] : Top(h).seq <= Highest(repo)
  BY <1>6 DEF Highest
<1>8. QED
  BY <1>3, <1>7

\* What a publication adds.
Brings(repo, new, h) ==
    /\ new = [t \in Tables |-> new[t]]
    /\ new["chunk"] = repo["chunk"] \cup ChunksOf(Top(h).state)
    /\ new["node"] = repo["node"] \cup NodesOf(Top(h).state)
    /\ new["root"] = repo["root"] \cup {Top(h).state}
    /\ \A t \in Logged : new[t] = repo[t] \cup {h}
    /\ new["branch"] = {q \in repo["branch"] : q[1] # Main} \cup {<<Main, h>>}
    /\ new["snapshot"] = repo["snapshot"]
    /\ h \in Histories /\ h # Genesis /\ Len(h) > 1
    /\ Parent(h) = HeadOf(repo) /\ Extends(h, HeadOf(repo))
    /\ Top(h).seq = Highest(repo) + 1

\* What a publication writes: one history on top of the head, with its rows.
LEMMA PublishedRows ==
    ASSUME NEW repo, Living(repo), NEW at \in {"source", "target"}, NEW new \in Published(repo, at)
    PROVE  \E h : Brings(repo, new, h)
<1> DEFINE head == HeadOf(repo)
           base == Top(head).state
           step(s) == [state |-> s, at |-> at, seq |-> Highest(repo) + 1]
<1>1. PICK s \in Changed(base) : new = Committed(repo, Append(head, step(s)))
  BY DEF Published
<1>2. head \in Histories
  BY HeadTyped
<1>3. s \in States
  <2>1. base \in States
    BY <1>2, HistoryTyped
  <2>2. QED
    BY <1>1, <2>1 DEF Changed, States
<1>4. step(s) \in Steps /\ step(s).state = s /\ step(s).seq = Highest(repo) + 1
  BY <1>3, HighestTyped DEF Steps
<1> HIDE DEF head, step, base
<1> DEFINE h == Append(head, step(s))
<1>5. /\ h \in Histories /\ Len(h) = Len(head) + 1 /\ Top(h) = step(s) /\ Parent(h) = head
      /\ Extends(h, head) /\ h # Genesis
  BY <1>2, <1>4, OnTop
<1>6. Len(h) > 1
  BY <1>2, <1>5, HistoryTyped
<1>7. Brings(repo, new, h)
  <2> HIDE DEF h
  <2>1. new = Committed(repo, h) /\ Top(h).state = s
    BY <1>1, <1>4, <1>5 DEF h
  <2>2. /\ new = [t \in Tables |-> new[t]]
        /\ new["chunk"] = repo["chunk"] \cup ChunksOf(s)
        /\ new["node"] = repo["node"] \cup NodesOf(s)
        /\ new["root"] = repo["root"] \cup {s}
        /\ \A t \in Logged : new[t] = repo[t] \cup {h}
        /\ new["branch"] = Upsert(repo["branch"], "branch", <<Main, h>>)
        /\ new["snapshot"] = repo["snapshot"]
    BY <2>1 DEF Committed, Tables, Logged
  <2>3. new["branch"] = {q \in repo["branch"] : q[1] # Main} \cup {<<Main, h>>}
    BY <2>2 DEF Upsert
  <2>4. QED
    BY <1>4, <1>5, <1>6, <2>1, <2>2, <2>3 DEF Brings, head
<1>8. QED
  BY <1>7

\* A publication keeps a repository living and covers what was there.
LEMMA PublishedLiving ==
    ASSUME NEW repo, Living(repo), NEW new, NEW h, Brings(repo, new, h)
    PROVE  Living(new) /\ \A t \in Tables : Covers(repo, new, t)
<1>1. /\ h \in Histories /\ Top(h).state \in States /\ Extends(h, HeadOf(repo))
      /\ new = [t \in Tables |-> new[t]]
      /\ new["chunk"] = repo["chunk"] \cup ChunksOf(Top(h).state)
      /\ new["node"] = repo["node"] \cup NodesOf(Top(h).state)
      /\ new["root"] = repo["root"] \cup {Top(h).state}
      /\ \A t \in Logged : new[t] = repo[t] \cup {h}
      /\ new["branch"] = {q \in repo["branch"] : q[1] # Main} \cup {<<Main, h>>}
      /\ new["snapshot"] = repo["snapshot"]
  BY HistoryTyped DEF Brings
<1>2. /\ repo["root"] \subseteq States
      /\ \A t \in Logged : repo[t] \subseteq Histories
      /\ \A t \in Named : repo[t] \subseteq {Main, "savepoint"} \X Histories
      /\ \A t \in Named : \A q, r \in repo[t] : q[1] = r[1] => q = r
  BY DEF Living, Typed, OneEach
<1>3. Typed(new)
  <2>1. new["branch"] \subseteq {Main, "savepoint"} \X Histories
    BY <1>1, <1>2 DEF Named
  <2>2. new["snapshot"] \subseteq {Main, "savepoint"} \X Histories
    BY <1>1, <1>2 DEF Named
  <2>3. \A t \in Logged : new[t] \subseteq Histories
    BY <1>1, <1>2
  <2>4. QED
    BY <1>1, <1>2, <2>1, <2>2, <2>3 DEF Typed, Named
<1>4. OneEach(new)
  <2>1. \A q, r \in new["branch"] : q[1] = r[1] => q = r
    BY <1>1, <1>2 DEF Named
  <2>2. \A q, r \in new["snapshot"] : q[1] = r[1] => q = r
    BY <1>1, <1>2 DEF Named
  <2>3. QED
    BY <2>1, <2>2 DEF OneEach, Named
<1>5. IsFiniteSet(new["commit"]) /\ new["commit"] # {}
  <2>1. new["commit"] = repo["commit"] \cup {h}
    BY <1>1 DEF Logged
  <2>2. QED
    BY <2>1, FS_AddElement DEF Living
<1>6. Living(new)
  <2>1. <<Main, h>> \in new["branch"]
    BY <1>1
  <2>2. QED
    BY <1>3, <1>4, <1>5, <2>1 DEF Living
<1>7. Covers(repo, new, "branch")
  <2>1. ASSUME NEW r \in repo["branch"] PROVE \E q \in new["branch"] : q[1] = r[1] /\ Extends(q[2], r[2])
    <3>1. CASE r[1] = Main
      <4>1. r[2] = HeadOf(repo)
        BY <3>1, HeadTyped
      <4>2. <<Main, h>> \in new["branch"] /\ <<Main, h>>[1] = r[1] /\ Extends(<<Main, h>>[2], r[2])
        BY <1>1, <3>1, <4>1
      <4>3. QED
        BY <4>2
    <3>2. CASE r[1] # Main
      <4>1. r[2] \in Histories
        BY <1>2 DEF Named
      <4>2. r \in new["branch"]
        BY <1>1, <3>2
      <4>3. QED
        BY <4>1, <4>2, ExtendsReflexive
    <3>3. QED
      BY <3>1, <3>2
  <2>2. QED
    BY <2>1 DEF Covers, Named
<1>8. Covers(repo, new, "snapshot")
  BY <1>1, CoversItself DEF Covers, Named, Living, Tables
<1>9. \A t \in Tables \ Named : Covers(repo, new, t)
  BY <1>1 DEF Covers, Tables, Named, Logged
<1>10. QED
  BY <1>6, <1>7, <1>8, <1>9 DEF Named, Tables

\* A publication leaves rows a source may hold, if they were before.
LEMMA PublishedFromSource ==
    ASSUME NEW repo, Living(repo), FromSource(repo), Whole(repo),
           NEW new, NEW h, Brings(repo, new, h)
    PROVE  FromSource(new)
<1>1. Living(new)
  BY PublishedLiving
<1>2. h \in Histories
  BY DEF Brings
<1>3. HeadOf(repo) \in repo["commit"]
  BY HeadTyped, WholeTables DEF Named
<1>4. Ascends(h)
  <2>1. /\ Parent(h) = HeadOf(repo) /\ Len(h) > 1 /\ Top(h).seq = Highest(repo) + 1
        /\ Highest(repo) \in Nat /\ Top(HeadOf(repo)).seq <= Highest(repo)
    BY <1>3, HighestTyped DEF Brings
  <2>2. Top(HeadOf(repo)).seq \in Nat
    BY HeadTyped, HistoryTyped
  <2>3. QED
    BY <2>1, <2>2 DEF Ascends
<1>5. QED
  BY <1>1, <1>2, <1>4 DEF FromSource, Living, Brings, Logged

\* A publication names nothing that is missing.
LEMMA PublishedWhole ==
    ASSUME NEW repo, Living(repo), Whole(repo), NEW new, NEW h, Brings(repo, new, h)
    PROVE  Whole(new)
<1>1. /\ \A t \in {"chunk", "node", "root", "commit", "span"} : repo[t] \subseteq new[t]
      /\ h \in new["commit"] /\ h \in new["span"]
      /\ new["root"] = repo["root"] \cup {Top(h).state}
      /\ NodesOf(Top(h).state) \subseteq new["node"]
      /\ ChunksOf(Top(h).state) \subseteq new["chunk"]
      /\ new["commit"] = repo["commit"] \cup {h}
      /\ new["mutation"] = repo["mutation"] \cup {h}
      /\ new["branch"] = {q \in repo["branch"] : q[1] # Main} \cup {<<Main, h>>}
      /\ new["snapshot"] = repo["snapshot"]
      /\ Parent(h) = HeadOf(repo)
  BY DEF Brings, Logged
<1>2. \A s : StateWhole(repo, s) => StateWhole(new, s)
  BY <1>1 DEF StateWhole
<1>3. StateWhole(new, Top(h).state)
  BY <1>1 DEF StateWhole
<1>4. HeadOf(repo) \in repo["commit"]
  BY HeadTyped, WholeTables DEF Named
<1>5. \A s \in new["root"] : StateWhole(new, s)
  BY <1>1, <1>2, <1>3, WholeTables
<1>6. \A g \in new["commit"] : /\ StateWhole(new, Top(g).state)
                               /\ g # Genesis => g \in new["span"] /\ Parent(g) \in new["commit"]
  <2>1. ASSUME NEW g \in repo["commit"]
        PROVE  /\ StateWhole(new, Top(g).state)
               /\ g # Genesis => g \in new["span"] /\ Parent(g) \in new["commit"]
    BY <1>1, <1>2, WholeTables
  <2>2. QED
    BY <1>1, <1>3, <1>4, <2>1
<1>7. \A g \in new["mutation"] : g \in new["commit"]
  BY <1>1, WholeTables
<1>8. \A t \in Named : \A r \in new[t] : r[2] \in new["commit"]
  <2>1. \A r \in new["branch"] : r[2] \in new["commit"]
    BY <1>1, WholeTables DEF Named
  <2>2. \A r \in new["snapshot"] : r[2] \in new["commit"]
    BY <1>1, WholeTables DEF Named
  <2>3. QED
    BY <2>1, <2>2 DEF Named
<1>9. QED
  BY <1>5, <1>6, <1>7, <1>8, WholeTables

\* The content that a publication adds is that of its root.
LEMMA PublishedAnchored ==
    ASSUME NEW repo, NEW new, NEW h, Brings(repo, new, h),
           NEW rows, NEW roots, NEW nodes, Anchored(rows, roots, nodes),
           roots = repo["root"], nodes = repo["node"]
    PROVE  /\ Anchored(rows, new["root"], new["node"])
           /\ rows = repo => Anchored(new, new["root"], new["node"])
<1> DEFINE s == Top(h).state
<1>1. /\ new["chunk"] = repo["chunk"] \cup ChunksOf(s) /\ new["node"] = repo["node"] \cup NodesOf(s)
      /\ new["root"] = repo["root"] \cup {s}
  BY DEF Brings
<1> HIDE DEF s
<1>2. Anchored(rows, new["root"], new["node"])
  BY <1>1 DEF Anchored
<1>3. ASSUME rows = repo, NEW t \in Content, NEW r \in new[t]
      PROVE  \E q \in new["root"] : r \in RowsOf(t, q) /\ NodesOf(q) \subseteq new["node"]
  <2>1. new[t] = repo[t] \cup RowsOf(t, s)
    BY <1>1 DEF Content, RowsOf
  <2>2. CASE r \in repo[t]
    BY <1>2, <1>3, <2>2 DEF Anchored
  <2>3. CASE r \in RowsOf(t, s)
    BY <1>1, <2>3
  <2>4. QED
    BY <2>1, <2>2, <2>3
<1>4. QED
  BY <1>2, <1>3 DEF Anchored

\* A new repository has the genesis and nothing else.
LEMMA NewRepositoryRows ==
    /\ Living(NewRepository) /\ FromSource(NewRepository) /\ Whole(NewRepository)
    /\ Anchored(NewRepository, NewRepository["root"], NewRepository["node"])
<1> DEFINE repo == NewRepository
<1>1. /\ repo = [t \in Tables |-> repo[t]]
      /\ repo["chunk"] = {} /\ repo["snapshot"] = {} /\ repo["span"] = {} /\ repo["mutation"] = {}
      /\ repo["node"] = NodesOf(EmptyState) /\ repo["root"] = {EmptyState}
      /\ repo["commit"] = {Genesis} /\ repo["branch"] = {<<Main, Genesis>>}
  BY DEF NewRepository, NoRows, Tables
<1> HIDE DEF repo
<1>2. Typed(repo)
  <2>1. \A t \in Logged : repo[t] \subseteq Histories
    BY <1>1, GenesisTyped DEF Logged
  <2>2. \A t \in Named : repo[t] \subseteq {Main, "savepoint"} \X Histories
    BY <1>1, GenesisTyped DEF Named
  <2>3. QED
    BY <1>1, <2>1, <2>2, GenesisTyped DEF Typed
<1>3. OneEach(repo)
  BY <1>1 DEF OneEach, Named
<1>4. Living(repo)
  <2>1. IsFiniteSet(repo["commit"])
    BY <1>1, FS_Singleton
  <2>2. <<Main, Genesis>> \in repo["branch"] /\ <<Main, Genesis>>[1] = Main
    BY <1>1
  <2>3. repo["commit"] # {}
    BY <1>1
  <2>4. QED
    BY <1>2, <1>3, <2>1, <2>2, <2>3 DEF Living
<1>5. FromSource(repo)
  BY <1>1, <1>2, <1>3 DEF FromSource, Ascends
<1>6. Whole(repo)
  <2>1. StateWhole(repo, EmptyState)
    BY <1>1 DEF StateWhole, ChunksOf, Present, EmptyState
  <2>2. /\ \A s \in repo["root"] : StateWhole(repo, s)
        /\ \A h \in repo["commit"] : StateWhole(repo, Top(h).state) /\ h = Genesis
        /\ \A h \in repo["mutation"] : h \in repo["commit"]
    BY <1>1, <2>1, GenesisTyped
  <2>3. \A t \in Named : \A r \in repo[t] : r[2] \in repo["commit"]
    BY <1>1 DEF Named
  <2>4. QED
    BY <2>2, <2>3, WholeTables
<1>7. Anchored(repo, repo["root"], repo["node"])
  BY <1>1 DEF Anchored, Content, RowsOf
<1>8. QED
  BY <1>4, <1>5, <1>6, <1>7 DEF repo

\* The empty tables are rows a source may hold.
LEMMA NoRowsFromSource ==
    FromSource(NoRows) /\ \A t \in Tables : NoRows[t] = {}
<1>1. \A t \in Tables : NoRows[t] = {}
  BY DEF NoRows
<1>2. QED
  BY <1>1 DEF FromSource, Typed, OneEach, Tables, Logged, Named, NoRows

--------------------------------------------------------------------------------
(* Rows that an import brings *)

\* What a row names is still there among more rows.
LEMMA ResolvesInMore ==
    ASSUME NEW repo, NEW new, \A t \in Tables \ Named : repo[t] \subseteq new[t],
           NEW t \in Tables, NEW r, Resolves(repo, t, r)
    PROVE  Resolves(new, t, r)
<1>1. \A s : StateWhole(repo, s) => StateWhole(new, s)
  BY DEF StateWhole, Tables, Named
<1>2. repo["span"] \subseteq new["span"] /\ repo["commit"] \subseteq new["commit"]
  BY DEF Tables, Named
<1>3. QED
  BY <1>1, <1>2 DEF Resolves, Tables

\* The row r of table t is written, over one of its name.
Writes(repo, new, t, r) ==
    /\ new = [u \in Tables |-> new[u]]
    /\ \A u \in Tables : u # t => new[u] = repo[u]
    /\ t \notin Named => new[t] = repo[t] \cup {r}
    /\ t \in Named => new[t] = {q \in repo[t] : q[1] # r[1]} \cup {r}

\* What an upsert changes: one table, one row.
LEMMA WrittenRows ==
    ASSUME NEW repo, Typed(repo), NEW t \in Tables, NEW r
    PROVE  Writes(repo, [repo EXCEPT ![t] = Upsert(@, t, r)], t, r)
<1>1. repo = [u \in Tables |-> repo[u]]
  BY DEF Typed
<1>2. QED
  BY <1>1 DEF Writes, Upsert, Named

\* A row of table t.
RowOK(t, r) ==
    /\ t = "root" => r \in States
    /\ t \in Logged => r \in Histories
    /\ t \in Named => r \in {Main, "savepoint"} \X Histories

\* The rows of a typed set are well formed.
LEMMA RowsOK ==
    ASSUME NEW rows, Typed(rows), NEW t \in Tables, NEW r \in rows[t]
    PROVE  RowOK(t, r)
BY DEF RowOK, Typed

\* An upsert of a well-formed row keeps a repository living.
LEMMA WrittenLiving ==
    ASSUME NEW repo, Living(repo), NEW t \in Tables, NEW r, RowOK(t, r),
           NEW new, Writes(repo, new, t, r)
    PROVE  Living(new)
<1>1. /\ new = [u \in Tables |-> new[u]]
      /\ \A u \in Tables : u # t => new[u] = repo[u]
      /\ t \notin Named => new[t] = repo[t] \cup {r}
      /\ t \in Named => new[t] = {q \in repo[t] : q[1] # r[1]} \cup {r}
  BY DEF Writes
<1>2. /\ repo["root"] \subseteq States
      /\ \A u \in Logged : repo[u] \subseteq Histories
      /\ \A u \in Named : repo[u] \subseteq {Main, "savepoint"} \X Histories
      /\ \A u \in Named : \A p, q \in repo[u] : p[1] = q[1] => p = q
  BY DEF Living, Typed, OneEach
<1>3. /\ t = "root" => r \in States
      /\ t \in Logged => r \in Histories
      /\ t \in Named => r \in {Main, "savepoint"} \X Histories
  BY DEF RowOK
<1>4. Typed(new)
  <2>1. new["root"] \subseteq States
    BY <1>1, <1>2, <1>3 DEF Tables, Named
  <2>2. \A u \in Logged : new[u] \subseteq Histories
    BY <1>1, <1>2, <1>3 DEF Tables, Named, Logged
  <2>3. \A u \in Named : new[u] \subseteq {Main, "savepoint"} \X Histories
    <3>1. ASSUME NEW u \in Named PROVE new[u] \subseteq repo[u] \cup IF u = t THEN {r} ELSE {}
      BY <1>1 DEF Tables, Named
    <3>2. QED
      BY <1>2, <1>3, <3>1
  <2>4. QED
    BY <1>1, <2>1, <2>2, <2>3 DEF Typed
<1>5. OneEach(new)
  <2> SUFFICES ASSUME NEW u \in Named, NEW p \in new[u], NEW q \in new[u], p[1] = q[1] PROVE p = q
    BY DEF OneEach
  <2>1. u \in Tables
    BY DEF Tables, Named
  <2>2. CASE u # t
    BY <1>1, <1>2, <2>1, <2>2
  <2>3. CASE u = t
    BY <1>1, <1>2, <2>1, <2>3
  <2>4. QED
    BY <2>2, <2>3
<1>6. \E q \in new["branch"] : q[1] = Main
  <2>1. PICK q \in repo["branch"] : q[1] = Main
    BY DEF Living
  <2>2. CASE t # "branch"
    BY <1>1, <2>1, <2>2 DEF Tables
  <2>3. CASE t = "branch"
    BY <1>1, <2>1, <2>3 DEF Named
  <2>4. QED
    BY <2>2, <2>3
<1>7. IsFiniteSet(new["commit"]) /\ new["commit"] # {}
  <2>1. IsFiniteSet(repo["commit"]) /\ repo["commit"] # {}
    BY DEF Living
  <2>2. CASE t # "commit"
    BY <1>1, <2>1, <2>2 DEF Tables
  <2>3. CASE t = "commit"
    BY <1>1, <2>1, <2>3, FS_AddElement DEF Named
  <2>4. QED
    BY <2>2, <2>3
<1>8. QED
  BY <1>4, <1>5, <1>6, <1>7 DEF Living

\* A row more is brought, and none of those before it is lost: an archive has one row
\* of each name.
LEMMA WrittenCovers ==
    ASSUME NEW repo, Typed(repo), NEW rows, Typed(rows), OneEach(rows),
           NEW some, \A u \in Tables \ Content : some[u] \subseteq rows[u] /\ Covers(some, repo, u),
           NEW t \in Tables, NEW r \in rows[t], r \notin some[t],
           NEW new, Writes(repo, new, t, r),
           NEW more, \A u \in Tables : more[u] = some[u] \cup IF u = t THEN {r} ELSE {}
    PROVE  \A u \in Tables \ Content : Covers(more, new, u)
<1>1. /\ \A u \in Tables : u # t => new[u] = repo[u]
      /\ t \notin Named => new[t] = repo[t] \cup {r}
      /\ t \in Named => new[t] = {q \in repo[t] : q[1] # r[1]} \cup {r}
  BY DEF Writes
<1>2. ASSUME NEW u \in Tables \ Content, u \notin Named PROVE Covers(more, new, u)
  <2>1. some[u] \subseteq repo[u]
    BY <1>2 DEF Covers
  <2>2. more[u] \subseteq new[u]
    BY <1>1, <1>2, <2>1
  <2>3. QED
    BY <1>2, <2>2 DEF Covers
<1>3. ASSUME NEW u \in Tables \ Content, u \in Named PROVE Covers(more, new, u)
  <2> SUFFICES ASSUME NEW p \in more[u]
               PROVE  \E q \in new[u] : q[1] = p[1] /\ Extends(q[2], p[2])
    BY <1>3 DEF Covers
  <2>1. CASE p \in some[u]
    <3>1. PICK q \in repo[u] : q[1] = p[1] /\ Extends(q[2], p[2])
      BY <1>3, <2>1 DEF Covers
    <3>2. u = t => p[1] # r[1]
      BY <1>3, <2>1 DEF OneEach
    <3>3. q \in new[u]
      BY <1>1, <1>3, <3>1, <3>2
    <3>4. QED
      BY <3>1, <3>3
  <2>2. CASE p \notin some[u]
    <3>1. u = t /\ p = r
      BY <2>2
    <3>2. r \in new[t] /\ r[2] \in Histories
      BY <1>1, <1>3, <3>1 DEF Typed
    <3>3. Extends(r[2], r[2])
      BY <3>2, ExtendsReflexive
    <3>4. QED
      BY <3>1, <3>2, <3>3
  <2>3. QED
    BY <2>1, <2>2
<1>4. QED
  BY <1>2, <1>3

\* An upsert of a row whose references resolve leaves no dangling reference.
LEMMA WrittenWhole ==
    ASSUME NEW repo, Typed(repo), Whole(repo), NEW t \in Tables, NEW r,
           NEW new, Writes(repo, new, t, r), Resolves(new, t, r)
    PROVE  Whole(new)
<1>1. /\ \A u \in Tables : u # t => new[u] = repo[u]
      /\ t \notin Named => new[t] = repo[t] \cup {r}
      /\ t \in Named => new[t] = {q \in repo[t] : q[1] # r[1]} \cup {r}
  BY DEF Writes
<1>2. \A u \in Tables \ Named : repo[u] \subseteq new[u]
  BY <1>1
<1>3. ASSUME NEW u \in Tables, NEW x \in new[u] PROVE Resolves(new, u, x)
  <2>1. x \in repo[u] \/ (u = t /\ x = r)
    BY <1>1, <1>3
  <2>2. x \in repo[u] => Resolves(repo, u, x)
    BY DEF Whole
  <2>3. QED
    BY <1>2, <2>1, <2>2, ResolvesInMore
<1>4. QED
  BY <1>3 DEF Whole

--------------------------------------------------------------------------------
(* The source and the export *)

\* Steps of the source do not disturb an import.
LEMMA ImportUnmoved ==
    ASSUME ImportInv, UNCHANGED <<import, target>>
    PROVE  ImportInv'
BY DEF ImportInv, InOrder, Brought

\* Steps of the target do not disturb an export.
LEMMA ExportUnmoved ==
    ASSUME UNCHANGED <<source, reading, file>>
    PROVE  /\ (ExportInv => ExportInv') /\ (ExportExact => ExportExact')
           /\ import'.archive = import.archive \/ (import'.archive = file /\ file.ended)
                => (AnchorInv => AnchorInv')
BY DEF ExportInv, ExportExact, ReadTables, AnchorInv

\* With less to keep, a collection that goes on or ends keeps it.
LEMMA ClaimsShrink ==
    ASSUME CollectInv, \A t \in Content : Claimed(t)' \subseteq Claimed(t),
           UNCHANGED <<target, old, exposed>>, sweep' = sweep \/ sweep' = Idle,
           import'.phase = "rows" => \/ import.phase = "rows" /\ Brought' = Brought
                                     \/ \A t \in Tables : Brought'[t] = {}
    PROVE  CollectInv'
<1> SUFFICES ASSUME exposed' = {}
             PROVE  /\ \A t \in Content :
                        /\ Claimed(t)' \subseteq target'[t]
                        /\ import'.phase = "rows" => Brought'[t] \cap old'[t] = {}
                        /\ sweep'.phase = t => sweep'.doomed \cap Claimed(t)' = {}
                        /\ sweep'.phase = "roots" => \A r \in Claimed(t)' \cap old'[t] :
                            \E s \in sweep'.roots : r \in RowsOf(t, s) /\ NodesOf(s) \subseteq target'["node"]
                    /\ sweep'.phase = "node" => Claimed("chunk")' \cap old'["chunk"] \subseteq sweep'.reached
  BY DEF CollectInv
<1>1. exposed = {} /\ "chunk" \in Content /\ Content \subseteq Tables
  BY DEF Content, Tables
<1>2. sweep'.phase \in {"roots", "node", "chunk"} => sweep' = sweep
  BY DEF Idle
<1>3. ASSUME NEW t \in Content
      PROVE  /\ Claimed(t)' \subseteq target'[t]
             /\ import'.phase = "rows" => Brought'[t] \cap old'[t] = {}
             /\ sweep'.phase = t => sweep'.doomed \cap Claimed(t)' = {}
             /\ sweep'.phase = "roots" => \A r \in Claimed(t)' \cap old'[t] :
                    \E s \in sweep'.roots : r \in RowsOf(t, s) /\ NodesOf(s) \subseteq target'["node"]
  <2>1. Claimed(t)' \subseteq Claimed(t) /\ t \in Tables /\ t \in {"node", "chunk"}
    BY <1>1 DEF Content
  <2>2. /\ Claimed(t) \subseteq target[t]
        /\ import.phase = "rows" => Brought[t] \cap old[t] = {}
        /\ sweep.phase = t => sweep.doomed \cap Claimed(t) = {}
        /\ sweep.phase = "roots" => \A r \in Claimed(t) \cap old[t] :
            \E s \in sweep.roots : r \in RowsOf(t, s) /\ NodesOf(s) \subseteq target["node"]
    BY <1>1 DEF CollectInv
  <2>3. import'.phase = "rows" => Brought'[t] \cap old'[t] = {}
    BY <2>1, <2>2
  <2>4. QED
    BY <1>2, <2>1, <2>2, <2>3
<1>4. sweep'.phase = "node" => Claimed("chunk")' \cap old'["chunk"] \subseteq sweep'.reached
  BY <1>1, <1>2 DEF CollectInv
<1>5. QED
  BY <1>3, <1>4

\* Steps of the source leave a collection nothing more to keep.
LEMMA ClaimsUnmoved ==
    ASSUME CollectInv, UNCHANGED <<target, import, old, sweep, exposed>>, racing' = 0 => racing = 0
    PROVE  CollectInv'
<1>1. Brought' = Brought
  BY DEF Brought
<1>2. \A t \in Content : Claimed(t)' \subseteq Claimed(t)
  BY <1>1 DEF Claimed
<1>3. QED
  BY <1>1, <1>2, ClaimsShrink

\* A publication of the source, also between two tables of an export.
LEMMA SourcePublishes ==
    ASSUME ArchiveInv, SourcePublish
    PROVE  ArchiveInv'
<1>1. /\ source' \in Published(source, "source")
      /\ racing' = IF reading # 0 THEN racing + 1 ELSE racing
      /\ UNCHANGED <<target, reading, file, import, old, sweep, exposed>>
  BY DEF SourcePublish
<1>2. Living(source) /\ FromSource(source) /\ Whole(source)
  BY DEF ArchiveInv, ArchiveTypeOK
<1>3. PICK h : Brings(source, source', h)
  BY <1>1, <1>2, PublishedRows
<1>4. /\ Living(source') /\ FromSource(source') /\ Whole(source')
      /\ \A t \in Tables : Covers(source, source', t)
  BY <1>2, <1>3, PublishedLiving, PublishedFromSource, PublishedWhole
<1>5. ArchiveTypeOK'
  BY <1>1, <1>4 DEF ArchiveInv, ArchiveTypeOK
<1>6. ExportInv'
  <2>1. Typed(file.since) /\ Typed(source) /\ Typed(source')
    BY <1>2, <1>4 DEF ArchiveInv, ArchiveTypeOK, FromSource
  <2>2. reading # 0 => \A t \in Tables : Covers(file.since, source', t)
    BY <1>4, <2>1, CoversTransitive DEF ArchiveInv, ExportInv
  <2>3. QED
    BY <1>1, <2>2 DEF ArchiveInv, ExportInv, ReadTables
<1>7. ImportInv'
  BY <1>1, ImportUnmoved DEF ArchiveInv
<1>8. ReferencesInv'
  <2>1. SUFFICES ASSUME racing' = 0
                 PROVE  ExportExact' /\ Whole(import.archive.rows)' /\ (exposed = {} => Whole(target))'
    BY DEF ReferencesInv
  <2>2. reading = 0 /\ racing = 0
    BY <1>1, <2>1 DEF ArchiveInv, ArchiveTypeOK
  <2>3. QED
    BY <1>1, <2>2 DEF ArchiveInv, ReferencesInv, ExportExact
<1>9. AnchorInv'
  <2> DEFINE X == IF reading > 3 THEN file.rows["root"] ELSE source["root"]
             Y == IF reading > 2 THEN file.rows["node"] ELSE source["node"]
  <2>1. Anchored(source, source["root"], source["node"]) /\ (reading # 0 => Anchored(file.rows, X, Y))
    BY DEF ArchiveInv, AnchorInv
  <2>2. source["root"] \subseteq source'["root"] /\ source["node"] \subseteq source'["node"]
    BY <1>3 DEF Brings
  <2>3. X \subseteq X' /\ Y \subseteq Y'
    BY <1>1, <2>2
  <2> HIDE DEF X, Y
  <2>4. reading # 0 => Anchored(file.rows, X', Y')
    BY <2>1, <2>3 DEF Anchored
  <2>5. Anchored(source', source'["root"], source'["node"])
    BY <1>3, <2>1, PublishedAnchored
  <2>6. QED
    BY <1>1, <2>4, <2>5 DEF ArchiveInv, AnchorInv, X, Y
<1>10. CollectInv'
  <2>1. racing' = 0 => racing = 0
    BY <1>1 DEF ArchiveInv, ArchiveTypeOK
  <2>2. QED
    BY <1>1, <2>1, ClaimsUnmoved DEF ArchiveInv
<1>11. QED
  BY <1>4, <1>5, <1>6, <1>7, <1>8, <1>9, <1>10 DEF ArchiveInv

\* A snapshot taken in the source.
LEMMA SavepointTaken ==
    ASSUME ArchiveInv, Savepoint
    PROVE  ArchiveInv'
<1> DEFINE r == <<"savepoint", HeadOf(source)>>
<1>1. /\ source["snapshot"] = {}
      /\ source' = [source EXCEPT !["snapshot"] = {r}]
      /\ UNCHANGED <<target, reading, file, import, old, sweep, exposed, racing>>
  BY DEF Savepoint, counters
<1>2. Living(source) /\ FromSource(source) /\ Whole(source)
  BY DEF ArchiveInv, ArchiveTypeOK
<1>3. RowOK("snapshot", r) /\ r[2] \in source["commit"]
  <2>1. HeadOf(source) \in Histories /\ HeadOf(source) \in source["commit"]
    BY <1>2, HeadTyped, WholeTables DEF Named
  <2>2. QED
    BY <2>1 DEF RowOK, Named, Logged
<1> HIDE DEF r
<1>4. source = [u \in Tables |-> source[u]]
  BY <1>2 DEF Living, Typed
<1>5. /\ source' = [u \in Tables |-> source'[u]] /\ source'["snapshot"] = {r}
      /\ \A u \in Tables : u # "snapshot" => source'[u] = source[u]
  BY <1>1, <1>4 DEF Tables
<1>6. Writes(source, source', "snapshot", r)
  BY <1>1, <1>5 DEF Writes, Named
<1>7. Living(source') /\ Whole(source')
  <2>1. Resolves(source', "snapshot", r)
    BY <1>3, <1>5 DEF Resolves, Tables
  <2>2. "snapshot" \in Tables /\ Typed(source)
    BY <1>2 DEF Tables, Living
  <2>3. QED
    BY <1>2, <1>3, <1>6, <2>1, <2>2, WrittenLiving, WrittenWhole
<1>8. FromSource(source')
  BY <1>2, <1>5, <1>7 DEF FromSource, Living, Tables
<1>9. ArchiveTypeOK'
  BY <1>1, <1>7, <1>8 DEF ArchiveInv, ArchiveTypeOK
<1>10. ExportInv'
  <2>1. ASSUME reading # 0, NEW t \in Tables PROVE Covers(file.since, source', t)
    <3>1. Covers(file.since, source, t)
      BY <2>1 DEF ArchiveInv, ExportInv
    <3>2. CASE t = "snapshot"
      <4>1. file.since[t] = {}
        BY <1>1, <3>1, <3>2 DEF Covers, Named
      <4>2. QED
        BY <3>2, <4>1 DEF Covers, Named
    <3>3. CASE t # "snapshot"
      BY <1>5, <3>1, <3>3 DEF Covers
    <3>4. QED
      BY <3>2, <3>3
  <2>2. QED
    BY <1>1, <2>1 DEF ArchiveInv, ExportInv, ReadTables
<1>11. ImportInv'
  BY <1>1, ImportUnmoved DEF ArchiveInv
<1>12. ReferencesInv'
  BY <1>1, <1>5 DEF ArchiveInv, ReferencesInv, ExportExact, ReadTables
<1>13. AnchorInv' /\ CollectInv'
  <2>1. \A u \in {"chunk", "node", "root"} : source'[u] = source[u]
    BY <1>5 DEF Tables
  <2>2. AnchorInv'
    BY <1>1, <2>1 DEF ArchiveInv, AnchorInv, Anchored, Content
  <2>3. QED
    BY <1>1, <2>2, ClaimsUnmoved DEF ArchiveInv
<1>14. QED
  BY <1>7, <1>9, <1>10, <1>11, <1>12, <1>13 DEF ArchiveInv

\* An export begins.
LEMMA ExportStarts ==
    ASSUME ArchiveInv, ExportStart
    PROVE  ArchiveInv'
<1>1. /\ reading' = 1 /\ file' = [rows |-> NoRows, ended |-> FALSE, since |-> source]
      /\ UNCHANGED <<source, target, import, old, sweep, exposed, racing>>
  BY DEF ExportStart
<1>2. /\ file'.rows = NoRows /\ file'.ended = FALSE /\ file'.since = source
      /\ file' = [rows |-> file'.rows, ended |-> file'.ended, since |-> file'.since]
  BY <1>1
<1>3. ReadTables' = {}
  BY <1>1, <1>2 DEF ReadTables
<1>4. ArchiveTypeOK'
  BY <1>1, <1>2, NoRowsFromSource DEF ArchiveInv, ArchiveTypeOK, ExportOrder
<1>5. ExportInv'
  <2>1. \A t \in Tables : Covers(source, source, t)
    BY CoversItself DEF ArchiveInv, ArchiveTypeOK, Living
  <2>2. QED
    BY <1>1, <1>2, <1>3, <2>1 DEF ExportInv
<1>6. ImportInv'
  BY <1>1, ImportUnmoved DEF ArchiveInv
<1>7. ReferencesInv'
  BY <1>1, <1>2, <1>3 DEF ArchiveInv, ReferencesInv, ExportExact
<1>8. AnchorInv' /\ CollectInv'
  <2>1. \A u \in Content : NoRows[u] = {}
    BY NoRowsFromSource DEF Content, Tables
  <2>2. AnchorInv'
    BY <1>1, <1>2, <2>1 DEF ArchiveInv, AnchorInv, Anchored
  <2>3. QED
    BY <1>1, <2>2, ClaimsUnmoved DEF ArchiveInv
<1>9. QED
  BY <1>1, <1>4, <1>5, <1>6, <1>7, <1>8 DEF ArchiveInv

\* The tables in the order of the queries, each of them once.
LEMMA ExportOrderTables ==
    /\ Len(ExportOrder) = 8 /\ DOMAIN ExportOrder = 1..8
    /\ \A i \in 1..8 : /\ ExportOrder[i] \in Tables
                      /\ (ExportOrder[i] = "chunk" <=> i = 1)
                      /\ (ExportOrder[i] = "node" <=> i = 2)
                      /\ (ExportOrder[i] = "root" <=> i = 3)
    /\ \A t \in Tables : \E i \in 1..8 : ExportOrder[i] = t
<1>1. /\ ExportOrder[1] = "chunk" /\ ExportOrder[2] = "node" /\ ExportOrder[3] = "root"
      /\ ExportOrder[4] = "commit" /\ ExportOrder[5] = "branch" /\ ExportOrder[6] = "snapshot"
      /\ ExportOrder[7] = "span" /\ ExportOrder[8] = "mutation"
      /\ Len(ExportOrder) = 8 /\ DOMAIN ExportOrder = 1..8
  BY DEF ExportOrder
<1>2. \A i \in 1..8 : i \in {1, 2, 3, 4, 5, 6, 7, 8}
  OBVIOUS
<1>3. \A i \in 1..8 : /\ ExportOrder[i] \in Tables
                      /\ (ExportOrder[i] = "chunk" <=> i = 1)
                      /\ (ExportOrder[i] = "node" <=> i = 2)
                      /\ (ExportOrder[i] = "root" <=> i = 3)
  BY <1>1, <1>2 DEF Tables
<1>4. \A t \in Tables : \E i \in 1..8 : ExportOrder[i] = t
  BY <1>1 DEF Tables
<1>5. QED
  BY <1>1, <1>3, <1>4

\* An export reads one table.
LEMMA ExportsTable ==
    ASSUME ArchiveInv, ExportTable
    PROVE  ArchiveInv'
<1> DEFINE t == ExportOrder[reading]
<1>1. /\ reading \in 1..8 /\ t \in Tables /\ reading' = reading + 1
      /\ file' = [file EXCEPT !.rows[t] = source[t]]
      /\ UNCHANGED <<source, target, import, old, sweep, exposed, racing>>
  BY ExportOrderTables DEF ExportTable, counters
<1>2. ReadTables' \subseteq ReadTables \cup {t} /\ ReadTables \subseteq Tables
  <2>1. ~file.ended /\ file'.ended = file.ended
    BY <1>1 DEF ArchiveInv, ExportInv, ArchiveTypeOK
  <2>2. \A i \in 1..(reading' - 1) : i \in 1..(reading - 1) \/ i = reading
    BY <1>1
  <2>3. QED
    BY <2>1, <2>2 DEF ReadTables
<1> HIDE DEF t
<1>3. /\ file = [rows |-> file.rows, ended |-> file.ended, since |-> file.since]
      /\ FromSource(file.rows) /\ FromSource(source) /\ FromSource(file.since)
      /\ Living(source) /\ Whole(source)
  BY DEF ArchiveInv, ArchiveTypeOK
<1>4. file.rows = [u \in Tables |-> file.rows[u]]
  BY <1>3 DEF FromSource, Typed
<1>5. /\ file' = [rows |-> file'.rows, ended |-> file'.ended, since |-> file'.since]
      /\ file'.ended = file.ended /\ file'.since = file.since
      /\ file'.rows = [file.rows EXCEPT ![t] = source[t]]
  BY <1>1, <1>3
<1>6. /\ file'.rows = [u \in Tables |-> file'.rows[u]]
      /\ \A u \in Tables : file'.rows[u] = IF u = t THEN source[u] ELSE file.rows[u]
  BY <1>1, <1>4, <1>5
<1>7. FromSource(file'.rows)
  <2>1. /\ \A u \in Tables : file'.rows[u] = source[u] \/ file'.rows[u] = file.rows[u]
        /\ "chunk" \in Tables /\ "commit" \in Tables /\ "root" \in Tables
        /\ Logged \subseteq Tables /\ Named \subseteq Tables
    BY <1>6 DEF Tables, Logged, Named
  <2>2. Typed(file'.rows)
    <3>1. \A u \in Named : file'.rows[u] \subseteq {Main, "savepoint"} \X Histories
      BY <1>3, <2>1 DEF FromSource, Typed
    <3>2. \A u \in Logged : file'.rows[u] \subseteq Histories
      BY <1>3, <2>1 DEF FromSource, Typed
    <3>3. file'.rows["root"] \subseteq States
      BY <1>3, <2>1 DEF FromSource, Typed
    <3>4. QED
      BY <1>6, <3>1, <3>2, <3>3 DEF Typed
  <2>3. OneEach(file'.rows)
    BY <1>3, <2>1 DEF FromSource, OneEach
  <2>4. \A h \in file'.rows["commit"] : Ascends(h)
    BY <1>3, <2>1 DEF FromSource
  <2>5. QED
    BY <2>2, <2>3, <2>4 DEF FromSource
<1>8. ArchiveTypeOK'
  BY <1>1, <1>5, <1>7, ExportOrderTables DEF ArchiveInv, ArchiveTypeOK
<1>9. ExportInv'
  <2>1. ~file'.ended /\ \A u \in Tables : Covers(file'.since, source, u)
    BY <1>1, <1>5 DEF ArchiveInv, ExportInv
  <2>2. \A u \in ReadTables' : Covers(file'.since, file'.rows, u)
    <3> SUFFICES ASSUME NEW u \in ReadTables' PROVE Covers(file'.since, file'.rows, u)
      OBVIOUS
    <3>1. CASE u = t
      <4>1. file'.rows[u] = source[u] /\ Covers(file'.since, source, u)
        BY <1>1, <1>6, <2>1, <3>1
      <4>2. QED
        BY <4>1 DEF Covers
    <3>2. CASE u # t
      <4>1. u \in ReadTables /\ u \in Tables
        BY <1>2, <3>2
      <4>2. file'.rows[u] = file.rows[u] /\ Covers(file.since, file.rows, u)
        BY <1>6, <3>2, <4>1 DEF ArchiveInv, ExportInv
      <4>3. QED
        BY <1>5, <4>2 DEF Covers
    <3>3. QED
      BY <3>1, <3>2
  <2>3. QED
    BY <1>1, <2>1, <2>2 DEF ExportInv
<1>10. ImportInv'
  BY <1>1, ImportUnmoved DEF ArchiveInv
<1>11. ReferencesInv'
  <2>1. SUFFICES ASSUME racing' = 0
                 PROVE  ExportExact' /\ Whole(import.archive.rows)' /\ (exposed = {} => Whole(target))'
    BY DEF ReferencesInv
  <2>2. ExportExact /\ Whole(import.archive.rows) /\ (exposed = {} => Whole(target))
    BY <1>1, <2>1 DEF ArchiveInv, ReferencesInv
  <2>3. /\ Whole(file.since) /\ \A u \in Tables \ {"snapshot"} : source[u] = file.since[u]
        /\ \A u \in ReadTables \ {"snapshot"} : file.rows[u] = file.since[u]
        /\ "snapshot" \in ReadTables => \A r \in file.rows["snapshot"] : r[2] \in file.since["commit"]
        /\ ~file.ended
    BY <1>1, <2>2 DEF ExportExact, ArchiveInv, ExportInv
  <2>4. \A u \in ReadTables' \ {"snapshot"} : file'.rows[u] = file'.since[u]
    <3> SUFFICES ASSUME NEW u \in ReadTables' \ {"snapshot"} PROVE file'.rows[u] = file'.since[u]
      OBVIOUS
    <3>1. u \in Tables
      BY <1>1, <1>2
    <3>2. CASE u = t
      BY <1>5, <1>6, <2>3, <3>1, <3>2
    <3>3. CASE u # t
      BY <1>2, <1>5, <1>6, <2>3, <3>1, <3>3
    <3>4. QED
      BY <3>2, <3>3
  <2>5. "snapshot" \in ReadTables' => \A r \in file'.rows["snapshot"] : r[2] \in file'.since["commit"]
    <3>1. "snapshot" \in Tables /\ source["commit"] = file.since["commit"]
      BY <2>3 DEF Tables
    <3>2. CASE t = "snapshot"
      <4>1. file'.rows["snapshot"] = source["snapshot"]
        BY <1>6, <3>1, <3>2
      <4>2. \A r \in source["snapshot"] : r[2] \in source["commit"]
        BY <1>3, WholeTables DEF Named
      <4>3. QED
        BY <1>5, <3>1, <4>1, <4>2
    <3>3. CASE t # "snapshot"
      BY <1>2, <1>5, <1>6, <2>3, <3>1, <3>3
    <3>4. QED
      BY <3>2, <3>3
  <2>6. Whole(file'.since) /\ ~file'.ended /\ \A u \in Tables \ {"snapshot"} : source'[u] = file'.since[u]
    BY <1>1, <1>5, <2>3
  <2>7. ExportExact'
    BY <2>4, <2>5, <2>6 DEF ExportExact
  <2>8. QED
    BY <1>1, <2>2, <2>7
<1>12. AnchorInv'
  <2> DEFINE X == IF reading > 3 THEN file.rows["root"] ELSE source["root"]
             Y == IF reading > 2 THEN file.rows["node"] ELSE source["node"]
  <2>1. Anchored(source, source["root"], source["node"]) /\ Anchored(file.rows, X, Y)
    BY <1>1 DEF ArchiveInv, AnchorInv
  <2>2. (t = "root") <=> (reading = 3)
    BY <1>1, ExportOrderTables DEF t
  <2>3. (t = "node") <=> (reading = 2)
    BY <1>1, ExportOrderTables DEF t
  <2>4. (t = "chunk") <=> (reading = 1)
    BY <1>1, ExportOrderTables DEF t
  <2>5. "root" \in Tables /\ "node" \in Tables /\ Content \subseteq Tables
    BY DEF Tables, Content
  <2>6. X' = X
    BY <1>1, <1>6, <2>2, <2>5
  <2>7. Y' = Y
    BY <1>1, <1>6, <2>3, <2>5
  <2>8. ASSUME NEW u \in Content PROVE file'.rows[u] = file.rows[u]
                                        \/ (file'.rows[u] = source[u] /\ X = source["root"] /\ Y = source["node"])
    BY <1>1, <1>6, <2>3, <2>4, <2>5 DEF Content
  <2> HIDE DEF X, Y
  <2>9. Anchored(file'.rows, X, Y)
    BY <2>1, <2>8 DEF Anchored
  <2>10. QED
    BY <1>1, <1>5, <2>6, <2>7, <2>9 DEF ArchiveInv, AnchorInv, ExportInv, X, Y
<1>13. CollectInv'
  BY <1>1, ClaimsUnmoved DEF ArchiveInv
<1>14. QED
  BY <1>1, <1>3, <1>8, <1>9, <1>10, <1>11, <1>12, <1>13 DEF ArchiveInv

\* An export has read every table.
LEMMA ExportEnds ==
    ASSUME ArchiveInv, ExportEnd
    PROVE  ArchiveInv'
<1>1. /\ reading = 9 /\ reading' = 0 /\ file' = [file EXCEPT !.ended = TRUE]
      /\ UNCHANGED <<source, target, import, old, sweep, exposed, racing>>
  BY ExportOrderTables DEF ExportEnd, counters
<1>2. /\ file = [rows |-> file.rows, ended |-> file.ended, since |-> file.since] /\ ~file.ended
  BY <1>1 DEF ArchiveInv, ArchiveTypeOK, ExportInv
<1>3. /\ file' = [rows |-> file'.rows, ended |-> file'.ended, since |-> file'.since]
      /\ file'.ended = TRUE /\ file'.since = file.since /\ file'.rows = file.rows
  BY <1>1, <1>2
<1>4. ReadTables = Tables /\ ReadTables' = Tables
  <2>1. \A i \in 1..8 : i \in 1..(reading - 1)
    BY <1>1
  <2>2. QED
    BY <1>2, <1>3, <2>1, ExportOrderTables DEF ReadTables
<1>5. ArchiveTypeOK'
  BY <1>1, <1>3 DEF ArchiveInv, ArchiveTypeOK, ExportOrder
<1>6. ExportInv'
  <2>1. \A t \in Tables : Covers(file.since, file.rows, t)
    BY <1>4 DEF ArchiveInv, ExportInv
  <2>2. QED
    BY <1>1, <1>3, <1>4, <2>1 DEF ExportInv
<1>7. ImportInv'
  BY <1>1, ImportUnmoved DEF ArchiveInv
<1>8. ReferencesInv'
  <2>1. SUFFICES ASSUME racing' = 0
                 PROVE  ExportExact' /\ Whole(import.archive.rows)' /\ (exposed = {} => Whole(target))'
    BY DEF ReferencesInv
  <2>2. ExportExact /\ Whole(import.archive.rows) /\ (exposed = {} => Whole(target))
    BY <1>1, <2>1 DEF ArchiveInv, ReferencesInv
  <2>3. /\ Whole(file.since)
        /\ \A t \in Tables \ {"snapshot"} : file.rows[t] = file.since[t]
        /\ \A r \in file.rows["snapshot"] : r[2] \in file.since["commit"]
    BY <1>1, <1>4, <2>2 DEF ExportExact, Tables
  <2>4. Whole(file.rows)
    <3>1. ASSUME NEW t \in Tables, NEW r \in file.rows[t] PROVE Resolves(file.rows, t, r)
      <4>1. \A u \in Tables \ Named : file.since[u] \subseteq file.rows[u]
        BY <2>3 DEF Named
      <4>2. CASE t = "snapshot"
        <5>1. r[2] \in file.rows["commit"]
          BY <2>3, <3>1, <4>2 DEF Tables
        <5>2. QED
          BY <4>2, <5>1 DEF Resolves
      <4>3. CASE t # "snapshot"
        <5>1. Resolves(file.since, t, r)
          BY <2>3, <3>1, <4>3 DEF Whole
        <5>2. QED
          BY <4>1, <5>1, ResolvesInMore
      <4>4. QED
        BY <4>2, <4>3
    <3>2. QED
      BY <3>1 DEF Whole
  <2>5. ExportExact'
    BY <1>1, <1>3, <2>4 DEF ExportExact
  <2>6. QED
    BY <1>1, <2>2, <2>5
<1>9. AnchorInv' /\ CollectInv'
  <2>1. AnchorInv'
    BY <1>1, <1>3 DEF ArchiveInv, AnchorInv
  <2>2. QED
    BY <1>1, <2>1, ClaimsUnmoved DEF ArchiveInv
<1>10. QED
  BY <1>1, <1>5, <1>6, <1>7, <1>8, <1>9 DEF ArchiveInv

\* An export is cut off: the file ends at some record.
LEMMA ExportStopped ==
    ASSUME ArchiveInv, ExportStops
    PROVE  ArchiveInv'
<1>1. reading # 0 /\ reading' = 0 /\ UNCHANGED <<source, target, file, import, old, sweep, exposed, racing>>
  BY DEF ExportStops
<1>2. ~file.ended
  BY <1>1 DEF ArchiveInv, ExportInv
<1>3. ReadTables' = {}
  BY <1>1, <1>2 DEF ReadTables
<1>4. ArchiveTypeOK'
  BY <1>1 DEF ArchiveInv, ArchiveTypeOK, ExportOrder
<1>5. ExportInv'
  BY <1>1, <1>3 DEF ExportInv
<1>6. ImportInv'
  BY <1>1, ImportUnmoved DEF ArchiveInv
<1>7. ReferencesInv'
  BY <1>1, <1>2 DEF ArchiveInv, ReferencesInv, ExportExact
<1>8. AnchorInv' /\ CollectInv'
  <2>1. AnchorInv'
    BY <1>1, <1>2 DEF ArchiveInv, AnchorInv
  <2>2. QED
    BY <1>1, <2>1, ClaimsUnmoved DEF ArchiveInv
<1>9. QED
  BY <1>1, <1>4, <1>5, <1>6, <1>7, <1>8 DEF ArchiveInv

--------------------------------------------------------------------------------
(* The import *)

\* An import reads the file, and refuses one that is not whole.
LEMMA ImportStarts ==
    ASSUME ArchiveInv, ImportStart
    PROVE  ArchiveInv'
<1>1. /\ file.ended /\ import' = [phase |-> "rows", archive |-> file, left |-> file.rows]
      /\ UNCHANGED <<source, target, reading, file, old, sweep, exposed, racing>>
  BY DEF ImportStart, Accepted
<1>2. /\ import'.phase = "rows" /\ import'.archive = file /\ import'.left = file.rows
      /\ import' = [phase |-> import'.phase, archive |-> import'.archive, left |-> import'.left]
  BY <1>1
<1>3. FromSource(file.rows) /\ FromSource(file.since)
  BY DEF ArchiveInv, ArchiveTypeOK
<1>4. ArchiveTypeOK'
  BY <1>1, <1>2, <1>3 DEF ArchiveInv, ArchiveTypeOK, FromSource
<1>5. ExportInv'
  BY <1>1, ExportUnmoved DEF ArchiveInv
<1>6. \A t \in Tables : Brought'[t] = {}
  BY <1>2 DEF Brought
<1>7. ImportInv'
  <2>1. \A t \in Tables : Covers(import'.archive.since, import'.archive.rows, t)
    BY <1>1, <1>2 DEF ArchiveInv, ExportInv, ReadTables
  <2>2. \A t \in Tables \ Content : Covers(Brought, target, t)'
    BY <1>6 DEF Covers
  <2>3. InOrder'
    BY <1>2 DEF InOrder
  <2>4. QED
    BY <1>2, <2>1, <2>2, <2>3 DEF ImportInv
<1>8. AnchorInv'
  BY <1>1, <1>2, ExportUnmoved DEF ArchiveInv
<1>9. CollectInv'
  <2>1. Content \subseteq Tables
    BY DEF Content, Tables
  <2>2. \A t \in Content : Claimed(t)' \subseteq Claimed(t)
    BY <1>1, <1>6, <2>1 DEF Claimed
  <2>3. QED
    BY <1>1, <1>6, <2>2, ClaimsShrink DEF ArchiveInv
<1>10. ReferencesInv'
  BY <1>1, <1>2, ExportUnmoved DEF ArchiveInv, ReferencesInv, ExportExact
<1>11. QED
  BY <1>1, <1>4, <1>5, <1>7, <1>8, <1>9, <1>10 DEF ArchiveInv

\* The tables in the order of the import, each of them once.
LEMMA ImportOrderTables ==
    /\ DOMAIN ImportOrder = 1..8
    /\ \A i \in 1..8 : ImportOrder[i] \in Tables
    /\ \A i, j \in 1..8 : ImportOrder[i] = ImportOrder[j] => i = j
    /\ ImportOrder[1] = "chunk" /\ ImportOrder[2] = "node" /\ ImportOrder[3] = "root"
    /\ ImportOrder[4] = "span" /\ ImportOrder[5] = "commit" /\ ImportOrder[6] = "mutation"
    /\ ImportOrder[7] = "branch" /\ ImportOrder[8] = "snapshot"
<1>1. /\ DOMAIN ImportOrder = 1..8
      /\ ImportOrder[1] = "chunk" /\ ImportOrder[2] = "node" /\ ImportOrder[3] = "root"
      /\ ImportOrder[4] = "span" /\ ImportOrder[5] = "commit" /\ ImportOrder[6] = "mutation"
      /\ ImportOrder[7] = "branch" /\ ImportOrder[8] = "snapshot"
  BY DEF ImportOrder
<1>2. \A i \in 1..8 : i \in {1, 2, 3, 4, 5, 6, 7, 8}
  OBVIOUS
<1>3. \A i \in 1..8 : ImportOrder[i] \in Tables
  BY <1>1, <1>2 DEF Tables
<1>4. \A i, j \in 1..8 : ImportOrder[i] = ImportOrder[j] => i = j
  BY <1>1, <1>2
<1>5. QED
  BY <1>1, <1>3, <1>4

\* An import that has begun to write names, or roots, has written what comes before.
LEMMA BegunAfter ==
    ASSUME ImportInv
    PROVE  /\ (\E t \in Named : import.left[t] # import.archive.rows[t]) =>
                \A u \in {"chunk", "node", "root", "span", "commit", "mutation"} : import.left[u] = {}
           /\ import.left["root"] # import.archive.rows["root"] =>
                import.left["chunk"] = {} /\ import.left["node"] = {}
<1> DEFINE begun(j) == import.left[ImportOrder[j]] # import.archive.rows[ImportOrder[j]]
<1>1. \A i, j \in 1..8 : i < j /\ begun(j) => import.left[ImportOrder[i]] = {}
  BY DEF ImportInv, InOrder
<1> HIDE DEF begun
<1>2. begun(7) \/ begun(8) => /\ import.left[ImportOrder[1]] = {} /\ import.left[ImportOrder[2]] = {}
                              /\ import.left[ImportOrder[3]] = {} /\ import.left[ImportOrder[4]] = {}
                              /\ import.left[ImportOrder[5]] = {} /\ import.left[ImportOrder[6]] = {}
  BY <1>1
<1>3. begun(3) => import.left[ImportOrder[1]] = {} /\ import.left[ImportOrder[2]] = {}
  BY <1>1
<1>4. QED
  BY <1>2, <1>3, ImportOrderTables DEF begun, Named

\* The tables whose rows are written when the import is at t.
LEMMA EarlierTables ==
    ASSUME NEW t \in Tables, At(t)
    PROVE  /\ import.phase = "rows"
           /\ t \in {"root", "commit", "mutation", "branch", "snapshot"} =>
                import.left["chunk"] = {} /\ import.left["node"] = {}
           /\ t \in {"commit", "mutation", "branch", "snapshot"} =>
                import.left["root"] = {} /\ import.left["span"] = {}
           /\ t \in {"mutation", "branch", "snapshot"} => import.left["commit"] = {}
<1>1. PICK i \in DOMAIN ImportOrder :
        ImportOrder[i] = t /\ \A j \in 1..(i - 1) : import.left[ImportOrder[j]] = {}
  BY DEF At
<1>2. /\ DOMAIN ImportOrder = 1..8
      /\ ImportOrder[1] = "chunk" /\ ImportOrder[2] = "node" /\ ImportOrder[3] = "root"
      /\ ImportOrder[4] = "span" /\ ImportOrder[5] = "commit" /\ ImportOrder[6] = "mutation"
      /\ ImportOrder[7] = "branch" /\ ImportOrder[8] = "snapshot"
  BY DEF ImportOrder
<1>3. /\ i > 1 => import.left["chunk"] = {}
      /\ i > 2 => import.left["node"] = {}
      /\ i > 3 => import.left["root"] = {}
      /\ i > 4 => import.left["span"] = {}
      /\ i > 5 => import.left["commit"] = {}
  BY <1>1, <1>2
<1>4. i \in {1, 2, 3, 4, 5, 6, 7, 8}
  BY <1>1, <1>2
<1>5. /\ t = "root" => i = 3
      /\ t = "commit" => i = 5
      /\ t = "mutation" => i = 6
      /\ t = "branch" => i = 7
      /\ t = "snapshot" => i = 8
  BY <1>1, <1>2, <1>4
<1>6. QED
  BY <1>3, <1>5 DEF At

\* What the next row names has been written: the tables it names rows of come first,
\* and of the commits, the parent.
LEMMA ImportedResolves ==
    ASSUME ArchiveTypeOK, ImportInv, CollectInv, exposed = {}, Whole(import.archive.rows),
           NEW t \in Tables, At(t), NEW r \in import.left[t], Upcoming(t, r),
           NEW new, Writes(target, new, t, r)
    PROVE  Resolves(new, t, r)
<1> DEFINE rows == import.archive.rows
<1>1. \A u \in Tables \ Named : import.left[u] = {} => rows[u] \subseteq target[u]
  <2> SUFFICES ASSUME NEW u \in Tables \ Named, import.left[u] = {} PROVE rows[u] \subseteq target[u]
    OBVIOUS
  <2>1. Brought[u] = rows[u]
    BY DEF Brought
  <2>2. CASE u \in Content
    <3>1. Brought[u] \subseteq Claimed(u)
      BY EarlierTables DEF Claimed
    <3>2. QED
      BY <2>1, <2>2, <3>1 DEF CollectInv
  <2>3. CASE u \notin Content
    BY <2>1, <2>3 DEF ImportInv, Covers
  <2>4. QED
    BY <2>2, <2>3
<1>2. r \in rows[t] /\ Whole(rows) /\ Typed(rows) /\ \A h \in rows["commit"] : Ascends(h)
  BY DEF ArchiveTypeOK, FromSource
<1> HIDE DEF rows
<1>3. ASSUME Resolves(target, t, r) PROVE Resolves(new, t, r)
  <2>1. \A u \in Tables \ Named : target[u] \subseteq new[u]
    BY DEF Writes
  <2>2. QED
    BY <1>3, <2>1, ResolvesInMore
<1>4. CASE t = "root"
  <2>1. rows["chunk"] \subseteq target["chunk"] /\ rows["node"] \subseteq target["node"]
    BY <1>1, <1>4, EarlierTables DEF Tables, Named
  <2>2. /\ new["chunk"] = target["chunk"] /\ new["node"] = target["node"]
        /\ r \in new["root"]
    BY <1>4 DEF Writes, Tables, Named
  <2>3. StateWhole(rows, r)
    BY <1>2, <1>4, WholeTables
  <2>4. QED
    BY <1>4, <2>1, <2>2, <2>3 DEF Resolves, StateWhole
<1>5. CASE t = "commit"
  <2>1. /\ rows["chunk"] \subseteq target["chunk"] /\ rows["node"] \subseteq target["node"]
        /\ rows["root"] \subseteq target["root"] /\ rows["span"] \subseteq target["span"]
    BY <1>1, <1>5, EarlierTables DEF Tables, Named
  <2>2. /\ StateWhole(rows, Top(r).state)
        /\ r # Genesis => r \in rows["span"] /\ Parent(r) \in rows["commit"]
    BY <1>2, <1>5, WholeTables
  <2>3. StateWhole(target, Top(r).state)
    BY <2>1, <2>2 DEF StateWhole
  <2>4. ASSUME r # Genesis PROVE Parent(r) \in target["commit"]
    <3>1. Parent(r) \in rows["commit"] /\ Top(Parent(r)).seq < Top(r).seq
      BY <1>2, <1>5, <2>2, <2>4 DEF Ascends
    <3>2. Top(r).seq \in Nat /\ Top(Parent(r)).seq \in Nat
      BY <1>2, <1>5, <3>1, HistoryTyped DEF Typed, Logged
    <3>3. Parent(r) \notin import.left["commit"]
      BY <1>5, <3>1, <3>2 DEF Upcoming
    <3>4. Covers(Brought, target, "commit")
      BY DEF ImportInv, Tables, Content
    <3>5. QED
      BY <3>1, <3>3, <3>4 DEF Covers, Brought, rows, Named, Tables
  <2>5. r # Genesis => r \in target["span"] /\ Parent(r) \in target["commit"]
    BY <2>1, <2>2, <2>4
  <2>6. QED
    BY <1>3, <1>5, <2>3, <2>5 DEF Resolves
<1>6. CASE t \in {"mutation", "branch", "snapshot"}
  <2>1. rows["commit"] \subseteq target["commit"]
    BY <1>1, <1>6, EarlierTables DEF Tables, Named
  <2>2. QED
    BY <1>3, <1>2, <1>6, <2>1, WholeTables DEF Resolves, Named
<1>7. CASE t \in {"chunk", "node", "span"}
  BY <1>7 DEF Resolves
<1>8. QED
  BY <1>4, <1>5, <1>6, <1>7 DEF Tables

\* An import writes one row.
LEMMA ImportsRow ==
    ASSUME ArchiveInv, NEW t \in Tables, ImportRow(t)
    PROVE  ArchiveInv'
<1>1. PICK r \in import.left[t] :
        /\ Upcoming(t, r)
        /\ target' = [target EXCEPT ![t] = Upsert(@, t, r)]
        /\ import' = [import EXCEPT !.left[t] = @ \ {r}]
        /\ old' = [u \in Content |-> IF u = t THEN old[u] \ {r} ELSE old[u]]
        /\ exposed' = IF sweep.phase = t /\ r \in sweep.doomed THEN exposed \cup {"listed"} ELSE exposed
  BY DEF ImportRow
<1>2. At(t) /\ UNCHANGED <<source, reading, file, sweep, racing>>
  BY DEF ImportRow, counters
<1> DEFINE rows == import.archive.rows
<1>3. /\ import = [phase |-> import.phase, archive |-> import.archive, left |-> import.left]
      /\ Typed(import.left) /\ \A u \in Tables : import.left[u] \subseteq rows[u]
      /\ Living(target) /\ FromSource(rows)
  BY DEF ArchiveInv, ArchiveTypeOK
<1>4. import.left = [u \in Tables |-> import.left[u]]
  BY <1>3 DEF Typed
<1>5. /\ import' = [phase |-> import'.phase, archive |-> import'.archive, left |-> import'.left]
      /\ import'.phase = "rows" /\ import'.archive = import.archive
      /\ import'.left = [import.left EXCEPT ![t] = @ \ {r}]
  BY <1>1, <1>2, <1>3 DEF At
<1>6. /\ import'.left = [u \in Tables |-> import'.left[u]]
      /\ \A u \in Tables : import'.left[u] = IF u = t THEN import.left[u] \ {r} ELSE import.left[u]
  BY <1>4, <1>5
<1>7. Writes(target, target', t, r)
  BY <1>1, <1>3, WrittenRows DEF Living
<1>8. r \in rows[t] /\ RowOK(t, r)
  BY <1>3, RowsOK DEF FromSource
<1>9. Living(target')
  BY <1>3, <1>7, <1>8, WrittenLiving
<1>10. Typed(import'.left) /\ \A u \in Tables : import'.left[u] \subseteq rows[u]
  <2>1. \A u \in Tables : import'.left[u] \subseteq import.left[u]
    BY <1>6
  <2>2. "root" \in Tables /\ Logged \subseteq Tables /\ Named \subseteq Tables
    BY DEF Tables, Logged, Named
  <2>3. /\ import'.left["root"] \subseteq States
        /\ \A u \in Logged : import'.left[u] \subseteq Histories
        /\ \A u \in Named : import'.left[u] \subseteq {Main, "savepoint"} \X Histories
    BY <1>3, <2>1, <2>2 DEF Typed
  <2>4. Typed(import'.left)
    BY <1>6, <2>3 DEF Typed
  <2>5. QED
    BY <1>3, <2>1, <2>4
<1>11. ArchiveTypeOK'
  BY <1>1, <1>2, <1>5, <1>9, <1>10 DEF ArchiveInv, ArchiveTypeOK
<1>12. ExportInv'
  BY <1>2, ExportUnmoved DEF ArchiveInv
<1>13. \A u \in Tables : Brought'[u] = Brought[u] \cup IF u = t THEN {r} ELSE {}
  BY <1>5, <1>6, <1>8 DEF Brought
<1>14. ImportInv'
  <2>1. \A u \in Tables : Covers(import'.archive.since, import'.archive.rows, u)
    BY <1>5 DEF ArchiveInv, ImportInv
  <2>2. \A u \in Tables \ Content : Brought[u] \subseteq rows[u] /\ Covers(Brought, target, u)
    BY DEF ArchiveInv, ImportInv, Brought
  <2>3. r \notin Brought[t]
    BY DEF Brought
  <2>4. \A u \in Tables \ Content : Covers(Brought', target', u)
    <3>1. Typed(target) /\ Typed(rows) /\ OneEach(rows)
      BY <1>3 DEF Living, FromSource
    <3> DEFINE some == Brought
               more == Brought'
    <3> HIDE DEF rows, some, more
    <3>2. /\ \A u \in Tables \ Content : some[u] \subseteq rows[u] /\ Covers(some, target, u)
          /\ r \notin some[t]
          /\ \A u \in Tables : more[u] = some[u] \cup IF u = t THEN {r} ELSE {}
      BY <1>13, <2>2, <2>3 DEF some, more
    <3>3. \A u \in Tables \ Content : Covers(more, target', u)
      BY <1>7, <1>8, <3>1, <3>2, WrittenCovers
    <3>4. QED
      BY <3>3 DEF more
  <2>5. InOrder'
    <3> SUFFICES ASSUME NEW i \in 1..8, NEW j \in 1..8, i < j,
                        import'.left[ImportOrder[j]] # import'.archive.rows[ImportOrder[j]]
                 PROVE  import'.left[ImportOrder[i]] = {}
      BY DEF InOrder
    <3>1. PICK k \in 1..8 : ImportOrder[k] = t /\ \A l \in 1..(k - 1) : import.left[ImportOrder[l]] = {}
      BY <1>2, ImportOrderTables DEF At
    <3>2. ImportOrder[i] \in Tables /\ ImportOrder[j] \in Tables
      BY ImportOrderTables
    <3>3. import.left[ImportOrder[i]] = {}
      <4>1. CASE j = k
        BY <3>1, <4>1
      <4>2. CASE j # k
        <5>1. ImportOrder[j] # t
          BY <3>1, <4>2, ImportOrderTables
        <5>2. import.left[ImportOrder[j]] # rows[ImportOrder[j]]
          BY <1>5, <1>6, <3>2, <5>1
        <5>3. QED
          BY <5>2 DEF ArchiveInv, ImportInv, InOrder
      <4>3. QED
        BY <4>1, <4>2
    <3>4. QED
      BY <1>6, <3>2, <3>3
  <2>6. QED
    BY <1>5, <2>1, <2>4, <2>5 DEF ImportInv
<1>15. AnchorInv'
  BY <1>2, <1>5, ExportUnmoved DEF ArchiveInv
<1>16. ASSUME exposed' = {} PROVE exposed = {} /\ ~(sweep.phase = t /\ r \in sweep.doomed)
  BY <1>1, <1>16
<1>17. \A u \in Content : Claimed(u)' \subseteq Claimed(u) \cup IF u = t THEN {r} ELSE {}
  <2> SUFFICES ASSUME NEW u \in Content
               PROVE  Claimed(u)' \subseteq Claimed(u) \cup IF u = t THEN {r} ELSE {}
    OBVIOUS
  <2>1. u \in Tables /\ "root" \in Tables /\ import.phase = "rows"
    BY <1>2 DEF Content, Tables, At
  <2>2. Brought'[u] \subseteq Claimed(u) \cup IF u = t THEN {r} ELSE {}
    BY <1>13, <2>1 DEF Claimed
  <2>3. ASSUME racing = 0, NEW q \in target'["root"] PROVE RowsOf(u, q) \subseteq Claimed(u)
    <3>1. CASE q \in target["root"]
      BY <2>3, <3>1 DEF Claimed
    <3>2. CASE q \notin target["root"]
      <4>1. t = "root" /\ q = r
        BY <1>7, <2>1, <2>3, <3>2 DEF Writes, Named
      <4>2. Brought[u] = rows[u]
        BY <1>2, <2>1, <4>1, EarlierTables DEF Brought, Content
      <4>3. StateWhole(rows, r)
        BY <1>8, <2>3, <4>1, WholeTables DEF ArchiveInv, ReferencesInv
      <4>4. RowsOf(u, r) \subseteq rows[u]
        BY <4>3 DEF StateWhole, RowsOf, Content
      <4>5. QED
        BY <2>1, <4>1, <4>2, <4>4 DEF Claimed
    <3>3. QED
      BY <3>1, <3>2
  <2>4. QED
    BY <1>2, <2>2, <2>3 DEF Claimed
<1>18. CollectInv'
  <2> SUFFICES ASSUME exposed' = {}
               PROVE  /\ \A u \in Content :
                          /\ Claimed(u)' \subseteq target'[u]
                          /\ Brought'[u] \cap old'[u] = {}
                          /\ sweep.phase = u => sweep.doomed \cap Claimed(u)' = {}
                          /\ sweep.phase = "roots" => \A q \in Claimed(u)' \cap old'[u] :
                              \E x \in sweep.roots : q \in RowsOf(u, x) /\ NodesOf(x) \subseteq target'["node"]
                      /\ sweep.phase = "node" => Claimed("chunk")' \cap old'["chunk"] \subseteq sweep.reached
    BY <1>2 DEF CollectInv
  <2>1. exposed = {} /\ ~(sweep.phase = t /\ r \in sweep.doomed)
    BY <1>16
  <2>2. Content \subseteq Tables /\ Content \cap Named = {} /\ "node" \in Content /\ "chunk" \in Content
    BY DEF Content, Tables, Named
  <2>3. \A u \in Content : target'[u] = target[u] \cup IF u = t THEN {r} ELSE {}
    BY <1>7, <2>2 DEF Writes
  <2>4. \A u \in Content : old'[u] = IF u = t THEN old[u] \ {r} ELSE old[u]
    BY <1>1
  <2>5. \A u \in Content :
            /\ Claimed(u) \subseteq target[u]
            /\ Brought[u] \cap old[u] = {}
            /\ sweep.phase = u => sweep.doomed \cap Claimed(u) = {}
            /\ sweep.phase = "roots" => \A q \in Claimed(u) \cap old[u] :
                \E x \in sweep.roots : q \in RowsOf(u, x) /\ NodesOf(x) \subseteq target["node"]
    BY <1>2, <2>1 DEF ArchiveInv, CollectInv, At
  <2>6. ASSUME NEW u \in Content
        PROVE  /\ Claimed(u)' \subseteq target'[u]
               /\ Brought'[u] \cap old'[u] = {}
               /\ sweep.phase = u => sweep.doomed \cap Claimed(u)' = {}
    <3>1. u \in Tables
      BY <2>2
    <3>2. Brought'[u] = Brought[u] \cup IF u = t THEN {r} ELSE {}
      BY <1>13, <3>1
    <3>3. Claimed(u)' \subseteq target'[u]
      BY <1>17, <2>3, <2>5
    <3>4. Brought'[u] \cap old'[u] = {}
      BY <2>4, <2>5, <3>2
    <3>5. sweep.phase = u => sweep.doomed \cap Claimed(u)' = {}
      BY <1>17, <2>1, <2>5
    <3>6. QED
      BY <3>3, <3>4, <3>5
  <2>7. ASSUME NEW u \in Content, sweep.phase = "roots", NEW q \in Claimed(u)' \cap old'[u]
        PROVE  \E x \in sweep.roots : q \in RowsOf(u, x) /\ NodesOf(x) \subseteq target'["node"]
    <3>1. q \in Claimed(u) \cap old[u]
      BY <1>17, <2>4, <2>7
    <3>2. PICK x \in sweep.roots : q \in RowsOf(u, x) /\ NodesOf(x) \subseteq target["node"]
      BY <2>5, <2>7, <3>1
    <3>3. QED
      BY <2>2, <2>3, <3>2
  <2>8. sweep.phase = "node" => Claimed("chunk")' \cap old'["chunk"] \subseteq sweep.reached
    <3>1. sweep.phase = "node" => Claimed("chunk") \cap old["chunk"] \subseteq sweep.reached
      BY <2>1 DEF ArchiveInv, CollectInv
    <3>2. QED
      BY <1>17, <2>2, <2>4, <3>1
  <2>9. QED
    BY <2>6, <2>7, <2>8
<1>19. ReferencesInv'
  <2>1. SUFFICES ASSUME racing' = 0
                 PROVE  ExportExact' /\ Whole(import.archive.rows)' /\ (exposed = {} => Whole(target))'
    BY DEF ReferencesInv
  <2>2. ExportExact /\ Whole(rows) /\ (exposed = {} => Whole(target))
    BY <1>2, <2>1 DEF ArchiveInv, ReferencesInv
  <2>3. ASSUME exposed' = {} PROVE Whole(target')
    <3>1. Resolves(target', t, r)
      BY <1>1, <1>2, <1>7, <1>16, <2>2, <2>3, ImportedResolves DEF ArchiveInv
    <3>2. QED
      BY <1>3, <1>7, <1>16, <2>2, <2>3, <3>1, WrittenWhole DEF Living
  <2>4. QED
    BY <1>2, <1>5, <2>2, <2>3, ExportUnmoved
<1>20. QED
  BY <1>2, <1>11, <1>12, <1>14, <1>15, <1>18, <1>19 DEF ArchiveInv

\* The import ends, with or without success, or stops.
LEMMA ImportLeaves ==
    ASSUME ArchiveInv, NEW p \in {"done", "failed", "stopped"},
           import' = [import EXCEPT !.phase = p], p = "done" => import.left = NoRows,
           UNCHANGED <<source, target, reading, file, old, exposed, racing>>,
           sweep' = sweep \/ sweep' = Idle
    PROVE  ArchiveInv'
<1>1. import = [phase |-> import.phase, archive |-> import.archive, left |-> import.left]
  BY DEF ArchiveInv, ArchiveTypeOK
<1>2. /\ import' = [phase |-> import'.phase, archive |-> import'.archive, left |-> import'.left]
      /\ import'.phase = p /\ import'.archive = import.archive /\ import'.left = import.left
  BY <1>1
<1>3. sweep' = [phase |-> sweep'.phase, roots |-> sweep'.roots,
                reached |-> sweep'.reached, doomed |-> sweep'.doomed]
  BY DEF Idle, ArchiveInv, ArchiveTypeOK
<1>4. ArchiveTypeOK'
  BY <1>2, <1>3 DEF ArchiveInv, ArchiveTypeOK
<1>5. ExportInv' /\ AnchorInv'
  BY <1>2, ExportUnmoved DEF ArchiveInv
<1>6. Brought' = Brought
  BY <1>2 DEF Brought
<1>7. ImportInv'
  <2>1. \A t \in Tables \ Content : Covers(Brought, target, t)'
    BY <1>6 DEF ArchiveInv, ImportInv, Covers
  <2>2. p = "done" => \A t \in Tables : import'.left[t] = {}
    BY <1>2, NoRowsFromSource
  <2>3. InOrder'
    BY <1>2 DEF ArchiveInv, ImportInv, InOrder
  <2>4. QED
    BY <1>2, <2>1, <2>2, <2>3 DEF ArchiveInv, ImportInv
<1>8. CollectInv'
  <2>1. \A t \in Content : Claimed(t)' \subseteq Claimed(t)
    BY <1>2, <1>6 DEF Claimed
  <2>2. QED
    BY <1>2, <2>1, ClaimsShrink DEF ArchiveInv
<1>9. ReferencesInv'
  BY <1>2, ExportUnmoved DEF ArchiveInv, ReferencesInv
<1>10. QED
  BY <1>4, <1>5, <1>7, <1>8, <1>9 DEF ArchiveInv

--------------------------------------------------------------------------------
(* The target's publications and collections *)

\* Rows of an archive, or some of them.
LEMMA BroughtTyped == ArchiveTypeOK => Typed(Brought)
<1> SUFFICES ASSUME ArchiveTypeOK PROVE Typed(Brought)
  OBVIOUS
<1>1. \A t \in Tables : Brought[t] \subseteq import.archive.rows[t]
  BY DEF Brought
<1>2. Typed(import.archive.rows)
  BY DEF ArchiveTypeOK, FromSource
<1>3. Brought = [t \in Tables |-> Brought[t]]
  BY DEF Brought
<1>4. "root" \in Tables /\ Logged \subseteq Tables /\ Named \subseteq Tables
  BY DEF Tables, Logged, Named
<1>5. /\ Brought["root"] \subseteq States
      /\ \A t \in Logged : Brought[t] \subseteq Histories
      /\ \A t \in Named : Brought[t] \subseteq {Main, "savepoint"} \X Histories
  BY <1>1, <1>2, <1>4 DEF Typed
<1>6. QED
  BY <1>3, <1>5 DEF Typed

\* A publication of the target between two rows of an import.
LEMMA TargetPublishes ==
    ASSUME ArchiveInv, TargetPublish
    PROVE  ArchiveInv'
<1>1. /\ target' \in Published(target, "target") /\ sweep.phase = "idle"
      /\ old' = [t \in Content |-> old[t] \ RowsOf(t, Top(HeadOf(target')).state)]
      /\ UNCHANGED <<source, reading, file, import, sweep, exposed, racing>>
  BY DEF TargetPublish, counters
<1>2. Living(target)
  BY DEF ArchiveInv, ArchiveTypeOK
<1>3. PICK h : Brings(target, target', h)
  BY <1>1, <1>2, PublishedRows
<1>4. Living(target') /\ \A t \in Tables : Covers(target, target', t)
  BY <1>2, <1>3, PublishedLiving
<1>5. ArchiveTypeOK'
  BY <1>1, <1>4 DEF ArchiveInv, ArchiveTypeOK
<1>6. ExportInv' /\ AnchorInv'
  BY <1>1, ExportUnmoved DEF ArchiveInv
<1>7. Brought' = Brought
  BY <1>1 DEF Brought
<1>8. ImportInv'
  <2>1. Typed(target) /\ Typed(target') /\ Typed(Brought)
    BY <1>2, <1>4, BroughtTyped DEF Living, ArchiveInv
  <2>2. \A t \in Tables \ Content : Covers(Brought, target', t)
    BY <1>4, <2>1, CoversTransitive DEF ArchiveInv, ImportInv
  <2>3. InOrder'
    BY <1>1 DEF ArchiveInv, ImportInv, InOrder
  <2>4. QED
    BY <1>1, <1>7, <2>2, <2>3 DEF ArchiveInv, ImportInv
<1>9. CollectInv'
  <2> SUFFICES ASSUME exposed = {}, NEW t \in Content
               PROVE  /\ Claimed(t)' \subseteq target'[t]
                      /\ import.phase = "rows" => Brought[t] \cap old'[t] = {}
    BY <1>1, <1>7 DEF CollectInv, Content
  <2>1. target'["root"] = target["root"] \cup {Top(h).state} /\ target'[t] = target[t] \cup RowsOf(t, Top(h).state)
    BY <1>3 DEF Brings, Content, RowsOf
  <2>2. /\ Claimed(t) \subseteq target[t]
        /\ import.phase = "rows" => Brought[t] \cap old[t] = {}
    BY DEF ArchiveInv, CollectInv
  <2>3. Claimed(t)' \subseteq Claimed(t) \cup RowsOf(t, Top(h).state)
    BY <1>1, <1>7, <2>1 DEF Claimed
  <2>4. old'[t] \subseteq old[t]
    BY <1>1
  <2>5. QED
    BY <2>1, <2>2, <2>3, <2>4
<1>10. ReferencesInv'
  <2>1. racing = 0 /\ exposed = {} => Whole(target')
    BY <1>2, <1>3, PublishedWhole DEF ArchiveInv, ReferencesInv
  <2>2. QED
    BY <1>1, <2>1, ExportUnmoved DEF ArchiveInv, ReferencesInv
<1>11. QED
  BY <1>1, <1>5, <1>6, <1>8, <1>9, <1>10 DEF ArchiveInv

\* A step that leaves all the rows where they are.
LEMMA RowsUnmoved ==
    ASSUME ArchiveInv, UNCHANGED <<source, target, reading, file, import, racing>>,
           exposed' = {} => exposed = {},
           sweep' = [phase |-> sweep'.phase, roots |-> sweep'.roots,
                     reached |-> sweep'.reached, doomed |-> sweep'.doomed],
           old' = [t \in Content |-> old'[t]],
           CollectInv'
    PROVE  ArchiveInv'
<1>1. ArchiveTypeOK'
  BY DEF ArchiveInv, ArchiveTypeOK
<1>2. ExportInv' /\ AnchorInv'
  BY ExportUnmoved DEF ArchiveInv
<1>3. ImportInv'
  BY ImportUnmoved DEF ArchiveInv
<1>4. ReferencesInv'
  BY ExportUnmoved DEF ArchiveInv, ReferencesInv
<1>5. QED
  BY <1>1, <1>2, <1>3, <1>4 DEF ArchiveInv

\* The grace period goes by, beside no import and no collection if it exposes nothing.
LEMMA GraceGoesBy ==
    ASSUME ArchiveInv, Ages
    PROVE  ArchiveInv'
<1>1. /\ UNCHANGED <<source, target, reading, file, import, sweep, racing>>
      /\ old' = [t \in Content |-> target[t]]
      /\ exposed' = {} => exposed = {} /\ import.phase # "rows" /\ sweep.phase = "idle"
  BY DEF Ages
<1>2. Brought' = Brought
  BY <1>1 DEF Brought
<1>3. CollectInv'
  <2>1. \A t \in Content : Claimed(t)' = Claimed(t)
    BY <1>1, <1>2 DEF Claimed
  <2>2. exposed = {} => \A t \in Content : Claimed(t) \subseteq target[t]
    BY DEF ArchiveInv, CollectInv
  <2>3. QED
    BY <1>1, <2>1, <2>2 DEF CollectInv, Content
<1>4. sweep' = [phase |-> sweep'.phase, roots |-> sweep'.roots,
                reached |-> sweep'.reached, doomed |-> sweep'.doomed]
  BY <1>1 DEF ArchiveInv, ArchiveTypeOK
<1>5. old' = [t \in Content |-> old'[t]]
  BY <1>1
<1>6. QED
  BY <1>1, <1>3, <1>4, <1>5, RowsUnmoved

\* What must be kept is what an import is bringing, young, or what a root that the
\* collection reads names, with nodes to find it by.
LEMMA SweepStarts ==
    ASSUME ArchiveInv, SweepStart
    PROVE  ArchiveInv'
<1>1. /\ UNCHANGED <<source, target, reading, file, import, old, exposed, racing>>
      /\ sweep' = [phase |-> "roots", roots |-> target["root"], reached |-> {}, doomed |-> {}]
  BY DEF SweepStart, Idle
<1>2. Brought' = Brought
  BY <1>1 DEF Brought
<1> DEFINE rows == import.archive.rows
<1>3. ASSUME exposed = {}, NEW t \in Content, NEW r \in Claimed(t), r \in old[t]
      PROVE  \E s \in target["root"] : r \in RowsOf(t, s) /\ NodesOf(s) \subseteq target["node"]
  <2>1. /\ Claimed("node") \subseteq target["node"]
        /\ import.phase = "rows" => Brought[t] \cap old[t] = {}
    BY <1>3 DEF ArchiveInv, CollectInv, Content
  <2>2. CASE racing = 0 /\ r \in UNION {RowsOf(t, s) : s \in target["root"]}
    <3>1. PICK s \in target["root"] : r \in RowsOf(t, s)
      BY <2>2
    <3>2. RowsOf("node", s) \subseteq Claimed("node")
      BY <2>2 DEF Claimed
    <3>3. QED
      BY <2>1, <3>1, <3>2 DEF RowsOf
  <2>3. CASE import.left["root"] = {} /\ r \in Brought[t]
    <3>1. t \in Tables /\ "root" \in Tables /\ "node" \in Tables
      BY DEF Content, Tables
    <3>2. r \in rows[t] /\ Brought["root"] = rows["root"] /\ Brought["node"] = rows["node"] \ import.left["node"]
      BY <2>3, <3>1 DEF Brought
    <3>3. PICK s \in rows["root"] : r \in RowsOf(t, s) /\ NodesOf(s) \subseteq rows["node"]
      BY <3>2 DEF ArchiveInv, AnchorInv, Anchored
    <3>4. import.left["node"] = {}
      BY <2>3, <3>3, BegunAfter DEF ArchiveInv
    <3>5. rows["node"] \subseteq target["node"]
      BY <2>1, <2>3, <3>2, <3>4 DEF Claimed
    <3>6. s \in target["root"]
      BY <3>2, <3>3 DEF ArchiveInv, ImportInv, Covers, Tables, Content, Named
    <3>7. QED
      BY <3>3, <3>5, <3>6
  <2>4. QED
    BY <1>3, <2>1, <2>2, <2>3 DEF Claimed
<1>4. CollectInv'
  <2> SUFFICES ASSUME exposed = {}, NEW t \in Content
               PROVE  /\ Claimed(t)' \subseteq target[t]
                      /\ import.phase = "rows" => Brought[t] \cap old[t] = {}
                      /\ \A r \in Claimed(t)' \cap old[t] :
                            \E s \in target["root"] : r \in RowsOf(t, s) /\ NodesOf(s) \subseteq target["node"]
    BY <1>1, <1>2 DEF CollectInv, Content
  <2>1. Claimed(t)' = Claimed(t)
    BY <1>1, <1>2 DEF Claimed
  <2>2. QED
    BY <1>3, <2>1 DEF ArchiveInv, CollectInv
<1>5. /\ sweep' = [phase |-> sweep'.phase, roots |-> sweep'.roots,
                  reached |-> sweep'.reached, doomed |-> sweep'.doomed]
      /\ old' = [t \in Content |-> old'[t]]
  BY <1>1 DEF ArchiveInv, ArchiveTypeOK
<1>6. QED
  BY <1>1, <1>4, <1>5, RowsUnmoved

\* The walk meets all that a root names, if the nodes are there to find it by.
LEMMA WalkReaches ==
    ASSUME NEW s, NEW nodes, NodesOf(s) \subseteq nodes
    PROVE  Reached(s, nodes) = ChunksOf(s) /\ Met(s, nodes) = NodesOf(s)
<1>1. TopNode(s) \in nodes /\ KvNode(s) \in nodes
  BY DEF NodesOf
<1>2. \A x \in Present({s.sub}) : <<"sub", s.sub, None>> \in nodes
  BY DEF NodesOf, Present
<1>3. QED
  BY <1>1, <1>2 DEF Reached, Met, ChunksOf, Present

\* The collection lists nodes, and then chunks, that need not be kept.
LEMMA SweepsOn ==
    ASSUME ArchiveInv, SweepNodes \/ SweepChunks \/ SweepEnd \/ SweepFails
    PROVE  ArchiveInv'
<1>1. UNCHANGED <<source, target, reading, file, import, old, exposed, racing>>
  BY DEF SweepNodes, SweepChunks, SweepEnd, SweepFails, counters
<1>2. Brought' = Brought
  BY <1>1 DEF Brought
<1>3. \A t \in Content : Claimed(t)' = Claimed(t)
  BY <1>1, <1>2 DEF Claimed
<1>4. CASE SweepNodes
  <2> DEFINE d == (target["node"] \cap old["node"]) \ UNION {Met(s, target["node"]) : s \in sweep.roots}
             c == UNION {Reached(s, target["node"]) : s \in sweep.roots}
  <2>1. sweep.phase = "roots" /\ sweep' = [phase |-> "node", roots |-> {}, reached |-> c, doomed |-> d]
    BY <1>4 DEF SweepNodes
  <2>2. ASSUME exposed = {}, NEW t \in Content, NEW r \in Claimed(t), r \in old[t]
        PROVE  \E s \in sweep.roots : r \in RowsOf(t, s) /\ NodesOf(s) \subseteq target["node"]
    BY <2>1, <2>2 DEF ArchiveInv, CollectInv
  <2>3. exposed = {} => d \cap Claimed("node") = {}
    <3> SUFFICES ASSUME exposed = {}, NEW r \in Claimed("node"), r \in old["node"]
                 PROVE  \E s \in sweep.roots : r \in Met(s, target["node"])
      OBVIOUS
    <3>1. PICK s \in sweep.roots : r \in RowsOf("node", s) /\ NodesOf(s) \subseteq target["node"]
      BY <2>2 DEF Content
    <3>2. QED
      BY <3>1, WalkReaches DEF RowsOf
  <2>4. exposed = {} => Claimed("chunk") \cap old["chunk"] \subseteq c
    <3> SUFFICES ASSUME exposed = {}, NEW r \in Claimed("chunk"), r \in old["chunk"]
                 PROVE  \E s \in sweep.roots : r \in Reached(s, target["node"])
      OBVIOUS
    <3>1. PICK s \in sweep.roots : r \in RowsOf("chunk", s) /\ NodesOf(s) \subseteq target["node"]
      BY <2>2 DEF Content
    <3>2. QED
      BY <3>1, WalkReaches DEF RowsOf
  <2> HIDE DEF c, d
  <2>5. sweep'.phase = "node" /\ sweep'.reached = c /\ sweep'.doomed = d
    BY <2>1
  <2>6. CollectInv'
    <3>1. \A t \in Content : exposed = {} =>
            /\ Claimed(t) \subseteq target[t]
            /\ import.phase = "rows" => Brought[t] \cap old[t] = {}
            /\ sweep'.phase = t => sweep'.doomed \cap Claimed(t) = {}
      BY <2>3, <2>5 DEF ArchiveInv, CollectInv
    <3>2. "chunk" \in Content
      BY DEF Content
    <3>3. QED
      BY <1>1, <1>2, <1>3, <2>4, <2>5, <3>1, <3>2 DEF CollectInv
  <2>7. QED
    BY <1>1, <2>1, <2>5, <2>6, RowsUnmoved DEF ArchiveInv, ArchiveTypeOK
<1>5. CASE SweepChunks
  <2> DEFINE d == (target["chunk"] \cap old["chunk"]) \ sweep.reached
  <2>1. sweep.phase = "node" /\ sweep' = [phase |-> "chunk", roots |-> {}, reached |-> {}, doomed |-> d]
    BY <1>5 DEF SweepChunks, Idle
  <2>2. exposed = {} => d \cap Claimed("chunk") = {}
    BY <2>1 DEF ArchiveInv, CollectInv
  <2> HIDE DEF d
  <2>3. sweep'.phase = "chunk" /\ sweep'.doomed = d
    BY <2>1
  <2>4. CollectInv'
    <3>1. \A t \in Content : exposed = {} =>
            /\ Claimed(t) \subseteq target[t]
            /\ import.phase = "rows" => Brought[t] \cap old[t] = {}
            /\ sweep'.phase = t => sweep'.doomed \cap Claimed(t) = {}
      BY <2>2, <2>3 DEF ArchiveInv, CollectInv
    <3>2. QED
      BY <1>1, <1>2, <1>3, <2>3, <3>1 DEF CollectInv
  <2>5. QED
    BY <1>1, <2>1, <2>4, RowsUnmoved DEF ArchiveInv, ArchiveTypeOK
<1>6. CASE SweepEnd \/ SweepFails
  <2>1. sweep' = Idle
    BY <1>6 DEF SweepEnd, SweepFails
  <2>2. CollectInv'
    BY <1>1, <1>2, <1>3, <2>1, ClaimsShrink DEF ArchiveInv
  <2>3. QED
    BY <1>1, <2>1, <2>2, RowsUnmoved DEF ArchiveInv, ArchiveTypeOK, Idle
<1>7. QED
  BY <1>4, <1>5, <1>6

\* What a collection removes is nothing that must be kept.
LEMMA SweepsRow ==
    ASSUME ArchiveInv, NEW t \in Content, SweepRow(t)
    PROVE  ArchiveInv'
<1>1. PICK r \in sweep.doomed :
        /\ target' = [target EXCEPT ![t] = @ \ {r}]
        /\ old' = [u \in Content |-> IF u = t THEN old[u] \ {r} ELSE old[u]]
        /\ sweep' = [sweep EXCEPT !.doomed = @ \ {r}]
  BY DEF SweepRow
<1>2. sweep.phase = t /\ UNCHANGED <<source, reading, file, import, exposed, racing>>
  BY DEF SweepRow, counters
<1>3. /\ Living(target) /\ t \in Tables /\ t \in {"chunk", "node"} /\ Content \subseteq Tables
      /\ sweep = [phase |-> sweep.phase, roots |-> sweep.roots,
                  reached |-> sweep.reached, doomed |-> sweep.doomed]
  BY DEF ArchiveInv, ArchiveTypeOK, Content, Tables
<1>4. target = [u \in Tables |-> target[u]]
  BY <1>3 DEF Living, Typed
<1>5. /\ target' = [u \in Tables |-> target'[u]]
      /\ target'[t] = target[t] \ {r}
      /\ \A u \in Tables : u # t => target'[u] = target[u]
  BY <1>1, <1>3, <1>4
<1>6. \A u \in {"root", "commit", "span", "mutation", "branch", "snapshot"} : target'[u] = target[u]
  BY <1>3, <1>5 DEF Tables
<1>7. sweep' = [phase |-> t, roots |-> sweep.roots, reached |-> sweep.reached,
                doomed |-> sweep.doomed \ {r}]
  BY <1>1, <1>2, <1>3
<1>8. Living(target')
  BY <1>3, <1>5, <1>6 DEF Living, Typed, OneEach, Logged, Named
<1>9. ArchiveTypeOK'
  <2>1. sweep' = [phase |-> sweep'.phase, roots |-> sweep'.roots,
                  reached |-> sweep'.reached, doomed |-> sweep'.doomed]
    BY <1>7
  <2>2. old' = [u \in Content |-> old'[u]]
    BY <1>1
  <2>3. QED
    BY <1>2, <1>8, <2>1, <2>2 DEF ArchiveInv, ArchiveTypeOK
<1>10. ExportInv' /\ AnchorInv'
  BY <1>2, ExportUnmoved DEF ArchiveInv
<1>11. Brought' = Brought
  BY <1>2 DEF Brought
<1>12. ImportInv'
  <2>1. \A u \in Tables \ Content : Covers(Brought, target', u)
    BY <1>3, <1>5 DEF ArchiveInv, ImportInv, Covers
  <2>2. InOrder'
    BY <1>2 DEF ArchiveInv, ImportInv, InOrder
  <2>3. QED
    BY <1>2, <1>11, <2>1, <2>2 DEF ArchiveInv, ImportInv
<1>13. \A u \in Content : Claimed(u)' = Claimed(u)
  BY <1>2, <1>6, <1>11 DEF Claimed
<1>14. exposed = {} => r \notin Claimed(t)
  BY <1>2 DEF ArchiveInv, CollectInv
<1>15. CollectInv'
  <2> SUFFICES ASSUME exposed = {}
               PROVE  /\ \A u \in Content :
                          /\ Claimed(u) \subseteq target'[u]
                          /\ import.phase = "rows" => Brought[u] \cap old'[u] = {}
                          /\ t = u => sweep'.doomed \cap Claimed(u) = {}
                      /\ t = "node" => Claimed("chunk") \cap old'["chunk"] \subseteq sweep'.reached
    BY <1>2, <1>3, <1>7, <1>11, <1>13 DEF CollectInv, Content
  <2>1. \A u \in Content :
            /\ Claimed(u) \subseteq target[u]
            /\ import.phase = "rows" => Brought[u] \cap old[u] = {}
            /\ t = u => sweep.doomed \cap Claimed(u) = {}
    BY <1>2 DEF ArchiveInv, CollectInv
  <2>2. \A u \in Content : old'[u] \subseteq old[u]
    BY <1>1
  <2>3. t = "node" => Claimed("chunk") \cap old["chunk"] \subseteq sweep.reached
    BY <1>2 DEF ArchiveInv, CollectInv
  <2>4. sweep'.doomed \subseteq sweep.doomed /\ sweep'.reached = sweep.reached
    BY <1>7
  <2>5. "chunk" \in Content
    BY DEF Content
  <2>6. \A u \in Content : Claimed(u) \subseteq target'[u]
    BY <1>3, <1>5, <1>14, <2>1
  <2>7. QED
    BY <2>1, <2>2, <2>3, <2>4, <2>5, <2>6
<1>16. ReferencesInv'
  <2>1. ASSUME racing = 0, exposed = {}, Whole(target) PROVE Whole(target')
    <3>1. ASSUME NEW s \in target["root"] PROVE StateWhole(target', s)
      <4>1. RowsOf(t, s) \subseteq Claimed(t)
        BY <2>1, <3>1 DEF Claimed
      <4>2. StateWhole(target, s)
        BY <2>1, <3>1, WholeTables
      <4>3. NodesOf(s) \subseteq target'["node"] /\ ChunksOf(s) \subseteq target'["chunk"]
        BY <1>3, <1>5, <1>14, <2>1, <4>1, <4>2 DEF StateWhole, RowsOf, Tables
      <4>4. QED
        BY <1>6, <3>1, <4>3 DEF StateWhole
    <3>2. \A h \in target["commit"] : Top(h).state \in target["root"]
      BY <2>1, WholeTables DEF StateWhole
    <3>3. QED
      BY <1>6, <2>1, <3>1, <3>2, WholeTables DEF Named
  <2>2. QED
    BY <1>2, <2>1, ExportUnmoved DEF ArchiveInv, ReferencesInv
<1>17. QED
  BY <1>2, <1>9, <1>10, <1>12, <1>15, <1>16 DEF ArchiveInv

--------------------------------------------------------------------------------
(* The theorems *)

\* A source and a target that were just created.
LEMMA ArchiveBase == Init => ArchiveInv
<1> SUFFICES ASSUME Init PROVE ArchiveInv
  OBVIOUS
<1>1. /\ source = NewRepository /\ target = NewRepository
      /\ reading = 0 /\ racing = 0 /\ old = [t \in Content |-> {}]
      /\ file = [rows |-> NoRows, ended |-> FALSE, since |-> NoRows]
      /\ import = [phase |-> "idle", archive |-> NoFile, left |-> NoRows]
      /\ sweep = [phase |-> "idle", roots |-> {}, reached |-> {}, doomed |-> {}]
      /\ NoFile = [rows |-> NoRows, ended |-> FALSE, since |-> NoRows]
  BY DEF Init, NoFile, Idle
<1>2. ArchiveTypeOK
  BY <1>1, NewRepositoryRows, NoRowsFromSource DEF ArchiveTypeOK, FromSource, ExportOrder
<1>3. ExportInv
  BY <1>1 DEF ExportInv, ReadTables
<1>4. Anchored(NoRows, NoRows["root"], NoRows["node"])
  BY NoRowsFromSource DEF Anchored, Content, Tables
<1>5. AnchorInv
  BY <1>1, <1>4, NewRepositoryRows DEF AnchorInv
<1>6. \A t \in Tables : Brought[t] = {}
  BY <1>1, NoRowsFromSource DEF Brought
<1>7. ImportInv
  BY <1>1, <1>6, NoRowsFromSource, CoversItself DEF ImportInv, InOrder, FromSource, Covers
<1>8. CollectInv
  <2> SUFFICES ASSUME NEW t \in Content PROVE Claimed(t) \subseteq target[t]
    BY <1>1 DEF CollectInv, Content
  <2>1. Brought[t] = {}
    BY <1>6 DEF Content, Tables
  <2>2. \A s \in NewRepository["root"] : RowsOf(t, s) \subseteq NewRepository[t]
    BY NewRepositoryRows, WholeTables DEF StateWhole, RowsOf, Content
  <2>3. QED
    BY <1>1, <2>1, <2>2 DEF Claimed
<1>9. ReferencesInv
  BY <1>1, NewRepositoryRows, NoRowsFromSource DEF ReferencesInv, ExportExact, Whole
<1>10. QED
  BY <1>1, <1>2, <1>3, <1>5, <1>7, <1>8, <1>9, NewRepositoryRows DEF ArchiveInv

\* The invariant is inductive.
LEMMA ArchiveStep == ArchiveInv /\ [Next]_vars => ArchiveInv'
<1> SUFFICES ASSUME ArchiveInv, [Next]_vars PROVE ArchiveInv'
  OBVIOUS
<1>1. CASE SourcePublish
  BY <1>1, SourcePublishes
<1>2. CASE Savepoint
  BY <1>2, SavepointTaken
<1>3. CASE ExportStart
  BY <1>3, ExportStarts
<1>4. CASE ExportTable
  BY <1>4, ExportsTable
<1>5. CASE ExportEnd
  BY <1>5, ExportEnds
<1>6. CASE ExportStops
  BY <1>6, ExportStopped
<1>7. CASE ImportStart
  BY <1>7, ImportStarts
<1>8. CASE \E t \in Tables : ImportRow(t)
  BY <1>8, ImportsRow
<1>9. CASE ImportRefused \/ ImportFails
  BY <1>9, ImportLeaves DEF ImportRefused, ImportFails, counters
<1>10. CASE ImportEnd
  <2>1. PICK p \in {"done", "failed"} : import' = [import EXCEPT !.phase = p]
    BY <1>10 DEF ImportEnd
  <2>2. QED
    BY <1>10, <2>1, ImportLeaves DEF ImportEnd, counters
<1>11. CASE TargetCrash
  BY <1>11, ImportLeaves DEF TargetCrash
<1>12. CASE TargetPublish
  BY <1>12, TargetPublishes
<1>13. CASE Ages
  BY <1>13, GraceGoesBy
<1>14. CASE SweepStart
  BY <1>14, SweepStarts
<1>15. CASE SweepNodes \/ SweepChunks \/ SweepEnd \/ SweepFails
  BY <1>15, SweepsOn
<1>16. CASE \E t \in Content : SweepRow(t)
  BY <1>16, SweepsRow
<1>17. CASE UNCHANGED vars
  <2>1. UNCHANGED <<source, target, reading, file, import, old, sweep, exposed, racing>>
    BY <1>17 DEF vars
  <2>2. CollectInv'
    BY <2>1, ClaimsUnmoved DEF ArchiveInv
  <2>3. QED
    BY <2>1, <2>2, RowsUnmoved DEF ArchiveInv, ArchiveTypeOK
<1>18. QED
  BY <1>1, <1>2, <1>3, <1>4, <1>5, <1>6, <1>7, <1>8, <1>9, <1>10, <1>11, <1>12, <1>13, <1>14,
     <1>15, <1>16, <1>17 DEF Next

\* The invariant the theorems below rest on: the source names only what it holds, an
\* archive covers what the source held when its export began, a target covers what the
\* import has brought, and of that, and of what whole archives name, a collection lists
\* nothing (export_archive, import_archive, Store::gc).
THEOREM ArchiveInvariant == Spec => []ArchiveInv
BY ArchiveBase, ArchiveStep, PTL DEF Spec

\* Nothing the target names is missing from it, at any point of an import, however it
\* fails or stops, and whatever the target publishes and collects meanwhile, of stopped
\* imports too (import_archive's order of tables, Store::gc's of queries), if no
\* publication fell into an export, until a listed row is written again or an import or
\* a collection outlasts the grace period.
THEOREM NothingNamedIsMissing == Spec => []ReferencesResolve
<1>1. ArchiveInv => ReferencesResolve
  BY DEF ArchiveInv, ReferencesInv, Whole, ReferencesResolve
<1>2. QED
  BY <1>1, ArchiveInvariant, PTL

\* The rows of a table that an import has written to the end are there.
LEMMA WrittenLasts ==
    ASSUME ArchiveInv, import.left["root"] = {}, NEW t \in Lasting, import.left[t] = {}
    PROVE  import.archive.rows[t] \subseteq target[t]
<1>1. t \in Tables \ Named /\ (t \in Content => exposed = {})
  BY DEF Lasting, Tables, Named, Content
<1>2. Brought[t] = import.archive.rows[t]
  BY <1>1 DEF Brought
<1>3. CASE t \in Content
  <2>1. Brought[t] \subseteq Claimed(t)
    BY DEF Claimed
  <2>2. QED
    BY <1>1, <1>2, <1>3, <2>1 DEF ArchiveInv, CollectInv
<1>4. CASE t \notin Content
  BY <1>1, <1>2, <1>4 DEF ArchiveInv, ImportInv, Covers
<1>5. QED
  BY <1>3, <1>4

\* An import that reports success has brought all that the source held when the export
\* began, also when publications fell into the export, no collection takes it, and each
\* name stands at its commit or on top of it (export_archive, read_archive,
\* import_archive, Store::gc).
THEOREM EverythingArrives == Spec => []RoundTrip
<1>1. ArchiveInv => RoundTrip
  <2> SUFFICES ASSUME ArchiveInv, import.phase = "done" PROVE RoundTrip
    BY DEF RoundTrip
  <2> DEFINE since == import.archive.since
  <2>1. Typed(since) /\ Typed(import.archive.rows) /\ Typed(target)
    BY DEF ArchiveInv, ArchiveTypeOK, FromSource, Living
  <2>2. \A t \in Tables : Covers(since, import.archive.rows, t) /\ import.left[t] = {}
    BY DEF ArchiveInv, ImportInv
  <2> HIDE DEF since
  <2>3. ASSUME NEW t \in Lasting PROVE since[t] \subseteq target[t]
    <3>1. t \in Tables \ Named /\ "root" \in Tables
      BY DEF Lasting, Tables, Named, Content
    <3>2. import.archive.rows[t] \subseteq target[t]
      BY <2>2, <3>1, WrittenLasts
    <3>3. QED
      BY <2>2, <3>1, <3>2 DEF Covers
  <2>4. ASSUME NEW t \in Named, NEW r \in since[t]
        PROVE  \E q \in target[t] : q[1] = r[1] /\ SubSeq(q[2], 1, Len(r[2])) = r[2]
    <3>1. t \in Tables \ Content
      BY DEF Named, Tables, Content
    <3>2. Brought[t] = import.archive.rows[t]
      BY <2>2, <3>1 DEF Brought
    <3>3. Covers(import.archive.rows, target, t)
      BY <3>1, <3>2 DEF ArchiveInv, ImportInv, Covers
    <3>4. Covers(since, target, t)
      BY <2>1, <2>2, <3>1, <3>3, CoversTransitive
    <3>5. PICK q \in target[t] : q[1] = r[1] /\ Extends(q[2], r[2])
      BY <2>4, <3>4 DEF Covers
    <3>6. q[2] \in Histories /\ r[2] \in Histories
      BY <2>1, <2>4, <3>5 DEF Typed
    <3>7. SubSeq(q[2], 1, Len(r[2])) = r[2]
      BY <3>5, <3>6, ExtendsPrefix
    <3>8. QED
      BY <3>5, <3>7
  <2>5. QED
    BY <2>3, <2>4 DEF RoundTrip, Named, since
<1>2. QED
  BY <1>1, ArchiveInvariant, PTL

\* An import that has moved a name has brought all the archive's content, history and
\* provenance, however it then ends: succeeds, is refused, fails at any row or in the
\* final check, or stops (import_archive's order of tables).
THEOREM NamesStandOnHistory == Spec => []NamesComeLast
<1>1. ArchiveInv => NamesComeLast
  <2> SUFFICES ASSUME ArchiveInv, NEW n \in Named, import.left[n] # import.archive.rows[n],
                      NEW t \in Lasting
               PROVE  import.archive.rows[t] \subseteq target[t]
    BY DEF NamesComeLast, Named
  <2>1. \A u \in {"chunk", "node", "root", "span", "commit", "mutation"} : import.left[u] = {}
    BY BegunAfter DEF ArchiveInv
  <2>2. t \in {"chunk", "node", "root", "span", "commit", "mutation"}
    BY DEF Lasting, Content
  <2>3. QED
    BY <2>1, <2>2, WrittenLasts
<1>2. QED
  BY <1>1, ArchiveInvariant, PTL
================================================================================
