------------------------------- MODULE AgentsSafety -------------------------------
(* Tool calls, runs, ingests and applies beside a changing directory, proved for    *)
(* every number of calls, processes, files, contents and disturbances.              *)
EXTENDS Agents, OpeningSafety, FiniteSetTheorems, SequenceTheorems

\* A repository tree: the members of a link group show one entry, which names them.
Grouped(t, f) ==
    t[f] # None /\ t[f].links # {} =>
        f \in t[f].links /\ \A g \in t[f].links : t[g] = t[f]

Trees == {t \in [Files -> Entries \cup {None}] : \A f \in Files : Grouped(t, f)}
Hosts == [Files -> Inodes \cup {None}]

CallPhases == {"idle", "spanned", "begun", "ran", "editing", "reading", "publishing",
               "finishing", "finished", "answered", "dead", "verifying", "writing",
               "removing"}
CallRecords ==
    [kind : {"none", "tool", "run", "ingest", "apply"}, phase : CallPhases, base : Nat,
     tree : Trees, muts : Seq(Mutations), todo : SUBSET Files, first : [Files -> Files \cup {None}],
     exit : {"ok", "failed", "lost", "drift"}, target : Nat, disturbed : BOOLEAN]

Commits == [files : Trees, muts : Seq(Mutations), by : Calls \cup {None}]

AgentTypeOK ==
    /\ commits \in Seq(Commits) /\ commits # <<>>
    /\ span \in [Calls -> {"none", "RUNNING", "SUCCEEDED", "FAILED"}]
    /\ tool \in [Calls -> {"none", "open", "output", "error"}]
    /\ host \in Hosts
    /\ call \in [Calls -> CallRecords]
    /\ edits \in Nat

\* The names of one inode show one content.
Linked(h) ==
    \A f, g \in Files :
        h[f] # None /\ h[g] # None /\ h[f].ino = h[g].ino => h[f].content = h[g].content

\* Call c has made a commit.
Bears(c) == \E k \in DOMAIN commits : commits[k].by = c

\* Before call c has anything to record, and while it has not closed its span.
Blank(c) == span[c] = "none" /\ tool[c] = "none"
Running(c) == span[c] = "RUNNING" /\ tool[c] = "open"

\* A commit holds what call c has staged: its own or, when it has none, one that was
\* made with the same edits of the same state.
Holds(c, k) ==
    /\ k - 1 \in DOMAIN commits /\ commits[k - 1].files = commits[call[c].base].files
    /\ commits[k].files = call[c].tree /\ commits[k].muts = call[c].muts

Held(c) ==
    /\ call[c].base \in DOMAIN commits
    /\ \E k \in DOMAIN commits : Holds(c, k) /\ (commits[k].by = c \/ ~Bears(c))

\* A tool call will say it succeeded when its edit is held, and that it failed when
\* it has made no commit.
Agreed(c) ==
    /\ call[c].kind \in {"tool", "run"} /\ call[c].exit \in {"ok", "failed"}
    /\ call[c].kind = "tool" => IF call[c].exit = "ok" THEN Held(c) ELSE ~Bears(c)

\* The rows of a call at each of its phases.
SpanInv(c) ==
    LET r == call[c]
    IN  /\ r.phase = "idle" => r.exit = "ok" /\ Blank(c) /\ ~Bears(c)
        /\ r.phase = "spanned" =>
            /\ r.kind \in {"tool", "run"} /\ r.exit = "ok"
            /\ span[c] = "RUNNING" /\ tool[c] = "none" /\ ~Bears(c)
        /\ r.phase \in {"begun", "ran", "editing", "reading", "publishing"} =>
            /\ ~Bears(c)
            /\ r.exit = "ok" \/ (r.kind = "run" /\ r.exit = "failed")
            /\ IF r.kind = "ingest" THEN Blank(c)
               ELSE r.kind \in {"tool", "run"} /\ Running(c)
        /\ r.phase \in {"begun", "ran"} => r.kind # "ingest"
        /\ r.phase = "ran" => r.kind = "run"
        /\ r.phase = "editing" => r.kind = "tool"
        /\ r.phase = "reading" => r.kind \in {"run", "ingest"}
        /\ r.phase = "finishing" => Running(c) /\ Agreed(c)
        /\ r.phase = "finished" => span[c] = Status(c) /\ tool[c] = "open" /\ Agreed(c)
        /\ r.phase = "answered" =>
            IF r.kind \in {"ingest", "apply"} THEN Blank(c)
            ELSE IF r.exit = "lost" THEN Running(c) /\ ~Bears(c)
            ELSE /\ Agreed(c) /\ span[c] = Status(c)
                 /\ tool[c] = IF r.exit = "ok" THEN "output" ELSE "error"
        /\ r.phase = "dead" => r.kind = "none" /\ tool[c] \in {"none", "open"}
        /\ r.phase \in {"verifying", "writing", "removing"} => r.kind = "apply" /\ Blank(c)
        /\ Bears(c) => span[c] # "none" /\ tool[c] # "none"

OneCommitEach ==
    \A j, k \in DOMAIN commits :
        commits[j].by = commits[k].by /\ commits[j].by # None => j = k

\* u is what the edits make of t, for no edit and for one: the same one edit of the
\* same tree shows the same.
Made(t, muts, u) ==
    /\ muts = <<>> => u = t
    /\ \A m \in Mutations : muts = <<m>> => u = Edited(t, m)

CommitsMade ==
    \A k \in DOMAIN commits : k - 1 \in DOMAIN commits =>
        Made(commits[k - 1].files, commits[k].muts, commits[k].files)

HistoryInv == OneCommitEach /\ CommitsMade

\* A call stages its edits over its base, and a tool call stages one.
MadeInv(c) ==
    LET r == call[c]
    IN  /\ r.phase \in {"idle", "spanned", "begun", "ran"} => r.muts = <<>>
        /\ r.phase \in {"editing", "reading", "publishing"} =>
            /\ r.base \in DOMAIN commits
            /\ Made(commits[r.base].files, r.muts, r.tree)
        /\ r.phase = "editing" => r.muts = <<>>
        /\ r.phase = "publishing" /\ r.kind = "tool" => \E m \in Mutations : r.muts = <<m>>

\* The first name of an inode that an ingest remembers is in its tree.
FirstInv(c) ==
    LET r == call[c]
    IN  /\ r.phase \in {"idle", "spanned", "begun", "ran"} => \A i \in Files : r.first[i] = None
        /\ r.phase = "reading" =>
            \A i \in Files : r.first[i] # None => r.tree[r.first[i]] # None

\* The tree of call c shows the file f of the directory.
ShownIn(c, f) ==
    host[f] # None =>
        /\ call[c].tree[f] # None
        /\ call[c].tree[f].links = {} => call[c].tree[f].content = host[f].content

\* What an undisturbed ingest has read is in its tree from then on.
ReadingInv(c) ==
    LET r == call[c]
    IN  /\ r.kind \in {"run", "ingest"} /\ ~r.disturbed /\ r.exit # "lost"
        /\ r.phase \in {"reading", "publishing", "finishing", "finished", "answered"}
        => \A f \in Files : (r.phase = "reading" /\ f \in r.todo) \/ ShownIn(c, f)

\* The two halves of an apply, and the contents its two commits hold where they differ.
ToWrite(c) == {f \in Affected(c) : After(c)[f] # None}
ToRemove(c) == Affected(c) \ ToWrite(c)
HeldBy(c, x) ==
    \E g \in Affected(c) : \E e \in {Before(c)[g], After(c)[g]} \ {None} : x = e.content
Seen(c, f) == host[f] # None => HeldBy(c, host[f].content)

\* A written file has the commit's content, or shares its inode with another file
\* of the apply, which has been written since.
Settled(c, f, done) ==
    /\ host[f] # None
    /\ After(c)[f].links = {} =>
        \/ host[f].content = After(c)[f].content
        \/ \E g \in done \ {f} : host[g] # None /\ host[g].ino = host[f].ino

\* An apply has what is left to do in hand, in its order; as long as nobody disturbs
\* it, what it has not written or removed yet is something it may, and what it has
\* written or removed stays so.
ApplyInv(c) ==
    LET r == call[c]
        left(phase) == IF r.phase = phase THEN r.todo ELSE {}
    IN  r.kind = "apply" =>
        /\ r.phase \in {"verifying", "writing", "removing", "answered"}
        /\ {r.base, r.target} \subseteq DOMAIN commits
        /\ r.phase # "answered" => r.exit = "ok" /\ r.todo # {}
        /\ left("verifying") \subseteq Affected(c)
        /\ left("writing") \subseteq ToWrite(c)
        /\ left("removing") \subseteq ToRemove(c)
        /\ ~r.disturbed /\ r.exit = "ok" =>
            /\ r.phase # "answered" =>
                \A f \in Affected(c) \ left("verifying") : Seen(c, f)
            /\ r.phase # "verifying" =>
                LET done == ToWrite(c) \ left("writing")
                IN  \A f \in done : Settled(c, f, done)
            /\ r.phase \in {"removing", "answered"} =>
                \A f \in ToRemove(c) \ left("removing") : host[f] = None

CallInv(c) == SpanInv(c) /\ FirstInv(c) /\ MadeInv(c) /\ ReadingInv(c) /\ ApplyInv(c)

CallsInv ==
    /\ AgentTypeOK
    /\ Linked(host)
    /\ HistoryInv
    /\ \A c \in Calls : CallInv(c)

AgentsInv == OpeningInv /\ CallsInv

--------------------------------------------------------------------------------
(* Trees and directories *)

\* The empty tree is a tree.
LEMMA NoTreeTyped == NoTree \in Trees
BY DEF NoTree, Trees, Grouped

\* Two groups that share a name are one.
LEMMA GroupsAgree ==
    ASSUME NEW t \in Trees, NEW f \in Files, t[f] # None
    PROVE  /\ t[f] \in Entries /\ t[f].links \in SUBSET Files /\ t[f].content \in Contents
           /\ f \in Group(t, f) /\ Group(t, f) \in SUBSET Files
           /\ Group(t, f) = IF t[f].links # {} THEN t[f].links ELSE {f}
           /\ \A g \in Group(t, f) : t[g] = t[f]
           /\ \A g \in Files : t[g] # None /\ g \notin Group(t, f)
                    => t[g].links \cap Group(t, f) = {}
<1>1. t[f] \in Entries /\ t[f].links \in SUBSET Files /\ t[f].content \in Contents
  BY DEF Trees, Entries
<1>2. Group(t, f) = IF t[f].links # {} THEN t[f].links ELSE {f}
  BY DEF Group
<1>3. f \in Group(t, f) /\ \A g \in Group(t, f) : t[g] = t[f]
  BY <1>1, <1>2 DEF Trees, Grouped
<1>4. ASSUME NEW g \in Files, t[g] # None, g \notin Group(t, f),
             NEW h \in t[g].links \cap Group(t, f)
      PROVE  FALSE
  <2>1. t[g].links = t[f].links /\ g \in t[g].links
    BY <1>3, <1>4 DEF Trees, Grouped
  <2>2. QED
    BY <1>2, <1>4, <2>1
<1>5. QED
  BY <1>1, <1>2, <1>3, <1>4 DEF Trees

\* A tree in which a group's members are replaced by an entry that names them all, or
\* none, is a tree.
LEMMA Regrouped ==
    ASSUME NEW t \in Trees, NEW u, NEW group \in SUBSET Files, NEW e, e.links \in {{}, group},
           u \in [Files -> Entries \cup {None}],
           \A g \in group : u[g] = e,
           \A g \in Files \ group : u[g] = None \/ u[g] = t[g],
           \A g \in Files \ group : u[g] # None => t[g].links \cap group = {},
           \A g \in Files \ group : u[g] # None =>
                \A h \in t[g].links \ group : u[h] = t[h]
    PROVE  u \in Trees
<1>1. SUFFICES ASSUME NEW f \in Files, u[f] # None, u[f].links # {}
               PROVE  /\ f \in u[f].links
                      /\ \A g \in u[f].links : u[g] = u[f]
  BY DEF Trees, Grouped
<1>2. CASE f \in group
  BY <1>1, <1>2
<1>3. CASE f \notin group
  <2>1. u[f] = t[f] /\ t[f].links \in SUBSET Files
    BY <1>1, <1>3 DEF Entries
  <2>2. f \in t[f].links /\ \A g \in t[f].links : t[g] = t[f]
    BY <1>1, <2>1 DEF Trees, Grouped
  <2>3. \A g \in t[f].links : u[g] = t[g]
    BY <1>1, <1>3, <2>1
  <2>4. QED
    BY <2>1, <2>2, <2>3
<1>4. QED
  BY <1>2, <1>3

\* write_file shows the content at the name; another name it changes is in a group.
LEMMA PutTyped ==
    ASSUME NEW t \in Trees, NEW f \in Files, NEW x \in Contents
    PROVE  LET u == Put(t, f, x)
           IN  /\ u \in Trees /\ u[f] # None /\ u[f].content = x
               /\ \A g \in Files \ {f} : u[g] = t[g] \/ (u[g] # None /\ u[g].links # {})
<1> DEFINE links == IF t[f] # None THEN t[f].links ELSE {}
           group == Group(t, f)
           u == Put(t, f, x)
           e == [content |-> x, links |-> links]
<1>1. /\ links \in SUBSET Files /\ group \in SUBSET Files /\ f \in group
      /\ group = IF links # {} THEN links ELSE {f}
  BY GroupsAgree DEF Group
<1>2. e \in Entries /\ e.content = x /\ e.links = links
  BY <1>1 DEF Entries
<1>3. e # None
  BY <1>2, AbsentAssumption
<1>4. u = [g \in Files |-> IF g \in group THEN e ELSE t[g]]
  BY DEF Put
<1>5. \A g \in Files \ group : t[g] # None => t[g].links \cap group = {}
  <2>1. CASE t[f] # None
    BY <2>1, GroupsAgree
  <2>2. CASE t[f] = None
    <3>1. group = {f}
      BY <1>1, <2>2
    <3>2. QED
      BY <3>1, <2>2 DEF Trees, Grouped
  <2>3. QED
    BY <2>1, <2>2
<1> HIDE DEF u, e, links, group
<1>6. u \in [Files -> Entries \cup {None}]
  BY <1>2, <1>4 DEF Trees
<1>7. u \in Trees
  <2>1. /\ \A g \in group : u[g] = e
        /\ \A g \in Files \ group : u[g] = t[g]
    BY <1>1, <1>4
  <2>2. \A g \in Files \ group : u[g] # None => t[g].links \in SUBSET Files
    BY <2>1 DEF Trees, Entries
  <2>3. e.links \in {{}, group}
    BY <1>1, <1>2
  <2>4. \A g \in Files \ group : u[g] # None => t[g].links \cap group = {}
    BY <1>5, <2>1
  <2>5. \A g \in Files \ group : u[g] # None => \A h \in t[g].links \ group : u[h] = t[h]
    BY <2>1, <2>2
  <2>6. group \in SUBSET Files /\ (\A g \in Files \ group : u[g] = None \/ u[g] = t[g])
    BY <1>1, <2>1
  <2>7. ASSUME NEW v, v = u, NEW n, n = group, NEW d, d = e PROVE v \in Trees
    <3>1. v \in [Files -> Entries \cup {None}]
      BY <1>6, <2>7
    <3>2. n \in SUBSET Files
      BY <2>6, <2>7
    <3>3. \A g \in Files \ n : v[g] = None \/ v[g] = t[g]
      BY <2>6, <2>7
    <3>4. \A g \in n : v[g] = d
      BY <2>1, <2>7
    <3>5. d.links \in {{}, n}
      BY <2>3, <2>7
    <3>6. \A g \in Files \ n : v[g] # None => t[g].links \cap n = {}
      BY <2>4, <2>7
    <3>7. \A g \in Files \ n : v[g] # None => \A h \in t[g].links \ n : v[h] = t[h]
      BY <2>5, <2>7
    <3>8. QED
      BY <3>1, <3>2, <3>3, <3>4, <3>5, <3>6, <3>7, Regrouped
  <2>8. QED
    BY <2>7
<1>8. u[f] # None /\ u[f].content = x
  BY <1>1, <1>2, <1>3, <1>4
<1>9. \A g \in Files \ {f} : u[g] = t[g] \/ (u[g] # None /\ u[g].links # {})
  BY <1>1, <1>2, <1>3, <1>4
<1>10. QED
  BY <1>7, <1>8, <1>9 DEF u

\* link to a free name: every name it changes is in the group.
LEMMA JoinTyped ==
    ASSUME NEW t \in Trees, NEW f \in Files, NEW g \in Files, t[f] # None, t[g] = None
    PROVE  LET u == Join(t, f, g)
           IN  /\ u \in Trees /\ u[g] # None /\ u[g].links # {}
               /\ \A h \in Files : u[h] = t[h] \/ (u[h] # None /\ u[h].links # {})
<1> DEFINE u == Join(t, f, g)
           group == Group(t, f) \cup {g}
           e == [content |-> t[f].content, links |-> group]
<1>1. group \in SUBSET Files /\ e \in Entries /\ e.links = group /\ g \in group
  BY GroupsAgree DEF Entries
<1>2. e # None
  BY <1>1, AbsentAssumption
<1>3. u = [h \in Files |-> IF h \in group THEN e ELSE t[h]]
  BY DEF Join
<1>4. \A h \in Files \ group : t[h] # None => t[h].links \cap group = {}
  <2>1. \A h \in Files \ group : t[h] # None => t[h].links \cap Group(t, f) = {}
    BY GroupsAgree
  <2>2. \A h \in Files : t[h] # None => g \notin t[h].links
    BY DEF Trees, Grouped
  <2>3. QED
    BY <2>1, <2>2
<1> HIDE DEF u, e, group
<1>5. u \in [Files -> Entries \cup {None}]
  BY <1>1, <1>3 DEF Trees
<1>6. /\ \A h \in group : u[h] = e
      /\ \A h \in Files \ group : u[h] = t[h]
  BY <1>1, <1>3
<1>7. u \in Trees
  <2>1. \A h \in Files \ group : u[h] # None => t[h].links \in SUBSET Files
    BY <1>6 DEF Trees, Entries
  <2>2. \A h \in Files \ group : u[h] # None => t[h].links \cap group = {}
    BY <1>4, <1>6
  <2>3. \A h \in Files \ group : u[h] # None => \A n \in t[h].links \ group : u[n] = t[n]
    BY <1>6, <2>1
  <2>4. e.links \in {{}, group}
    BY <1>1
  <2>5. group \in SUBSET Files
    BY <1>1
  <2>6. QED
    BY <1>5, <1>6, <2>2, <2>3, <2>4, <2>5, Regrouped
<1>8. QED
  BY <1>1, <1>2, <1>6, <1>7 DEF u

\* unlink: the others of the group stay, a group as long as they are several.
LEMMA CutTyped ==
    ASSUME NEW t \in Trees, NEW f \in Files, t[f] # None
    PROVE  Cut(t, f) \in Trees
<1> DEFINE u == Cut(t, f)
           rest == Group(t, f) \ {f}
           links == IF Cardinality(rest) > 1 THEN rest ELSE {}
           e == [t[f] EXCEPT !.links = links]
<1>1. rest \in SUBSET Files /\ links \in {{}, rest} /\ links \in SUBSET Files
  BY GroupsAgree
<1>2. u = [g \in Files |-> IF g = f THEN None
                           ELSE IF g \in rest THEN [t[g] EXCEPT !.links = links] ELSE t[g]]
  BY DEF Cut
<1>3. t[f] \in Entries /\ \A g \in rest : t[g] = t[f]
  BY GroupsAgree
<1>4. \A g \in Files \ rest : g # f /\ t[g] # None => t[g].links \cap (rest \cup {f}) = {}
  BY GroupsAgree
<1>5. f \notin rest
  OBVIOUS
<1> HIDE DEF rest, links
<1>6. e \in Entries /\ e.links = links
  BY <1>1, <1>3 DEF Entries
<1>7. \A g \in rest : u[g] = e
  BY <1>1, <1>2, <1>3, <1>5
<1>8. u[f] = None /\ \A g \in Files \ rest : g # f => u[g] = t[g]
  BY <1>2
<1> HIDE DEF u, e
<1>9. u \in [Files -> Entries \cup {None}]
  <2>1. \A g \in Files : u[g] \in Entries \cup {None}
    BY <1>6, <1>7, <1>8 DEF Trees
  <2>2. QED
    BY <1>2, <2>1
<1>10. \A g \in Files \ rest : u[g] # None => g # f /\ u[g] = t[g] /\ t[g].links \in SUBSET Files
  BY <1>8 DEF Trees, Entries
<1>11. \A g \in Files \ rest : u[g] # None => t[g].links \cap rest = {}
  BY <1>4, <1>8, <1>10
<1>12. \A g \in Files \ rest : u[g] # None => \A h \in t[g].links \ rest : u[h] = t[h]
  BY <1>4, <1>8, <1>10
<1>13. e.links \in {{}, rest}
  BY <1>1, <1>6
<1>14. QED
  BY <1>1, <1>7, <1>8, <1>9, <1>11, <1>12, <1>13, Regrouped DEF u

\* A staged edit that the workspace takes leaves a tree.
LEMMA EditedTyped ==
    ASSUME NEW t \in Trees, NEW m \in Mutations,
           \/ m.op = "write" /\ m.arg \in Contents
           \/ m.op = "unlink" /\ t[m.path] # None
           \/ m.op = "link" /\ m.arg \in Files /\ t[m.arg] # None /\ t[m.path] = None
    PROVE  Edited(t, m) \in Trees
<1>1. m.path \in Files
  BY DEF Mutations
<1>2. CASE m.op = "write" /\ m.arg \in Contents
  BY <1>1, <1>2, PutTyped DEF Edited
<1>3. CASE m.op = "unlink" /\ t[m.path] # None
  BY <1>1, <1>3, CutTyped DEF Edited
<1>4. CASE m.op = "link" /\ m.arg \in Files /\ t[m.arg] # None /\ t[m.path] = None
  BY <1>1, <1>4, JoinTyped DEF Edited
<1>5. QED
  BY <1>2, <1>3, <1>4

\* One more edit staged: a first edit shows what it makes of the base.
LEMMA MadeStaged ==
    ASSUME NEW t, NEW muts \in Seq(Mutations), NEW u, NEW m \in Mutations, Made(t, muts, u)
    PROVE  /\ Append(muts, m) \in Seq(Mutations) /\ Append(muts, m) # <<>>
           /\ Made(t, Append(muts, m), Edited(u, m))
           /\ muts = <<>> => Append(muts, m) = <<m>>
<1>1. /\ Append(muts, m) \in Seq(Mutations) /\ Len(Append(muts, m)) = Len(muts) + 1
      /\ Len(muts) \in Nat /\ Append(muts, m)[Len(muts) + 1] = m
  BY AppendProperties
<1>2. ASSUME NEW n \in Mutations, Append(muts, m) = <<n>>
      PROVE  muts = <<>> /\ n = m
  <2>1. Len(muts) + 1 = 1
    BY <1>1, <1>2
  <2>2. Len(muts) = 0
    BY <1>1, <2>1
  <2>3. muts = <<>> /\ Append(muts, m)[1] = m
    BY <1>1, <2>2, EmptySeq
  <2>4. QED
    BY <1>2, <2>3
<1>3. Append(muts, m) # <<>>
  BY <1>1
<1>4. muts = <<>> => Append(muts, m) = <<m>>
  OBVIOUS
<1>5. Made(t, Append(muts, m), Edited(u, m))
  BY <1>2, <1>3 DEF Made
<1>6. QED
  BY <1>1, <1>3, <1>4, <1>5

\* Some inode number is unused while some name is.
LEMMA UnusedTyped ==
    ASSUME NEW h \in Hosts, NEW f \in Files, h[f] = None
    PROVE  Unused(h) \in Files /\ \A g \in Files : h[g] # None => h[g].ino # Unused(h)
<1> DEFINE live == {g \in Files : h[g] # None}
           number == [g \in live |-> h[g].ino]
           used == {number[g] : g \in live}
<1>1. IsFiniteSet(Files) /\ Cardinality(Files) = FileCount
  BY AgentsAssumption, FS_Interval DEF Files
<1>2. IsFiniteSet(Files \ {f}) /\ Cardinality(Files \ {f}) = FileCount - 1
  BY <1>1, FS_RemoveElement
<1>3. IsFiniteSet(live) /\ Cardinality(live) <= FileCount - 1
  BY <1>2, FS_Subset
<1>4. number \in Surjection(live, used)
  <2>1. number \in [live -> used]
    OBVIOUS
  <2>2. \A n \in used : \E g \in live : number[g] = n
    OBVIOUS
  <2>3. QED
    BY <2>1, <2>2, Zenon DEF Surjection
<1>5. Cardinality(used) <= Cardinality(live) /\ IsFiniteSet(used)
  BY <1>3, <1>4, FS_Surjection
<1>6. used # Files
  <2>1. Cardinality(used) \in Nat /\ Cardinality(live) \in Nat
    BY <1>3, <1>5, FS_CardinalityType
  <2> HIDE DEF used, live
  <2>2. QED
    BY <1>1, <1>3, <1>5, <2>1, AgentsAssumption
<1>7. used \subseteq Files
  BY DEF Hosts, Inodes
<1>8. \E i \in Files : \A g \in Files : h[g] # None => h[g].ino # i
  BY <1>6, <1>7
<1>9. QED
  BY <1>8 DEF Unused

\* Writing, removing and linking a file keep a directory, and the names of an inode
\* agreed.
LEMMA HostPutTyped ==
    ASSUME NEW h \in Hosts, NEW f \in Files, NEW x \in Contents
    PROVE  LET k == HostPut(h, f, x)
           IN  /\ k \in Hosts /\ k[f] # None /\ k[f].content = x
               /\ \A g \in Files : k[g] = h[g]
                    \/ (g = f /\ h[f] = None)
                    \/ (h[g] # None /\ h[f] # None /\ h[g].ino = h[f].ino
                        /\ k[g] # None /\ k[g].content = x /\ k[g].ino = h[g].ino)
               /\ h[f] # None => \A g \in Files :
                    /\ k[g] # None <=> h[g] # None
                    /\ h[g] # None => k[g].ino = h[g].ino
                    /\ h[g] # None /\ h[g].ino = h[f].ino => k[g].content = x
               /\ h[f] = None => \A g \in Files \ {f} : k[g] # None => k[g].ino # k[f].ino
               /\ Linked(h) => Linked(k)
<1> DEFINE k == HostPut(h, f, x)
<1>1. CASE h[f] = None
  <2> DEFINE e == [content |-> x, ino |-> Unused(h)]
  <2>1. e \in Inodes /\ e.content = x /\ e.ino = Unused(h)
    BY <1>1, UnusedTyped DEF Inodes
  <2>2. e # None
    BY <2>1, AbsentAssumption
  <2>3. k = [h EXCEPT ![f] = e]
    BY <1>1 DEF HostPut
  <2> HIDE DEF k, e
  <2>4. k \in Hosts /\ k[f] = e /\ \A g \in Files \ {f} : k[g] = h[g]
    BY <2>1, <2>3 DEF Hosts
  <2>5. \A g \in Files \ {f} : k[g] # None => k[g].ino # k[f].ino
    BY <1>1, <2>1, <2>4, UnusedTyped
  <2>6. Linked(h) => Linked(k)
    BY <2>4, <2>5 DEF Linked
  <2>7. QED
    BY <1>1, <2>1, <2>2, <2>4, <2>5, <2>6 DEF k
<1>2. CASE h[f] # None
  <2>1. k = [g \in Files |-> IF g \in Names(h, f) THEN [h[g] EXCEPT !.content = x] ELSE h[g]]
    BY <1>2 DEF HostPut
  <2> HIDE DEF k
  <2>2. ASSUME NEW g \in Files, g \in Names(h, f)
        PROVE  /\ k[g] \in Inodes /\ k[g].content = x /\ k[g].ino = h[g].ino
               /\ h[g] # None /\ h[g].ino = h[f].ino
    <3>1. h[g] \in Inodes /\ h[g] # None /\ h[g].ino = h[f].ino
      BY <2>2 DEF Names, Hosts
    <3>2. QED
      BY <2>1, <2>2, <3>1 DEF Inodes
  <2>3. \A g \in Files : g \notin Names(h, f) => k[g] = h[g]
    BY <2>1
  <2>4. \A g \in Files : g \in Names(h, f) <=> h[g] # None /\ h[g].ino = h[f].ino
    BY DEF Names
  <2>5. k \in Hosts
    BY <2>1, <2>2, <2>3 DEF Hosts
  <2>6. \A g \in Files : k[g] \in Inodes => k[g] # None
    BY AbsentAssumption
  <2>7. Linked(h) => Linked(k)
    BY <2>2, <2>3, <2>4 DEF Linked
  <2>8. QED
    BY <1>2, <2>2, <2>3, <2>4, <2>5, <2>6, <2>7 DEF k
<1>3. QED
  BY <1>1, <1>2

\* Removing a name of the directory leaves the others, and no dangling link.
LEMMA HostCutTyped ==
    ASSUME NEW h \in Hosts, NEW f \in Files
    PROVE  /\ HostCut(h, f) \in Hosts
           /\ HostCut(h, f)[f] = None /\ \A g \in Files \ {f} : HostCut(h, f)[g] = h[g]
           /\ Linked(h) => Linked(HostCut(h, f))
BY DEF HostCut, Hosts, Linked

\* Linking a name of the directory sets that name only.
LEMMA HostLinkTyped ==
    ASSUME NEW h \in Hosts, NEW f \in Files, NEW g \in Files
    PROVE  /\ HostLink(h, f, g) \in Hosts
           /\ HostLink(h, f, g)[g] = h[f]
           /\ \A n \in Files \ {g} : HostLink(h, f, g)[n] = h[n]
           /\ Linked(h) => Linked(HostLink(h, f, g))
BY DEF HostLink, Hosts, Linked

\* Whatever others do to the directory leaves one whose names agree.
LEMMA ChangesTyped ==
    ASSUME NEW h \in Hosts, Linked(h), NEW k \in Changes(h)
    PROVE  k \in Hosts /\ Linked(k)
<1>1. CASE \E f \in Files, x \in Contents : k = HostPut(h, f, x)
  BY <1>1, HostPutTyped
<1>2. CASE \E f \in Files, x \in Contents : k = HostPut(HostCut(h, f), f, x)
  BY <1>2, HostCutTyped, HostPutTyped
<1>3. CASE \E f \in Files : k = HostCut(h, f)
  BY <1>3, HostCutTyped
<1>4. CASE \E f, g \in Files : k = HostLink(h, f, g)
  BY <1>4, HostLinkTyped
<1>5. QED
  BY <1>1, <1>2, <1>3, <1>4 DEF Changes

\* Among some names there is a first one: of the initial segments that end in one of
\* them, no other is a part of its own.
LEMMA FirstOfNames ==
    ASSUME NEW S \in SUBSET Files, S # {}
    PROVE  \E f \in S : \A g \in S : f <= g
<1> DEFINE upTo == {1..f : f \in S}
<1>1. IsWellFoundedOn(StrictSubsetOrdering(Files), FiniteSubsetsOf(Files))
  BY FS_StrictSubsetOrderingWellFounded
<1>2. IsFiniteSet(Files)
  BY AgentsAssumption, FS_Interval DEF Files
<1>3. upTo # {} /\ upTo \subseteq FiniteSubsetsOf(Files)
  <2>1. \A f \in S : 1..f \subseteq Files
    BY AgentsAssumption DEF Files
  <2>2. \A f \in S : IsFiniteSet(1..f)
    BY <1>2, <2>1, FS_Subset
  <2>3. QED
    BY <2>1, <2>2 DEF FiniteSubsetsOf
<1>4. PICK x \in upTo : \A y \in upTo : <<y, x>> \notin StrictSubsetOrdering(Files)
  <2> HIDE DEF upTo
  <2>1. QED
    BY <1>1, <1>3, WFMin
<1>5. PICK f \in S : x = 1..f
  OBVIOUS
<1>6. ASSUME NEW g \in S, g < f PROVE FALSE
  <2>a. f \in 1..FileCount /\ g \in 1..FileCount
    BY DEF Files
  <2>b. f \in 1..f /\ f \notin 1..g
    BY <1>6, <2>a, AgentsAssumption
  <2>1. 1..g \subseteq 1..f /\ 1..g # 1..f /\ 1..f \subseteq Files
    BY <1>6, <2>a, <2>b, AgentsAssumption DEF Files
  <2>2. <<1..g, x>> \in StrictSubsetOrdering(Files)
    BY <1>5, <2>1 DEF StrictSubsetOrdering
  <2>3. QED
    BY <1>4, <1>6, <2>2
<1>7. QED
  BY <1>5, <1>6, AgentsAssumption DEF Files

--------------------------------------------------------------------------------
(* A step that is not the call's own *)

SameCall(r, s) ==
    /\ r.kind = s.kind /\ r.phase = s.phase /\ r.base = s.base /\ r.tree = s.tree
    /\ r.muts = s.muts /\ r.todo = s.todo /\ r.first = s.first /\ r.exit = s.exit /\ r.target = s.target

\* Commits are only ever added.
Grows == \A k \in DOMAIN commits : k \in DOMAIN commits' /\ commits'[k] = commits[k]

Elsewhere(d) ==
    /\ SameCall(call[d], call'[d])
    /\ \/ host' = host /\ call'[d].disturbed = call[d].disturbed
       \/ call'[d].disturbed = TRUE
       \/ call[d].phase = "idle"
    /\ span'[d] = span[d] /\ tool'[d] = tool[d]
    /\ Bears(d)' <=> Bears(d)
    /\ Grows

\* What a call has staged stays held.
LEMMA HeldStays ==
    ASSUME NEW d, Held(d), Grows, Bears(d)' <=> Bears(d), call'[d].base = call[d].base,
           call'[d].tree = call[d].tree, call'[d].muts = call[d].muts
    PROVE  Held(d)'
<1>1. PICK k \in DOMAIN commits : Holds(d, k) /\ (commits[k].by = d \/ ~Bears(d))
  BY DEF Held
<1>2. /\ k \in DOMAIN commits' /\ commits'[k] = commits[k]
      /\ k - 1 \in DOMAIN commits' /\ commits'[k - 1] = commits[k - 1]
      /\ call[d].base \in DOMAIN commits' /\ commits'[call[d].base] = commits[call[d].base]
  BY <1>1 DEF Grows, Holds, Held
<1>3. Holds(d, k)'
  BY <1>1, <1>2 DEF Holds
<1>4. QED
  BY <1>1, <1>2, <1>3 DEF Held

\* What a call has staged stays made of its base.
LEMMA MadeStays ==
    ASSUME NEW d, MadeInv(d), Grows, SameCall(call[d], call'[d])
    PROVE  MadeInv(d)'
<1>1. call[d].base \in DOMAIN commits =>
        call'[d].base \in DOMAIN commits' /\ commits'[call'[d].base] = commits[call[d].base]
  BY DEF Grows, SameCall
<1>2. QED
  BY <1>1 DEF MadeInv, SameCall

\* What apply compares does not change under it.
LEMMA SameCommits ==
    ASSUME NEW d, {call[d].base, call[d].target} \subseteq DOMAIN commits, Grows,
           call'[d].base = call[d].base, call'[d].target = call[d].target
    PROVE  /\ Before(d)' = Before(d) /\ After(d)' = After(d) /\ Affected(d)' = Affected(d)
           /\ ToWrite(d)' = ToWrite(d) /\ ToRemove(d)' = ToRemove(d)
           /\ \A x : HeldBy(d, x)' <=> HeldBy(d, x)
<1>1. Before(d)' = Before(d) /\ After(d)' = After(d)
  BY DEF Before, After, Grows
<1>2. Affected(d)' = Affected(d)
  BY <1>1 DEF Affected, Differing
<1>3. ToWrite(d)' = ToWrite(d) /\ ToRemove(d)' = ToRemove(d)
  BY <1>1, <1>2 DEF ToWrite, ToRemove
<1>4. \A x : HeldBy(d, x)' <=> HeldBy(d, x)
  BY <1>1, <1>2 DEF HeldBy
<1>5. QED
  BY <1>1, <1>2, <1>3, <1>4

\* A call keeps its invariant through a step that happens elsewhere.
LEMMA Frame ==
    ASSUME NEW d \in Calls, CallInv(d), Elsewhere(d)
    PROVE  CallInv(d)'
<1> USE DEF CallInv
<1>a. Held(d) => Held(d)'
  BY HeldStays DEF Elsewhere, SameCall
<1>b. MadeInv(d)'
  BY MadeStays DEF Elsewhere
<1>1. SpanInv(d)'
  BY <1>a DEF Elsewhere, SameCall, SpanInv, Blank, Running, Agreed, Status
<1>2. FirstInv(d)'
  BY DEF Elsewhere, SameCall, FirstInv
<1>3. ReadingInv(d)'
  BY DEF Elsewhere, SameCall, ReadingInv, ShownIn
<1>4. ApplyInv(d)'
  <2>1. CASE call[d].kind # "apply"
    BY <2>1 DEF Elsewhere, SameCall, ApplyInv
  <2>2. CASE call[d].kind = "apply"
    <3>1. /\ Affected(d)' = Affected(d) /\ ToWrite(d)' = ToWrite(d) /\ ToRemove(d)' = ToRemove(d)
          /\ After(d)' = After(d)
          /\ \A x : HeldBy(d, x)' <=> HeldBy(d, x)
      BY <2>2, SameCommits DEF Elsewhere, SameCall, ApplyInv
    <3>2. ~call'[d].disturbed => host' = host /\ ~call[d].disturbed
      BY <2>2 DEF Elsewhere, ApplyInv
    <3>3. host' = host => \A f \in Files : Seen(d, f)' <=> Seen(d, f)
      BY <3>1 DEF Seen
    <3>4. host' = host => \A f, done : Settled(d, f, done)' <=> Settled(d, f, done)
      BY <3>1 DEF Settled
    <3>5. Affected(d) \in SUBSET Files
      BY DEF Affected, Differing
    <3>6. QED
      BY <2>2, <3>1, <3>2, <3>3, <3>4, <3>5, ZenonT(60) DEF Elsewhere, SameCall, ApplyInv, Grows
  <2>3. QED
    BY <2>1, <2>2
<1>5. QED
  BY <1>b, <1>1, <1>2, <1>3, <1>4

\* The invariant after a step of c that leaves the other calls alone, and after one
\* that changes nothing but c's own record.
LEMMA CallStep ==
    ASSUME CallsInv, NEW c \in Calls, AgentTypeOK', Linked(host)', HistoryInv', CallInv(c)',
           \A d \in Calls \ {c} : Elsewhere(d)
    PROVE  CallsInv'
<1>1. ASSUME NEW d \in Calls PROVE CallInv(d)'
  <2>1. CASE d = c
    BY <2>1
  <2>2. CASE d # c
    BY <2>2, Frame DEF CallsInv
  <2>3. QED
    BY <2>1, <2>2
<1>2. QED
  BY <1>1 DEF CallsInv

\* A step that commits nothing changes no call's commit.
LEMMA SameBears ==
    ASSUME commits' = commits
    PROVE  /\ \A d \in Calls : Bears(d)' <=> Bears(d)
           /\ Grows /\ (HistoryInv => HistoryInv')
BY DEF Bears, Grows, HistoryInv, OneCommitEach, CommitsMade

\* A step of one call happens elsewhere for every other call.
LEMMA OthersStay ==
    ASSUME AgentTypeOK, commits' = commits, host' = host, NEW c \in Calls, NEW r, Becomes(c, r),
           \A d \in Calls \ {c} : span'[d] = span[d] /\ tool'[d] = tool[d]
    PROVE  call'[c] = r /\ \A d \in Calls \ {c} : Elsewhere(d)
BY SameBears DEF AgentTypeOK, Becomes, Elsewhere, SameCall

\* A step that moves one call's record only keeps the others.
LEMMA QuietStep ==
    ASSUME CallsInv, NEW c \in Calls, NEW r \in CallRecords, Becomes(c, r),
           UNCHANGED <<commits, span, tool, host, edits>>,
           call'[c] = r => CallInv(c)'
    PROVE  CallsInv'
<1>1. call'[c] = r /\ \A d \in Calls \ {c} : Elsewhere(d)
  BY OthersStay DEF CallsInv
<1>2. AgentTypeOK'
  BY DEF CallsInv, AgentTypeOK, Becomes
<1>3. Linked(host)' /\ HistoryInv'
  BY SameBears DEF CallsInv, Linked
<1>4. QED
  BY <1>1, <1>2, <1>3, CallStep

\* A call that has not begun has a record.
LEMMA IdleTyped == Idle \in CallRecords
BY NoTreeTyped DEF Idle, CallRecords, CallPhases

--------------------------------------------------------------------------------
(* Opening and closing a span *)

\* The span row of tool_start.
LEMMA SpanOpensKeeps ==
    ASSUME CallsInv, NEW c \in Calls, NEW kind \in Kinds, SpanOpens(c, kind)
    PROVE  CallsInv'
<1> DEFINE r == [Idle EXCEPT !.kind = kind, !.phase = "spanned"]
<1>1. /\ call[c].phase = "idle" /\ kind \in {"tool", "run"}
      /\ span' = [span EXCEPT ![c] = "RUNNING"] /\ Becomes(c, r)
      /\ UNCHANGED <<commits, tool, host, edits>>
  BY DEF SpanOpens, At
<1>2. /\ r \in CallRecords /\ r.kind = kind /\ r.phase = "spanned" /\ r.exit = "ok"
      /\ r.first = [i \in Files |-> None] /\ r.muts = <<>>
  BY <1>1, IdleTyped DEF CallRecords, CallPhases, Idle
<1> HIDE DEF r
<1>3. call'[c] = r /\ \A d \in Calls \ {c} : Elsewhere(d)
  BY <1>1, OthersStay DEF CallsInv, AgentTypeOK
<1>4. AgentTypeOK'
  BY <1>1, <1>2 DEF CallsInv, AgentTypeOK, Becomes
<1>5. Linked(host)' /\ HistoryInv' /\ (Bears(c)' <=> Bears(c))
  BY <1>1, SameBears DEF CallsInv, Linked
<1>6. SpanInv(c)'
  BY <1>1, <1>2, <1>3, <1>5 DEF CallsInv, CallInv, AgentTypeOK, SpanInv, Blank
<1>7. FirstInv(c)' /\ MadeInv(c)' /\ ReadingInv(c)' /\ ApplyInv(c)'
  BY <1>1, <1>2, <1>3 DEF FirstInv, MadeInv, ReadingInv, ApplyInv
<1>8. QED
  BY <1>3, <1>4, <1>5, <1>6, <1>7, CallStep DEF CallInv

\* A call's record stays one when the call comes to another phase.
LEMMA PhaseTyped ==
    ASSUME NEW k \in CallRecords, NEW to \in CallPhases
    PROVE  LET r == [k EXCEPT !.phase = to]
           IN  /\ r \in CallRecords /\ r.phase = to /\ r.kind = k.kind /\ r.exit = k.exit
               /\ r.first = k.first /\ r.tree = k.tree /\ r.disturbed = k.disturbed
               /\ r.base = k.base /\ r.muts = k.muts
BY DEF CallRecords

\* The tool_call row of tool_start.
LEMMA ToolCallOpensKeeps ==
    ASSUME CallsInv, NEW c \in Calls, ToolCallOpens(c)
    PROVE  CallsInv'
<1> DEFINE r == [call[c] EXCEPT !.phase = "begun"]
<1>1. /\ call[c].phase = "spanned"
      /\ tool' = [tool EXCEPT ![c] = "open"] /\ Becomes(c, r)
      /\ UNCHANGED <<commits, span, host, edits>>
  BY DEF ToolCallOpens, At
<1>2. /\ r \in CallRecords /\ r.kind = call[c].kind /\ r.phase = "begun"
      /\ r.exit = call[c].exit /\ r.first = call[c].first /\ r.muts = call[c].muts
  <2>1. call[c] \in CallRecords /\ "begun" \in CallPhases
    BY DEF CallsInv, AgentTypeOK, CallPhases
  <2>2. QED
    BY <2>1, PhaseTyped
<1> HIDE DEF r
<1>3. call'[c] = r /\ \A d \in Calls \ {c} : Elsewhere(d)
  BY <1>1, OthersStay DEF CallsInv, AgentTypeOK
<1>4. AgentTypeOK'
  BY <1>1, <1>2 DEF CallsInv, AgentTypeOK, Becomes
<1>5. Linked(host)' /\ HistoryInv' /\ (Bears(c)' <=> Bears(c))
  BY <1>1, SameBears DEF CallsInv, Linked
<1>6. SpanInv(c)'
  BY <1>1, <1>2, <1>3, <1>5 DEF CallsInv, CallInv, AgentTypeOK, SpanInv, Running
<1>7. FirstInv(c)' /\ MadeInv(c)' /\ ReadingInv(c)' /\ ApplyInv(c)'
  <2>1. FirstInv(c)' /\ ReadingInv(c)' /\ ApplyInv(c)'
    BY <1>1, <1>2, <1>3, ZenonT(60) DEF CallsInv, CallInv, SpanInv, FirstInv, ReadingInv, ApplyInv
  <2>2. MadeInv(c)'
    BY <1>1, <1>2, <1>3 DEF CallsInv, CallInv, MadeInv
  <2>3. QED
    BY <2>1, <2>2
<1>8. QED
  BY <1>3, <1>4, <1>5, <1>6, <1>7, CallStep DEF CallInv

\* The span row of tool_finish.
LEMMA SpanClosesKeeps ==
    ASSUME CallsInv, NEW c \in Calls, SpanCloses(c)
    PROVE  CallsInv'
<1> DEFINE r == [call[c] EXCEPT !.phase = "finished"]
<1>1. /\ call[c].phase = "finishing"
      /\ span' = [span EXCEPT ![c] = Status(c)] /\ Becomes(c, r)
      /\ UNCHANGED <<commits, tool, host, edits>>
  BY DEF SpanCloses, At
<1>2. /\ r \in CallRecords /\ r.disturbed = call[c].disturbed
      /\ r.kind = call[c].kind /\ r.phase = "finished" /\ r.exit = call[c].exit
      /\ r.tree = call[c].tree /\ r.base = call[c].base /\ r.muts = call[c].muts
  <2>1. call[c] \in CallRecords /\ "finished" \in CallPhases
    BY DEF CallsInv, AgentTypeOK, CallPhases
  <2>2. QED
    BY <2>1, PhaseTyped
<1> HIDE DEF r
<1>3. call'[c] = r /\ \A d \in Calls \ {c} : Elsewhere(d)
  BY <1>1, OthersStay DEF CallsInv, AgentTypeOK
<1>4. AgentTypeOK'
  BY <1>1, <1>2 DEF CallsInv, AgentTypeOK, Becomes, Status
<1>5. Linked(host)' /\ HistoryInv' /\ (Bears(c)' <=> Bears(c))
  BY <1>1, SameBears DEF CallsInv, Linked
<1>a. Held(c) => Held(c)'
  BY <1>1, <1>2, <1>3, <1>5, HeldStays, SameBears
<1>6. SpanInv(c)'
  BY <1>1, <1>2, <1>3, <1>5, <1>a
     DEF CallsInv, CallInv, AgentTypeOK, SpanInv, Running, Agreed, Status
<1>b. FirstInv(c)' /\ ReadingInv(c)' /\ ApplyInv(c)'
  BY <1>1, <1>2, <1>3 DEF CallsInv, CallInv, FirstInv, ReadingInv, ShownIn, ApplyInv
<1>7. FirstInv(c)' /\ MadeInv(c)' /\ ReadingInv(c)' /\ ApplyInv(c)'
  BY <1>2, <1>3, <1>b DEF MadeInv
<1>8. QED
  BY <1>3, <1>4, <1>5, <1>6, <1>7, CallStep DEF CallInv

\* The tool_call row of tool_finish.
LEMMA ToolCallClosesKeeps ==
    ASSUME CallsInv, NEW c \in Calls, ToolCallCloses(c)
    PROVE  CallsInv'
<1> DEFINE r == [call[c] EXCEPT !.phase = "answered"]
<1>1. /\ call[c].phase = "finished"
      /\ tool' = [tool EXCEPT ![c] = IF call[c].exit = "ok" THEN "output" ELSE "error"]
      /\ Becomes(c, r)
      /\ UNCHANGED <<commits, span, host, edits>>
  BY DEF ToolCallCloses, At
<1>2. /\ r \in CallRecords /\ r.disturbed = call[c].disturbed
      /\ r.kind = call[c].kind /\ r.phase = "answered" /\ r.exit = call[c].exit
      /\ r.tree = call[c].tree /\ r.base = call[c].base /\ r.muts = call[c].muts
  <2>1. call[c] \in CallRecords /\ "answered" \in CallPhases
    BY DEF CallsInv, AgentTypeOK, CallPhases
  <2>2. QED
    BY <2>1, PhaseTyped
<1> HIDE DEF r
<1>3. call'[c] = r /\ \A d \in Calls \ {c} : Elsewhere(d)
  BY <1>1, OthersStay DEF CallsInv, AgentTypeOK
<1>4. AgentTypeOK'
  BY <1>1, <1>2 DEF CallsInv, AgentTypeOK, Becomes
<1>5. Linked(host)' /\ HistoryInv' /\ (Bears(c)' <=> Bears(c))
  BY <1>1, SameBears DEF CallsInv, Linked
<1>a. Held(c) => Held(c)'
  BY <1>1, <1>2, <1>3, <1>5, HeldStays, SameBears
<1>6. SpanInv(c)'
  BY <1>1, <1>2, <1>3, <1>5, <1>a
     DEF CallsInv, CallInv, AgentTypeOK, SpanInv, Running, Agreed, Status
<1>b. FirstInv(c)' /\ ReadingInv(c)' /\ ApplyInv(c)'
  BY <1>1, <1>2, <1>3 DEF CallsInv, CallInv, FirstInv, ReadingInv, ShownIn, ApplyInv
<1>7. FirstInv(c)' /\ MadeInv(c)' /\ ReadingInv(c)' /\ ApplyInv(c)'
  BY <1>2, <1>3, <1>b DEF MadeInv
<1>8. QED
  BY <1>3, <1>4, <1>5, <1>6, <1>7, CallStep DEF CallInv

--------------------------------------------------------------------------------
(* The workspace of a tool call, a run or an ingest *)

\* The commits are a list that is never empty.
LEMMA CommitsTyped ==
    ASSUME AgentTypeOK
    PROVE  /\ Len(commits) \in Nat /\ Len(commits) # 0 /\ Len(commits) \in DOMAIN commits
           /\ DOMAIN commits = 1..Len(commits)
           /\ \A k \in DOMAIN commits :
                /\ k \in Nat /\ commits[k].files \in Trees /\ commits[k].muts \in Seq(Mutations)
                /\ commits[k].by \in Calls \cup {None}
<1>1. Len(commits) \in Nat /\ DOMAIN commits = 1..Len(commits) /\ Len(commits) # 0
  BY DEF AgentTypeOK
<1>2. \A k \in 1..Len(commits) : commits[k] \in Commits
  BY ElementOfSeq DEF AgentTypeOK
<1>3. QED
  BY <1>1, <1>2 DEF Commits

\* A workspace opened for a tool, a run or an ingest.
LEMMA OpenedKeeps ==
    ASSUME CallsInv, NEW c \in Calls, NEW kind, Opened(c, kind),
           UNCHANGED <<commits, span, tool, host, edits>>,
           \/ call[c].phase = "begun" /\ call[c].kind = "tool" /\ kind = "tool"
           \/ call[c].phase = "ran" /\ kind = call[c].kind
           \/ call[c].phase = "idle" /\ kind = "ingest"
    PROVE  CallsInv'
<1> DEFINE r == [call[c] EXCEPT
                    !.kind = kind, !.base = Len(commits), !.tree = commits[Len(commits)].files,
                    !.phase = IF kind = "tool" THEN "editing" ELSE "reading",
                    !.todo = IF kind = "tool" THEN {} ELSE Files, !.disturbed = FALSE]
<1>1. Becomes(c, r)
  BY DEF Opened
<1>2. SpanInv(c) /\ FirstInv(c) /\ MadeInv(c) /\ call[c] \in CallRecords
  BY DEF CallsInv, CallInv, AgentTypeOK
<1>3. kind \in {"tool", "run", "ingest"} /\ (call[c].phase = "ran" => kind = "run")
  BY <1>2 DEF SpanInv
<1>4. /\ commits[Len(commits)].files \in Trees /\ Len(commits) \in Nat
      /\ Len(commits) \in DOMAIN commits
  BY CommitsTyped DEF CallsInv
<1>5. /\ r \in CallRecords
      /\ r.kind = kind /\ r.phase = (IF kind = "tool" THEN "editing" ELSE "reading")
      /\ r.exit = call[c].exit /\ r.first = call[c].first /\ r.muts = call[c].muts
      /\ r.base = Len(commits) /\ r.tree = commits[Len(commits)].files
      /\ r.todo = (IF kind = "tool" THEN {} ELSE Files)
  BY <1>2, <1>3, <1>4 DEF CallRecords, CallPhases
<1> HIDE DEF r
<1>6. ASSUME call'[c] = r PROVE CallInv(c)'
  <2>1. SpanInv(c)'
    BY <1>2, <1>3, <1>5, <1>6, SameBears DEF SpanInv, Blank, Running
  <2>2. FirstInv(c)' /\ ReadingInv(c)' /\ ApplyInv(c)'
    BY <1>2, <1>3, <1>5, <1>6 DEF FirstInv, ReadingInv, ApplyInv
  <2>3. MadeInv(c)'
    <3>1. call[c].muts = <<>>
      BY <1>2 DEF MadeInv
    <3>2. \A m : <<m>> # <<>>
      OBVIOUS
    <3>3. QED
      BY <1>4, <1>5, <1>6, <3>1, <3>2 DEF MadeInv, Made
  <2>4. QED
    BY <2>1, <2>2, <2>3 DEF CallInv
<1>7. QED
  BY <1>1, <1>5, <1>6, QuietStep

\* A call that ends with its span left open, or with none.
LEMMA LostKeeps ==
    ASSUME CallsInv, NEW c \in Calls,
           UNCHANGED <<commits, span, tool, host, edits>>,
           Becomes(c, Lost(call[c])),
           call[c].phase \in {"begun", "ran", "reading", "publishing"}
    PROVE  CallsInv'
<1> DEFINE r == Lost(call[c])
<1>1. SpanInv(c) /\ call[c] \in CallRecords
  BY DEF CallsInv, CallInv, AgentTypeOK
<1>2. r \in CallRecords /\ r.kind = call[c].kind /\ r.phase = "answered" /\ r.exit = "lost"
  BY <1>1, IdleTyped DEF CallRecords, CallPhases, Idle, Lost
<1> HIDE DEF r
<1>3. ASSUME call'[c] = r PROVE CallInv(c)'
  <2>1. SpanInv(c)'
    BY <1>1, <1>2, <1>3, SameBears DEF SpanInv, Blank, Running
  <2>2. FirstInv(c)' /\ MadeInv(c)' /\ ReadingInv(c)' /\ ApplyInv(c)'
    BY <1>1, <1>2, <1>3 DEF SpanInv, FirstInv, MadeInv, ReadingInv, ApplyInv
  <2>3. QED
    BY <2>1, <2>2 DEF CallInv
<1>4. QED
  BY <1>2, <1>3, QuietStep DEF r

\* A tool call that goes on to close its span as failed.
LEMMA FailedKeeps ==
    ASSUME CallsInv, NEW c \in Calls,
           UNCHANGED <<commits, span, tool, host, edits>>,
           Becomes(c, Failed(call[c])),
           call[c].phase \in {"editing", "publishing"}, call[c].kind = "tool"
    PROVE  CallsInv'
<1> DEFINE r == Failed(call[c])
<1>1. SpanInv(c) /\ call[c] \in CallRecords
  BY DEF CallsInv, CallInv, AgentTypeOK
<1>2. r \in CallRecords /\ r.kind = "tool" /\ r.phase = "finishing" /\ r.exit = "failed"
  <2>1. <<>> \in Seq(Mutations) /\ "finishing" \in CallPhases
    BY DEF CallPhases
  <2>2. QED
    BY <1>1, <2>1, NoTreeTyped DEF CallRecords, Failed
<1> HIDE DEF r
<1>3. ASSUME call'[c] = r PROVE CallInv(c)'
  <2>1. SpanInv(c)'
    BY <1>1, <1>2, <1>3, SameBears DEF SpanInv, Running, Agreed
  <2>2. FirstInv(c)' /\ MadeInv(c)' /\ ReadingInv(c)' /\ ApplyInv(c)'
    BY <1>1, <1>2, <1>3 DEF FirstInv, MadeInv, ReadingInv, ApplyInv
  <2>3. QED
    BY <2>1, <2>2 DEF CallInv
<1>4. QED
  BY <1>2, <1>3, QuietStep DEF r

\* A tool that writes or removes a file.
LEMMA EditFileKeeps ==
    ASSUME CallsInv, NEW c \in Calls, EditFile(c)
    PROVE  CallsInv'
<1>1. /\ call[c].phase = "editing"
      /\ UNCHANGED <<commits, span, tool, host, edits>>
  BY DEF EditFile, At
<1>2. /\ SpanInv(c) /\ MadeInv(c) /\ call[c] \in CallRecords /\ call[c].kind = "tool"
      /\ call[c].tree \in Trees /\ call[c].muts \in Seq(Mutations)
  BY <1>1 DEF CallsInv, CallInv, SpanInv, AgentTypeOK, CallRecords
<1>3. PICK m \in ToolEdits :
        Becomes(c, IF m.op = "unlink" /\ call[c].tree[m.path] = None THEN Failed(call[c])
                   ELSE Staged([call[c] EXCEPT !.phase = "publishing"], m))
  BY DEF EditFile
<1>4. m \in Mutations /\ (m.op = "unlink" \/ (m.op = "write" /\ m.arg \in Contents))
  BY DEF ToolEdits, Mutations
<1>5. CASE m.op = "unlink" /\ call[c].tree[m.path] = None
  BY <1>1, <1>2, <1>3, <1>5, FailedKeeps
<1>6. CASE ~(m.op = "unlink" /\ call[c].tree[m.path] = None)
  <2> DEFINE r == Staged([call[c] EXCEPT !.phase = "publishing"], m)
             t == commits[call[c].base].files
  <2>1. Edited(call[c].tree, m) \in Trees
    BY <1>2, <1>4, <1>6, EditedTyped
  <2>2. /\ Append(call[c].muts, m) = <<m>> /\ Append(call[c].muts, m) \in Seq(Mutations)
        /\ Made(t, Append(call[c].muts, m), Edited(call[c].tree, m))
        /\ call[c].base \in DOMAIN commits
    <3>1. /\ call[c].muts = <<>> /\ call[c].base \in DOMAIN commits
          /\ Made(t, call[c].muts, call[c].tree)
      BY <1>1, <1>2 DEF MadeInv
    <3> HIDE DEF t
    <3>2. QED
      BY <1>2, <1>4, <3>1, MadeStaged
  <2>3. /\ r \in CallRecords /\ r.kind = "tool" /\ r.phase = "publishing"
        /\ r.exit = call[c].exit /\ r.base = call[c].base
        /\ r.muts = Append(call[c].muts, m) /\ r.tree = Edited(call[c].tree, m)
    BY <1>2, <2>1, <2>2 DEF Staged, CallRecords, CallPhases
  <2>4. Becomes(c, r)
    BY <1>3, <1>6
  <2> HIDE DEF r
  <2>5. ASSUME call'[c] = r PROVE CallInv(c)'
    <3>1. SpanInv(c)'
      BY <1>1, <1>2, <2>3, <2>5, SameBears DEF SpanInv, Running
    <3>2. MadeInv(c)'
      BY <1>1, <1>4, <2>2, <2>3, <2>5 DEF MadeInv
    <3>3. FirstInv(c)' /\ ReadingInv(c)' /\ ApplyInv(c)'
      BY <2>3, <2>5 DEF FirstInv, ReadingInv, ApplyInv
    <3>4. QED
      BY <3>1, <3>2, <3>3 DEF CallInv
  <2>6. QED
    BY <1>1, <2>3, <2>4, <2>5, QuietStep
<1>7. QED
  BY <1>5, <1>6

\* A record with one more edit staged.
LEMMA StagedTyped ==
    ASSUME NEW k \in CallRecords, NEW m \in Mutations, Edited(k.tree, m) \in Trees
    PROVE  LET r == Staged(k, m)
           IN  /\ r \in CallRecords /\ r.kind = k.kind /\ r.exit = k.exit /\ r.base = k.base
               /\ r.disturbed = k.disturbed /\ r.phase = k.phase /\ r.todo = k.todo
               /\ r.first = k.first /\ r.tree = Edited(k.tree, m)
               /\ r.muts = Append(k.muts, m)
<1>1. k.muts \in Seq(Mutations)
  BY DEF CallRecords
<1>2. Append(k.muts, m) \in Seq(Mutations)
  BY <1>1, AppendProperties
<1>3. QED
  BY <1>2 DEF Staged, CallRecords

\* Reading a file of the directory puts it into the tree, and takes nothing out.
LEMMA ReadFileKeeps ==
    ASSUME CallsInv, NEW c \in Calls, NEW f \in Files, ReadFile(c, f)
    PROVE  CallsInv'
<1> DEFINE w == call[c]
           linked == host[f] # None /\ Cardinality(Names(host, f)) > 1
           before == IF linked THEN w.first[host[f].ino] ELSE None
           read == [w EXCEPT
                        !.todo = @ \ {f},
                        !.phase = IF w.todo = {f} THEN "publishing" ELSE @,
                        !.first = IF linked /\ before = None THEN [@ EXCEPT ![host[f].ino] = f]
                                  ELSE @]
           write == [op |-> "write", path |-> f, arg |-> host[f].content]
           link == [op |-> "link", path |-> f, arg |-> before]
           r == IF host[f] = None THEN read
                ELSE IF before # None THEN Staged(read, link)
                ELSE IF Unchanged(w.tree, f) THEN read ELSE Staged(read, write)
           t == commits[w.base].files
<1>1. /\ w.phase = "reading" /\ f \in w.todo
      /\ UNCHANGED <<commits, span, tool, host, edits>>
      /\ Becomes(c, IF host[f] = None THEN read
                    ELSE IF before # None
                    THEN IF w.tree[f] # None THEN Lost(w) ELSE Staged(read, link)
                    ELSE IF Unchanged(w.tree, f) THEN read ELSE Staged(read, write))
  BY DEF ReadFile, At
<1>2. /\ SpanInv(c) /\ FirstInv(c) /\ MadeInv(c) /\ ReadingInv(c)
      /\ w \in CallRecords /\ w.tree \in Trees /\ w.first \in [Files -> Files \cup {None}]
      /\ w.muts \in Seq(Mutations) /\ host \in Hosts
  BY DEF CallsInv, CallInv, AgentTypeOK, CallRecords
<1>3. CASE host[f] # None /\ before # None /\ w.tree[f] # None
  BY <1>1, <1>3, LostKeeps
<1>4. CASE ~(host[f] # None /\ before # None /\ w.tree[f] # None)
  <2>1. host[f] # None => host[f].ino \in Files /\ host[f].content \in Contents
    BY <1>2 DEF Hosts, Inodes
  <2>2. before # None => before \in Files /\ w.tree[before] # None /\ host[f] # None
    BY <1>1, <1>2, <2>1 DEF FirstInv
  <2>3. /\ read \in CallRecords /\ read.kind = w.kind /\ read.exit = w.exit
        /\ read.base = w.base /\ read.tree = w.tree /\ read.muts = w.muts
        /\ read.disturbed = w.disturbed /\ read.todo = w.todo \ {f}
        /\ read.phase = (IF w.todo = {f} THEN "publishing" ELSE "reading")
        /\ \A i \in Files : read.first[i] = w.first[i] \/ (read.first[i] = f /\ host[f] # None)
    <3>1. linked => host[f].ino \in Files /\ host[f] # None
      BY <2>1
    <3> HIDE DEF linked, before
    <3>2. QED
      BY <1>1, <1>2, <3>1 DEF CallRecords, CallPhases
  <2>4. Becomes(c, r)
    <3> HIDE DEF before, read, write, link
    <3>1. QED
      BY <1>1, <1>4
  <2>5. w.base \in DOMAIN commits /\ Made(t, w.muts, w.tree)
    BY <1>1, <1>2 DEF MadeInv
  <2> HIDE DEF read, t
  <2>6. /\ r \in CallRecords /\ r.tree \in Trees
        /\ r.kind = w.kind /\ r.exit = w.exit /\ r.base = w.base
        /\ r.disturbed = w.disturbed /\ r.todo = w.todo \ {f}
        /\ r.phase = (IF w.todo = {f} THEN "publishing" ELSE "reading")
        /\ r.first = read.first
        /\ Made(t, r.muts, r.tree)
        /\ host[f] # None => /\ r.tree[f] # None
                             /\ r.tree[f].links = {} => r.tree[f].content = host[f].content
        /\ \A g \in Files \ {f} :
              r.tree[g] = w.tree[g] \/ (r.tree[g] # None /\ r.tree[g].links # {})
        /\ \A g \in Files : w.tree[g] # None => r.tree[g] # None
    <3> HIDE DEF before
    <3>1. CASE host[f] = None
      BY <1>2, <2>3, <2>5, <3>1
    <3>2. CASE host[f] # None /\ before # None
      <4>1. link \in Mutations /\ Edited(w.tree, link) = Join(w.tree, before, f)
        BY <2>2, <3>2 DEF Mutations, Edited
      <4>2. w.tree[f] = None /\ r = Staged(read, link)
        BY <1>4, <3>2
      <4> HIDE DEF link, r
      <4>3. /\ Join(w.tree, before, f) \in Trees /\ Join(w.tree, before, f)[f] # None
            /\ Join(w.tree, before, f)[f].links # {}
            /\ \A h \in Files : \/ Join(w.tree, before, f)[h] = w.tree[h]
                               \/ /\ Join(w.tree, before, f)[h] # None
                                  /\ Join(w.tree, before, f)[h].links # {}
        BY <1>2, <2>2, <3>2, <4>2, JoinTyped
      <4>4. /\ r \in CallRecords /\ r.kind = w.kind /\ r.exit = w.exit /\ r.base = w.base
            /\ r.disturbed = w.disturbed /\ r.todo = w.todo \ {f}
            /\ r.phase = (IF w.todo = {f} THEN "publishing" ELSE "reading")
            /\ r.first = read.first
            /\ r.tree = Join(w.tree, before, f) /\ r.muts = Append(w.muts, link)
        BY <2>3, <4>1, <4>2, <4>3, StagedTyped
      <4>5. Made(t, Append(w.muts, link), Join(w.tree, before, f))
        BY <1>2, <2>5, <4>1, MadeStaged
      <4>6. QED
        BY <4>3, <4>4, <4>5
    <3>3. CASE host[f] # None /\ before = None /\ Unchanged(w.tree, f)
      BY <1>2, <2>3, <2>5, <3>3 DEF Unchanged
    <3>4. CASE host[f] # None /\ before = None /\ ~Unchanged(w.tree, f)
      <4> DEFINE u == Put(w.tree, f, host[f].content)
      <4>1. write \in Mutations /\ Edited(w.tree, write) = u
        BY <2>1, <3>4 DEF Mutations, Edited
      <4>2. r = Staged(read, write)
        BY <3>4
      <4>3. host[f].content \in Contents /\ w.tree \in Trees
        BY <1>2, <2>1, <3>4
      <4> HIDE DEF write, r, u
      <4>4. /\ u \in Trees /\ u[f] # None /\ u[f].content = host[f].content
            /\ \A g \in Files \ {f} : u[g] = w.tree[g] \/ (u[g] # None /\ u[g].links # {})
        BY <4>3, PutTyped DEF u
      <4>5. /\ r \in CallRecords /\ r.kind = w.kind /\ r.exit = w.exit /\ r.base = w.base
            /\ r.disturbed = w.disturbed /\ r.todo = w.todo \ {f}
            /\ r.phase = (IF w.todo = {f} THEN "publishing" ELSE "reading")
            /\ r.first = read.first
            /\ r.tree = u /\ r.muts = Append(w.muts, write)
        <5>1. Edited(read.tree, write) \in Trees /\ Edited(read.tree, write) = u
          BY <2>3, <4>1, <4>4
        <5>2. QED
          BY <2>3, <4>1, <4>2, <5>1, StagedTyped
      <4>6. Made(t, Append(w.muts, write), u)
        BY <1>2, <2>5, <4>1, MadeStaged
      <4>7. QED
        BY <4>4, <4>5, <4>6
    <3>5. QED
      BY <3>1, <3>2, <3>3, <3>4
  <2> HIDE DEF r, before
  <2>7. \A i \in Files : r.first[i] # None => r.tree[r.first[i]] # None
    <3>1. \A i \in Files : w.first[i] # None => w.first[i] \in Files /\ w.tree[w.first[i]] # None
      BY <1>1, <1>2 DEF FirstInv
    <3>2. QED
      BY <2>3, <2>6, <3>1
  <2>8. ASSUME call'[c] = r PROVE CallInv(c)'
    <3>1. SpanInv(c)'
      BY <1>1, <1>2, <2>6, <2>8, SameBears DEF SpanInv, Blank, Running
    <3>2. FirstInv(c)'
      BY <2>6, <2>7, <2>8 DEF FirstInv
    <3>3. ReadingInv(c)'
      BY <1>1, <1>2, <2>6, <2>8 DEF ReadingInv, ShownIn
    <3>4. ApplyInv(c)'
      BY <1>1, <1>2, <2>6, <2>8 DEF ApplyInv, SpanInv
    <3>5. MadeInv(c)'
      <4>1. w.kind \in {"run", "ingest"}
        BY <1>1, <1>2 DEF SpanInv
      <4>2. QED
        BY <1>1, <2>5, <2>6, <2>8, <4>1 DEF MadeInv, t
    <3>6. QED
      BY <3>1, <3>2, <3>3, <3>4, <3>5 DEF CallInv
  <2>9. QED
    BY <1>1, <2>4, <2>6, <2>8, QuietStep
<1>5. QED
  BY <1>3, <1>4

\* A workspace without a change is given up, and nothing published.
LEMMA AbandonKeeps ==
    ASSUME CallsInv, NEW c \in Calls, Abandon(c)
    PROVE  CallsInv'
<1> DEFINE r == [call[c] EXCEPT !.phase = Closing(c)]
<1>1. /\ call[c].phase = "publishing" /\ call[c].muts = <<>> /\ Becomes(c, r)
      /\ UNCHANGED <<commits, span, tool, host, edits>>
  BY DEF Abandon, At, Clean
<1>a. call[c].kind # "tool"
  <2>1. MadeInv(c) /\ \A m : <<m>> # <<>>
    BY DEF CallsInv, CallInv
  <2>2. QED
    BY <1>1, <2>1 DEF MadeInv
<1>2. SpanInv(c) /\ ReadingInv(c) /\ call[c] \in CallRecords
  BY DEF CallsInv, CallInv, AgentTypeOK
<1>3. /\ r \in CallRecords /\ r.kind = call[c].kind /\ r.exit = call[c].exit
      /\ r.disturbed = call[c].disturbed /\ r.tree = call[c].tree
      /\ r.phase = IF call[c].kind = "ingest" THEN "answered" ELSE "finishing"
  BY <1>2 DEF CallRecords, CallPhases, Closing
<1> HIDE DEF r
<1>4. ASSUME call'[c] = r PROVE CallInv(c)'
  <2>1. SpanInv(c)'
    BY <1>1, <1>a, <1>2, <1>3, <1>4, SameBears DEF SpanInv, Blank, Running, Agreed
  <2>2. ReadingInv(c)'
    BY <1>1, <1>2, <1>3, <1>4 DEF ReadingInv, ShownIn
  <2>3. FirstInv(c)' /\ MadeInv(c)' /\ ApplyInv(c)'
    BY <1>1, <1>2, <1>3, <1>4 DEF SpanInv, FirstInv, MadeInv, ApplyInv
  <2>4. QED
    BY <2>1, <2>2, <2>3 DEF CallInv
<1>5. QED
  BY <1>1, <1>3, <1>4, QuietStep

\* A publication answered by the receipt of another: what it has staged is held.
LEMMA ReplayKeeps ==
    ASSUME CallsInv, NEW c \in Calls, Replay(c)
    PROVE  CallsInv'
<1> DEFINE r == [call[c] EXCEPT !.phase = Closing(c)]
<1>1. /\ call[c].phase = "publishing" /\ Becomes(c, r) /\ Receipts(c) # {}
      /\ UNCHANGED <<commits, span, tool, host, edits>>
  BY DEF Replay, At
<1>2. /\ SpanInv(c) /\ MadeInv(c) /\ ReadingInv(c) /\ call[c] \in CallRecords
      /\ AgentTypeOK /\ CommitsMade
  BY DEF CallsInv, CallInv, AgentTypeOK, HistoryInv
<1>3. /\ r \in CallRecords /\ r.kind = call[c].kind /\ r.exit = call[c].exit
      /\ r.disturbed = call[c].disturbed /\ r.tree = call[c].tree
      /\ r.base = call[c].base /\ r.muts = call[c].muts
      /\ r.phase = IF call[c].kind = "ingest" THEN "answered" ELSE "finishing"
  BY <1>2 DEF CallRecords, CallPhases, Closing
<1> HIDE DEF r
<1>4. call[c].kind = "tool" => Held(c)
  <2>1. PICK k \in 2..Len(commits) : SameRequest(c, k)
    BY <1>1 DEF Receipts
  <2>2. k \in DOMAIN commits /\ k - 1 \in DOMAIN commits
    BY <1>2, CommitsTyped
  <2>3. Made(commits[k - 1].files, commits[k].muts, commits[k].files)
    BY <1>2, <2>2 DEF CommitsMade
  <2>4. /\ commits[k - 1].files = commits[call[c].base].files
        /\ commits[k].muts = call[c].muts
    BY <2>1 DEF SameRequest
  <2>5. ~Bears(c) /\ call[c].base \in DOMAIN commits
    BY <1>1, <1>2 DEF SpanInv, MadeInv
  <2>6. ASSUME call[c].kind = "tool" PROVE commits[k].files = call[c].tree
    <3>1. PICK m \in Mutations : call[c].muts = <<m>>
      BY <1>1, <1>2, <2>6 DEF MadeInv
    <3>2. Made(commits[call[c].base].files, call[c].muts, call[c].tree)
      BY <1>1, <1>2 DEF MadeInv
    <3>3. QED
      BY <2>3, <2>4, <3>1, <3>2 DEF Made
  <2>7. QED
    BY <2>2, <2>4, <2>5, <2>6 DEF Held, Holds
<1>5. ASSUME call'[c] = r PROVE CallInv(c)'
  <2>1. Held(c) => Held(c)'
    BY <1>1, <1>3, <1>5, HeldStays, SameBears
  <2>2. SpanInv(c)'
    BY <1>1, <1>2, <1>3, <1>4, <1>5, <2>1, SameBears DEF SpanInv, Blank, Running, Agreed
  <2>3. ReadingInv(c)'
    BY <1>1, <1>2, <1>3, <1>5 DEF ReadingInv, ShownIn
  <2>4. FirstInv(c)' /\ MadeInv(c)' /\ ApplyInv(c)'
    BY <1>1, <1>2, <1>3, <1>5 DEF SpanInv, FirstInv, MadeInv, ApplyInv
  <2>5. QED
    BY <2>2, <2>3, <2>4 DEF CallInv
<1>6. QED
  BY <1>1, <1>3, <1>5, QuietStep

\* A published commit is the first that bears its call's span.
LEMMA PublishKeeps ==
    ASSUME CallsInv, NEW c \in Calls, Publish(c)
    PROVE  CallsInv'
<1> DEFINE r == [call[c] EXCEPT !.phase = Closing(c)]
           by == IF call[c].kind = "ingest" THEN None ELSE c
           e == [files |-> call[c].tree, muts |-> call[c].muts, by |-> by]
           n == Len(commits)
<1>1. /\ call[c].phase = "publishing" /\ Becomes(c, r) /\ commits' = Append(commits, e)
      /\ call[c].base = n
      /\ UNCHANGED <<span, tool, host, edits>>
  BY DEF Publish, At
<1>2. /\ SpanInv(c) /\ MadeInv(c) /\ ReadingInv(c) /\ call[c] \in CallRecords /\ AgentTypeOK
      /\ OneCommitEach /\ CommitsMade
  BY DEF CallsInv, CallInv, AgentTypeOK, HistoryInv
<1>3. /\ r \in CallRecords /\ r.kind = call[c].kind /\ r.exit = call[c].exit
      /\ r.disturbed = call[c].disturbed /\ r.tree = call[c].tree
      /\ r.base = call[c].base /\ r.muts = call[c].muts
      /\ r.phase = IF call[c].kind = "ingest" THEN "answered" ELSE "finishing"
  BY <1>2 DEF CallRecords, CallPhases, Closing
<1>4. e \in Commits /\ e.by = by /\ e.files = call[c].tree /\ e.muts = call[c].muts
  BY <1>2 DEF CallRecords, Commits
<1> HIDE DEF r, e
<1>5. /\ commits' \in Seq(Commits) /\ commits' # <<>>
      /\ n \in Nat /\ Len(commits') = n + 1 /\ commits'[n + 1] = e
      /\ \A k \in 1..n : commits'[k] = commits[k]
  BY <1>1, <1>2, <1>4, AppendProperties DEF AgentTypeOK
<1>6. DOMAIN commits = 1..n /\ DOMAIN commits' = 1..(n + 1) /\ DOMAIN commits' = DOMAIN commits \cup {n + 1}
  BY <1>2, <1>5 DEF AgentTypeOK
<1>7. Grows
  BY <1>5, <1>6 DEF Grows
<1>8. /\ \A d \in Calls \ {c} : Bears(d)' <=> Bears(d)
      /\ Bears(c)' <=> (Bears(c) \/ call[c].kind # "ingest")
  BY <1>4, <1>5, <1>6, AbsentAssumption DEF Bears
<1>9. OneCommitEach'
  <2>1. ~Bears(c) /\ OneCommitEach
    BY <1>1, <1>2 DEF SpanInv
  <2>2. \A k \in 1..n : by # None => commits[k].by # by
    BY <1>6, <2>1 DEF Bears
  <2>3. \A j, k \in 1..n : commits[j].by = commits[k].by /\ commits[j].by # None => j = k
    BY <1>6, <2>1 DEF OneCommitEach
  <2>4. \A j, k \in 1..(n + 1) : j \in 1..n \/ j = n + 1
    BY <1>5
  <2> HIDE DEF by, n
  <2>5. QED
    BY <1>4, <1>5, <1>6, <2>2, <2>3, <2>4 DEF OneCommitEach
<1>a. /\ n \in DOMAIN commits /\ Made(commits[n].files, e.muts, e.files)
      /\ n = (n + 1) - 1 /\ commits'[n] = commits[n] /\ n \in DOMAIN commits'
  <2>1. n \in DOMAIN commits /\ Made(commits[n].files, e.muts, e.files)
    BY <1>1, <1>2, <1>4 DEF MadeInv
  <2>2. QED
    BY <1>5, <1>6, <2>1
<1>b. CommitsMade'
  <2>1. SUFFICES ASSUME NEW k \in 1..(n + 1), k - 1 \in 1..(n + 1)
                 PROVE  Made(commits'[k - 1].files, commits'[k].muts, commits'[k].files)
    BY <1>6 DEF CommitsMade, Made
  <2>2. CASE k = n + 1
    BY <1>5, <1>a, <2>2
  <2>3. CASE k # n + 1
    <3>1. k \in 1..n /\ k - 1 \in 1..n
      BY <1>5, <2>1, <2>3
    <3>2. Made(commits[k - 1].files, commits[k].muts, commits[k].files)
      BY <1>2, <1>6, <3>1 DEF CommitsMade
    <3>3. QED
      BY <1>5, <3>1, <3>2
  <2>4. QED
    BY <2>2, <2>3
<1>10. AgentTypeOK'
  BY <1>1, <1>2, <1>3, <1>5 DEF AgentTypeOK, Becomes
<1>11. call'[c] = r /\ \A d \in Calls \ {c} : Elsewhere(d)
  BY <1>1, <1>2, <1>7, <1>8 DEF AgentTypeOK, Becomes, Elsewhere, SameCall
<1>c. call[c].kind = "tool" => Held(c)'
  <2>1. call'[c].base \in DOMAIN commits' /\ n + 1 \in DOMAIN commits'
    BY <1>1, <1>3, <1>6, <1>11, <1>a
  <2>2. ASSUME NEW k, k = n + 1, call[c].kind = "tool"
        PROVE  k \in DOMAIN commits' /\ Holds(c, k)' /\ commits'[k].by = c
    <3>1. k - 1 = n /\ commits'[k] = e
      BY <1>5, <1>a, <2>2
    <3>2. /\ commits'[k - 1].files = commits'[call'[c].base].files
          /\ commits'[k].files = call'[c].tree /\ commits'[k].muts = call'[c].muts
      BY <1>1, <1>3, <1>4, <1>11, <3>1
    <3>3. k - 1 \in DOMAIN commits'
      BY <1>a, <3>1
    <3>4. commits'[k].by = c
      BY <1>4, <2>2, <3>1
    <3>5. QED
      BY <2>1, <2>2, <3>2, <3>3, <3>4 DEF Holds
  <2>3. QED
    BY <2>1, <2>2 DEF Held
<1>12. SpanInv(c)'
  BY <1>1, <1>2, <1>3, <1>8, <1>11, <1>c DEF SpanInv, Blank, Running, Agreed
<1>13. ReadingInv(c)'
  BY <1>1, <1>2, <1>3, <1>11 DEF ReadingInv, ShownIn
<1>14. FirstInv(c)' /\ MadeInv(c)' /\ ApplyInv(c)'
  BY <1>1, <1>2, <1>3, <1>11 DEF SpanInv, FirstInv, MadeInv, ApplyInv
<1>15. Linked(host)' /\ HistoryInv'
  BY <1>1, <1>9, <1>b DEF CallsInv, Linked, HistoryInv
<1>16. QED
  BY <1>10, <1>11, <1>12, <1>13, <1>14, <1>15, CallStep DEF CallInv

\* A publication refused because the head moved.
LEMMA ConflictKeeps ==
    ASSUME CallsInv, NEW c \in Calls, Conflict(c)
    PROVE  CallsInv'
<1>1. call[c].phase = "publishing" /\ UNCHANGED <<commits, span, tool, host, edits>>
  BY DEF Conflict, At
<1>2. CASE call[c].kind = "tool"
  <2>1. Becomes(c, Failed(call[c]))
    BY <1>2 DEF Conflict
  <2>2. QED
    BY <1>1, <1>2, <2>1, FailedKeeps
<1>3. CASE call[c].kind # "tool"
  <2>1. Becomes(c, Lost(call[c]))
    BY <1>3 DEF Conflict
  <2>2. QED
    BY <1>1, <2>1, LostKeeps
<1>4. QED
  BY <1>2, <1>3

\* The beginnings of a call and its failure to get a workspace.
LEMMA WorkspaceKeeps ==
    ASSUME CallsInv, NEW c \in Calls, OpenWorkspace(c) \/ IngestBegins(c) \/ NoWorkspace(c)
    PROVE  CallsInv'
<1>1. SpanInv(c)
  BY DEF CallsInv, CallInv
<1>2. CASE OpenWorkspace(c)
  BY <1>1, <1>2, OpenedKeeps DEF OpenWorkspace, Ready, Recorded, SpanInv
<1>3. CASE IngestBegins(c)
  BY <1>3, OpenedKeeps DEF IngestBegins, At
<1>4. CASE NoWorkspace(c)
  BY <1>4, LostKeeps DEF NoWorkspace, Ready, Recorded
<1>5. QED
  BY <1>2, <1>3, <1>4

--------------------------------------------------------------------------------
(* The directory changes *)

\* The other calls are told; the step is not theirs.
LEMMA LoudStep ==
    ASSUME CallsInv, NEW c \in Calls, NEW r \in CallRecords, BecomesAndDisturbs(c, r),
           UNCHANGED <<commits, span, tool, edits>>, host' \in Hosts, Linked(host)',
           call'[c] = r => CallInv(c)'
    PROVE  CallsInv'
<1>1. call \in [Calls -> CallRecords]
  BY DEF CallsInv, AgentTypeOK
<1>2. \A d \in Calls : Disturbed(d) \in CallRecords
  BY <1>1, ZenonT(60) DEF CallRecords, Disturbed
<1>3. call'[c] = r /\ call' \in [Calls -> CallRecords]
  BY <1>1, <1>2 DEF BecomesAndDisturbs
<1>4. ASSUME NEW d \in Calls \ {c} PROVE Elsewhere(d)
  <2>1. call'[d] = Disturbed(d) /\ call[d] \in CallRecords
    BY <1>1, <1>4 DEF BecomesAndDisturbs
  <2>2. SameCall(call[d], call'[d]) /\ (call[d].phase # "idle" => call'[d].disturbed = TRUE)
    BY <2>1 DEF SameCall, CallRecords, Disturbed
  <2>3. QED
    BY <2>2, SameBears DEF Elsewhere
<1>5. AgentTypeOK'
  BY <1>3 DEF CallsInv, AgentTypeOK
<1>6. HistoryInv'
  BY SameBears DEF CallsInv
<1>7. QED
  BY <1>3, <1>4, <1>5, <1>6, CallStep

\* The command of a run.
LEMMA SpawnKeeps ==
    ASSUME CallsInv, NEW c \in Calls, Spawn(c)
    PROVE  CallsInv'
<1>1. PICK exit \in {"ok", "failed"}, h \in Changes(host) :
        /\ host' = h
        /\ BecomesAndDisturbs(c, [call[c] EXCEPT !.phase = "ran", !.exit = exit])
  BY DEF Spawn
<1> DEFINE r == [call[c] EXCEPT !.phase = "ran", !.exit = exit]
<1>2. /\ call[c].phase = "begun" /\ call[c].kind = "run"
      /\ UNCHANGED <<commits, span, tool, edits>>
  BY DEF Spawn, At
<1>3. SpanInv(c) /\ FirstInv(c) /\ MadeInv(c) /\ call[c] \in CallRecords
  BY DEF CallsInv, CallInv, AgentTypeOK
<1>4. /\ r \in CallRecords /\ r.kind = "run" /\ r.phase = "ran" /\ r.exit = exit
      /\ r.first = call[c].first /\ r.muts = call[c].muts
  BY <1>2, <1>3 DEF CallRecords, CallPhases
<1>5. host' \in Hosts /\ Linked(host)'
  <2>1. h \in Hosts /\ Linked(h)
    BY ChangesTyped DEF CallsInv, AgentTypeOK
  <2>2. QED
    BY <1>1, <2>1 DEF Linked
<1>6. BecomesAndDisturbs(c, r)
  BY <1>1
<1> HIDE DEF r
<1>7. ASSUME call'[c] = r PROVE CallInv(c)'
  <2>1. SpanInv(c)'
    BY <1>2, <1>3, <1>4, <1>7, SameBears DEF SpanInv, Running
  <2>2. FirstInv(c)' /\ MadeInv(c)' /\ ReadingInv(c)' /\ ApplyInv(c)'
    BY <1>2, <1>3, <1>4, <1>7 DEF FirstInv, MadeInv, ReadingInv, ApplyInv
  <2>3. QED
    BY <2>1, <2>2 DEF CallInv
<1>8. QED
  BY <1>2, <1>4, <1>5, <1>6, <1>7, LoudStep

\* Other programs at work in the directory.
LEMMA InterfereKeeps ==
    ASSUME CallsInv, Interfere
    PROVE  CallsInv'
<1>1. /\ host' \in Changes(host) /\ edits' = edits + 1
      /\ call' = [c \in Calls |-> Disturbed(c)]
      /\ UNCHANGED <<commits, span, tool>>
  BY DEF Interfere
<1>2. call \in [Calls -> CallRecords]
  BY DEF CallsInv, AgentTypeOK
<1>3. \A c \in Calls : Disturbed(c) \in CallRecords
  BY <1>2, ZenonT(60) DEF CallRecords, Disturbed
<1>4. AgentTypeOK' /\ Linked(host)'
  <2>1. host \in Hosts /\ Linked(host)
    BY DEF CallsInv, AgentTypeOK
  <2>2. ASSUME NEW h \in Changes(host), h = host' PROVE host' \in Hosts /\ Linked(host)'
    BY <2>1, <2>2, ChangesTyped DEF Linked
  <2>3. QED
    BY <1>1, <1>2, <1>3, <2>2 DEF CallsInv, AgentTypeOK
<1>5. ASSUME NEW c \in Calls PROVE Elsewhere(c)
  <2>1. call'[c] = Disturbed(c) /\ call[c] \in CallRecords
    BY <1>1, <1>2
  <2>2. SameCall(call[c], call'[c]) /\ (call[c].phase # "idle" => call'[c].disturbed = TRUE)
    BY <2>1 DEF SameCall, CallRecords, Disturbed
  <2>3. QED
    BY <1>1, <2>2, SameBears DEF Elsewhere
<1>6. \A c \in Calls : CallInv(c)'
  BY <1>5, Frame DEF CallsInv
<1>7. HistoryInv'
  BY <1>1, SameBears DEF CallsInv
<1>8. QED
  BY <1>4, <1>6, <1>7 DEF CallsInv

\* The process that owns the store is killed, and its calls with it.
LEMMA CrashKeeps ==
    ASSUME CallsInv,
           call' = [c \in Calls |-> IF InFlight(c) THEN [Idle EXCEPT !.phase = "dead"] ELSE call[c]],
           UNCHANGED <<commits, span, tool, host, edits>>
    PROVE  CallsInv'
<1> DEFINE r == [Idle EXCEPT !.phase = "dead"]
<1>1. r \in CallRecords /\ r.kind = "none" /\ r.phase = "dead"
  BY IdleTyped DEF CallRecords, CallPhases, Idle
<1>2. \A c \in Calls : call'[c] = IF InFlight(c) THEN r ELSE call[c]
  OBVIOUS
<1> HIDE DEF r
<1>3. AgentTypeOK'
  BY <1>1, <1>2 DEF CallsInv, AgentTypeOK, r
<1>4. ASSUME NEW c \in Calls PROVE CallInv(c)'
  <2>1. SpanInv(c) /\ CallInv(c)
    BY DEF CallsInv, CallInv
  <2>2. CASE InFlight(c)
    <3>1. call'[c].kind = "none" /\ call'[c].phase = "dead"
      BY <1>1, <1>2, <2>2
    <3>2. tool[c] \in {"none", "open"}
      <4>1. call[c].phase \in CallPhases \ {"idle", "answered", "dead"}
        BY <2>2 DEF InFlight, CallsInv, AgentTypeOK, CallRecords
      <4>2. QED
        BY <2>1, <4>1 DEF SpanInv, Blank, Running, CallPhases
    <3>3. SpanInv(c)'
      BY <2>1, <3>1, <3>2, SameBears DEF SpanInv
    <3>4. FirstInv(c)' /\ MadeInv(c)' /\ ReadingInv(c)' /\ ApplyInv(c)'
      BY <3>1 DEF FirstInv, MadeInv, ReadingInv, ApplyInv
    <3>5. QED
      BY <3>3, <3>4 DEF CallInv
  <2>3. CASE ~InFlight(c)
    <3>1. Elsewhere(c)
      BY <1>2, <2>3, SameBears DEF Elsewhere, SameCall
    <3>2. QED
      BY <2>1, <3>1, Frame
  <2>4. QED
    BY <2>2, <2>3
<1>5. Linked(host)' /\ HistoryInv'
  BY SameBears DEF CallsInv, Linked
<1>6. QED
  BY <1>3, <1>4, <1>5 DEF CallsInv

--------------------------------------------------------------------------------
(* apply *)

\* Where an apply is after one of its files, and what it has left.
LEMMA GoingOn ==
    ASSUME NEW c \in Calls, call[c] \in CallRecords, NEW rest \in SUBSET Files,
           NEW phase \in {"verifying", "writing", "removing"}
    PROVE  LET r == Going(c, phase, rest)
           IN  /\ r \in CallRecords
               /\ r.kind = call[c].kind /\ r.exit = call[c].exit
               /\ r.base = call[c].base /\ r.target = call[c].target
               /\ r.disturbed = call[c].disturbed
               /\ \/ rest # {} /\ r.phase = phase /\ r.todo = rest
                  \/ /\ rest = {} /\ phase = "verifying"
                     /\ r.phase = "writing" /\ r.todo = ToWrite(c) /\ ToWrite(c) # {}
                  \/ /\ rest = {} /\ phase # "removing"
                     /\ phase = "verifying" => ToWrite(c) = {}
                     /\ r.phase = "removing" /\ r.todo = ToRemove(c) /\ ToRemove(c) # {}
                  \/ /\ rest = {}
                     /\ phase = "verifying" => ToWrite(c) = {}
                     /\ phase # "removing" => ToRemove(c) = {}
                     /\ r.phase = "answered" /\ r.todo = {}
<1> DEFINE turn(at, todo) == [call[c] EXCEPT !.phase = at, !.todo = todo]
           r == Going(c, phase, rest)
<1>1. ASSUME NEW at \in CallPhases, NEW todo \in SUBSET Files
      PROVE  /\ turn(at, todo) \in CallRecords
             /\ turn(at, todo).kind = call[c].kind /\ turn(at, todo).exit = call[c].exit
             /\ turn(at, todo).base = call[c].base /\ turn(at, todo).target = call[c].target
             /\ turn(at, todo).disturbed = call[c].disturbed
             /\ turn(at, todo).phase = at /\ turn(at, todo).todo = todo
  BY DEF CallRecords
<1>2. {"verifying", "writing", "removing", "answered"} \subseteq CallPhases
  BY DEF CallPhases
<1>3. ToWrite(c) \in SUBSET Files /\ ToRemove(c) \in SUBSET Files
  BY DEF ToWrite, ToRemove, Affected, Differing
<1>4. r = IF rest # {} THEN turn(phase, rest)
          ELSE IF phase = "verifying" /\ ToWrite(c) # {} THEN turn("writing", ToWrite(c))
          ELSE IF phase # "removing" /\ ToRemove(c) # {} THEN turn("removing", ToRemove(c))
          ELSE turn("answered", {})
  BY DEF Going, ToWrite, ToRemove
<1> HIDE DEF turn, r
<1>5. CASE rest # {}
  BY <1>1, <1>2, <1>4, <1>5 DEF r
<1>6. CASE rest = {} /\ phase = "verifying" /\ ToWrite(c) # {}
  BY <1>1, <1>2, <1>3, <1>4, <1>6 DEF r
<1>7. CASE rest = {} /\ phase # "removing" /\ ToRemove(c) # {} /\ ~(phase = "verifying" /\ ToWrite(c) # {})
  BY <1>1, <1>2, <1>3, <1>4, <1>7 DEF r
<1>8. CASE rest = {} /\ ~(phase # "removing" /\ ToRemove(c) # {}) /\ ~(phase = "verifying" /\ ToWrite(c) # {})
  BY <1>1, <1>2, <1>3, <1>4, <1>8 DEF r
<1>9. QED
  BY <1>5, <1>6, <1>7, <1>8

\* It may go on when what it has verified, written and removed is so.
LEMMA ApplyGoesOn ==
    ASSUME NEW c \in Calls, NEW phase \in {"verifying", "writing", "removing"},
           NEW rest \in SUBSET Files,
           call[c] \in CallRecords, SpanInv(c), ApplyInv(c), call[c].phase = phase,
           rest \subseteq call[c].todo,
           UNCHANGED <<commits, span, tool>>,
           call'[c] = Going(c, phase, rest),
           ~call[c].disturbed =>
              /\ \A f \in Affected(c) : (phase = "verifying" /\ f \in rest) \/ Seen(c, f)'
              /\ phase # "verifying" => \A done :
                    done = ToWrite(c) \ (IF phase = "writing" THEN rest ELSE {})
                    => \A f \in done : Settled(c, f, done)'
              /\ phase = "removing" => \A f \in ToRemove(c) \ rest : host'[f] = None
    PROVE  CallInv(c)'
<1> DEFINE r == call'[c]
<1>1. /\ call[c].kind = "apply" /\ Blank(c) /\ call[c].exit = "ok"
      /\ {call[c].base, call[c].target} \subseteq DOMAIN commits
      /\ phase = "verifying" => rest \subseteq Affected(c)
      /\ phase = "writing" => rest \subseteq ToWrite(c)
      /\ phase = "removing" => rest \subseteq ToRemove(c)
  BY DEF SpanInv, ApplyInv
<1>2. /\ r.kind = "apply" /\ r.exit = "ok"
      /\ r.base = call[c].base /\ r.target = call[c].target
      /\ r.disturbed = call[c].disturbed
      /\ \/ rest # {} /\ r.phase = phase /\ r.todo = rest
         \/ /\ rest = {} /\ phase = "verifying"
            /\ r.phase = "writing" /\ r.todo = ToWrite(c) /\ ToWrite(c) # {}
         \/ /\ rest = {} /\ phase # "removing"
            /\ phase = "verifying" => ToWrite(c) = {}
            /\ r.phase = "removing" /\ r.todo = ToRemove(c) /\ ToRemove(c) # {}
         \/ /\ rest = {}
            /\ phase = "verifying" => ToWrite(c) = {}
            /\ phase # "removing" => ToRemove(c) = {}
            /\ r.phase = "answered" /\ r.todo = {}
  BY <1>1, GoingOn
<1>3. SpanInv(c)'
  BY <1>1, <1>2, SameBears DEF SpanInv, Blank
<1>4. FirstInv(c)' /\ MadeInv(c)' /\ ReadingInv(c)'
  BY <1>2 DEF FirstInv, MadeInv, ReadingInv
<1>5. /\ Affected(c)' = Affected(c) /\ ToWrite(c)' = ToWrite(c) /\ ToRemove(c)' = ToRemove(c)
  BY <1>1, <1>2, SameCommits, SameBears
<1>6. ToRemove(c) \subseteq Affected(c) /\ ToWrite(c) \subseteq Affected(c)
  BY DEF ToWrite, ToRemove
<1>7. ApplyInv(c)'
  <2> DEFINE leftV == IF r.phase = "verifying" THEN r.todo ELSE {}
             leftW == IF r.phase = "writing" THEN r.todo ELSE {}
             leftR == IF r.phase = "removing" THEN r.todo ELSE {}
  <2>1. /\ r.phase \in {"verifying", "writing", "removing", "answered"}
        /\ {r.base, r.target} \subseteq (DOMAIN commits)'
        /\ r.phase # "answered" => r.exit = "ok" /\ r.todo # {}
        /\ leftV \subseteq Affected(c) /\ leftW \subseteq ToWrite(c) /\ leftR \subseteq ToRemove(c)
    BY <1>1, <1>2
  <2>2. ~r.disturbed /\ r.phase # "answered" => \A f \in Affected(c) \ leftV : Seen(c, f)'
    BY <1>2
  <2>3. ASSUME ~r.disturbed, r.phase # "verifying", NEW done, done = ToWrite(c) \ leftW
        PROVE  \A f \in done : Settled(c, f, done)'
    <3>1. CASE phase = "verifying"
      <4>1. done = {}
        BY <1>2, <2>3, <3>1
      <4>2. QED
        BY <4>1
    <3>2. CASE phase # "verifying"
      <4>1. leftW = IF phase = "writing" THEN rest ELSE {}
        BY <1>2, <2>3, <3>2
      <4>2. done = ToWrite(c) \ (IF phase = "writing" THEN rest ELSE {})
        BY <2>3, <4>1
      <4>3. QED
        BY <1>2, <2>3, <3>2, <4>2
    <3>3. QED
      BY <3>1, <3>2
  <2>4. ~r.disturbed /\ r.phase \in {"removing", "answered"} =>
            \A f \in ToRemove(c) \ leftR : host'[f] = None
    BY <1>2
  <2>5. r.kind = "apply"
    BY <1>2
  <2> HIDE DEF leftV, leftW, leftR
  <2>6. QED
    BY <1>5, <2>1, <2>2, <2>3, <2>4, <2>5 DEF ApplyInv, leftV, leftW, leftR
<1>8. QED
  BY <1>3, <1>4, <1>7 DEF CallInv

\* The plan of an apply.
LEMMA ApplyBeginsKeeps ==
    ASSUME CallsInv, NEW c \in Calls, ApplyBegins(c)
    PROVE  CallsInv'
<1>1. PICK from, to \in DOMAIN commits :
        /\ Differing(commits[from].files, commits[to].files) # {}
        /\ Becomes(c, [Idle EXCEPT !.kind = "apply", !.phase = "verifying", !.base = from,
                                   !.target = to,
                                   !.todo = Differing(commits[from].files, commits[to].files)])
  BY DEF ApplyBegins
<1> DEFINE todo == Differing(commits[from].files, commits[to].files)
           r == [Idle EXCEPT !.kind = "apply", !.phase = "verifying", !.base = from,
                             !.target = to, !.todo = todo]
<1>2. call[c].phase = "idle" /\ UNCHANGED <<commits, span, tool, host, edits>>
  BY DEF ApplyBegins, At
<1>3. SpanInv(c) /\ from \in Nat /\ to \in Nat /\ todo \in SUBSET Files
  BY CommitsTyped DEF CallsInv, CallInv, Differing
<1> HIDE DEF todo
<1>4. /\ r \in CallRecords /\ r.kind = "apply" /\ r.phase = "verifying" /\ r.exit = "ok"
      /\ r.base = from /\ r.target = to /\ r.todo = todo
  BY <1>3, IdleTyped DEF CallRecords, CallPhases, Idle
<1>5. Becomes(c, r)
  BY <1>1 DEF todo
<1> HIDE DEF r
<1>6. ASSUME call'[c] = r PROVE CallInv(c)'
  <2>1. SpanInv(c)'
    BY <1>2, <1>3, <1>4, <1>6, SameBears DEF SpanInv, Blank
  <2>2. FirstInv(c)' /\ MadeInv(c)' /\ ReadingInv(c)'
    BY <1>4, <1>6 DEF FirstInv, MadeInv, ReadingInv
  <2>3. Affected(c)' = todo
    BY <1>2, <1>4, <1>6 DEF Affected, Before, After, todo
  <2>4. ApplyInv(c)'
    BY <1>1, <1>2, <1>4, <1>6, <2>3 DEF ApplyInv, todo
  <2>5. QED
    BY <2>1, <2>2, <2>4 DEF CallInv
<1>7. QED
  BY <1>2, <1>4, <1>5, <1>6, QuietStep

\* The first of what is left is one of it.
LEMMA TurnTyped ==
    ASSUME NEW c \in Calls, call[c] \in CallRecords, ApplyInv(c), call[c].kind = "apply",
           call[c].phase # "answered"
    PROVE  /\ Turn(c) \in call[c].todo /\ Turn(c) \in Files /\ call[c].todo \in SUBSET Files
           /\ call[c].todo \ {Turn(c)} \in SUBSET Files
           /\ call[c].todo \ {Turn(c)} \subseteq call[c].todo
<1>1. call[c].todo \in SUBSET Files /\ call[c].todo # {}
  BY DEF CallRecords, ApplyInv
<1>2. \E f \in call[c].todo : \A g \in call[c].todo : f <= g
  BY <1>1, FirstOfNames
<1>3. Turn(c) \in call[c].todo
  BY <1>2 DEF Turn
<1>4. QED
  BY <1>1, <1>3

\* The two commits of an apply are trees.
LEMMA ComparedTyped ==
    ASSUME AgentTypeOK, NEW c \in Calls, ApplyInv(c), call[c].kind = "apply"
    PROVE  Before(c) \in Trees /\ After(c) \in Trees /\ Affected(c) \in SUBSET Files
BY CommitsTyped DEF ApplyInv, Before, After, Affected, Differing

\* The verification of one file by apply.
LEMMA VerifyFileKeeps ==
    ASSUME CallsInv, NEW c \in Calls, VerifyFile(c)
    PROVE  CallsInv'
<1> DEFINE t == Turn(c)
           rest == call[c].todo \ {t}
<1>1. /\ call[c].phase = "verifying" /\ UNCHANGED <<commits, span, tool, host, edits>>
      /\ Becomes(c, IF Matches(c, t) THEN Going(c, "verifying", rest)
                    ELSE [call[c] EXCEPT !.phase = "answered", !.exit = "drift", !.todo = {}])
  BY DEF VerifyFile, At
<1>2. /\ SpanInv(c) /\ ApplyInv(c) /\ call[c] \in CallRecords /\ AgentTypeOK
      /\ call[c].kind = "apply"
  BY <1>1 DEF CallsInv, CallInv, SpanInv, AgentTypeOK
<1>3. t \in call[c].todo /\ t \in Files /\ rest \in SUBSET Files /\ rest \subseteq call[c].todo
  BY <1>1, <1>2, TurnTyped
<1>4. CASE Matches(c, t)
  <2>1. Becomes(c, Going(c, "verifying", rest))
    BY <1>1, <1>4
  <2>2. Going(c, "verifying", rest) \in CallRecords
    BY <1>2, <1>3, GoingOn
  <2>3. t \in Affected(c) /\ (host[t] # None => HeldBy(c, host[t].content))
    <3>1. t \in Affected(c) /\ Before(c)[t] # After(c)[t]
      BY <1>1, <1>2, <1>3 DEF ApplyInv, Affected, Differing
    <3>2. CASE Before(c)[t] = None
      BY <1>4, <3>1, <3>2 DEF Matches, Shows, HeldBy
    <3>3. CASE Before(c)[t] # None
      BY <1>4, <3>1, <3>3 DEF Matches, Shows, HeldBy
    <3>4. QED
      BY <3>1, <3>2, <3>3
  <2>4. ~call[c].disturbed => \A f \in Affected(c) : f \in rest \/ Seen(c, f)
    BY <1>1, <1>2, <2>3 DEF ApplyInv, Seen
  <2> HIDE DEF rest, t
  <2>5. ASSUME call'[c] = Going(c, "verifying", rest) PROVE CallInv(c)'
    <3>1. Grows /\ call'[c].base = call[c].base /\ call'[c].target = call[c].target
      BY <1>1, <1>2, <1>3, <2>5, GoingOn, SameBears
    <3>2. \A x : HeldBy(c, x)' <=> HeldBy(c, x)
      BY <1>2, <3>1, SameCommits DEF ApplyInv
    <3>3. \A f \in Files : Seen(c, f)' <=> Seen(c, f)
      BY <1>1, <3>2 DEF Seen
    <3>4. Affected(c) \in SUBSET Files
      BY <1>2, ComparedTyped
    <3>5. QED
      BY <1>1, <1>2, <1>3, <2>4, <2>5, <3>3, <3>4, ApplyGoesOn
  <2>6. QED
    BY <1>1, <2>1, <2>2, <2>5, QuietStep
<1>5. CASE ~Matches(c, t)
  <2> DEFINE r == [call[c] EXCEPT !.phase = "answered", !.exit = "drift", !.todo = {}]
  <2>1. Becomes(c, r)
    BY <1>1, <1>5
  <2>2. /\ r \in CallRecords /\ r.kind = "apply" /\ r.phase = "answered" /\ r.exit = "drift"
        /\ r.base = call[c].base /\ r.target = call[c].target /\ r.todo = {}
    BY <1>2 DEF CallRecords, CallPhases
  <2> HIDE DEF r
  <2>3. ASSUME call'[c] = r PROVE CallInv(c)'
    <3>1. SpanInv(c)'
      BY <1>1, <1>2, <2>2, <2>3, SameBears DEF SpanInv, Blank
    <3>2. FirstInv(c)' /\ MadeInv(c)' /\ ReadingInv(c)'
      BY <2>2, <2>3 DEF FirstInv, MadeInv, ReadingInv
    <3>3. ApplyInv(c)'
      BY <1>1, <1>2, <2>2, <2>3 DEF ApplyInv
    <3>4. QED
      BY <3>1, <3>2, <3>3 DEF CallInv
  <2>4. QED
    BY <1>1, <2>1, <2>2, <2>3, QuietStep
<1>6. QED
  BY <1>4, <1>5

\* A file of a group is linked to a sibling that is on disk; otherwise its content is
\* written, through every name of its inode.
LEMMA WrittenTyped ==
    ASSUME NEW h \in Hosts, Linked(h), NEW f \in Files, NEW e \in Entries
    PROVE  LET k == Written(h, f, e)
           IN  /\ k \in Hosts /\ Linked(k) /\ k[f] # None
               /\ e.links = {} => k[f].content = e.content
               /\ \/ k[f].content = e.content
                  \/ \E n \in e.links \ {f} : h[n] # None /\ k[f].content = h[n].content
               /\ \A g \in Files \ {f} : k[g] = h[g] \/ (k[g] # None /\ k[g].content = e.content)
               /\ \A g \in Files \ {f} : h[g] # None =>
                    /\ k[g] # None /\ k[g].ino = h[g].ino
                    /\ k[g] = h[g] \/ k[g].ino = k[f].ino
               /\ \A g \in Files : h[g] # None /\ k[g].content # h[g].content =>
                    h[f] # None /\ h[g].content = h[f].content
<1> DEFINE k == Written(h, f, e)
           siblings == Siblings(h, f, e)
<1>1. e.links \in SUBSET Files /\ e.content \in Contents
  BY DEF Entries
<1>2. \A n \in siblings : n \in Files /\ n \in e.links \ {f} /\ h[n] # None
  BY <1>1 DEF Siblings
<1>3. CASE siblings = {}
  <2>1. k = HostPut(h, f, e.content)
    BY <1>3 DEF Written
  <2> HIDE DEF k, siblings
  <2>2. /\ k \in Hosts /\ Linked(k) /\ k[f] # None /\ k[f].content = e.content
        /\ \A g \in Files : k[g] = h[g]
                    \/ (g = f /\ h[f] = None)
                    \/ (h[g] # None /\ h[f] # None /\ h[g].ino = h[f].ino
                        /\ k[g] # None /\ k[g].content = e.content /\ k[g].ino = h[g].ino)
        /\ h[f] # None => k[f].ino = h[f].ino
    BY <1>1, <2>1, HostPutTyped
  <2>3. \A g \in Files : h[g] # None /\ h[f] # None /\ h[g].ino = h[f].ino
                => h[g].content = h[f].content
    BY DEF Linked
  <2>4. QED
    BY <2>2, <2>3 DEF k
<1>4. CASE siblings # {}
  <2>1. \E n \in siblings : \A g \in siblings : n <= g
    BY <1>2, <1>4, FirstOfNames
  <2>2. PICK n \in siblings : k = HostLink(h, n, f)
    BY <1>4, <2>1 DEF Written
  <2>3. n \in Files /\ n \in e.links \ {f} /\ h[n] # None
    BY <1>2
  <2> HIDE DEF k, siblings
  <2>4. /\ k \in Hosts /\ Linked(k) /\ k[f] = h[n]
        /\ \A g \in Files \ {f} : k[g] = h[g]
    BY <2>2, <2>3, HostLinkTyped
  <2>5. QED
    BY <2>3, <2>4 DEF k
<1>5. QED
  BY <1>3, <1>4

\* The names of a file that an apply writes are all of the apply.
LEMMA SiblingsAffected ==
    ASSUME AgentTypeOK, NEW c \in Calls, ApplyInv(c), call[c].kind = "apply",
           NEW f \in ToWrite(c), NEW n \in After(c)[f].links
    PROVE  n \in Affected(c)
<1> DEFINE a == Before(c)
           b == After(c)
<1>1. a \in Trees /\ b \in Trees /\ f \in Files /\ b[f] # None /\ a[f] # b[f]
  BY ComparedTyped DEF ToWrite, Affected, Differing
<1>2. b[f] \in Entries /\ n \in Files /\ f \in b[f].links /\ b[n] = b[f]
  BY <1>1 DEF Trees, Entries, Grouped
<1> HIDE DEF a, b
<1>3. ASSUME a[n] = b[n] PROVE FALSE
  <2>1. a[n] # None /\ a[n].links # {} /\ f \in a[n].links
    BY <1>1, <1>2, <1>3
  <2>2. a[f] = a[n]
    BY <1>1, <1>2, <2>1 DEF Trees, Grouped
  <2>3. QED
    BY <1>1, <1>2, <1>3, <2>2
<1>4. QED
  BY <1>2, <1>3 DEF a, b, Affected, Differing

\* What an undisturbed apply is about to change has been seen.
LEMMA TurnSeen ==
    ASSUME NEW c \in Calls, ApplyInv(c), call[c].kind = "apply", ~call[c].disturbed,
           call[c].phase \in {"writing", "removing"}
    PROVE  \A f \in Affected(c) : Seen(c, f)
BY DEF ApplyInv

\* One file written by apply, with its links.
LEMMA WriteFileKeeps ==
    ASSUME CallsInv, NEW c \in Calls, WriteFile(c)
    PROVE  CallsInv'
<1> DEFINE t == Turn(c)
           rest == call[c].todo \ {t}
           e == After(c)[t]
           r == Going(c, "writing", rest)
<1>1. /\ call[c].phase = "writing" /\ UNCHANGED <<commits, span, tool, edits>>
      /\ host' = Written(host, t, e) /\ BecomesAndDisturbs(c, r)
  BY DEF WriteFile, At
<1>2. /\ SpanInv(c) /\ ApplyInv(c) /\ call[c] \in CallRecords /\ AgentTypeOK
      /\ host \in Hosts /\ Linked(host) /\ call[c].kind = "apply"
  BY <1>1 DEF CallsInv, CallInv, SpanInv, AgentTypeOK
<1>3. t \in call[c].todo /\ t \in Files /\ rest \in SUBSET Files /\ rest \subseteq call[c].todo
  BY <1>1, <1>2, TurnTyped
<1>4. t \in ToWrite(c) /\ e \in Entries /\ t \in Affected(c)
  BY <1>1, <1>2, <1>3, ComparedTyped DEF ApplyInv, ToWrite, Trees
<1>5. r \in CallRecords /\ r.base = call[c].base /\ r.target = call[c].target
  BY <1>2, <1>3, GoingOn
<1>6. \A n \in e.links : n \in Affected(c)
  BY <1>2, <1>4, SiblingsAffected
<1>7. e = After(c)[t]
  OBVIOUS
<1>8. /\ host' \in Hosts /\ Linked(host') /\ host'[t] # None
      /\ e.links = {} => host'[t].content = e.content
      /\ \/ host'[t].content = e.content
         \/ \E n \in e.links \ {t} : host[n] # None /\ host'[t].content = host[n].content
      /\ \A g \in Files \ {t} :
            host'[g] = host[g] \/ (host'[g] # None /\ host'[g].content = e.content)
      /\ \A g \in Files \ {t} : host[g] # None =>
            /\ host'[g] # None /\ host'[g].ino = host[g].ino
            /\ host'[g] = host[g] \/ host'[g].ino = host'[t].ino
  BY <1>1, <1>2, <1>3, <1>4, WrittenTyped, SMTT(60)
<1> HIDE DEF e, r, rest, t
<1>9. ASSUME call'[c] = r PROVE CallInv(c)'
  <2>1. /\ After(c)' = After(c) /\ Affected(c) \in SUBSET Files
        /\ \A x : HeldBy(c, x)' <=> HeldBy(c, x)
    BY <1>1, <1>2, <1>5, <1>9, SameCommits, SameBears, ComparedTyped DEF ApplyInv
  <2>2. HeldBy(c, e.content)
    <3>1. e # None
      BY <1>4, AbsentAssumption
    <3>2. QED
      BY <1>4, <1>7, <3>1 DEF HeldBy
  <2>3. ~call[c].disturbed => \A f \in Affected(c) : Seen(c, f)'
    <3>1. SUFFICES ASSUME ~call[c].disturbed, NEW f \in Affected(c), host'[f] # None
                   PROVE  HeldBy(c, host'[f].content)
      BY <2>1 DEF Seen
    <3>2. \A g \in Affected(c) : host[g] # None => HeldBy(c, host[g].content)
      BY <1>1, <1>2, <3>1, TurnSeen DEF Seen
    <3>3. CASE f = t
      BY <1>6, <1>8, <2>2, <3>2, <3>3
    <3>4. CASE f # t
      BY <1>8, <2>1, <2>2, <3>1, <3>2, <3>4
    <3>5. QED
      BY <3>3, <3>4
  <2>4. ASSUME ~call[c].disturbed, NEW done, done = ToWrite(c) \ rest, NEW f \in done
        PROVE  Settled(c, f, done)'
    <3> DEFINE old == ToWrite(c) \ call[c].todo
    <3>1. /\ done = old \cup {t} /\ t \notin old /\ f \in Files
      BY <1>3, <1>4, <2>1, <2>4 DEF rest, ToWrite
    <3>2. old \subseteq Files
      BY <2>1 DEF ToWrite
    <3>3. \A g \in old : Settled(c, g, old)
      BY <1>1, <1>2, <2>4 DEF ApplyInv
    <3> HIDE DEF old
    <3>4. SUFFICES /\ host'[f] # None
                   /\ After(c)[f].links = {} =>
                        \/ host'[f].content = After(c)[f].content
                        \/ \E g \in done \ {f} : host'[g] # None /\ host'[g].ino = host'[f].ino
      BY <2>1 DEF Settled
    <3>5. CASE f = t
      BY <1>7, <1>8, <3>5
    <3>6. CASE f # t
      <4>1. /\ host[f] # None
            /\ After(c)[f].links = {} =>
                \/ host[f].content = After(c)[f].content
                \/ \E g \in old \ {f} : host[g] # None /\ host[g].ino = host[f].ino
        BY <2>4, <3>1, <3>3, <3>6 DEF Settled
      <4>2. /\ host'[f] # None /\ host'[f].ino = host[f].ino
            /\ host'[f] = host[f] \/ host'[f].ino = host'[t].ino
        BY <1>8, <3>1, <3>6, <4>1
      <4>3. CASE host'[f].ino = host'[t].ino
        BY <1>8, <3>1, <3>6, <4>2, <4>3
      <4>4. CASE host'[f] = host[f] /\ host[f].content = After(c)[f].content
        BY <4>2, <4>4
      <4>5. ASSUME NEW g \in old \ {f}, host[g] # None, host[g].ino = host[f].ino
            PROVE  g \in done \ {f} /\ host'[g] # None /\ host'[g].ino = host'[f].ino
        BY <1>8, <3>1, <3>2, <4>2, <4>5
      <4>6. QED
        BY <4>1, <4>2, <4>3, <4>4, <4>5
    <3>7. QED
      BY <3>5, <3>6
  <2>5. call'[c] = Going(c, "writing", rest)
    BY <1>9 DEF r
  <2>6. QED
    BY <1>1, <1>2, <1>3, <2>3, <2>4, <2>5, ApplyGoesOn
<1>10. Linked(host)'
  BY <1>8 DEF Linked
<1>11. QED
  BY <1>1, <1>5, <1>8, <1>9, <1>10, LoudStep

\* One file removed by apply.
LEMMA RemoveFileKeeps ==
    ASSUME CallsInv, NEW c \in Calls, RemoveFile(c)
    PROVE  CallsInv'
<1> DEFINE t == Turn(c)
           rest == call[c].todo \ {t}
           r == Going(c, "removing", rest)
<1>1. /\ call[c].phase = "removing" /\ UNCHANGED <<commits, span, tool, edits>>
      /\ host' = HostCut(host, t) /\ BecomesAndDisturbs(c, r)
  BY DEF RemoveFile, At
<1>2. /\ SpanInv(c) /\ ApplyInv(c) /\ call[c] \in CallRecords /\ AgentTypeOK
      /\ host \in Hosts /\ Linked(host) /\ call[c].kind = "apply"
  BY <1>1 DEF CallsInv, CallInv, SpanInv, AgentTypeOK
<1>3. t \in call[c].todo /\ t \in Files /\ rest \in SUBSET Files /\ rest \subseteq call[c].todo
  BY <1>1, <1>2, TurnTyped
<1>4. t \in ToRemove(c)
  BY <1>1, <1>2, <1>3 DEF ApplyInv
<1>5. r \in CallRecords /\ r.base = call[c].base /\ r.target = call[c].target
  BY <1>2, <1>3, GoingOn
<1>6. /\ host' \in Hosts /\ Linked(host') /\ host'[t] = None
      /\ \A g \in Files \ {t} : host'[g] = host[g]
  BY <1>1, <1>2, <1>3, HostCutTyped
<1>7. rest = call[c].todo \ {t}
  OBVIOUS
<1> HIDE DEF r, rest, t
<1>8. ASSUME call'[c] = r PROVE CallInv(c)'
  <2>1. /\ After(c)' = After(c) /\ Affected(c) \in SUBSET Files
        /\ \A x : HeldBy(c, x)' <=> HeldBy(c, x)
    BY <1>1, <1>2, <1>5, <1>8, SameCommits, SameBears, ComparedTyped DEF ApplyInv
  <2>2. ~call[c].disturbed => \A f \in Affected(c) : Seen(c, f)'
    <3>1. ~call[c].disturbed => \A f \in Affected(c) : Seen(c, f)
      BY <1>1, <1>2, TurnSeen
    <3>2. QED
      BY <1>6, <2>1, <3>1 DEF Seen
  <2>3. ASSUME ~call[c].disturbed, NEW done, done = ToWrite(c), NEW f \in done
        PROVE  Settled(c, f, done)'
    <3>1. Settled(c, f, done)
      BY <1>1, <1>2, <2>3 DEF ApplyInv
    <3>2. t \notin done /\ done \subseteq Files
      BY <1>4, <2>1, <2>3 DEF ToWrite, ToRemove
    <3>3. \A g \in done : host'[g] = host[g]
      BY <1>6, <3>2
    <3>4. QED
      BY <2>1, <2>3, <3>1, <3>3 DEF Settled
  <2>4. ~call[c].disturbed => \A f \in ToRemove(c) \ rest : host'[f] = None
    <3>1. ~call[c].disturbed => \A f \in ToRemove(c) \ call[c].todo : host[f] = None
      BY <1>1, <1>2 DEF ApplyInv
    <3>2. ToRemove(c) \subseteq Files
      BY <2>1 DEF ToRemove
    <3>3. QED
      BY <1>6, <1>7, <3>1, <3>2
  <2>5. call'[c] = Going(c, "removing", rest)
    BY <1>8 DEF r
  <2>6. ASSUME ~call[c].disturbed, NEW done, done = ToWrite(c) \ {}
        PROVE  \A f \in done : Settled(c, f, done)'
    BY <2>3, <2>6
  <2>7. QED
    BY <1>1, <1>2, <1>3, <2>2, <2>4, <2>5, <2>6, ApplyGoesOn
<1>9. Linked(host)'
  BY <1>6 DEF Linked
<1>10. QED
  BY <1>1, <1>5, <1>6, <1>8, <1>9, LoudStep

--------------------------------------------------------------------------------
(* The invariant *)

\* Nobody has begun and nothing is recorded at first.
LEMMA AgentsBase == Init => AgentsInv
<1> SUFFICES ASSUME Init PROVE AgentsInv
  OBVIOUS
<1>1. OpeningInv
  BY OpeningBase DEF Init
<1>2. /\ span = [c \in Calls |-> "none"] /\ tool = [c \in Calls |-> "none"]
      /\ call = [c \in Calls |-> Idle]
  BY DEF Init
<1>3. NoTree \in Hosts /\ Linked(NoTree)
  BY DEF NoTree, Hosts, Linked
<1>4. Genesis \in Commits /\ Genesis.by = None /\ Genesis.files = NoTree
  BY NoTreeTyped DEF Genesis, Commits
<1>5. /\ host \in Hosts /\ Linked(host) /\ edits \in Nat
      /\ commits \in Seq(Commits) /\ commits # <<>>
      /\ \A k \in DOMAIN commits : commits[k].by = None
      /\ CommitsMade
  <2>1. CASE host = NoTree /\ commits = <<Genesis>> /\ edits = 0
    <3>1. CommitsMade
      BY <2>1 DEF CommitsMade
    <3>2. QED
      BY <1>3, <1>4, <2>1, <3>1
  <2>2. CASE /\ \E x \in Contents :
                 /\ host = HostPut(NoTree, 1, x)
                 /\ commits = <<Genesis, Earlier(x)>>
             /\ edits = 1
    <3>1. PICK x \in Contents :
             /\ host = HostPut(NoTree, 1, x)
             /\ commits = <<Genesis, Earlier(x)>>
      BY <2>2
    <3>2. 1 \in Files
      BY AgentsAssumption DEF Files
    <3>3. host \in Hosts /\ Linked(host)
      BY <1>3, <3>1, <3>2, HostPutTyped
    <3> DEFINE write == [op |-> "write", path |-> 1, arg |-> x]
    <3>4. /\ write \in Mutations /\ Edited(NoTree, write) \in Trees
          /\ Made(NoTree, <<write>>, Edited(NoTree, write))
      <4>1. write \in Mutations /\ write.op = "write" /\ write.arg = x
        BY <3>2 DEF Mutations
      <4> HIDE DEF write
      <4>2. Edited(NoTree, write) \in Trees
        BY <4>1, NoTreeTyped, EditedTyped
      <4>3. <<write>> # <<>> /\ \A m : <<write>> = <<m>> => m = write
        OBVIOUS
      <4>4. QED
        BY <4>1, <4>2, <4>3 DEF Made
    <3>5. Earlier(x) = [files |-> Edited(NoTree, write), muts |-> <<write>>, by |-> None]
      BY DEF Earlier
    <3> HIDE DEF write
    <3>6. /\ Earlier(x) \in Commits /\ Earlier(x).by = None
          /\ Earlier(x).files = Edited(NoTree, write) /\ Earlier(x).muts = <<write>>
      BY <3>4, <3>5 DEF Commits
    <3>7. CommitsMade
      <4>1. SUFFICES ASSUME NEW k \in 1..2, k - 1 \in 1..2
                     PROVE  Made(commits[k - 1].files, commits[k].muts, commits[k].files)
        BY <3>1 DEF CommitsMade
      <4>2. k = 2 /\ commits[k] = Earlier(x) /\ commits[k - 1] = Genesis
        BY <3>1, <4>1
      <4>3. QED
        BY <1>4, <3>4, <3>6, <4>2
    <3>8. QED
      BY <1>4, <2>2, <3>1, <3>3, <3>6, <3>7
  <2>3. QED
    BY <2>1, <2>2 DEF Init
<1>6. AgentTypeOK
  BY <1>2, <1>5, IdleTyped DEF AgentTypeOK
<1>7. HistoryInv /\ \A c \in Calls : ~Bears(c)
  BY <1>5, AbsentAssumption DEF HistoryInv, OneCommitEach, Bears
<1>8. ASSUME NEW c \in Calls PROVE CallInv(c)
  <2>1. /\ call[c].kind = "none" /\ call[c].phase = "idle" /\ call[c].exit = "ok"
        /\ call[c].first = [i \in Files |-> None] /\ call[c].muts = <<>>
    BY <1>2 DEF Idle
  <2>2. SpanInv(c) /\ FirstInv(c) /\ MadeInv(c) /\ ReadingInv(c) /\ ApplyInv(c)
    BY <1>2, <1>7, <2>1 DEF SpanInv, Blank, FirstInv, MadeInv, ReadingInv, ApplyInv
  <2>3. QED
    BY <2>2 DEF CallInv
<1>9. QED
  BY <1>1, <1>5, <1>6, <1>7, <1>8 DEF AgentsInv, CallsInv

\* What the calls do to the store's owner: nothing, but for a workspace that breaks off.
LEMMA ActsOpening ==
    ASSUME OpeningInv, NEW c \in Calls, Acts(c)
    PROVE  OpeningInv'
<1>1. CASE UNCHANGED openingVars
  BY <1>1, OpeningStep
<1>2. CASE NoWorkspace(c)
  <2>1. /\ crashes' = crashes + 1
        /\ UNCHANGED <<pc, step, lock, engine, dropped, ledger, ran, created>>
    BY <1>2 DEF NoWorkspace
  <2>2. OpeningTypeOK'
    BY <2>1 DEF OpeningInv, OpeningTypeOK
  <2>3. HoldsLock' /\ HoldsEngine' /\ LedgerTruthful' /\ Passed' /\ InHand'
    BY <2>1 DEF OpeningInv, HoldsLock, HoldsEngine, LedgerTruthful, Passed, InHand
  <2>4. QED
    BY <2>2, <2>3 DEF OpeningInv
<1>3. QED
  BY <1>1, <1>2
     DEF Acts, SpanOpens, ToolCallOpens, Spawn, OpenWorkspace, IngestBegins, EditFile, ReadFile,
         Abandon, Replay, Publish, Conflict, SpanCloses, ToolCallCloses, ApplyBegins, VerifyFile,
         WriteFile, RemoveFile

\* Every step of a call keeps the invariant.
LEMMA ActsKeep ==
    ASSUME CallsInv, NEW c \in Calls, Acts(c)
    PROVE  CallsInv'
<1>1. CASE \E kind \in Kinds : SpanOpens(c, kind)
  BY <1>1, SpanOpensKeeps
<1>2. CASE \E f \in Files : ReadFile(c, f)
  BY <1>2, ReadFileKeeps
<1>3. CASE ToolCallOpens(c) \/ SpanCloses(c) \/ ToolCallCloses(c)
  BY <1>3, ToolCallOpensKeeps, SpanClosesKeeps, ToolCallClosesKeeps
<1>4. CASE Spawn(c)
  BY <1>4, SpawnKeeps
<1>5. CASE OpenWorkspace(c) \/ IngestBegins(c) \/ NoWorkspace(c)
  BY <1>5, WorkspaceKeeps
<1>6. CASE EditFile(c) \/ Abandon(c) \/ Replay(c) \/ Publish(c) \/ Conflict(c)
  BY <1>6, EditFileKeeps, AbandonKeeps, ReplayKeeps, PublishKeeps, ConflictKeeps
<1>7. CASE ApplyBegins(c) \/ VerifyFile(c) \/ WriteFile(c) \/ RemoveFile(c)
  BY <1>7, ApplyBeginsKeeps, VerifyFileKeeps, WriteFileKeeps, RemoveFileKeeps
<1>8. QED
  BY <1>1, <1>2, <1>3, <1>4, <1>5, <1>6, <1>7 DEF Acts

\* A step of the store's opening changes nothing of the calls.
LEMMA AgentsUnchanged ==
    ASSUME CallsInv, UNCHANGED agentVars
    PROVE  CallsInv'
<1>1. UNCHANGED <<commits, span, tool, host, call, edits>>
  BY DEF agentVars
<1>2. \A c \in Calls : CallInv(c)'
  BY <1>1, SameBears, Frame DEF CallsInv, Elsewhere, SameCall
<1>3. AgentTypeOK' /\ Linked(host)' /\ HistoryInv'
  BY <1>1, SameBears DEF CallsInv, AgentTypeOK, Linked
<1>4. QED
  BY <1>2, <1>3 DEF CallsInv

\* The invariant is inductive.
LEMMA AgentsStep == AgentsInv /\ [Next]_vars => AgentsInv'
<1> SUFFICES ASSUME AgentsInv, [Next]_vars PROVE AgentsInv'
  OBVIOUS
<1>1. OpeningInv /\ CallsInv
  BY DEF AgentsInv
<1>2. CASE UNCHANGED vars
  BY <1>1, <1>2, OpeningStep, AgentsUnchanged DEF vars, AgentsInv
<1>3. CASE Lifecycle
  <2>1. OpeningInv'
    BY <1>1, <1>3, OpeningStep DEF Lifecycle, OpeningNext
  <2>2. UNCHANGED agentVars => CallsInv'
    BY <1>1, AgentsUnchanged
  <2>3. ASSUME call' = [c \in Calls |-> IF InFlight(c) THEN [Idle EXCEPT !.phase = "dead"]
                                       ELSE call[c]],
               UNCHANGED <<commits, span, tool, host, edits>>
        PROVE  CallsInv'
    BY <1>1, <2>3, CrashKeeps
  <2>4. CallsInv'
    BY <1>3, <2>2, <2>3 DEF Lifecycle
  <2>5. QED
    BY <2>1, <2>4 DEF AgentsInv
<1>4. CASE Interfere
  <2>1. OpeningInv'
    BY <1>1, <1>4, OpeningStep DEF Interfere
  <2>2. QED
    BY <1>1, <1>4, <2>1, InterfereKeeps DEF AgentsInv
<1>5. CASE \E c \in Calls : Acts(c)
  BY <1>1, <1>5, ActsOpening, ActsKeep DEF AgentsInv
<1>6. QED
  BY <1>2, <1>3, <1>4, <1>5 DEF Next

\* The invariant the theorems below rest on: the store's owner, the host's inodes and
\* each call's place agree (tool_start, tool_finish, ingest, apply, run_in).
THEOREM AgentsInvariant == Spec => []AgentsInv
BY AgentsBase, AgentsStep, PTL DEF Spec

--------------------------------------------------------------------------------
(* What it shows *)

\* Calls in progress, and the crashes and failures among them, do not weaken who owns
\* the store: its user is alone, on a complete schema.
THEOREM OwnedAmongCalls == Spec => []OwnedAndMigrated
<1>1. AgentsInv => OwnedAndMigrated
  BY OpeningEnough DEF AgentsInv
<1>2. QED
  BY <1>1, AgentsInvariant, PTL

\* Every commit made under a span can be traced to its tool call, and is the only one
\* that bears the span, whatever dies in between.
THEOREM EveryCommitExplained == Spec => []CommitsExplained
<1>1. AgentsInv => CommitsExplained
  <2> SUFFICES ASSUME AgentsInv, NEW k \in DOMAIN commits, commits[k].by # None
               PROVE  /\ span[commits[k].by] # "none" /\ tool[commits[k].by] # "none"
                      /\ \A j \in DOMAIN commits : commits[j].by = commits[k].by => j = k
    BY DEF CommitsExplained
  <2> DEFINE c == commits[k].by
  <2>1. c \in Calls /\ Bears(c)
    BY CommitsTyped DEF AgentsInv, CallsInv, Bears
  <2>2. span[c] # "none" /\ tool[c] # "none"
    BY <2>1 DEF AgentsInv, CallsInv, CallInv, SpanInv
  <2>3. \A j \in DOMAIN commits : commits[j].by = c => j = k
    BY DEF AgentsInv, CallsInv, HistoryInv, OneCommitEach
  <2>4. QED
    BY <2>2, <2>3
<1>2. QED
  BY <1>1, AgentsInvariant, PTL

\* A closed span and its tool_call row say what became of the call: a SUCCEEDED tool
\* call finds its edit in its own commit, or in one made by the same edit of the same
\* state, and a FAILED one has made none.
THEOREM EveryOutcomeTruthful == Spec => []OutcomesTruthful
<1>1. AgentsInv => OutcomesTruthful
  <2> SUFFICES ASSUME AgentsInv, NEW c \in Calls
               PROVE  /\ call[c].kind = "tool" /\ span[c] = "SUCCEEDED" =>
                            \E k \in 2..Len(commits) :
                                /\ commits[k].files = call[c].tree
                                /\ commits[k].muts = call[c].muts
                                /\ commits[k - 1].files = commits[call[c].base].files
                                /\ \/ commits[k].by = c
                                   \/ \A j \in DOMAIN commits : ~(commits[j].by = c)
                      /\ call[c].kind = "tool" /\ span[c] = "FAILED" =>
                            \A k \in DOMAIN commits : ~(commits[k].by = c)
                      /\ tool[c] = "output" => span[c] = "SUCCEEDED"
                      /\ tool[c] = "error" => span[c] = "FAILED"
                      /\ call[c].kind = "run" /\ span[c] = "SUCCEEDED" => call[c].exit = "ok"
    BY DEF OutcomesTruthful
  <2>1. SpanInv(c) /\ call[c].phase \in CallPhases /\ AgentTypeOK
    BY DEF AgentsInv, CallsInv, CallInv, AgentTypeOK, CallRecords
  <2>2. /\ call[c].kind = "tool" /\ span[c] = "SUCCEEDED" => Held(c)
        /\ call[c].kind = "tool" /\ span[c] = "FAILED" => ~Bears(c)
        /\ tool[c] = "output" => span[c] = "SUCCEEDED"
        /\ tool[c] = "error" => span[c] = "FAILED"
        /\ call[c].kind = "run" /\ span[c] = "SUCCEEDED" => call[c].exit = "ok"
    BY <2>1 DEF SpanInv, CallPhases, Blank, Running, Agreed, Status
  <2>3. ASSUME Held(c)
        PROVE  \E k \in 2..Len(commits) :
                  /\ commits[k].files = call[c].tree
                  /\ commits[k].muts = call[c].muts
                  /\ commits[k - 1].files = commits[call[c].base].files
                  /\ \/ commits[k].by = c
                     \/ \A j \in DOMAIN commits : ~(commits[j].by = c)
    <3>1. PICK k \in DOMAIN commits : Holds(c, k) /\ (commits[k].by = c \/ ~Bears(c))
      BY <2>3 DEF Held
    <3>2. k \in 2..Len(commits)
      BY <2>1, <3>1, CommitsTyped DEF Holds
    <3>3. QED
      BY <3>1, <3>2 DEF Holds, Bears
  <2>4. QED
    BY <2>2, <2>3 DEF Bears
<1>2. QED
  BY <1>1, AgentsInvariant, PTL

\* An undisturbed run or ingest has every file of the directory in its tree.
THEOREM EveryFileRecorded == Spec => []FilesRecorded
<1>1. AgentsInv => FilesRecorded
  BY DEF AgentsInv, CallsInv, CallInv, ReadingInv, ShownIn, FilesRecorded
<1>2. QED
  BY <1>1, AgentsInvariant, PTL

\* An undisturbed apply has made the directory what its target commit says.
THEOREM EveryApplyExact == Spec => []ApplyExact
<1>1. AgentsInv => ApplyExact
  <2> SUFFICES ASSUME AgentsInv, NEW c \in Calls, call[c].kind = "apply",
                      call[c].phase = "answered", call[c].exit = "ok", ~call[c].disturbed,
                      NEW f \in Affected(c)
               PROVE  IF After(c)[f] = None THEN host[f] = None
                      ELSE /\ host[f] # None
                           /\ After(c)[f].links = {} /\ Names(host, f) = {f}
                                => host[f].content = After(c)[f].content
    BY DEF ApplyExact
  <2>1. /\ \A g \in ToWrite(c) : Settled(c, g, ToWrite(c))
        /\ \A g \in ToRemove(c) : host[g] = None
    BY DEF AgentsInv, CallsInv, CallInv, ApplyInv
  <2>2. ToWrite(c) \subseteq Files
    BY DEF ToWrite, Affected, Differing
  <2>3. CASE After(c)[f] = None
    BY <2>1, <2>3 DEF ToRemove, ToWrite
  <2>4. CASE After(c)[f] # None
    <3>1. f \in ToWrite(c)
      BY <2>4 DEF ToWrite
    <3>2. Settled(c, f, ToWrite(c))
      BY <2>1, <3>1
    <3>3. QED
      BY <2>2, <2>4, <3>2 DEF Settled, Names
  <2>5. QED
    BY <2>3, <2>4
<1>2. QED
  BY <1>1, AgentsInvariant, PTL

\* No apply destroys work that neither of its commits holds, unless it was changed
\* under the apply's feet.
THEOREM NoUnseenWorkLost == Spec => UnseenWorkKept
<1>1. AgentsInv => ChangesOnlySeen
  <2> SUFFICES ASSUME AgentsInv, NEW c \in Calls, WriteFile(c) \/ RemoveFile(c), NEW f \in Files,
                      host[f] # None, host'[f] = None \/ host'[f].content # host[f].content,
                      ~call[c].disturbed
               PROVE  HeldBy(c, host[f].content)
    BY DEF ChangesOnlySeen, DestroysOnlyHeld, HeldBy
  <2>1. /\ SpanInv(c) /\ ApplyInv(c) /\ call[c] \in CallRecords /\ AgentTypeOK
        /\ host \in Hosts /\ Linked(host)
    BY DEF AgentsInv, CallsInv, CallInv, AgentTypeOK
  <2>2. call[c].phase \in {"writing", "removing"} /\ call[c].kind = "apply"
    BY <2>1 DEF WriteFile, RemoveFile, At, SpanInv
  <2> DEFINE t == Turn(c)
             e == After(c)[t]
  <2>3. t \in call[c].todo /\ t \in Files
    BY <2>1, <2>2, TurnTyped
  <2>4. \A g \in Affected(c) : host[g] # None => HeldBy(c, host[g].content)
    BY <2>1, <2>2, TurnSeen DEF Seen
  <2>5. CASE WriteFile(c)
    <3>1. t \in ToWrite(c) /\ e \in Entries /\ t \in Affected(c)
      BY <2>1, <2>2, <2>3, <2>5, ComparedTyped DEF WriteFile, At, ApplyInv, ToWrite, Trees
    <3>2. host' = Written(host, t, e)
      BY <2>5 DEF WriteFile
    <3> HIDE DEF t, e
    <3>3. /\ host'[t] # None
          /\ \A g \in Files \ {t} : host[g] # None => host'[g] # None
          /\ \A g \in Files : host[g] # None /\ host'[g].content # host[g].content =>
                    host[t] # None /\ host[g].content = host[t].content
      BY <2>1, <2>3, <3>1, <3>2, WrittenTyped, SMTT(60)
    <3>4. host[t] # None /\ host[f].content = host[t].content
      BY <3>3
    <3>5. QED
      BY <2>4, <3>1, <3>4
  <2>6. CASE RemoveFile(c)
    <3>1. t \in Affected(c)
      BY <2>1, <2>2, <2>3, <2>6 DEF RemoveFile, At, ApplyInv, ToRemove
    <3>2. host' = HostCut(host, t)
      BY <2>6 DEF RemoveFile
    <3> HIDE DEF t
    <3>3. f = t
      BY <2>1, <2>3, <3>2, HostCutTyped
    <3>4. QED
      BY <2>4, <3>1, <3>3
  <2>7. QED
    BY <2>5, <2>6
<1>2. QED
  BY <1>1, AgentsInvariant, PTL DEF UnseenWorkKept
================================================================================
