---------------------------------- MODULE Agents ---------------------------------
(* What agents do with an open repository, beside a directory of the host:          *)
(*  - MCP tool calls, which write or remove a file under a recorded span            *)
(*    (with_span, surrealfs-mcp/src/tools.rs);                                      *)
(*  - runs of a command in the directory, whose changes are recorded                *)
(*    (run_in, surrealfs-run/src/lib.rs), and plain ingests of it;                  *)
(*  - apply, which writes the difference of two commits into the directory          *)
(*    (both in surrealfs-kernel/src/host.rs).                                       *)
(* The calls of the process that owns the store (Opening.tla) interleave; when it  *)
(* is killed they are gone and the rows they wrote stay.  People and other programs *)
(* change the directory at any time.                                               *)
(*                                                                                 *)
(* A publication is one step: it is answered by the receipt of the same edits over   *)
(* the same state, or else commits if the head is still the base.  The directory is *)
(* flat: a file has a name, a content and an inode.                                *)
EXTENDS Opening, Sequences, FiniteSets

CONSTANTS
    Calls,          \* the calls
    Kinds,          \* of these kinds: "tool", "run", "ingest", "apply"
    FileCount,      \* the names are 1..FileCount, in the order of paths
    Contents,       \* file contents
    None,
    EditBound       \* bound: changes others make to the directory, the file an earlier
                    \* session has recorded included

ASSUME AgentsAssumption == FileCount \in Nat \ {0} /\ EditBound \in Nat

VARIABLES
    commits,    \* the history of main: what each commit shows, the edits that made it
                \* of the one before, and which span it bears
    span,       \* the span row of each call
    tool,       \* and its tool_call row
    host,       \* the directory
    call,       \* the calls in progress and their answers
    edits

agentVars == <<commits, span, tool, host, call, edits>>
vars == <<openingVars, agentVars>>

Files == 1..FileCount

\* What a name holds in the repository, and in the directory.
Entries == [content : Contents, links : SUBSET Files]
Inodes  == [content : Contents, ino : Files]

ASSUME AbsentAssumption == None \notin Calls \cup Files \cup Entries \cup Inodes

--------------------------------------------------------------------------------
(* Repository and directory *)

\* A tree of the repository: name -> content and link group.
Group(t, f) == IF t[f] # None /\ t[f].links # {} THEN t[f].links ELSE {f}

\* write_file: every member of the group shows x.
Put(t, f, x) ==
    LET links == IF t[f] # None THEN t[f].links ELSE {}
    IN  [g \in Files |-> IF g \in Group(t, f) THEN [content |-> x, links |-> links] ELSE t[g]]

\* Workspace::link
Join(t, f, g) ==
    LET group == Group(t, f) \cup {g}
    IN  [h \in Files |-> IF h \in group THEN [content |-> t[f].content, links |-> group] ELSE t[h]]

\* Workspace::unlink
Cut(t, f) ==
    LET rest == Group(t, f) \ {f}
    IN  [g \in Files |->
            IF g = f THEN None
            ELSE IF g \in rest
                 THEN [t[g] EXCEPT !.links = IF Cardinality(rest) > 1 THEN rest ELSE {}]
            ELSE t[g]]

\* A staged edit, and what it makes of a tree.
Mutations == [op : {"write", "link", "unlink"}, path : Files,
              arg : Contents \cup Files \cup {None}]

Edited(t, m) ==
    IF m.op = "write" THEN Put(t, m.path, m.arg)
    ELSE IF m.op = "link" THEN Join(t, m.arg, m.path)
    ELSE Cut(t, m.path)

\* The directory: name -> content and inode number; names of one inode are links.
Names(h, f) == {g \in Files : h[g] # None /\ h[g].ino = h[f].ino}
Unused(h) == CHOOSE i \in Files : \A g \in Files : h[g] # None => h[g].ino # i

HostPut(h, f, x) ==
    IF h[f] = None THEN [h EXCEPT ![f] = [content |-> x, ino |-> Unused(h)]]
    ELSE [g \in Files |-> IF g \in Names(h, f) THEN [h[g] EXCEPT !.content = x] ELSE h[g]]
HostCut(h, f) == [h EXCEPT ![f] = None]
HostLink(h, f, g) == [h EXCEPT ![g] = h[f]]

\* What a command or a person does: nothing, or one file is written, replaced,
\* removed or given a second name.
Changes(h) ==
    {h} \cup {HostCut(h, f) : f \in Files}
        \cup {HostPut(h, f, x) : f \in Files, x \in Contents}
        \cup {HostPut(HostCut(h, f), f, x) : f \in Files, x \in Contents}
        \cup {HostLink(h, f, g) : f \in {n \in Files : h[n] # None},
                                  g \in {n \in Files : h[n] = None}}

--------------------------------------------------------------------------------
(* Calls *)

NoTree == [f \in Files |-> None]

Idle == [kind |-> "none", phase |-> "idle", base |-> 0, tree |-> NoTree, muts |-> <<>>,
         todo |-> {}, first |-> [i \in Files |-> None], exit |-> "ok", target |-> 0,
         disturbed |-> FALSE]

InFlight(c) == call[c].phase \notin {"idle", "answered", "dead"}
StoreOpen == \E p \in Processes : pc[p] = "open"
At(c, phase) == StoreOpen /\ call[c].phase = phase

\* The directory has changed under a call that has begun.
Disturbed(c) == [call[c] EXCEPT !.disturbed = call[c].phase # "idle"]

\* c goes on as r; every other call sees the directory change.
Becomes(c, r) == call' = [call EXCEPT ![c] = r]
BecomesAndDisturbs(c, r) == call' = [d \in Calls |-> IF d = c THEN r ELSE Disturbed(d)]

Staged(r, m) == [r EXCEPT !.tree = Edited(@, m), !.muts = Append(@, m)]
Failed(r) == [r EXCEPT !.phase = "finishing", !.exit = "failed", !.tree = NoTree, !.muts = <<>>]
Lost(r) == [Idle EXCEPT !.kind = r.kind, !.phase = "answered", !.exit = "lost"]

\* Store::tool_start's two statements.
SpanOpens(c, kind) ==
    /\ At(c, "idle") /\ kind \in Kinds \cap {"tool", "run"}
    /\ span' = [span EXCEPT ![c] = "RUNNING"]
    /\ Becomes(c, [Idle EXCEPT !.kind = kind, !.phase = "spanned"])
    /\ UNCHANGED <<openingVars, commits, tool, host, edits>>

ToolCallOpens(c) ==
    /\ At(c, "spanned")
    /\ tool' = [tool EXCEPT ![c] = "open"]
    /\ Becomes(c, [call[c] EXCEPT !.phase = "begun"])
    /\ UNCHANGED <<openingVars, commits, span, host, edits>>

\* run_in: the command runs, and may not be there to run.
Spawn(c) ==
    /\ At(c, "begun") /\ call[c].kind = "run"
    /\ \E exit \in {"ok", "failed"}, h \in Changes(host) :
        /\ host' = h
        /\ BecomesAndDisturbs(c, [call[c] EXCEPT !.phase = "ran", !.exit = exit])
    /\ UNCHANGED <<openingVars, commits, span, tool, edits>>

\* A bug the runs must catch: the span alone is waited for.
SpanIsEnough(c) == call[c].phase \in {"spanned", "begun"}

Recorded(c) == call[c].phase = "begun"

\* Who may ask for a workspace now.
Ready(c) ==
    /\ StoreOpen
    /\ \/ call[c].kind = "tool" /\ Recorded(c)
       \/ call[c].phase = "ran"

Opened(c, kind) ==
    Becomes(c, [call[c] EXCEPT
                    !.kind = kind, !.base = Len(commits), !.tree = commits[Len(commits)].files,
                    !.phase = IF kind = "tool" THEN "editing" ELSE "reading",
                    !.todo = IF kind = "tool" THEN {} ELSE Files, !.disturbed = FALSE])

\* Kernel::workspace
OpenWorkspace(c) ==
    /\ Ready(c)
    /\ Opened(c, call[c].kind)
    /\ UNCHANGED <<openingVars, commits, span, tool, host, edits>>

IngestBegins(c) ==
    /\ At(c, "idle") /\ "ingest" \in Kinds
    /\ Opened(c, "ingest")
    /\ UNCHANGED <<openingVars, commits, span, tool, host, edits>>

\* It fails: both callers return at once, and the span goes on RUNNING.
NoWorkspace(c) ==
    /\ Ready(c) /\ crashes < CrashBound
    /\ Becomes(c, Lost(call[c]))
    /\ crashes' = crashes + 1
    /\ UNCHANGED <<pc, step, lock, engine, dropped, ledger, ran, created,
                   commits, span, tool, host, edits>>

\* fs_write, or fs_remove, which finds nothing to remove and aborts.
ToolEdits ==
    [op : {"write"}, path : Files, arg : Contents] \cup
    [op : {"unlink"}, path : Files, arg : {None}]

EditFile(c) ==
    /\ At(c, "editing")
    /\ \E m \in ToolEdits :
        Becomes(c, IF m.op = "unlink" /\ call[c].tree[m.path] = None THEN Failed(call[c])
                   ELSE Staged([call[c] EXCEPT !.phase = "publishing"], m))
    /\ UNCHANGED <<openingVars, commits, span, tool, host, edits>>

--------------------------------------------------------------------------------
(* host::ingest *)

\* A bug the runs must catch: a file that is there is taken for unchanged.
SameName(t, f) == t[f] # None

Unchanged(t, f) == t[f] # None /\ t[f].content = host[f].content

\* One directory entry, in the order the host lists them.  The first name of an
\* inode with several is remembered, and later ones are linked to it, which fails
\* where the repository has the name already.
ReadFile(c, f) ==
    /\ At(c, "reading") /\ f \in call[c].todo
    /\ LET w == call[c]
           linked == host[f] # None /\ Cardinality(Names(host, f)) > 1
           before == IF linked THEN w.first[host[f].ino] ELSE None
           read == [w EXCEPT
                        !.todo = @ \ {f},
                        !.phase = IF w.todo = {f} THEN "publishing" ELSE @,
                        !.first = IF linked /\ before = None THEN [@ EXCEPT ![host[f].ino] = f]
                                  ELSE @]
           write == [op |-> "write", path |-> f, arg |-> host[f].content]
           link == [op |-> "link", path |-> f, arg |-> before]
       IN  Becomes(c, IF host[f] = None THEN read
                      ELSE IF before # None
                      THEN IF w.tree[f] # None THEN Lost(w) ELSE Staged(read, link)
                      ELSE IF Unchanged(w.tree, f) THEN read ELSE Staged(read, write))
    /\ UNCHANGED <<openingVars, commits, span, tool, host, edits>>

\* Nothing was staged: the workspace is aborted and no commit is made.
Clean(c) == call[c].muts = <<>>

\* After the call's own part: a tool call and a run have a span to close.
Closing(c) == IF call[c].kind = "ingest" THEN "answered" ELSE "finishing"

Abandon(c) ==
    /\ At(c, "publishing") /\ Clean(c)
    /\ Becomes(c, [call[c] EXCEPT !.phase = Closing(c)])
    /\ UNCHANGED <<openingVars, commits, span, tool, host, edits>>

\* A bug the runs must catch: the id does not tell over which state the edits are.
SameEdits(c, k) == commits[k].muts = call[c].muts

\* A publication without a request id is known by the state it starts from and its
\* edits, not by who makes it: commit k has the receipt c would get.
SameRequest(c, k) ==
    commits[k - 1].files = commits[call[c].base].files /\ commits[k].muts = call[c].muts

Receipts(c) == {k \in 2..Len(commits) : SameRequest(c, k)}

\* The receipt is looked for before the head is compared.
Replay(c) ==
    /\ At(c, "publishing") /\ ~Clean(c) /\ Receipts(c) # {}
    /\ Becomes(c, [call[c] EXCEPT !.phase = Closing(c)])
    /\ UNCHANGED <<openingVars, commits, span, tool, host, edits>>

Publish(c) ==
    /\ At(c, "publishing") /\ ~Clean(c) /\ Receipts(c) = {} /\ call[c].base = Len(commits)
    /\ commits' = Append(commits, [files |-> call[c].tree, muts |-> call[c].muts,
                                   by |-> IF call[c].kind = "ingest" THEN None ELSE c])
    /\ Becomes(c, [call[c] EXCEPT !.phase = Closing(c)])
    /\ UNCHANGED <<openingVars, span, tool, host, edits>>

\* The head has moved: with_span closes its span, run_in and ingest just return.
Conflict(c) ==
    /\ At(c, "publishing") /\ ~Clean(c) /\ Receipts(c) = {} /\ call[c].base # Len(commits)
    /\ Becomes(c, IF call[c].kind = "tool" THEN Failed(call[c]) ELSE Lost(call[c]))
    /\ UNCHANGED <<openingVars, commits, span, tool, host, edits>>

Status(c) == IF call[c].exit = "ok" THEN "SUCCEEDED" ELSE "FAILED"

\* Store::tool_finish's two statements.
SpanCloses(c) ==
    /\ At(c, "finishing")
    /\ span' = [span EXCEPT ![c] = Status(c)]
    /\ Becomes(c, [call[c] EXCEPT !.phase = "finished"])
    /\ UNCHANGED <<openingVars, commits, tool, host, edits>>

ToolCallCloses(c) ==
    /\ At(c, "finished")
    /\ tool' = [tool EXCEPT ![c] = IF call[c].exit = "ok" THEN "output" ELSE "error"]
    /\ Becomes(c, [call[c] EXCEPT !.phase = "answered"])
    /\ UNCHANGED <<openingVars, commits, span, host, edits>>

--------------------------------------------------------------------------------
(* host::apply, of commit base against commit target *)

Before(c) == commits[call[c].base].files
After(c) == commits[call[c].target].files
Differing(a, b) == {f \in Files : a[f] # b[f]}
Affected(c) == Differing(Before(c), After(c))

\* The next thing to do, in the three passes: verify all, write, remove.
Going(c, phase, rest) ==
    LET written == {f \in Affected(c) : After(c)[f] # None}
        removed == Affected(c) \ written
        turn(at, todo) == [call[c] EXCEPT !.phase = at, !.todo = todo]
    IN  IF rest # {} THEN turn(phase, rest)
        ELSE IF phase = "verifying" /\ written # {} THEN turn("writing", written)
        ELSE IF phase # "removing" /\ removed # {} THEN turn("removing", removed)
        ELSE turn("answered", {})

Turn(c) == CHOOSE f \in call[c].todo : \A g \in call[c].todo : f <= g

ApplyBegins(c) ==
    /\ At(c, "idle") /\ "apply" \in Kinds
    /\ \E from, to \in DOMAIN commits :
        /\ Differing(commits[from].files, commits[to].files) # {}
        /\ Becomes(c, [Idle EXCEPT !.kind = "apply", !.phase = "verifying", !.base = from,
                                   !.target = to,
                                   !.todo = Differing(commits[from].files, commits[to].files)])
    /\ UNCHANGED <<openingVars, commits, span, tool, host, edits>>

Shows(f, e) == host[f] # None /\ host[f].content = e.content

\* A bug the runs must catch: a file to be added is not looked for.
BaseFilesMatch(c, f) == Before(c)[f] = None \/ Shows(f, Before(c)[f])

Matches(c, f) ==
    IF Before(c)[f] = None THEN host[f] = None \/ Shows(f, After(c)[f])
    ELSE Shows(f, Before(c)[f])

\* The next file is as expected, or HostDrift ends the call.
VerifyFile(c) ==
    /\ At(c, "verifying")
    /\ Becomes(c, IF Matches(c, Turn(c)) THEN Going(c, "verifying", call[c].todo \ {Turn(c)})
                  ELSE [call[c] EXCEPT !.phase = "answered", !.exit = "drift", !.todo = {}])
    /\ UNCHANGED <<openingVars, commits, span, tool, host, edits>>

\* A bug the runs must catch: a file that is there is left as it is.
OnlyMissing(h, f, e) == IF h[f] = None THEN HostPut(h, f, e.content) ELSE h

\* The first other name of the group that is on disk is linked to; else the
\* content is written.
Siblings(h, f, e) == {g \in e.links \ {f} : h[g] # None}

Written(h, f, e) ==
    IF Siblings(h, f, e) = {} THEN HostPut(h, f, e.content)
    ELSE HostLink(h, CHOOSE g \in Siblings(h, f, e) : \A n \in Siblings(h, f, e) : g <= n, f)

WriteFile(c) ==
    /\ At(c, "writing")
    /\ host' = Written(host, Turn(c), After(c)[Turn(c)])
    /\ BecomesAndDisturbs(c, Going(c, "writing", call[c].todo \ {Turn(c)}))
    /\ UNCHANGED <<openingVars, commits, span, tool, edits>>

RemoveFile(c) ==
    /\ At(c, "removing")
    /\ host' = HostCut(host, Turn(c))
    /\ BecomesAndDisturbs(c, Going(c, "removing", call[c].todo \ {Turn(c)}))
    /\ UNCHANGED <<openingVars, commits, span, tool, edits>>

--------------------------------------------------------------------------------
(* The others *)

Interfere ==
    /\ edits < EditBound
    /\ host' \in Changes(host) \ {host}
    /\ edits' = edits + 1
    /\ call' = [c \in Calls |-> Disturbed(c)]
    /\ UNCHANGED <<openingVars, commits, span, tool>>

\* The process that owns the store opens it, closes it with no call left, or dies.
Lifecycle ==
    \/ /\ EngineReleased \/ \E p \in Processes : Opens(p)
       /\ UNCHANGED agentVars
    \/ /\ \A c \in Calls : ~InFlight(c)
       /\ \E p \in Processes : Close(p)
       /\ UNCHANGED agentVars
    \/ /\ \E p \in Processes : Crash(p)
       /\ call' = [c \in Calls |-> IF InFlight(c) THEN [Idle EXCEPT !.phase = "dead"]
                                   ELSE call[c]]
       /\ UNCHANGED <<commits, span, tool, host, edits>>

Genesis == [files |-> NoTree, muts |-> <<>>, by |-> None]

\* The commit of an ingest of file 1, which held x.
Earlier(x) ==
    LET write == [op |-> "write", path |-> 1, arg |-> x]
    IN  [files |-> Edited(NoTree, write), muts |-> <<write>>, by |-> None]

\* Nothing is there, or an earlier session has ingested a directory of one file.
Init ==
    /\ OpeningInit
    /\ \/ host = NoTree /\ commits = <<Genesis>> /\ edits = 0
       \/ /\ created /\ EditBound > 0
          /\ \E x \in Contents :
                /\ host = HostPut(NoTree, 1, x)
                /\ commits = <<Genesis, Earlier(x)>>
          /\ edits = 1
    /\ span = [c \in Calls |-> "none"]
    /\ tool = [c \in Calls |-> "none"]
    /\ call = [c \in Calls |-> Idle]

Acts(c) ==
    \/ \E kind \in Kinds : SpanOpens(c, kind)
    \/ ToolCallOpens(c) \/ Spawn(c)
    \/ OpenWorkspace(c) \/ IngestBegins(c) \/ NoWorkspace(c)
    \/ EditFile(c)
    \/ \E f \in Files : ReadFile(c, f)
    \/ Abandon(c) \/ Replay(c) \/ Publish(c) \/ Conflict(c)
    \/ SpanCloses(c) \/ ToolCallCloses(c)
    \/ ApplyBegins(c) \/ VerifyFile(c) \/ WriteFile(c) \/ RemoveFile(c)

Next == Lifecycle \/ Interfere \/ \E c \in Calls : Acts(c)

Spec == Init /\ [][Next]_vars

--------------------------------------------------------------------------------
(* Properties *)

\* explain can name the tool call behind every commit made under a span: both of its
\* rows were there before the commit, whatever died in between, and no two commits
\* bear one span.
CommitsExplained ==
    \A k \in DOMAIN commits : commits[k].by # None =>
        /\ span[commits[k].by] # "none" /\ tool[commits[k].by] # "none"
        /\ \A j \in DOMAIN commits : commits[j].by = commits[k].by => j = k

\* A closed span tells what became of its tool call.  SUCCEEDED: its edit is in a
\* commit, the one that bears the span or, when none does, one that another call made
\* of the same state with the same edit.  FAILED: no commit bears the span.  The
\* tool_call row agrees once the call is answered, and a run answered after its command
\* failed is FAILED.
OutcomesTruthful ==
    \A c \in Calls :
        LET bears(k) == commits[k].by = c
            same(k) == commits[k].files = call[c].tree /\ commits[k].muts = call[c].muts
                            /\ commits[k - 1].files = commits[call[c].base].files
        IN  /\ call[c].kind = "tool" /\ span[c] = "SUCCEEDED" =>
                \E k \in 2..Len(commits) :
                    same(k) /\ (bears(k) \/ \A j \in DOMAIN commits : ~bears(j))
            /\ call[c].kind = "tool" /\ span[c] = "FAILED" => \A k \in DOMAIN commits : ~bears(k)
            /\ tool[c] = "output" => span[c] = "SUCCEEDED"
            /\ tool[c] = "error" => span[c] = "FAILED"
            /\ call[c].kind = "run" /\ span[c] = "SUCCEEDED" => call[c].exit = "ok"

\* An answered run or ingest that nobody disturbed has recorded the directory: every
\* file that is there is in the tree it published, or in its base when there was
\* nothing to say, with its content.  (Of names that belong to no link group of the
\* repository.)
FilesRecorded ==
    \A c \in Calls :
        call[c].kind \in {"run", "ingest"} /\ call[c].phase = "answered" /\ call[c].exit # "lost"
            /\ ~call[c].disturbed
        => \A f \in Files : host[f] # None =>
                /\ call[c].tree[f] # None
                /\ call[c].tree[f].links = {} => call[c].tree[f].content = host[f].content

\* What a step of apply c overwrites or removes at f is what one of its commits holds.
DestroysOnlyHeld(c, f) ==
    host[f] # None /\ (host'[f] = None \/ host'[f].content # host[f].content) =>
        \E g \in Affected(c) : \E e \in {Before(c)[g], After(c)[g]} \ {None} :
            host[f].content = e.content

\* No step of apply destroys work the repository never saw: what it overwrites or
\* removes is what a commit of the two holds at an affected name, unless it changed
\* after the call began.
ChangesOnlySeen ==
    \A c \in Calls : WriteFile(c) \/ RemoveFile(c) =>
        call[c].disturbed \/ \A f \in Files : DestroysOnlyHeld(c, f)

UnseenWorkKept == [][ChangesOnlySeen]_vars

\* An apply that nobody disturbed leaves a file at every affected name the target
\* commit holds, with the commit's content where the name stands alone in the target
\* and on disk, and nothing at the names it does not hold.
ApplyExact ==
    \A c \in Calls :
        call[c].kind = "apply" /\ call[c].phase = "answered" /\ call[c].exit = "ok"
            /\ ~call[c].disturbed
        => \A f \in Affected(c) :
            IF After(c)[f] = None THEN host[f] = None
            ELSE /\ host[f] # None
                 /\ After(c)[f].links = {} /\ Names(host, f) = {f}
                        => host[f].content = After(c)[f].content

\* "Run a command ... and record exactly what it changed": once an undisturbed run is
\* answered, the head it published shows the names and the contents of the directory.
RunRecordsExactly ==
    \A c \in Calls :
        call[c].kind = "run" /\ call[c].phase = "answered" /\ call[c].exit # "lost"
            /\ ~call[c].disturbed
        => \A f \in Files :
            IF host[f] = None THEN call[c].tree[f] = None
            ELSE call[c].tree[f] # None /\ call[c].tree[f].content = host[f].content
================================================================================
