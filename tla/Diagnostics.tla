------------------------------ MODULE Diagnostics ------------------------------
(***************************************************************************)
(* What the client is shown: the open documents, the generations that      *)
(* order publications, the stored javac results, the handlers that change  *)
(* them (crates/server/src/main.rs, backend.rs) and the passes that        *)
(* publish (diagnostics.rs).                                               *)
(*                                                                         *)
(* Texts are opaque identifiers, larger ones newer.  The native diagnostics*)
(* of a document are a function of its text, of what the open documents    *)
(* and the files it uses declare (read when they are computed, and numbered*)
(* by `world`), of the index that says which files there are, and of the   *)
(* classpath.  The index lags: it is built by ensure_workspace_index, over *)
(* many awaits, from the files as the walk finds them.  Handlers are tasks *)
(* of one executor; an action is what one of them does between two await   *)
(* points.  Messages start their handlers in the order they arrive, each   *)
(* handler running up to its first await.                                  *)
(***************************************************************************)
EXTENDS Integers, FiniteSets

CONSTANTS
    Uris,         \* documents of the workspace
    Opened,       \* those open at first, checked and shown
    Module,       \* the documents of the module a scoped check compiles
    Tasks,        \* handlers in flight
    Checker,      \* the checkProject command, as a caller of the index
    Events,       \* the kinds of message the client sends
    MaxMessages   \* bound on their number

EventKinds == {"open", "decl", "body", "close", "save", "watch", "classpath", "query",
               "checkProject", "checkModules"}

ASSUME ConstantsAssumption ==
    /\ Opened \subseteq Uris /\ Module \subseteq Uris
    /\ Checker \notin Tasks
    /\ Events \subseteq EventKinds
    /\ MaxMessages \in Nat

VARIABLES
    open,         \* the open documents: keys of Backend::documents
    txt, ver,     \* text and LSP version of each document
    opened,       \* how often each document was opened
    disk,         \* text of each file on disk
    world,        \* number of the current declarations
    classpath,    \* number of the stored classpath
    messages,     \* messages so far
    semantic_generation, provider_generation,
    dirty_epoch,  \* WorkspaceIndex: accepted file events, which number its listings
    index,        \* the listing its entries were read from
    dirty,        \* it must be rebuilt
    walk,         \* the calls of ensure_workspace_index in flight
    javac,        \* Backend::javac_diagnostics
    shown,        \* what the client last received for each document
    task,         \* the handlers in flight
    check,        \* the checkProject command in flight
    last,         \* history: what last moved the client or what it should see
    raced         \* history: a pass was outdated since the generation moved

docVars   == <<open, txt, ver, opened, disk, world, classpath, messages>>
genVars   == <<semantic_generation, provider_generation>>
indexVars == <<dirty_epoch, index, dirty>>
vars      == <<docVars, genVars, indexVars, walk, javac, shown, task, check, last, raced>>

NoText  == 0
Entry   == [src : Nat, ver : Nat, opened : Nat]
NoEntry == [src |-> NoText, ver |-> 0, opened |-> 0]
Report  == [txt : Nat, world : Nat, index : Nat, classpath : Nat, javac : Nat]
Empty   == [txt |-> NoText, world |-> 0, index |-> 0, classpath |-> 0, javac |-> NoText]

\* Whose stored javac results a refresh drops first.
StaleJavac == {"None", "AllOpen"}

TaskType ==
    [pc : {"idle", "query", "refresh", "publish", "fast"}, stale : StaleJavac, gen : Nat,
     todo : SUBSET Uris, snapshot : [Uris -> Report]]

\* A walk notes the epoch it starts in; the caller takes the classpath next.
WalkType ==
    [pc : {"none", "called", "walking", "ready"}, epoch : Nat, classpath : Nat]

CheckType ==
    [pc : {"idle", "compile", "compiled", "merge", "publish"},
     scoped : BOOLEAN, versions : [Uris -> Nat], gen : Nat,
     found : SUBSET Uris, src : [Uris -> Nat],
     todo : SUBSET Uris, snapshot : [Uris -> Report]]

TypeOK ==
    /\ open \subseteq Uris
    /\ txt \in [Uris -> Nat] /\ ver \in [Uris -> Nat] /\ opened \in [Uris -> Nat]
    /\ disk \in [Uris -> Nat]
    /\ world \in Nat /\ classpath \in Nat /\ messages \in Nat
    /\ semantic_generation \in Nat /\ provider_generation \in Nat
    /\ dirty_epoch \in Nat /\ index \in Nat /\ dirty \in BOOLEAN
    /\ walk \in [Tasks \cup {Checker} -> WalkType]
    /\ javac \in [Uris -> Entry]
    /\ shown \in [Uris -> Report]
    /\ task \in [Tasks -> TaskType]
    /\ check \in CheckType
    /\ last \in {"refresh", "edit", "check"}
    /\ raced \in BOOLEAN

NoReports == [u \in Uris |-> Empty]

IdleCheck ==
    [pc |-> "idle", scoped |-> FALSE, versions |-> [u \in Uris |-> 0], gen |-> 0,
     found |-> {}, src |-> [u \in Uris |-> NoText], todo |-> {}, snapshot |-> NoReports]

Idle ==
    [pc |-> "idle", stale |-> "None", gen |-> 0, todo |-> {}, snapshot |-> NoReports]

NoWalk  == [pc |-> "none", epoch |-> 0, classpath |-> 0]
Called  == [NoWalk EXCEPT !.pc = "called"]
Walking == [NoWalk EXCEPT !.pc = "walking", !.epoch = dirty_epoch]
Ready   == [NoWalk EXCEPT !.pc = "ready", !.classpath = classpath]

\* refresh_open_diagnostics is called, with StaleJavac::AllOpen or None, and
\* calls ensure_workspace_index.
Refreshing(stale) == [Idle EXCEPT !.pc = "refresh", !.stale = stale]

Refresh(t, stale) ==
    /\ task' = [task EXCEPT ![t] = Refreshing(stale)]
    /\ walk' = [walk EXCEPT ![t] = Called]

\* did_change goes on with the edited document only.
FastPath(u) == [Idle EXCEPT !.pc = "fast", !.todo = {u}]

\* A server at rest, after the did_open of some documents or of none.
Init ==
    /\ open = Opened
    /\ txt = [u \in Uris |-> IF u \in Opened THEN 1 ELSE NoText]
    /\ ver = [u \in Uris |-> IF u \in Opened THEN 1 ELSE 0]
    /\ opened = ver
    /\ disk = [u \in Uris |-> 1]
    /\ world = 1 /\ classpath = 1 /\ messages = 1
    /\ semantic_generation = 0 /\ provider_generation = 0
    /\ dirty_epoch = 1
    /\ index = IF Opened = {} THEN 0 ELSE 1
    /\ dirty = (Opened = {})
    /\ walk = [w \in Tasks \cup {Checker} |-> NoWalk]
    /\ javac = [u \in Uris |-> NoEntry]
    /\ shown = [u \in Uris |->
                 IF u \in Opened
                 THEN [txt |-> 1, world |-> 1, index |-> 1, classpath |-> 1, javac |-> NoText]
                 ELSE Empty]
    /\ task = [t \in Tasks |-> Idle]
    /\ check = IdleCheck
    /\ last = "refresh" /\ raced = FALSE

\* A pass has been overtaken: a walk by a file event, or a refresh whose walk
\* is over by an event, an older walk or a swap of the classpath.
Outdated ==
    \/ \E w \in Tasks \cup {Checker} : walk[w].pc = "walking" /\ walk[w].epoch # dirty_epoch
    \/ \E t \in Tasks : /\ task[t].pc = "refresh" /\ walk[t].pc = "ready"
                        /\ dirty \/ walk[t].classpath # classpath
    \/ \E t \in Tasks : /\ task[t].pc = "publish" /\ task[t].gen = semantic_generation
                        /\ \E u \in task[t].todo : task[t].snapshot[u].classpath # classpath

\* History: raced remembers that one was, until the generation moves.
Track == raced' = (Outdated' \/ (raced /\ semantic_generation' = semantic_generation))

\* Keys of the javac map.
Stored(j) == {u \in Uris : j[u] # NoEntry}

\* compute_diagnostics: native diagnostics of an open document, nothing for
\* another, and the stored javac results of either.  The caller brings the
\* classpath; the index is the one in place.
Compute(u, j, cp) ==
    IF u \in open
    THEN [txt |-> txt[u], world |-> world, index |-> index, classpath |-> cp,
          javac |-> j[u].src]
    ELSE [Empty EXCEPT !.javac = j[u].src]

-----------------------------------------------------------------------------
(***************************************************************************)
(* Handlers, up to their first await                                       *)
(***************************************************************************)
\* A message of a kind the client sends finds a free handler.
Receive(kind, t) ==
    /\ kind \in Events
    /\ messages < MaxMessages
    /\ messages' = messages + 1
    /\ task[t].pc = "idle"

\* did_open and open_document.
DidOpen(t, u) ==
    /\ Receive("open", t)
    /\ u \notin open
    /\ open' = open \cup {u}
    /\ txt' = [txt EXCEPT ![u] = disk[u]]
    /\ ver' = [ver EXCEPT ![u] = 1]
    /\ opened' = [opened EXCEPT ![u] = @ + 1]
    /\ world' = world + 1
    /\ semantic_generation' = semantic_generation + 1
    /\ Refresh(t, "None")
    /\ last' = "refresh"
    /\ UNCHANGED <<disk, classpath, provider_generation, indexVars, javac, shown, check>>
    /\ Track

\* did_change of a declaration: every open document is checked again.
DidChangeDeclaration(t, u) ==
    /\ Receive("decl", t)
    /\ u \in open
    /\ txt' = [txt EXCEPT ![u] = messages + 1]
    /\ ver' = [ver EXCEPT ![u] = @ + 1]
    /\ world' = world + 1
    /\ semantic_generation' = semantic_generation + 1
    /\ provider_generation' = provider_generation + 1
    /\ javac' = [javac EXCEPT ![u] = NoEntry]
    /\ Refresh(t, "AllOpen")
    /\ last' = "refresh"
    /\ UNCHANGED <<open, opened, disk, classpath, indexVars, shown, check>>
    /\ Track

\* did_change inside a body: only the edited document is.
DidChangeBody(t, u) ==
    /\ Receive("body", t)
    /\ u \in open
    /\ txt' = [txt EXCEPT ![u] = messages + 1]
    /\ ver' = [ver EXCEPT ![u] = @ + 1]
    /\ semantic_generation' = semantic_generation + 1
    /\ javac' = [javac EXCEPT ![u] = NoEntry]
    /\ task' = [task EXCEPT ![t] = FastPath(u)]
    /\ last' = "edit"
    /\ UNCHANGED <<open, opened, disk, world, classpath, provider_generation, indexVars, walk,
                   shown, check>>
    /\ Track

\* did_close, its empty publication included.
DidClose(t, u) ==
    /\ Receive("close", t)
    /\ u \in open
    /\ open' = open \ {u}
    /\ world' = world + 1
    /\ semantic_generation' = semantic_generation + 1
    /\ provider_generation' = provider_generation + 1
    /\ shown' = [shown EXCEPT ![u] = Empty]
    /\ Refresh(t, "AllOpen")
    /\ last' = "refresh"
    /\ UNCHANGED <<txt, ver, opened, disk, classpath, indexVars, javac, check>>
    /\ Track

\* did_save; the editor saves a buffer that differs from its file.
DidSave(t, u) ==
    /\ Receive("save", t)
    /\ u \in open
    /\ txt[u] # disk[u]
    /\ disk' = [disk EXCEPT ![u] = txt[u]]
    /\ semantic_generation' = semantic_generation + 1
    /\ last' = "edit"
    /\ UNCHANGED <<open, txt, ver, opened, world, classpath, provider_generation, indexVars, walk,
                   javac, shown, task, check>>
    /\ Track

\* on_java_source_events for a file rewritten outside the editor; an event for
\* an open document is skipped.
OnJavaSourceEvent(t, u) ==
    /\ Receive("watch", t)
    /\ disk' = [disk EXCEPT ![u] = messages + 1]
    /\ IF u \in open
       THEN UNCHANGED <<world, genVars, dirty_epoch, dirty, walk, task, last>>
       ELSE /\ world' = world + 1
            /\ semantic_generation' = semantic_generation + 1
            /\ provider_generation' = provider_generation + 1
            /\ dirty_epoch' = dirty_epoch + 1 /\ dirty' = TRUE
            /\ Refresh(t, "AllOpen")
            /\ last' = "refresh"
    /\ UNCHANGED <<open, txt, ver, opened, classpath, index, javac, shown, check>>
    /\ Track

\* A rebuilt classpath was swapped in; republish_all_diagnostics follows.
ClasspathSwapped(t) ==
    /\ Receive("classpath", t)
    /\ classpath' = classpath + 1
    /\ Refresh(t, "None")
    /\ last' = "refresh"
    /\ UNCHANGED <<open, txt, ver, opened, disk, world, genVars, indexVars, javac, shown, check>>
    /\ Track

\* Hover, completion, references and the like call ensure_workspace_index too.
Query(t) ==
    /\ Receive("query", t)
    /\ task' = [task EXCEPT ![t] = [Idle EXCEPT !.pc = "query"]]
    /\ walk' = [walk EXCEPT ![t] = Called]
    /\ UNCHANGED <<open, txt, ver, opened, disk, world, classpath, genVars, indexVars, javac, shown,
                   check, last>>
    /\ Track

QueryEnd(t) ==
    /\ task[t].pc = "query" /\ walk[t].pc = "ready"
    /\ task' = [task EXCEPT ![t] = Idle]
    /\ walk' = [walk EXCEPT ![t] = NoWalk]
    /\ UNCHANGED <<docVars, genVars, indexVars, javac, shown, check, last>>
    /\ Track

-----------------------------------------------------------------------------
(***************************************************************************)
(* ensure_workspace_index                                                  *)
(***************************************************************************)
\* ensure_built: the flag and the epoch are read once.  An index that is not
\* dirty may be rebuilt too, if a root's modification time has moved.  The
\* walk finds the files of the events so far; those of later ones are taken
\* to be missed.
EnsureIndex(w) ==
    /\ walk[w].pc = "called"
    /\ \/ walk' = [walk EXCEPT ![w] = Walking]
       \/ ~dirty /\ walk' = [walk EXCEPT ![w] = Ready]
    /\ UNCHANGED <<docVars, genVars, indexVars, javac, shown, task, check, last>>
    /\ Track

InstallIndexClean(w) ==   \* faulty variant
    /\ walk[w].pc = "walking"
    /\ index' = walk[w].epoch
    /\ dirty' = FALSE
    /\ walk' = [walk EXCEPT ![w] = Ready]
    /\ UNCHANGED <<docVars, genVars, dirty_epoch, javac, shown, task, check, last>>
    /\ Track

\* The walk is over and its entries replace the index, also one that a walk
\* begun later has built; a file event in between leaves it dirty.
InstallIndex(w) ==
    /\ walk[w].pc = "walking"
    /\ index' = walk[w].epoch
    /\ dirty' = (dirty_epoch # walk[w].epoch)
    /\ walk' = [walk EXCEPT ![w] = Ready]
    /\ UNCHANGED <<docVars, genVars, dirty_epoch, javac, shown, task, check, last>>
    /\ Track

-----------------------------------------------------------------------------
(***************************************************************************)
(* Publication of native diagnostics                                       *)
(***************************************************************************)
\* refresh_open_diagnostics, once ensure_workspace_index has returned: under
\* the documents lock, drop stale javac results, note the generation, compute.
RefreshSnapshot(t) ==
    /\ task[t].pc = "refresh" /\ walk[t].pc = "ready"
    /\ javac' = IF task[t].stale = "AllOpen"
                THEN [u \in Uris |-> IF u \in open THEN NoEntry ELSE javac[u]]
                ELSE javac
    /\ task' = [task EXCEPT ![t] =
                  [@ EXCEPT !.pc = "publish",
                            !.gen = semantic_generation,
                            !.todo = open,
                            !.snapshot = [u \in Uris |-> Compute(u, javac', walk[t].classpath)]]]
    /\ walk' = [walk EXCEPT ![t] = NoWalk]
    /\ UNCHANGED <<docVars, genVars, indexVars, shown, check, last>>
    /\ Track

RefreshPublishUnchecked(t, u) ==   \* faulty variant
    /\ task[t].pc = "publish"
    /\ u \in task[t].todo
    /\ shown' = [shown EXCEPT ![u] = task[t].snapshot[u]]
    /\ task' = [task EXCEPT ![t].todo = @ \ {u}]
    /\ UNCHANGED <<docVars, genVars, indexVars, walk, javac, check, last>>
    /\ Track

\* One publication of the pass; the check and the send are one step.
RefreshPublish(t, u) ==
    /\ task[t].pc = "publish"
    /\ u \in task[t].todo
    /\ task[t].gen = semantic_generation
    /\ shown' = [shown EXCEPT ![u] = task[t].snapshot[u]]
    /\ task' = [task EXCEPT ![t].todo = @ \ {u}]
    /\ UNCHANGED <<docVars, genVars, indexVars, walk, javac, check, last>>
    /\ Track

\* The pass is over, or a newer generation won.
RefreshEnd(t) ==
    /\ task[t].pc = "publish"
    /\ task[t].todo = {} \/ task[t].gen # semantic_generation
    /\ task' = [task EXCEPT ![t] = Idle]
    /\ UNCHANGED <<docVars, genVars, indexVars, walk, javac, shown, check, last>>
    /\ Track

\* did_change's fast path, after its second lock: the classpath is the stored
\* one, and the index is used as it is.
FastPublish(t, u) ==
    /\ task[t].pc = "fast"
    /\ u \in task[t].todo
    /\ shown' = [shown EXCEPT ![u] = Compute(u, javac, classpath)]
    /\ task' = [task EXCEPT ![t] = Idle]
    /\ UNCHANGED <<docVars, genVars, indexVars, walk, javac, check, last>>
    /\ Track

-----------------------------------------------------------------------------
(***************************************************************************)
(* checkProject                                                            *)
(***************************************************************************)
\* Versions and generation a run starts from.
StartVersions == [u \in Uris |-> IF u \in open THEN ver[u] ELSE 0]

\* run_check_full_project and run_check_scoped, up to the compiler.
CheckStart(scoped) ==
    /\ (IF scoped THEN "checkModules" ELSE "checkProject") \in Events
    /\ messages < MaxMessages
    /\ messages' = messages + 1
    /\ check.pc = "idle"
    /\ check' = [IdleCheck EXCEPT !.pc = "compile", !.scoped = scoped,
                                  !.versions = StartVersions,
                                  !.gen = provider_generation]
    /\ UNCHANGED <<open, txt, ver, opened, disk, world, classpath, genVars, indexVars, walk, javac,
                   shown, task, last>>
    /\ Track

\* execute_javac_check: javac reads the files on disk and reports on some.
CheckCompile(found) ==
    /\ check.pc = "compile"
    /\ check' = [check EXCEPT !.pc = "compiled", !.found = found, !.src = disk]
    /\ UNCHANGED <<docVars, genVars, indexVars, walk, javac, shown, task, last>>
    /\ Track

\* execute_javac_check ends early: javac missing, no sources, timeout,
\* cancelled, or not started.
CheckTerminal ==
    /\ check.pc = "compile"
    /\ check' = IdleCheck
    /\ UNCHANGED <<docVars, genVars, indexVars, walk, javac, shown, task, last>>
    /\ Track

\* publish_jdk_too_old replaces the whole map by a diagnostic on the build
\* file, against versions taken now.
CheckJdkTooOld ==
    /\ check.pc = "compile"
    /\ check' = [check EXCEPT !.pc = "merge", !.scoped = FALSE, !.found = {},
                              !.versions = StartVersions,
                              !.gen = provider_generation]
    /\ walk' = [walk EXCEPT ![Checker] = Called]
    /\ UNCHANGED <<docVars, genVars, indexVars, javac, shown, task, last>>
    /\ Track

\* The compiler completed: drop a stale result, redo a scoped run that
\* reported outside its modules as a full one, or go on to publish.
CheckCompleted ==
    /\ check.pc = "compiled"
    /\ check' =
         IF provider_generation # check.gen
         THEN IdleCheck
         ELSE IF check.scoped /\ ~(check.found \subseteq Module)
         THEN [IdleCheck EXCEPT !.pc = "compile", !.versions = StartVersions,
                                !.gen = provider_generation]
         ELSE [check EXCEPT !.pc = "merge"]
    /\ walk' = IF check'.pc = "merge" THEN [walk EXCEPT ![Checker] = Called] ELSE walk
    /\ UNCHANGED <<docVars, genVars, indexVars, javac, shown, task, last>>
    /\ Track

Unfiltered(versions, found) == found   \* faulty variant

\* The revision filter: results for a document whose version moved are dropped.
Unchanged(versions, found) ==
    {u \in found : u \in open => versions[u] = ver[u]}

\* publish_javac_diagnostics(_scoped), once ensure_workspace_index has returned:
\* filter, map replacement and snapshot under the documents lock.
CheckMerge ==
    /\ check.pc = "merge" /\ walk[Checker].pc = "ready"
    /\ LET kept == IF check.scoped THEN Stored(javac) \ Module ELSE {}
           new  == Unchanged(check.versions, check.found)
       IN  /\ javac' = [u \in Uris |->
                  IF u \in new
                  THEN [src |-> check.src[u], ver |-> check.versions[u],
                        opened |-> opened[u]]
                  ELSE IF u \in kept THEN javac[u] ELSE NoEntry]
           /\ check' = [check EXCEPT
                  !.pc = "publish",
                  !.todo = (Stored(javac) \ kept) \cup new,
                  !.snapshot = [u \in Uris |-> Compute(u, javac', walk[Checker].classpath)]]
    /\ walk' = [walk EXCEPT ![Checker] = NoWalk]
    /\ UNCHANGED <<docVars, genVars, indexVars, shown, task, last>>
    /\ Track

\* Its publications carry no generation.
CheckPublish(u) ==
    /\ check.pc = "publish"
    /\ u \in check.todo
    /\ shown' = [shown EXCEPT ![u] = check.snapshot[u]]
    /\ check' = [check EXCEPT !.todo = @ \ {u}]
    /\ last' = "check"
    /\ UNCHANGED <<docVars, genVars, indexVars, walk, javac, task>>
    /\ Track

CheckEnd ==
    /\ check.pc = "publish"
    /\ check.todo = {}
    /\ check' = IdleCheck
    /\ UNCHANGED <<docVars, genVars, indexVars, walk, javac, shown, task, last>>
    /\ Track

-----------------------------------------------------------------------------
Handle(t) ==
    \/ \E u \in Uris : \/ DidOpen(t, u)
                       \/ DidChangeDeclaration(t, u)
                       \/ DidChangeBody(t, u)
                       \/ DidClose(t, u)
                       \/ DidSave(t, u)
                       \/ OnJavaSourceEvent(t, u)
    \/ ClasspathSwapped(t)
    \/ Query(t) \/ QueryEnd(t)

Publish(t) ==
    \/ RefreshSnapshot(t)
    \/ RefreshEnd(t)
    \/ \E u \in Uris : RefreshPublish(t, u) \/ FastPublish(t, u)

Check ==
    \/ \E scoped \in BOOLEAN : CheckStart(scoped)
    \/ \E found \in SUBSET Uris : CheckCompile(found)
    \/ CheckTerminal
    \/ CheckJdkTooOld
    \/ CheckCompleted
    \/ CheckMerge
    \/ \E u \in Uris : CheckPublish(u)
    \/ CheckEnd

Next ==
    \/ \E t \in Tasks : Handle(t) \/ Publish(t)
    \/ \E w \in Tasks \cup {Checker} : EnsureIndex(w) \/ InstallIndex(w)
    \/ Check

Spec == Init /\ [][Next]_vars

-----------------------------------------------------------------------------
(***************************************************************************)
(* Properties                                                              *)
(***************************************************************************)
Quiescent == check.pc = "idle" /\ \A t \in Tasks : task[t].pc = "idle"

\* The client sees the document's text against the current declarations.
Native(u) == IF u \in open THEN <<txt[u], world>> ELSE <<NoText, 0>>

Fresh(u) == <<shown[u].txt, shown[u].world>> = Native(u)

\* It was also resolved against the files and the classpath there are, or the
\* index is known to be old.
Resolved(u) ==
    u \in open =>
        shown[u].classpath = classpath /\ (shown[u].index = dirty_epoch \/ dirty)

\* However the passes that opens, edits, closes, watched files, saves, checks
\* and classpath rebuilds started overlapped and aborted each other: when no
\* handler is in flight, and the last of them was one that refreshes every open
\* document, the client sees each open document's current text against the
\* current declarations.  It sees it against the current files and classpath
\* too, unless a file event or a swap overtook a pass before its snapshot.
QuiescentFresh ==
    Quiescent /\ last = "refresh" =>
        \A u \in open : Fresh(u) /\ (raced \/ (Resolved(u) /\ ~dirty))

\* A pass superseded by a newer edit never overwrites fresher results: whatever
\* a handler other than a check publishes for a document is what it, and the
\* declarations it uses, are at that moment, though a classpath swap moves no
\* generation.  It is resolved against the files and the classpath of that
\* moment, unless one of them overtook a pass that was not superseded; the
\* fast path of did_change may use an index that is known to be old.
PublishesCurrent ==
    [][\A u \in Uris :
           shown'[u] # shown[u] /\ check' = check => Fresh(u)' /\ (raced' \/ Resolved(u)')]_vars

\* An edit's removal of the stored javac result and the revision filter of a
\* racing check cannot be interleaved into a stale entry: the entry of an open
\* document that was stored since it was opened is for its current version.
EntryForCurrentVersion ==
    \A u \in open :
        javac[u] # NoEntry /\ javac[u].opened = opened[u] => javac[u].ver = ver[u]

=============================================================================
