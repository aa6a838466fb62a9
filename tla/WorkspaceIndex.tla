---------------------------- MODULE WorkspaceIndex ----------------------------
(***************************************************************************)
(* The lazy, bounded index of the workspace's top-level types              *)
(* (crates/server/src/workspace_index.rs and fs_scan.rs), the handlers that*)
(* invalidate it (main.rs) and the ones that make it current               *)
(* (Backend::ensure_workspace_index).                                      *)
(*                                                                         *)
(* A file is represented by a revision that grows with every creation,     *)
(* deletion or rewrite; an index entry by the revision the walk saw.  A    *)
(* walk yields to the executor between files, so walks overlap each other, *)
(* the notifications and the changes on disk.                              *)
(***************************************************************************)
EXTENDS Integers, FiniteSets

CONSTANTS
    Files,        \* .java files of the workspace
    Roots,        \* source roots
    RootOf,       \* the source root a file lies under
    Direct,       \* the files directly inside their root
    InitialFiles, \* the files there at startup
    Edited,       \* the files the user opens
    Unreliable,   \* the files whose directory or header may fail to be read
    BaseRoots,    \* the conventional roots, always scanned
    Walkers,      \* handler tasks that call ensure_workspace_index
    Cap,          \* WorkspaceIndex::cap
    MaxChanges    \* bound on the changes on disk

ASSUME ConstantsAssumption ==
    /\ RootOf \in [Files -> Roots]
    /\ Direct \subseteq Files
    /\ InitialFiles \subseteq Files
    /\ BaseRoots \subseteq Roots
    /\ Edited \subseteq Files
    /\ Unreliable \subseteq Files
    /\ Cap \in Nat
    /\ MaxChanges \in Nat

VARIABLES
    \* the file system
    exists,       \* files on disk
    rev,          \* revision of each file
    mtime,        \* modification time of each root directory
    changes,      \* changes so far
    \* the client
    open,         \* files open in the editor
    pending,      \* watched-file events sent and not yet received
    \* WorkspaceIndex::inner
    inner,
    \* the walks in progress
    pc, walk,
    \* history
    notified,     \* revision an accepted event last reported for each file
    listed        \* revision at which a file last appeared in or left its root

vars == <<exists, rev, mtime, changes, open, pending, inner, pc, walk,
          notified, listed>>

Unread == -1      \* a file a walk has not come to

\* `entries` are the indexed files, `seen` the revision each file had when the
\* walk that produced them came to it, `root_mtimes` the recorded roots with
\* their times.
InnerType ==
    [entries : SUBSET Files, seen : [Files -> Int],
     roots : SUBSET Roots, root_mtimes : [Roots -> Int],
     built : BOOLEAN, truncated : BOOLEAN, dirty : BOOLEAN, dirty_epoch : Nat]

WalkType ==
    [entries : SUBSET Files, seen : [Files -> Int],
     roots : SUBSET Roots, root_mtimes : [Roots -> Int],
     todo : SUBSET Roots, left : SUBSET Files,
     truncated : BOOLEAN, incomplete : BOOLEAN, epoch_before : Nat]

TypeOK ==
    /\ exists \subseteq Files
    /\ rev \in [Files -> Nat]
    /\ mtime \in [Roots -> Nat]
    /\ changes \in Nat
    /\ open \subseteq Files
    /\ pending \subseteq Files
    /\ inner \in InnerType
    /\ pc \in [Walkers -> {"idle", "walking"}]
    /\ walk \in [Walkers -> WalkType]
    /\ notified \in [Files -> Nat]
    /\ listed \in [Files -> Nat]

NoWalk ==
    [entries |-> {}, seen |-> [f \in Files |-> Unread],
     roots |-> {}, root_mtimes |-> [r \in Roots |-> Unread],
     todo |-> {}, left |-> {}, truncated |-> FALSE, incomplete |-> FALSE,
     epoch_before |-> 0]

Init ==
    /\ exists = InitialFiles
    /\ rev = [f \in Files |-> 0]
    /\ mtime = [r \in Roots |-> 0]
    /\ changes = 0
    /\ open = {}
    /\ pending = {}
    /\ inner = [entries |-> {}, seen |-> [f \in Files |-> Unread],
                roots |-> {}, root_mtimes |-> [r \in Roots |-> Unread],
                built |-> FALSE, truncated |-> FALSE, dirty |-> FALSE,
                dirty_epoch |-> 0]
    /\ pc = [w \in Walkers |-> "idle"]
    /\ walk = [w \in Walkers |-> NoWalk]
    /\ notified = [f \in Files |-> 0]
    /\ listed = [f \in Files |-> 0]

-----------------------------------------------------------------------------
(***************************************************************************)
(* The file system and the client                                          *)
(***************************************************************************)
\* A file is rewritten in place, from outside or by saving its buffer.  The
\* directory's own modification time does not change.
Rewrite(f) ==
    /\ changes < MaxChanges
    /\ f \in exists
    /\ changes' = changes + 1
    /\ rev' = [rev EXCEPT ![f] = @ + 1]
    /\ pending' = pending \cup {f}
    /\ UNCHANGED <<exists, mtime, open, inner, pc, walk, notified, listed>>

\* A file appears or disappears.  Only the directory that lists it notices.
AppearOrVanish(f) ==
    /\ changes < MaxChanges
    /\ f \notin open
    /\ changes' = changes + 1
    /\ exists' = IF f \in exists THEN exists \ {f} ELSE exists \cup {f}
    /\ rev' = [rev EXCEPT ![f] = @ + 1]
    /\ pending' = pending \cup {f}
    /\ IF f \in Direct
       THEN /\ mtime' = [mtime EXCEPT ![RootOf[f]] = @ + 1]
            /\ listed' = [listed EXCEPT ![f] = rev[f] + 1]
       ELSE UNCHANGED <<mtime, listed>>
    /\ UNCHANGED <<open, inner, pc, walk, notified>>

Open(f) ==
    /\ f \in Edited
    /\ f \in exists \ open
    /\ open' = open \cup {f}
    /\ UNCHANGED <<exists, rev, mtime, changes, pending, inner, pc, walk, notified, listed>>

Close(f) ==
    /\ f \in open
    /\ open' = open \ {f}
    /\ UNCHANGED <<exists, rev, mtime, changes, pending, inner, pc, walk, notified, listed>>

(***************************************************************************)
(* WorkspaceIndex::invalidate and its caller on_java_source_events         *)
(***************************************************************************)
Invalidate(i) == [i EXCEPT !.dirty = TRUE, !.dirty_epoch = @ + 1]

\* An event for a file that is open is skipped: the buffer wins.
OnJavaSourceEvent(f) ==
    /\ f \in pending
    /\ pending' = pending \ {f}
    /\ IF f \in open
       THEN UNCHANGED <<inner, notified>>
       ELSE /\ inner' = Invalidate(inner)
            /\ notified' = [notified EXCEPT ![f] = rev[f]]
    /\ UNCHANGED <<exists, rev, mtime, changes, open, pc, walk, listed>>

-----------------------------------------------------------------------------
(***************************************************************************)
(* ensure_built                                                            *)
(***************************************************************************)
\* Backend::source_roots: the conventional roots and one per open document.
SourceRoots == BaseRoots \cup {RootOf[f] : f \in open}

NeedsRebuild(roots) ==
    \/ ~inner.built
    \/ inner.dirty
    \/ Cardinality(inner.roots) # Cardinality(roots)
    \/ \E r \in roots : r \notin inner.roots \/ inner.root_mtimes[r] # mtime[r]

Start(w) ==
    /\ pc[w] = "idle"
    /\ NeedsRebuild(SourceRoots)
    /\ walk' = [walk EXCEPT ![w] =
                  [NoWalk EXCEPT !.todo = SourceRoots,
                                 !.epoch_before = inner.dirty_epoch]]
    /\ pc' = [pc EXCEPT ![w] = "walking"]
    /\ UNCHANGED <<exists, rev, mtime, changes, open, pending, inner, notified, listed>>

\* The next root: its time is recorded before its files are looked at, and is
\* recorded even when the cap has been reached and nothing is scanned.
RecordRoot(k, r) ==
    LET full == Cardinality(k.entries) >= Cap
    IN  [k EXCEPT !.todo = @ \ {r},
                  !.roots = @ \cup {r},
                  !.root_mtimes = [@ EXCEPT ![r] = mtime[r]],
                  !.left = IF full THEN {} ELSE {f \in Files : RootOf[f] = r},
                  !.truncated = @ \/ full]

NextRoot(w, r) ==
    /\ pc[w] = "walking"
    /\ walk[w].left = {}
    /\ r \in walk[w].todo
    /\ walk' = [walk EXCEPT ![w] = RecordRoot(@, r)]
    /\ UNCHANGED <<exists, rev, mtime, changes, open, pending, inner, pc, notified, listed>>

\* walk_java_files comes to one file of the root: it is missing, indexed, or
\* one too many, which ends the walk of this root.
ScanFileSilently(k, f) ==   \* faulty variant
    IF f \in exists /\ Cardinality(k.entries) >= Cap
    THEN [k EXCEPT !.left = {}]
    ELSE [k EXCEPT !.left = @ \ {f},
                   !.seen = [@ EXCEPT ![f] = rev[f]],
                   !.entries = IF f \in exists THEN @ \cup {f} ELSE @]

ScanFile(k, f) ==
    IF f \in exists /\ Cardinality(k.entries) >= Cap
    THEN [k EXCEPT !.left = {}, !.truncated = TRUE]
    ELSE [k EXCEPT !.left = @ \ {f},
                   !.seen = [@ EXCEPT ![f] = rev[f]],
                   !.entries = IF f \in exists THEN @ \cup {f} ELSE @]

NextFile(w, f) ==
    /\ pc[w] = "walking"
    /\ f \in walk[w].left
    /\ walk' = [walk EXCEPT ![w] = ScanFile(@, f)]
    /\ UNCHANGED <<exists, rev, mtime, changes, open, pending, inner, pc, notified, listed>>

\* A directory, a canonicalization or a header read fails other than by
\* NotFound: the file is passed over and the walk remembers it.
PassOver(k, f) == [k EXCEPT !.left = @ \ {f}, !.incomplete = TRUE]

FailFile(w, f) ==
    /\ f \in Unreliable
    /\ pc[w] = "walking"
    /\ f \in walk[w].left
    /\ walk' = [walk EXCEPT ![w] = PassOver(@, f)]
    /\ UNCHANGED <<exists, rev, mtime, changes, open, pending, inner, pc, notified, listed>>

\* The index is replaced wholesale; it stays dirty when an invalidation raced
\* the walk or the walk was incomplete.
\* Faulty variants: the racing invalidation is cleared; the root times are
\* read after the walk.
InstalledClean(i, k) ==
    [i EXCEPT !.entries = k.entries, !.seen = k.seen,
              !.roots = k.roots, !.root_mtimes = k.root_mtimes,
              !.truncated = k.truncated, !.built = TRUE, !.dirty = k.incomplete]
InstalledLateTimes(i, k) ==
    [i EXCEPT !.entries = k.entries, !.seen = k.seen,
              !.roots = k.roots, !.root_mtimes = mtime,
              !.truncated = k.truncated, !.built = TRUE,
              !.dirty = (i.dirty_epoch # k.epoch_before) \/ k.incomplete]

Installed(i, k) ==
    [i EXCEPT !.entries = k.entries, !.seen = k.seen,
              !.roots = k.roots, !.root_mtimes = k.root_mtimes,
              !.truncated = k.truncated, !.built = TRUE,
              !.dirty = (i.dirty_epoch # k.epoch_before) \/ k.incomplete]

Install(w) ==
    /\ pc[w] = "walking"
    /\ walk[w].todo = {}
    /\ walk[w].left = {}
    /\ inner' = Installed(inner, walk[w])
    /\ pc' = [pc EXCEPT ![w] = "idle"]
    /\ walk' = [walk EXCEPT ![w] = NoWalk]
    /\ UNCHANGED <<exists, rev, mtime, changes, open, pending, notified, listed>>

\* The client cancels the request that was walking.
Cancel(w) ==
    /\ pc[w] # "idle"
    /\ pc' = [pc EXCEPT ![w] = "idle"]
    /\ walk' = [walk EXCEPT ![w] = NoWalk]
    /\ UNCHANGED <<exists, rev, mtime, changes, open, pending, inner, notified, listed>>

Next ==
    \/ \E f \in Files : \/ Rewrite(f)
                        \/ AppearOrVanish(f)
                        \/ Open(f)
                        \/ Close(f)
                        \/ OnJavaSourceEvent(f)
    \/ \E w \in Walkers : \/ Start(w)
                          \/ \E r \in Roots : NextRoot(w, r)
                          \/ \E f \in Files : NextFile(w, f) \/ FailFile(w, f)
                          \/ Install(w)
                          \/ Cancel(w)

Spec == Init /\ [][Next]_vars

-----------------------------------------------------------------------------
(***************************************************************************)
(* Properties                                                              *)
(***************************************************************************)
\* An invalidation that races a walk is never lost, also when walks overlap
\* and an older one finishes last: an index that is built, not dirty and not
\* truncated shows every file of its roots at least as new as the last event
\* accepted for it.
NoLostInvalidation ==
    inner.built /\ ~inner.dirty /\ ~inner.truncated =>
        \A f \in Files : RootOf[f] \in inner.roots => inner.seen[f] >= notified[f]

\* A file that appears in or leaves a source root is noticed without any
\* event: if the recorded time of a root is the current one, the complete
\* index saw every file listed directly in it at least as new as its last
\* appearance or disappearance.  A time recorded after the walk would not do.
RootTimeDetectsListing ==
    inner.built /\ ~inner.dirty /\ ~inner.truncated =>
        \A f \in Direct :
            RootOf[f] \in inner.roots /\ inner.root_mtimes[RootOf[f]] = mtime[RootOf[f]]
            => inner.seen[f] >= listed[f]

\* The index never holds more than the cap, and a walk that dropped a file
\* for that reason says so: without the flag every file that was there when
\* the walk came to it has an entry.
CapIsReported ==
    /\ Cardinality(inner.entries) <= Cap
    /\ \A w \in Walkers : Cardinality(walk[w].entries) <= Cap
    /\ inner.built /\ ~inner.truncated /\ ~inner.dirty =>
          \A f \in Files : RootOf[f] \in inner.roots => inner.seen[f] # Unread

=============================================================================
