--------------------------- MODULE ClasspathRebuild ---------------------------
(***************************************************************************)
(* The classpath snapshot of the language server and everything that       *)
(* replaces it: the lazy first build, the debounced rebuild after a        *)
(* build-file change (RebuildCoalescer and its driver), and the immediate  *)
(* rebuild command.  crates/server/src/backend.rs and main.rs.             *)
(*                                                                         *)
(* A classpath is represented by the revision of the files it was built    *)
(* from.  Handlers are asynchronous tasks of one executor: a step below is *)
(* what a task does between two of its await points.                       *)
(***************************************************************************)
EXTENDS Integers, FiniteSets

CONSTANTS
    Tasks,        \* handler tasks, one per message being processed
    MaxDisk       \* bound on the revisions of the files on disk

ASSUME ConstantsAssumption == MaxDisk \in Nat

Unbuilt == -1     \* Backend::classpath is None
Emptied == -2     \* Classpath::empty(), stored after a panicked build

VARIABLES
    disk,         \* revision of the build files and the local repository
    events,       \* build-file notifications sent and not yet received
    coalescer,    \* RebuildCoalescer
    classpath,    \* the stored snapshot
    pc,           \* where each task is
    built,        \* what a task's finished build was built from
    want          \* the revision on disk when a command task was called

vars == <<disk, events, coalescer, classpath, pc, built, want>>

DriverPcs  == {"sleep", "start", "built", "republish"}
CommandPcs == {"cmdStart", "cmdBuilt", "cmdRepublish"}
Building   == {"start", "built", "cmdStart", "cmdBuilt"}

TypeOK ==
    /\ disk \in Nat
    /\ events \in Nat
    /\ coalescer \in [driving : BOOLEAN, dirty : BOOLEAN, in_flight : BOOLEAN]
    /\ classpath \in Nat \cup {Unbuilt, Emptied}
    /\ pc \in [Tasks -> {"idle"} \cup DriverPcs \cup CommandPcs]
    /\ built \in [Tasks -> Nat \cup {Emptied}]
    /\ want \in [Tasks -> Nat]

Init ==
    /\ disk = 0
    /\ events = 0
    /\ coalescer = [driving |-> FALSE, dirty |-> FALSE, in_flight |-> FALSE]
    /\ classpath = Unbuilt
    /\ pc = [t \in Tasks |-> "idle"]
    /\ built = [t \in Tasks |-> 0]
    /\ want = [t \in Tasks |-> 0]

(***************************************************************************)
(* RebuildCoalescer.  Each decision is an operator on the coalescer; the   *)
(* Boolean the method returns is the condition its caller branches on.     *)
(***************************************************************************)
\* Faulty variants, named by the mutation runs.
OnEventForgetsDriving(c) ==
    IF c.driving THEN [c EXCEPT !.dirty = TRUE] ELSE c
OnEventDropped(c) ==
    IF c.driving THEN c ELSE [c EXCEPT !.driving = TRUE]
OnRebuildFinishedKeepsDriving(c) ==
    [c EXCEPT !.in_flight = FALSE, !.dirty = FALSE]

OnEvent(c) ==
    IF c.driving THEN [c EXCEPT !.dirty = TRUE] ELSE [c EXCEPT !.driving = TRUE]

OnDebounceElapsed(c) ==
    IF c.dirty THEN [c EXCEPT !.dirty = FALSE] ELSE [c EXCEPT !.in_flight = TRUE]

OnRebuildFinished(c) ==
    IF c.dirty
    THEN [c EXCEPT !.in_flight = FALSE, !.dirty = FALSE]
    ELSE [c EXCEPT !.in_flight = FALSE, !.driving = FALSE]

(***************************************************************************)
(* The environment edits a build file; the client's watcher will notify.   *)
(***************************************************************************)
EditBuildFile ==
    /\ disk < MaxDisk
    /\ disk' = disk + 1
    /\ events' = events + 1
    /\ UNCHANGED <<coalescer, classpath, pc, built, want>>

(***************************************************************************)
(* Backend::classpath: some request reads the snapshot and builds it if    *)
(* nobody has.  The write lock is held for the whole build.                *)
(***************************************************************************)
LazyBuild ==
    /\ classpath = Unbuilt
    /\ classpath' = disk
    /\ UNCHANGED <<disk, events, coalescer, pc, built, want>>

(***************************************************************************)
(* did_change_watched_files with a build file among the changes: the task  *)
(* that finds nobody driving becomes the driver, any other returns.        *)
(***************************************************************************)
DidChangeWatchedFiles(t) ==
    /\ pc[t] = "idle"
    /\ events > 0
    /\ events' = events - 1
    /\ coalescer' = OnEvent(coalescer)
    /\ pc' = [pc EXCEPT ![t] = IF coalescer.driving THEN "idle" ELSE "sleep"]
    /\ UNCHANGED <<disk, classpath, built, want>>

\* drive_classpath_rebuild: the debounce window elapsed.
DebounceElapsed(t) ==
    /\ pc[t] = "sleep"
    /\ coalescer' = OnDebounceElapsed(coalescer)
    /\ pc' = [pc EXCEPT ![t] = IF coalescer.dirty THEN "sleep" ELSE "start"]
    /\ UNCHANGED <<disk, events, classpath, built, want>>

\* rebuild_classpath, on the blocking pool: the files are read now; a panic
\* yields the empty classpath.
Build(t) ==
    /\ pc[t] \in {"start", "cmdStart"}
    /\ \E result \in {disk, Emptied} : built' = [built EXCEPT ![t] = result]
    /\ pc' = [pc EXCEPT ![t] = IF @ = "start" THEN "built" ELSE "cmdBuilt"]
    /\ UNCHANGED <<disk, events, coalescer, classpath, want>>

\* rebuild_classpath, back on the executor: swap the new snapshot in.
Swap(t) ==
    /\ pc[t] \in {"built", "cmdBuilt"}
    /\ classpath' = built[t]
    /\ pc' = [pc EXCEPT ![t] = IF @ = "built" THEN "republish" ELSE "cmdRepublish"]
    /\ UNCHANGED <<disk, events, coalescer, built, want>>

\* drive_classpath_rebuild after republish_all_diagnostics: settle or loop.
RebuildFinished(t) ==
    /\ pc[t] = "republish"
    /\ coalescer' = OnRebuildFinished(coalescer)
    /\ pc' = [pc EXCEPT ![t] = IF coalescer.dirty THEN "sleep" ELSE "idle"]
    /\ UNCHANGED <<disk, events, classpath, built, want>>

(***************************************************************************)
(* The extension installs jars into the local repository, which no watcher *)
(* reports, and then sends REBUILD_CLASSPATH_COMMAND.                      *)
(***************************************************************************)
InstallAndCommand(t) ==
    /\ pc[t] = "idle"
    /\ disk < MaxDisk
    /\ disk' = disk + 1
    /\ pc' = [pc EXCEPT ![t] = "cmdStart"]
    /\ want' = [want EXCEPT ![t] = disk + 1]
    /\ UNCHANGED <<events, coalescer, classpath, built>>

\* run_rebuild_classpath_command returns {"status": "ok"}.
CommandReturns(t) ==
    /\ pc[t] = "cmdRepublish"
    /\ pc' = [pc EXCEPT ![t] = "idle"]
    /\ UNCHANGED <<disk, events, coalescer, classpath, built, want>>

Drive(t) == DebounceElapsed(t) \/ Build(t) \/ Swap(t) \/ RebuildFinished(t)

Next ==
    \/ EditBuildFile
    \/ LazyBuild
    \/ \E t \in Tasks :
          \/ DidChangeWatchedFiles(t)
          \/ Drive(t)
          \/ InstallAndCommand(t)
          \/ CommandReturns(t)

Spec == Init /\ [][Next]_vars

(***************************************************************************)
(* Fairness: the runtime keeps polling a task that can make progress, and  *)
(* a notification that was sent is handed to some idle task.               *)
(***************************************************************************)
FairSpec ==
    /\ Spec
    /\ \A t \in Tasks : WF_vars(Drive(t)) /\ WF_vars(CommandReturns(t))
    /\ WF_vars(\E t \in Tasks : DidChangeWatchedFiles(t))

-----------------------------------------------------------------------------
(***************************************************************************)
(* Properties                                                              *)
(***************************************************************************)
Drivers == {t \in Tasks : pc[t] \in DriverPcs}

\* Whatever order notifications and rebuild steps interleave in, the driving
\* flag of the coalescer is set exactly while one task is inside
\* drive_classpath_rebuild, there is never a second one, and in_flight is set
\* exactly while that task is past its debounce wait.
OneDriver ==
    /\ \A t, u \in Drivers : t = u
    /\ coalescer.driving <=> Drivers # {}
    /\ coalescer.in_flight <=> \E t \in Drivers : pc[t] # "sleep"
    /\ coalescer.dirty => coalescer.driving

Settled == events = 0 /\ ~coalescer.driving

\* The rebuild command has been used.  Its build and the driver's are not
\* ordered (see CommandReflectsInstall), so what follows speaks of the time
\* before.
Commanded == \E t \in Tasks : want[t] > 0

\* No build-file change is lost: once every notification has been received
\* and the driver has settled, the stored classpath was built from the files
\* as they are now, or is the empty one of a build that panicked.  A change
\* that lands during a rebuild must therefore be picked up by another round
\* of the driver.
NoLostEvent ==
    Settled /\ ~Commanded => classpath \in {Unbuilt, Emptied, disk}

\* The lazy build and the driver's swap are not ordered either: a driver may
\* replace a snapshot built lazily after it read the files by its own, older
\* one (Backend::classpath, rebuild_classpath).  That is only ever a passing
\* state: another round of the driver is due already.
OlderOnlyForNow ==
    [][~Commanded' /\ classpath' \in Nat /\ classpath > classpath' =>
          coalescer'.dirty \/ events' > 0]_vars

\* The abstract component: a resolver that is either busy or up to date.
Promise ==
    INSTANCE ClasspathPromise WITH
        busy <- ~Settled \/ Commanded,
        resolved <- IF classpath = Unbuilt THEN disk ELSE classpath,
        Failed <- Emptied

\* The coalesced rebuild implements the abstract resolver, which may only come
\* to rest when what it resolved is what is on disk, or the resolution failed.
ImplementsPromise == Promise!PromiseSpec

\* Every notified change is eventually reflected: after the last edit of a
\* build file the driver comes to rest with an up-to-date classpath, however
\* often the debounce window was restarted, and also beside commands.
EventuallySettles == <>[](Settled /\ (Commanded \/ classpath \in {Unbuilt, Emptied, disk}))

\* The rebuild command is sent after an install "so jvl/missingDependencies
\* reflects the just-installed jars": when a command returns, with no other
\* command beside it and no build having failed, the stored classpath was built
\* from files at least as new as those it was sent for.
CommandReflectsInstall ==
    [][\A t \in Tasks :
          /\ CommandReturns(t)
          /\ \A u \in Tasks \ {t} : want[u] = 0
          /\ \A u \in Tasks : built[u] # Emptied
          => classpath >= want[t]]_vars

=============================================================================
