# java-vsix-lite: TLA+ specifications

This directory models java-vsix-lite: the language server (`crates/server`),
the analysis it answers from (`crates/syntax`, `crates/types`,
`crates/classpath`), the debug adapter (`crates/debug`) and the tasks of the VS
Code extension (`editors/vscode`). The protocols are state machines; the
algorithms are operators, compared with an independent definition of the right
answer. TLC checks both on small instances. The main safety properties of eight
protocol modules are proved with TLAPS for every value of the constants.

## The system and its parts

| Part | Source | Module | Status |
|---|---|---|---|
| Classpath snapshot, debounced rebuild, rebuild command | `server/src/backend.rs`, `main.rs` | `ClasspathRebuild`, `ClasspathPromise` | modelled |
| Workspace index of top-level types | `server/src/workspace_index.rs`, `fs_scan.rs` | `WorkspaceIndex` | building and invalidation; queries not |
| Documents, diagnostics, publication | `server/src/main.rs`, `backend.rs`, `diagnostics.rs` | `Diagnostics` | control; the merging of duplicates is opaque |
| javac process control | `server/src/javac.rs`, `diagnostics.rs`, `main.rs` | `JavacRun` | modelled |
| Automatic check scheduler | `javacScheduler.ts`, `extension.ts` | `JavacScheduler` | modelled |
| Dependency download and install | `extension.ts`, `mavenFetch.ts` | `ExtensionTasks` | modelled |
| Test explorer | `testing.ts` | `ExtensionTasks` | runs; discovery and report parsing not |
| Client lifecycle | `extension.ts` | `JavacScheduler`, `ExtensionTasks` | restarts as seen by running tasks |
| JDWP connection | `debug/src/jdwp` | `JdwpConnection`, `JdwpCodec` | modelled |
| Debug session | `debug/src/dap/session.rs` | `DebugSession`, `DebugTermination`, `DebugInspection` | all but JSON and rendering |
| Debuggee launch | `debug/src/launch.rs` | `DebugInspection` | as a function of its inputs |
| Classpath resolution | `classpath/src/resolve.rs`, `maven.rs`, `gradle.rs`, `jdk.rs` | `DependencyResolution` | text below the token abstracted |
| Archives, class files, type index | `classpath/src/zip.rs`, `class_info.rs`, `lib.rs`, `index.rs` | `ClassArchives` | class-file bytes abstracted |
| Structured types, assignability | `types/src/lib.rs`, `syntax/src/resolve.rs` | `TypeRelations` | modelled |
| Overloads, lambdas, inference, constructors | `syntax/src/call.rs` | `Overloads` | modelled |
| Names, imports, bindings | `syntax/src/imports.rs`, `model.rs`, `resolve.rs` | `NameScopes` | modelled |
| Classes read from source, Lombok | `syntax/src/model.rs`, `lombok.rs`, `typeref.rs`, `srcclass.rs` | `SourceClasses` | modelled |
| Members and types of expressions | `syntax/src/resolve.rs` | `MemberWalk` | modelled |
| Native diagnostics | `syntax/src/diagnostics.rs`, `structural.rs`, `lib.rs` | `SemanticChecks`, `TreePasses` | the decision of each check; the passes that run them |
| Completion, code generation, rename, references, hover, hierarchy | `crates/syntax`, `crates/server` | none | see "Not modelled" |

How they interact. The editor sends messages to the server; each is handled by
an asynchronous task. All handlers are polled by one task of the runtime, at
most four at once, so two handlers interleave only at an `.await`. Classpath
builds and compilers run on the blocking pool, truly in parallel. A
`$/cancelRequest` drops a handler at an `.await` and leaves its blocking job
running. A watched build file leads to a classpath rebuild, a watched source
file invalidates the index; both lead to a refresh of all diagnostics, as do
opens, closes and declaration edits. The extension's scheduler turns saves into
scoped `checkProject` commands, which take the server's single-flight flag, run
javac and merge its results into what is published. The extension downloads
missing dependencies and asks the server to rebuild. It starts the debug adapter
as a process of its own: a loop over one channel of client requests, JDWP events
and the child's exit.

## Protocol modules

An action is what one task does between two awaits, or between two points at
which another thread can reach shared state.

**ClasspathRebuild.** A classpath is the revision of the files it was built
from. `coalescer` is `RebuildCoalescer`; `OnEvent`, `OnDebounceElapsed` and
`OnRebuildFinished` are its methods. A task drives through `sleep`, `start`,
`built`, `republish`. Reading the files (`Build`) and storing the result
(`Swap`) are two steps, since the build runs on the blocking pool. The command
takes the same two steps without the coalescer. `ClasspathPromise` is what the
component promises: a resolver that may only rest when it is up to date.

**WorkspaceIndex.** A file has a revision; a walk records the revision it saw.
A walk yields between files, so it overlaps other walks, events and changes on
disk. `inner` is the code's `Inner`. The truncation flag, the recorded root
times, `dirty` and `dirty_epoch` are kept. `notified` and `listed` are history
variables, used by the properties only.

**Diagnostics.** A text is a number. A document's native diagnostics depend on
its text, on the declarations of open documents and of the files it uses
(`world`), on the listing the index was built from (`index`) and on the
classpath. The first two are read when the diagnostics are computed. The index
lags: `ensure_workspace_index` reads `dirty` and the epoch once (`EnsureIndex`),
walks over many awaits, and installs what it found whether or not a later event
or a later walk overtook it (`InstallIndex`). A refresh waits for it and takes
the classpath when it returns; requests (`Query`) and checks call it too; the
fast path of `did_change` never does. `task` holds the handlers that refresh or
publish, `walk` their calls of the index, `check` the one `checkProject` in
flight, and `shown` what the client last received. The two generations, the
javac map with its version filter, the scoped run and its fallback to a full
one, and the result for a JDK that is too old are modelled. A walk finds the
files of the events so far; its I/O errors, and listings that change without an
event, are the subject of `WorkspaceIndex`. `opened` in an entry, `last` and
`raced` are history.

**JavacRun.** Handler, blocking job, compiler process, the slot it is stored
in, the pipes that descendants may hold, shutdown, and the count of abandoned
readers.

**JavacScheduler.** The scheduler's variables (`q`) with time kept as ages, so
that the state space is finite without a clock bound: an age stops counting at
the interval it is compared with. The editor is the set of dirty buffers, the
setting and the client. `owed` and `undone` are history. Only one restart is
under way at a time.

**JdwpConnection.** `command` registers, writes and waits; `reader_task` hands
replies to waiters and events to a bounded channel; the pump of `start_vm` moves
those into the session's bounded inbox. The session's loop takes nothing from
the inbox while it waits for a reply. The debuggee answers in any order, sends
malformed packets and may vanish; output of the child competes for the inbox.

**DebugSession.** Execution control: setBreakpoints in its four steps
(registration of the prepare request, merge, listing of the classes, binding),
entry breakpoint, steps, pause, continue, exceptions and event sets with their
suspension. The debuggee is external: its requests, its suspend count, its
classes, and a thread that reports although another one has just suspended all
(`burst`). `eager` is history: a resume came from a client that had not been
told of a stop.

**DebugTermination.** How a session starts and ends: launches that fail and are
repeated, the child and the task that waits for it, the kill channel, terminate
with its deadline, disconnect, the end of stdin, cleanup, all through one bounded
channel. A handler that sends a JDWP command awaits the reply without a deadline
(`awaiting`), and the loop handles nothing meanwhile; the debuggee may stop
answering (`deaf`). `Exit` is taken with the child reaped or after `EXIT_GRACE`,
so it never waits. `scratch_dir` is the field, `dirs` the directories on disk.

**ExtensionTasks.** What runs for the user: the download command, the proactive
check, the build-tool installation and test runs. A coordinate is its pom and
its jar, `m2` the files at their final paths, `indexed` what the server's
classpath was built from. Dialogs, network, file system, server, build tool and
debug sessions answer late, badly or never; the extension may be killed between
any two steps. `overlapped`, `lost` and `owed` are history.

## Algorithm modules

`JdwpCodec` (payloads as bytes, decoders as lists of kinds), `DebugInspection`
(handles, frames, fields, line tables, the package scanner, the launch plan),
`DependencyResolution` (effective poms, the transitive walk, both caches, Gradle
literals), `ClassArchives` (end record, directory and entries of a ZIP, lookup
order, the name index, the class-file summary) are asked by `MCToolchain`;
`TypeRelations` and `Overloads` by `MCTypes`, which extends it, with `JavaRules`
as the statement of the language rules over a world where every class is known.
`NameScopes`, `SourceClasses`, `MemberWalk`, `SemanticChecks` and `TreePasses`
build on each other and are asked by `MCSyntax`, whose reference definitions
follow the language rule directly. `MCAnalyses` asks all of them in one run: it
extends `MCTypes` and has `MCSyntax` as an instance. `TreePasses` has the three
walks over a parsed file (syntax errors, structure, meaning), their order, their
cap and the guards against half-typed code; the structural rules are written out
in it, and a semantic check enters its walk as the outcome it has for a node
(`how`).

In these runs a step asks a query (a small project, archive, payload, call ...)
and a second step, `Answer`, ends it; the properties are action properties: an
`Answer` step is taken only with an answer that agrees with the reference. The
engine of the server is three-valued and often sees only part of the program:
the queries hide classes (`h`), and the reference is computed in the whole
program. "Sound" then means that yes and no are right wherever they are given;
"exact" and "decides" also say where an answer must be given.

`MC*.tla` otherwise add symmetry sets and small layouts.

## Runs that pass

| Run | Distinct states | Checks | Shows |
|---|---|---|---|
| `classpath_rebuild` | 84,643 | `OneDriver` `ImplementsPromise` `EventuallySettles` | One driver; no build-file change is lost; the driver settles. The last two say nothing once a command was sent. |
| `workspace_index` | 1,730,810 | `NoLostInvalidation` `RootTimeDetectsListing` `CapIsReported` | A clean index is as new as every accepted event and every listing of its roots; what the cap leaves out is reported. |
| `diagnostics` | 725,729 | `QuiescentFresh` `EntryForCurrentVersion` `PublishesCurrent` | A superseded pass never overwrites fresher texts or declarations and a refresh leaves the client current in both; in files and classpath too, unless one of them overtook a pass (`raced`). No javac result is stored for an older version of an open document. |
| `javac_run` | 409,177 | `OneCheckAtATime` `NothingLeaks` `FlagReleased` | The flag has one holder. Until a request is dropped: one compiler, none outlives the server, abandoned readers bounded. The flag is given back even if the compiler hangs. |
| `javac_scheduler` | 84,872 | `SavesStayDue` `OneRunAtATime` `SavedIsChecked` | One current run, starts spaced, no save lost or stranded, saved files eventually checked. |
| `jdwp_connection` | 301,591 | `PendingIsExact` `RepliesMatch` `ClosedComesLast` `CallsReturn` | The pending map is exact, a command gets its own reply, the end comes last, and calls return although both channels are bounded. |
| `debug_session` | 1,736,407 | `TypeOK` `SuspensionsCounted` `StopsAreTold` `RequestsAgree` `LoadedLinesBound` | Suspensions are given back once each; what the client is told of stops is true; session and debuggee agree on breakpoints and steps; no class slips between registration and listing. |
| `debug_termination` | 321,886 | `NothingLeftBehind` `TerminateTakesEffect` `SessionEnds` | A debuggee that was asked to terminate dies, the client is told, the adapter exits. What stands in the way is named: a command that is never answered holds the loop, `EXIT_GRACE` may run out on the task that kills, and a repeated launch forgets its first directory. |
| `extension_tasks` | 287,145 | `TypeOK` `DownloadsUsable` `NothingUnindexed` `InvocationsEnd` | Verified files, poms before jars, bounds kept; what was installed is indexed; flags given back; reports read after their own session; downloads and cancelled runs end. |
| `analyses` | 429,051 | `DebuggeeRead` `ResolutionSound` `ArchivesSound` `RelationsSound` `SelectionsSound` `LambdasSound` `DeclarationsExact` `MembersExact` `ReportsSound` | The algorithms of the debugger, of the classpath and of the type engine against their references; names, classes from source, members and native diagnostics against the language rules, for small projects of open, closed, library and missing classes; the passes over a file, intact and with an error at any node. |

Some of these names are conjunctions. Their parts are stated one by one, each
with its own comment, in the module that defines them (`JavacRun`,
`JavacScheduler`, `JdwpConnection`, `DebugSession`, `DebugTermination`,
`ExtensionTasks`, `MCToolchain`, `MCTypes`, `MCSyntax`).

A property that needs a condition states it about the history of the behaviour,
never by leaving events out of the run:

- `Commanded` (`ClasspathRebuild`): a rebuild command was sent. It bypasses the
  coalescer, and `classpath_command` shows what follows.
- `last` (`Diagnostics`): whether the last thing that moved the client, or what
  it should see, was a refreshing event, an edit that refreshes one document or
  none, or a check's publication. `raced`: since the generation moved, a file
  event overtook a walk, or a file event, an older walk or a classpath swap
  overtook a pass between the end of its walk and its publications.
- `Stuck` (`DebugTermination`): a handler awaits a live debuggee that answers no
  more.
- `Undropped` (`JavacRun`): no request was cancelled while it held the flag.
- `undone` (`JavacScheduler`): the last dirty buffer became clean by undo.
- `eager` (`DebugSession`): see above.
- `overlapped` (`ExtensionTasks`): two downloads or two installations were
  started over each other; `lost`: a last rebuild failed, or two crossed.

## Runs that find a disagreement

`classpath_command` (`CommandReflectsInstall`): the driver's build reads the
files, the install and the whole command happen up to the swap, and the driver's
older result is stored before the command returns. No build fails.

`silent_if_incomplete` (`SilentIfIncomplete`): an open class extends a closed
one whose superclass is gone. The class read from the closed file just lacks
that supertype (`srcclass.rs:202`), `diag_walk` takes the hierarchy to be
complete, and a member that the missing class may declare is reported. Where
every class below the missing one is open the check is silent, which
`ReportsSound` states in the passing run.

`PROJECT.json` quotes the comments these contradict.

## Other disagreements and limits met while modelling

They are in the models, and are the reason for the conditions above or for the
side conditions of the references, but have no run of their own.

Server and extension:

- A save bumps the generation, which aborts a declaration edit's pass, and
  starts none (`main.rs:742`; the comment at 735 expects the opposite).
- The provider generation is compared before an await (`diagnostics.rs:354`,
  described at `backend.rs:214`). A pass computed before a classpath swap may
  publish after the pass that follows the swap: both have the same generation.
  A pass whose walk has returned may meet a file event before it takes its
  snapshot; it then computes from the old listing under the new generation, and
  may publish after the pass of the event. Both are behind `raced`, and qualify
  the comment at `backend.rs:207` ("never overwrites fresher results").
- A javac result may be stored for a buffer that was dirty throughout the run,
  since javac reads the disk while the filter compares buffer versions. The
  stored result of a closed file survives a change of the file on disk.
- A file that changes on disk while it is open keeps its old entry in the index
  after it is closed (`main.rs:719`, 727).
- A cancelled request frees the flag while its compiler lives on beside the next
  one (`javac.rs:802`, 584). A descendant that keeps a pipe open blocks the join
  for ever (`javac.rs:819`, `main.rs:803`).
- An undo that makes the last dirty buffer clean re-arms nothing
  (`javacScheduler.ts:60`).
- The proactive check tests `downloadInFlight` before its query and prompt and
  sets it after them (`extension.ts:1112`), so two downloads may overlap and the
  first to end clears the flag; `installInFlight` is tested before the dialog
  (772, 811) in the same way.
- A test run cancelled before its session is heard of leaves the session
  running. A pom may be installed without its jar ("both or neither",
  `mavenFetch.ts:320`); the reverse never happens. Failed downloads do not count
  towards the byte bound. A cancelled build tool leaves files unindexed.

Debug adapter:

- Only terminate bounds its wait for the debuggee. Any other command, the
  dispose of a disconnect included (`session.rs:856`, 1536), is awaited for ever:
  a debuggee that is alive and silent holds the loop, and the client cannot end
  the session. Cleanup waits `EXIT_GRACE` for the reaping and then exits, so
  "no debuggee ever outlives the adapter" (1544) rests on a kill that takes
  effect in that time. A launch that fails after compiling leaves its scratch
  directory in a field that the next launch overwrites (`session.rs:382`).
- With more events in flight than the event channel and the pump hold, behind a
  full inbox, the reader waits and with it the reply the session waits for.
  `CallsReturn` is stated for at most that many (`MaxInFlight`); the channels
  hold 64 and 256 in the code, more than threads usually report at once.
- A stop is reported although its event set did not decode. A VM_START after
  configurationDone leaves an attached debuggee suspended. Resuming after a
  breakpoint that is not the client's does not invalidate handles. A continue
  at depth 0 can use up the suspension of a queued stop. A breakpoint binds in
  one class (`session.rs:689`), though `session.rs:113` speaks of "one per class
  the line bound in"; a second loaded class with code for the line gets none.
- A comment inside a package declaration becomes part of the scanned name.

Classpath:

- `latest.release` has neither digit nor `+`, so the scraper drops it before it
  can be recorded as degraded (`gradle.rs:193`; 139 and 179 promise the record).
  The run asks it; the reference says it is silent. The Maven cache is consulted
  for each file that the Gradle cache lacks, not only if it has "neither the pom
  nor the jar" (`gradle.rs:245`).
- A package `a` is listed twice if a sibling sorts between it and its
  subpackages, as in `a`, `a$`, `a.b`: duplicates are not always adjacent
  (`index.rs:158`). `ChildrenExact` states the multiplicity.
- Only a stored archive entry is compared with its declared size; an inflated one
  is bounded by `MAX_UNCOMPRESSED` alone (`zip.rs:126`).

Analysis (`crates/syntax`): cases in which the answer is not Java's. The
references leave them out by an explicit condition, or state what is answered.

- Calls: with a missing class an unproved domination makes a call ambiguous
  (`call.rs:40`); an overridden declaration may stand for the overriding one
  (`call.rs:428`); a constructor is selected before its access is looked at, so
  that an accessible, less specific one is not considered (`call.rs:2085`);
  inference neither boxes nor skips null; wildcards are not captured. An if/else,
  try, synchronized or do statement counts as completing normally
  (`call.rs:748`), so a lambda body that ends by such a statement, all of whose
  branches return or throw, is called void only and rejected for an interface
  that returns a value, which `call.rs:697` and 744 mean to exclude. The run asks
  such bodies (`Branching`), and `LambdaVerdicts` says that a lambda Java accepts
  is rejected in no other case.
- Classes from source: private members are dropped, so a call to one can be
  called inapplicable; a record with a non-canonical constructor loses its
  canonical one (`srcclass.rs:303`, 648); member classes of an interface and
  annotation elements get package access; a varargs or C-style array parameter
  has its element type; closed classes drop unresolvable supertypes; Lombok
  constructors are not synthesized, and accessor names of `isX` fields differ.
- Names: a closed type of the package loses to an open type of a wildcard import
  (`model.rs:581`); locals of an enclosing method come before the fields of a
  local class; locals of old-style `case` groups are not seen; changes behind a
  wildcard import are not in the fingerprint, nor are the types of Lombok
  accessors.
- Members: a diamond of interfaces is walked depth first; a nested type comes
  before a field of the same name; open classes without an extends clause do
  not offer the members of Object; Lombok members are unknown to `diag_walk`, so
  one that completion offers for an open class is also reported as missing.
- Checks: a private field that only a class-level `@Data` or `@Getter` reads is
  called unused; the link of an assignment ignores variables of for, lambda,
  catch, resources and patterns. Overloads that differ only in array brackets
  behind a parameter's name, or in the bound of a type variable of one name, are
  called duplicates (`structural.rs:309`); methods with a varargs parameter, or a
  comment among the parameters, are not compared.

## Bounds

- `Tasks`: 3 in `ClasspathRebuild` (a driver, an event during its build, a
  command), 2 in `Diagnostics` (a pass and one that supersedes it) beside the
  check. There one of two documents is open and shown at first; `MaxMessages` 4
  counts its opening and allows three more, such as a check and two events that
  race with it, or two file events around a request that walks the index.
  `MaxDisk` 3 allows a
  change before and during a rebuild.
- Two files, two roots, two walkers: a conventional root that is always scanned,
  and one scanned while a document in it (`Edited`) is open, with one file
  directly inside it and one below. `Cap` 1 bites within the second root, and at
  the first when that comes after it. `Unreliable` holds the one file whose
  reading may fail. `MaxChanges` 2 allows a change during each of two
  overlapping walks.
- `LeakCap` 3 with two readers per run: the cap is crossed by a run admitted
  just below it, and `MaxRuns` 3 reaches it.
- `Debounce` 1, `Floor` 3: the floor outlasts the debounce window, as in the
  code (1.5 s and 30 s), and both the immediate and the timed path of `arm`
  occur.
- `JdwpConnection`: capacities 1, two commands and three events fill every
  channel with a call waiting, and let a late reply meet a second command.
- `DebugSession`: one line that binds in either of two classes, two
  setBreakpoints requests (set and clear, or set twice), two event sets in
  flight, one step, one requested suspension beyond the debuggee's own.
- `DebugTermination`: an inbox of 2, two requests and an event of the debuggee
  beside its death fill the channel while a timer and the child's task both wait
  to enter it; two launches let one fail and be repeated.
- `ExtensionTasks`: every pair of invocations that share state (two manual
  downloads, automatic and manual, download and installation, two test runs);
  an artifact that brings in two more, of which the bounds admit one; one
  restart.
- Algorithms: caps of 1 to 8 stand for those of the code, so that inputs on both
  sides of each are enumerated: all payloads of up to two groups cut at either
  end, all package texts of four symbols, archives of up to three records,
  dependency graphs of three artifacts in two versions, class hierarchies of
  about ten classes with up to two hidden. `MAX_DIAGNOSTICS` is 3 for 100: files
  with two members or statements give lists below, at and above it.

Deadlock is not checked in the protocol runs: each system may come to rest, and
the bounded ones stop when their bound is used up.

## Fairness

- `ClasspathRebuild`: the runtime polls a task that can proceed; a notification
  in the stream is given to a free handler. Weak fairness of each.
- `JavacRun`: a job's thread runs and its deadline arrives; a handler whose job
  is done is polled. Nothing makes a compiler exit or a pipe close;
  `FlagReleased` takes from the environment that no descendant keeps a pipe
  forever.
- `JavacScheduler`: time passes, timers fire; strong fairness of a run that
  completes, since the server is not busy with another check every time.
  `SavedIsChecked` takes from the user that buffers are clean again and again,
  not by undo alone, and that the file in question is left clean.
- `JdwpConnection`: the tasks are polled, the session's loop goes on, and the
  debuggee answers what it has received while the connection is up.
- `DebugTermination`: the loop handles what has arrived when no handler waits, a
  handler goes on when its reply is there or the connection has ended, tasks and
  timers run, `EXIT_GRACE` passes, and a child that was sent the kill signal
  dies. Neither client nor debuggee owes anything else: the debuggee may ignore
  the command to exit and may stop answering, at any time and for ever.
- `ExtensionTasks`: the steps of a download loop and of a test run that do not
  wait for a user are taken (requests time out, files are written or fail), and
  a session that was told to stop ends. Nobody has to answer a dialog, and a
  running session has to end by itself never.

## Proofs

Each `*_proofs` module extends its component, that of the debug adapter both of
its components, and holds one inductive invariant or a few. The only assumptions
are the named ones on the constants: sets are subsets of one another, bounds are
natural numbers, capacities are positive. The conditions on the history are part
of the properties. In the two largest modules steps go to Zenon unless they name
the SMT solver, which is needed for arithmetic, sequences and records only; those
steps name two ways of calling it, the second tried when the first gives up.

- `ClasspathRebuild_proofs`: `DriverElection` (`OneDriver` is inductive with the
  typing), `NoChangeIsLost` and `RebuildImplementsPromise`. `NoLostEvent` speaks
  of the settled state only, so the invariant also says that an unsettled state
  with a build in hand either has an up-to-date build or still has a
  notification or the dirty flag set. `OlderIsRebuilt` follows: a driver may
  replace a snapshot that was built lazily while it was building by its own,
  older one, but never without another round being due.
- `WorkspaceIndex_proofs`: the invariant speaks of walks in progress: what a
  walk has seen is as new as every event accepted before it started, or
  `dirty_epoch` has moved since, in which case installing it leaves the index
  dirty. The same holds for listings and the recorded root times.
- `Diagnostics_proofs`: `JavacEntriesCurrent` also needs that no entry is from a
  later opening. `IndexInv` says that an index which is not marked dirty is of
  the files there are, `RacedInv` that no pass is outdated unless `raced` says
  so. `PublicationsCurrent` rests on `SnapshotInv`: a snapshot with the current
  generation is of the current texts and declarations, and of the current index
  if no pass was overtaken. `PassesConverge` rests on `FreshInv`: after a
  refreshing event an open document is settled, or a pass that has not been
  superseded will still reach it, and a dirty index is rebuilt by a pass that
  has not taken its snapshot.
- `JavacRun_proofs`: `ChecksAreSingle` and `ChecksLeaveNothing` combine
  `GuardReleases`, which holds whatever is dropped, with `SingleFlight`,
  `NoCompilerSurvives` and `LeaksBounded`. Those rest, like
  `CancelledMeansShutdown`, on `FlightInv`: until a request is dropped, a job has
  a waiting handler, and a live compiler is about to be stored or in the slot of
  the job that polls it. A dropped handler stays dropped, so the condition can
  only be lost.
- `JavacScheduler_proofs`: lemmas about the operators on the scheduler (`Fire`,
  `Arm`, `Settled`, `Reset`...) carry the run, the queue and the timer; then one
  step per editor event, for `SavesAreDue` and `RunsAreSerial`.
- `JdwpConnection_proofs`: `PendingExact`, `RepliesReachTheirCommand`,
  `ClosedIsLast` and `ResultsStay` for any number of commands and any
  capacities. `MapInv` adds
  that the map goes with the reader and holds no later command; `WireInv` that a
  command is unsent, asked, on the wire once, or answered; `PumpInv` that after
  the end of the channel no event is to come.
- `DebugAdapter_proofs`, about `DebugSession`, for any file, classes and bounds.
  `RequestsKnown`: `BreakpointsArmed` speaks of the moments between two requests;
  `ArmedInv` says it of every step of setBreakpoints, with each line holding only
  a request of its own, and `StepInv` that a step is reported alone, once, and
  after its request has expired. `ExceptionsCurrent` needs only itself.
  `SuspensionsKnown` and `StopsTold` rest on `QueueInv` (an event set is of one
  kind, and the start of the debuggee can only be the first) and `CountInv`:
  while the client does not resume what it was not told is stopped, the
  suspensions of the debuggee are those counted, those on their way in the
  queue, and that of the start until it is let go. `Typed` must hold for any
  client; `DepthInv` therefore bounds `suspend_depth` and the queue together,
  with one more report of a debuggee that is suspended already. `LoadedLines`
  rests on `LoadedInv`: from the first setBreakpoints on every class is
  reported, and a line that is not bound has no code in a loaded class, but for
  the classes the request at hand has yet to come to and those whose report is
  under way.
  About `DebugTermination`: `AdapterLeavesNothing` and `EndTyping`
  for any capacity and bounds: the debuggee is dead, or its kill has fired and the
  grace period ran out, and no directory of the last launch is left. `InboxInv`
  says that one start is under way at a time, `ChildInv` relates a launched child
  to the task that owns it, and `ScratchInv` the directories to the field; the
  typing carries the bound of the channel.
- `ExtensionTasks_proofs`, for any coordinates, sizes, limits and number of
  invocations: `Usable`, `InstalledIsIndexed`, `FlagsGivenBack`,
  `ReportsOfOwnSession` and `Typed`. One lemma per action says what the step
  makes of the record of its invocation (`*Becomes`) and of what invocations
  share (`*Effect`); the invariants are then proved once, from the effects.
  `Sound` is about one invocation: what is about to be written is confirmed data
  and within the budget together with its pom and jar, and what is fresh will be
  rebuilt for. `FileInv` adds that the pom is there before its jar is written;
  `IndexInv` that what was installed is indexed, or someone has still to have it
  rebuilt, or the only rebuild under way has read it; `FlagInv` that a flag is
  held by exactly one invocation; `ReportInv` that sessions have names of their
  own and a wait ends with its own session or by cancelling.

Only model-checked: liveness (`EventuallySettles`, `FlagReleased`,
`SavedIsChecked`, `CallsReturn`, `TerminateTakesEffect`, `SessionEnds`, and of
`InvocationsEnd` the parts `DownloadEnds` and `CancelledRunEnds`), which needs
fairness and `ENABLED`; and all algorithms (`MCAnalyses`), whose
definitions are recursive or whose theorems would need induction over data, both
out of this prover's reach. Every safety invariant and action property of a run
about a state machine is also a theorem. `OlderOnlyForNow` and
`ResultsAreFinal` are theorems that belong to no run.

## Not modelled

- Completion, hover, signature help, navigation, references, rename and the
  hierarchy requests: they read documents, index and caches through the modelled
  resolution and change no state; what is left is the selection and rendering of
  text ranges, for which the property would be the code itself.
- Code generation: text in, text out.
- javac source collection and output parsing, XML, Gradle and JVM-signature
  scanning: character-level text processing without state.
- The bounded caches of parsed files, keyed by time and length: whether a
  rewrite keeps both is a matter of the file system's clock.
- The byte format of class files and inflating.
- Activation, version handshake, status bar, styled hover; the awaits inside a
  restart, and so two restarts that overlap.
- Within modelled parts: logging, progress messages and their failures; which
  native diagnostic a javac diagnostic duplicates; the layout of modules beyond
  "the documents of the checked modules"; request JSON and rendered values.
