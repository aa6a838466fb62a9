--------------------------- MODULE ExtensionTasks ---------------------------
(***************************************************************************)
(* What the extension runs on the user's behalf (extension.ts,             *)
(* mavenFetch.ts, testing.ts): the download command, the proactive check   *)
(* that may download by itself, the installation with the build tool, and  *)
(* test runs.  The extension has one thread, so a step is what happens     *)
(* between two awaits.  Dialogs, the network, the file system, the server, *)
(* the build tool and debug sessions answer late, badly or never.          *)
(*                                                                         *)
(* A coordinate stands for its pom and its jar, m2 for the files at their  *)
(* final paths, indexed for what the server's classpath was built from.    *)
(* Messages to the user are left out.                                      *)
(***************************************************************************)
EXTENDS Integers, FiniteSets

CONSTANTS
    Tasks,                          \* the invocations of a session, each made at most once
    Sessions,                       \* what they may be: "manual", "auto", "install" or "test" each
    Roots,                          \* coordinates the build files name
    Brings,                         \* the coordinates that the pom of each brings in
    Launcher,                       \* that of the test launcher
    PomSize, JarSize,               \* of each coordinate
    MAX_DOWNLOAD_ROUNDS, MAX_ARTIFACTS_PER_INVOCATION, MAX_TOTAL_BYTES_PER_INVOCATION,
    LAUNCHER_BYTES, Groups, MaxRestarts

Coords == DOMAIN Brings

ASSUME CoordsAssumption == Roots \subseteq Coords /\ Brings \in [Coords -> SUBSET Coords] /\ Launcher \notin Coords
ASSUME SizeAssumption == PomSize \in [Coords \cup {Launcher} -> Nat] /\ JarSize \in [Coords \cup {Launcher} -> Nat]
ASSUME BoundAssumption ==
    {MAX_DOWNLOAD_ROUNDS, MAX_ARTIFACTS_PER_INVOCATION, MAX_TOTAL_BYTES_PER_INVOCATION, LAUNCHER_BYTES, Groups,
     MaxRestarts} \subseteq Nat
ASSUME SessionsAssumption == Sessions \subseteq [Tasks -> {"manual", "auto", "install", "test"}]

Unbuilt == {Launcher}               \* the server has not read the disk yet

VARIABLES
    task,           \* what each invocation is at
    kind,           \* and what it is
    trusted,
    downloadInFlight, installInFlight,
    gen,            \* clientGeneration
    m2, indexed,
    child,          \* the build tool of each installation
    runCounter, session,
    overlapped,     \* history: a flag was set while it was set
    lost,           \* history: a last rebuild failed, or two were under way at once
    owed            \* history: coordinates whose installation was seen to succeed

flags == <<downloadInFlight, installInFlight, overlapped>>
server == <<gen, indexed, lost>>
tests == <<runCounter, session>>
user == <<kind, trusted>>
vars == <<task, user, flags, server, m2, child, tests, owed>>

Fresh(pc) ==
    [pc |-> pc, cancelled |-> FALSE, client |-> 0, mode |-> "", pending |-> {}, round |-> 0, tried |-> {}, bytes |-> 0,
     fresh |-> FALSE, dirty |-> FALSE, coord |-> Launcher, data |-> "intact", read |-> {},
     groups |-> 0, name |-> 0, heard |-> FALSE, finished |-> FALSE]

Init ==
    /\ kind \in Sessions
    /\ task = [t \in Tasks |-> Fresh("new")]
    /\ trusted \in BOOLEAN
    /\ downloadInFlight = FALSE /\ installInFlight = FALSE
    /\ gen = 0 /\ indexed = Unbuilt
    /\ m2 = [c \in Coords \cup {Launcher} |-> [pom |-> "none", jar |-> "none"]]
    /\ child = [t \in Tasks |-> "none"]
    /\ runCounter = 0 /\ session = [t \in Tasks |-> "none"]
    /\ overlapped = FALSE /\ lost = FALSE /\ owed = {}

At(t, pc) == task[t].pc = pc
Go(t, pc) == task' = [task EXCEPT ![t].pc = pc]
Done(t) == task' = [task EXCEPT ![t] = Fresh("done")]
Starts(t, k) == At(t, "new") /\ kind[t] = k /\ trusted

-----------------------------------------------------------------------------
(* The server, as the extension uses it.                                     *)

Scan == {c \in Coords : m2[c].jar # "none"}
Classpath == IF indexed = Unbuilt THEN Scan ELSE indexed
Missing == (Roots \cup UNION {Brings[c] : c \in Classpath}) \ Classpath

BuildLazily ==
    /\ indexed = Unbuilt /\ indexed' = Scan
    /\ UNCHANGED <<task, user, flags, gen, lost, m2, child, tests, owed>>

\* restart: a request that is under way, and any other sent to the old
\* client, is rejected.
Restart ==
    /\ gen < MaxRestarts /\ gen' = gen + 1 /\ indexed' = Unbuilt
    /\ UNCHANGED <<task, user, flags, lost, m2, child, tests, owed>>

-----------------------------------------------------------------------------
(* The user.                                                                 *)

GrantTrust ==
    /\ ~trusted /\ trusted' = TRUE
    /\ UNCHANGED <<task, kind, flags, server, m2, child, tests, owed>>

InFetch(t) == task[t].pc \in {"fetch", "install pom", "install jar"}
InLoop(t) ==
    /\ kind[t] \in {"manual", "auto"}
    /\ InFetch(t) \/ task[t].pc \in {"round", "next", "rebuild", "rebuilding", "requery", "wrap", "final", "finalizing"}

\* A mutant of Cancel: before its session is heard of, the wait goes on.
CancelUnheard(t) ==
    /\ ~task[t].cancelled /\ task' = [task EXCEPT ![t].cancelled = TRUE]
    /\ InLoop(t) \/ task[t].pc = "tool" \/ (kind[t] = "test" /\ task[t].pc \notin {"new", "done"})
    /\ session' = [session EXCEPT ![t] = IF @ = "running" /\ task[t].heard THEN "stopping" ELSE @]
    /\ UNCHANGED <<user, flags, server, m2, child, runCounter, owed>>

\* Cancelling stops a session that was heard of; before that it ends the wait.
Cancel(t) ==
    /\ ~task[t].cancelled
    /\ InLoop(t) \/ task[t].pc = "tool" \/ (kind[t] = "test" /\ task[t].pc \notin {"new", "done"})
    /\ LET waiting == task[t].pc \in {"starting", "wait"} /\ ~task[t].finished
       IN /\ task' = [task EXCEPT ![t].cancelled = TRUE, ![t].finished = @ \/ (waiting /\ ~task[t].heard)]
          /\ session' = [session EXCEPT ![t] = IF @ = "running" /\ waiting /\ task[t].heard THEN "stopping" ELSE @]
    /\ UNCHANGED <<user, flags, server, m2, child, runCounter, owed>>

-----------------------------------------------------------------------------
(* downloadDependencies, maybeProactiveDependencyCheck and
   runDownloadDependencies.                                                  *)

DownloadDependencies(t) ==
    /\ Starts(t, "manual") /\ ~downloadInFlight
    /\ downloadInFlight' = TRUE
    /\ task' = [task EXCEPT ![t] = [Fresh("query") EXCEPT !.client = gen]]
    /\ UNCHANGED <<user, installInFlight, overlapped, server, m2, child, tests, owed>>

\* A mutant of FirstDiagnostics: "never" is not looked for.
FirstDiagnosticsUnasked(t) ==
    /\ At(t, "new") /\ kind[t] = "auto" /\ indexed # Unbuilt
    /\ \E setting \in {"prompt", "always", "never"} :
         IF trusted /\ ~downloadInFlight
         THEN task' = [task EXCEPT ![t] = [Fresh("query") EXCEPT !.client = gen, !.mode = setting]]
         ELSE Done(t)
    /\ UNCHANGED <<user, flags, server, m2, child, tests, owed>>

\* The first diagnostics, published once the classpath was built, make the
\* proactive check, and nothing makes it again.  The setting is the one of
\* this moment; one that is stored later is for the next session.
FirstDiagnostics(t) ==
    /\ At(t, "new") /\ kind[t] = "auto" /\ indexed # Unbuilt
    /\ \E setting \in {"prompt", "always", "never"} :
         IF trusted /\ ~downloadInFlight /\ setting # "never"
         THEN task' = [task EXCEPT ![t] = [Fresh("query") EXCEPT !.client = gen, !.mode = setting]]
         ELSE Done(t)
    /\ UNCHANGED <<user, flags, server, m2, child, tests, owed>>

EndDownload(t) == Done(t) /\ downloadInFlight' = FALSE

EndQuietly(t) == IF kind[t] = "manual" THEN EndDownload(t) ELSE Done(t) /\ UNCHANGED downloadInFlight

BeginProactively(t, pending) ==
    /\ overlapped' = (overlapped \/ downloadInFlight) /\ downloadInFlight' = TRUE
    /\ task' = [task EXCEPT ![t].pc = "round", ![t].pending = pending]

QueryFails(t) == At(t, "query") /\ EndQuietly(t) /\ UNCHANGED <<overlapped, indexed>>

QueryMissing(t) ==
    /\ At(t, "query") /\ task[t].client = gen /\ indexed' = Classpath
    /\ \E skipped, repository \in BOOLEAN :
         CASE Missing = {} /\ skipped /\ kind[t] = "manual" -> Go(t, "offer") /\ UNCHANGED <<downloadInFlight, overlapped>>
           [] Missing = {} /\ ~(skipped /\ kind[t] = "manual") -> EndQuietly(t) /\ UNCHANGED overlapped
           [] Missing # {} /\ ~repository -> EndQuietly(t) /\ UNCHANGED overlapped
           [] Missing # {} /\ repository /\ task[t].mode = "always" -> BeginProactively(t, Missing)
           [] OTHER -> /\ task' = [task EXCEPT ![t].pc = IF kind[t] = "manual" THEN "consent" ELSE "prompt",
                                               ![t].pending = Missing]
                       /\ UNCHANGED <<downloadInFlight, overlapped>>

Query(t) ==
    /\ QueryFails(t) \/ QueryMissing(t)
    /\ UNCHANGED <<user, installInFlight, gen, lost, m2, child, tests, owed>>

ConfirmDownloadConsent(t) ==
    /\ At(t, "consent")
    /\ (Go(t, "round") /\ UNCHANGED downloadInFlight) \/ EndDownload(t)
    /\ UNCHANGED <<user, installInFlight, overlapped, server, m2, child, tests, owed>>

\* The notification of the proactive check.
AnswerPrompt(t) ==
    /\ At(t, "prompt")
    /\ \/ Done(t) /\ UNCHANGED flags                                    \* dismissed, or "Never"
       \/ Go(t, "persisting") /\ UNCHANGED flags                        \* "Always for this workspace"
       \/ BeginProactively(t, task[t].pending) /\ UNCHANGED installInFlight
    /\ UNCHANGED <<user, server, m2, child, tests, owed>>

Persisted(t) ==
    /\ At(t, "persisting") /\ BeginProactively(t, task[t].pending)
    /\ UNCHANGED <<user, installInFlight, server, m2, child, tests, owed>>

-----------------------------------------------------------------------------
(* runDownloadLoop.                                                          *)

StartRound(t) ==
    /\ At(t, "round")
    /\ IF task[t].round < MAX_DOWNLOAD_ROUNDS /\ task[t].pending # {}
       THEN task' = [task EXCEPT ![t].pc = "next", ![t].round = @ + 1, ![t].fresh = FALSE]
       ELSE Go(t, "wrap")
    /\ UNCHANGED <<user, flags, server, m2, child, tests, owed>>

\* One turn of the loop over the pending coordinates, or what follows it.
NextArtifact(t) ==
    /\ At(t, "next")
    /\ LET left == task[t].pending \ task[t].tried
       IN CASE /\ left # {} /\ ~task[t].cancelled
               /\ Cardinality(task[t].tried) < MAX_ARTIFACTS_PER_INVOCATION
               /\ task[t].bytes < MAX_TOTAL_BYTES_PER_INVOCATION ->
                 \E c \in left :
                     task' = [task EXCEPT ![t].pc = "fetch", ![t].coord = c, ![t].tried = @ \cup {c}]
            [] left = {} /\ ~task[t].cancelled /\ task[t].fresh -> Go(t, "rebuild")
            [] OTHER -> Go(t, "wrap")
    /\ UNCHANGED <<user, flags, server, m2, child, tests, owed>>

\* A rebuild asked of the server: it reads the disk now and answers later.
SendRebuild(t, from, to, client) ==
    /\ At(t, from)
    /\ \/ /\ client = gen /\ task' = [task EXCEPT ![t].pc = to, ![t].client = client, ![t].read = Scan]
          /\ lost' = (lost \/ \E u \in Tasks \ {t} : task[u].pc \in {"rebuilding", "finalizing", "refreshing"})
          /\ UNCHANGED flags
       \/ /\ from = "rebuild" /\ Go(t, "wrap") /\ UNCHANGED <<lost, flags>>
       \/ /\ from = "final" /\ lost' = TRUE /\ EndDownload(t) /\ UNCHANGED <<installInFlight, overlapped>>
       \/ /\ from = "refresh" /\ lost' = TRUE /\ EndQuietly(t) /\ installInFlight' = FALSE
          /\ UNCHANGED overlapped
    /\ UNCHANGED <<user, gen, indexed, m2, child, tests, owed>>

RebuildClasspath(t) == SendRebuild(t, "rebuild", "rebuilding", task[t].client)
FinalRebuild(t) == SendRebuild(t, "final", "finalizing", task[t].client)

Rebuilt(t) ==
    /\ At(t, "rebuilding")
    /\ IF task[t].client = gen
       THEN /\ indexed' = task[t].read
            /\ task' = [task EXCEPT ![t].pc = "requery", ![t].dirty = FALSE, ![t].read = {}]
       ELSE Go(t, "wrap") /\ UNCHANGED indexed
    /\ UNCHANGED <<user, flags, gen, lost, m2, child, tests, owed>>

RequeryMissing(t) ==
    /\ At(t, "requery")
    /\ \/ task[t].client = gen /\ task' = [task EXCEPT ![t].pc = "round", ![t].pending = Missing] /\ indexed' = Classpath
       \/ Go(t, "wrap") /\ UNCHANGED indexed
    /\ UNCHANGED <<user, flags, gen, lost, m2, child, tests, owed>>

\* A mutant of WrapUp: a loop that stops early does not rebuild.
WrapUpNoRebuild(t) ==
    /\ At(t, "wrap") /\ EndDownload(t)
    /\ UNCHANGED <<user, installInFlight, overlapped, server, m2, child, tests, owed>>

WrapUp(t) ==
    /\ At(t, "wrap")
    /\ IF task[t].dirty THEN Go(t, "final") /\ UNCHANGED downloadInFlight ELSE EndDownload(t)
    /\ UNCHANGED <<user, installInFlight, overlapped, server, m2, child, tests, owed>>

Finalized(t) ==
    /\ At(t, "finalizing")
    /\ IF task[t].client = gen THEN indexed' = task[t].read /\ UNCHANGED lost ELSE lost' = TRUE /\ UNCHANGED indexed
    /\ EndDownload(t)
    /\ UNCHANGED <<user, installInFlight, overlapped, gen, m2, child, tests, owed>>

-----------------------------------------------------------------------------
(* mavenFetch.ts.                                                            *)

\* What a repository answers: the file or an error, intact or not, and those
\* of the three checksums that are published and legible.
Answers == [found : BOOLEAN, data : {"intact", "corrupt"}, sums : SUBSET {"sha512", "sha256", "sha1"}]

\* fetchVerifiedFile: there has to be a checksum, and the strongest decides.
FetchVerifiedFile(a, size, max) ==
    IF a.found /\ size <= max /\ a.sums # {} /\ a.data = "intact" THEN a.data ELSE "failed"

Budget(t) == IF kind[t] = "test" THEN LAUNCHER_BYTES ELSE MAX_TOTAL_BYTES_PER_INVOCATION - task[t].bytes

JarBudget(t) == Budget(t) - PomSize[task[t].coord]

\* The loop counts a success; the test run goes on, or ends.
Settled(t, downloaded) ==
    LET c == task[t].coord
    IN CASE kind[t] = "test" /\ downloaded -> Go(t, "group") /\ UNCHANGED owed
         [] kind[t] = "test" /\ ~downloaded -> Done(t) /\ UNCHANGED owed
         [] kind[t] # "test" /\ downloaded ->
              /\ task' = [task EXCEPT ![t].pc = "next", ![t].fresh = TRUE, ![t].dirty = TRUE, ![t].coord = Launcher,
                                      ![t].bytes = @ + PomSize[c] + JarSize[c]]
              /\ owed' = owed \cup {c}
         [] kind[t] # "test" /\ ~downloaded -> task' = [task EXCEPT ![t].pc = "next", ![t].coord = Launcher] /\ UNCHANGED owed

Fetch(t) ==
    /\ At(t, "fetch")
    /\ \E pom \in {FetchVerifiedFile(a, PomSize[task[t].coord], Budget(t)) : a \in Answers},
          jar \in {FetchVerifiedFile(a, JarSize[task[t].coord], JarBudget(t)) : a \in Answers} :
            IF pom # "failed" /\ JarBudget(t) > 0 /\ jar # "failed"
            THEN /\ task' = [task EXCEPT ![t].pc = "install pom",
                                         ![t].data = IF "corrupt" \in {pom, jar} THEN "corrupt" ELSE "intact"]
                 /\ UNCHANGED owed
            ELSE Settled(t, FALSE)
    /\ UNCHANGED <<user, flags, server, m2, child, tests>>

\* A mutant of InstallOrder: the jar is there before its pom.
InstallOrderReversed == <<"jar", "pom">>

InstallOrder == <<"pom", "jar">>

\* installVerifiedFile: what is written under a temporary name, and partly
\* written if that fails, nobody reads; the rename makes it the file.
InstallVerifiedFile(t, n) ==
    /\ At(t, <<"install pom", "install jar">>[n])
    /\ \/ /\ m2' = [m2 EXCEPT ![task[t].coord][InstallOrder[n]] = task[t].data]
          /\ IF n = 1 THEN Go(t, "install jar") /\ UNCHANGED owed ELSE Settled(t, TRUE)
       \/ Settled(t, FALSE) /\ UNCHANGED m2
    /\ UNCHANGED <<user, flags, server, child, tests>>

-----------------------------------------------------------------------------
(* installDependencies, runInstall and runBuildTool.                         *)

InstallDependencies(t) ==
    /\ Starts(t, "install") /\ ~installInFlight /\ Go(t, "confirm")
    /\ UNCHANGED <<user, flags, server, m2, child, tests, owed>>

\* Nothing can be downloaded; the download command offers the build tool and
\* waits for it.
AnswerOffer(t) ==
    /\ At(t, "offer")
    /\ \/ ~installInFlight /\ Go(t, "confirm") /\ UNCHANGED downloadInFlight
       \/ EndDownload(t)
    /\ UNCHANGED <<user, installInFlight, overlapped, server, m2, child, tests, owed>>

Confirm(t) ==
    /\ At(t, "confirm")
    /\ \/ /\ Go(t, "tool") /\ child' = [child EXCEPT ![t] = "running"]
          /\ overlapped' = (overlapped \/ installInFlight) /\ installInFlight' = TRUE
          /\ UNCHANGED downloadInFlight
       \/ EndQuietly(t) /\ UNCHANGED <<child, overlapped, installInFlight>>
    /\ UNCHANGED <<user, server, m2, tests, owed>>

\* The build tool fills the local repository, also while it is being stopped.
ToolInstalls(t) ==
    /\ child[t] \in {"running", "stopping"}
    /\ \E c \in Coords : m2' = [m2 EXCEPT ![c] = [pom |-> "intact", jar |-> "intact"]]
    /\ UNCHANGED <<task, user, flags, server, child, tests, owed>>

ToolExits(t) ==
    /\ At(t, "tool") /\ ~task[t].cancelled /\ child' = [child EXCEPT ![t] = "none"]
    /\ Go(t, "refresh") /\ owed' = owed \cup Scan
    /\ UNCHANGED <<user, flags, server, m2, tests>>

\* It could not be spawned, or the user cancelled: nothing is rebuilt.
ToolAbandoned(t) ==
    /\ At(t, "tool")
    /\ \/ ~task[t].cancelled /\ child' = [child EXCEPT ![t] = "none"]
       \/ task[t].cancelled /\ child' = [child EXCEPT ![t] = "stopping"]
    /\ EndQuietly(t) /\ installInFlight' = FALSE
    /\ UNCHANGED <<user, overlapped, server, m2, tests, owed>>

ToolStops(t) ==
    /\ child[t] = "stopping" /\ child' = [child EXCEPT ![t] = "none"]
    /\ UNCHANGED <<task, user, flags, server, m2, tests, owed>>

\* The classpath is rebuilt through the client of the moment.
Refresh(t) == SendRebuild(t, "refresh", "refreshing", gen)

Refreshed(t) ==
    /\ At(t, "refreshing") /\ installInFlight' = FALSE /\ EndQuietly(t)
    /\ IF task[t].client = gen THEN indexed' = task[t].read /\ UNCHANGED lost ELSE lost' = TRUE /\ UNCHANGED indexed
    /\ UNCHANGED <<user, overlapped, gen, m2, child, tests, owed>>

-----------------------------------------------------------------------------
(* runTests and runFolderGroup, with the sessions they start.                *)

RunTests(t) ==
    /\ Starts(t, "test") /\ task' = [task EXCEPT ![t] = [Fresh("launcher") EXCEPT !.groups = Groups]]
    /\ UNCHANGED <<user, flags, server, m2, child, tests, owed>>

\* ensureConsoleLauncher.
EnsureLauncher(t) ==
    /\ At(t, "launcher")
    /\ \/ m2[Launcher].jar # "none" /\ Go(t, "group")
       \/ m2[Launcher].jar = "none" /\ Go(t, "fetch")
       \/ m2[Launcher].jar = "none" /\ Done(t)
    /\ UNCHANGED <<user, flags, server, m2, child, tests, owed>>

\* The listeners are there before startDebugging is called.
StartGroup(t) ==
    /\ At(t, "group")
    /\ IF task[t].groups > 0 /\ ~task[t].cancelled
       THEN /\ runCounter' = runCounter + 1
            /\ task' = [task EXCEPT ![t].pc = "starting", ![t].groups = @ - 1, ![t].name = runCounter + 1,
                                    ![t].heard = FALSE, ![t].finished = FALSE]
            /\ session' = [session EXCEPT ![t] = "asked"]
       ELSE Done(t) /\ UNCHANGED <<runCounter, session>>
    /\ UNCHANGED <<user, flags, server, m2, child, owed>>

\* The waiters whose listeners hear of the session of t.
Hearing(t) ==
    {u \in Tasks : task[u].pc \in {"starting", "wait"} /\ ~task[u].finished /\ task[u].name = task[t].name}

SessionStarts(t) ==
    /\ session[t] = "asked" /\ session' = [session EXCEPT ![t] = "running"]
    /\ task' = [u \in Tasks |-> IF u \in Hearing(t) THEN [task[u] EXCEPT !.heard = TRUE] ELSE task[u]]
    /\ UNCHANGED <<user, flags, server, m2, child, runCounter, owed>>

SessionEnds(t) ==
    /\ session[t] \in {"running", "stopping"} /\ session' = [session EXCEPT ![t] = "over"]
    /\ task' = [u \in Tasks |-> IF u \in Hearing(t) THEN [task[u] EXCEPT !.finished = TRUE] ELSE task[u]]
    /\ UNCHANGED <<user, flags, server, m2, child, runCounter, owed>>

\* startDebugging answers once the session has started, or has failed to.
DebuggingStarted(t) ==
    /\ At(t, "starting") /\ session[t] # "asked" /\ Go(t, "wait")
    /\ UNCHANGED <<user, flags, server, m2, child, tests, owed>>

DebuggingRefused(t) ==
    /\ At(t, "starting") /\ session[t] = "asked" /\ session' = [session EXCEPT ![t] = "over"] /\ Go(t, "group")
    /\ UNCHANGED <<user, flags, server, m2, child, runCounter, owed>>

\* The reports are read and their directory is removed.
ReadReports(t) ==
    /\ At(t, "wait") /\ task[t].finished /\ Go(t, "group")
    /\ UNCHANGED <<user, flags, server, m2, child, tests, owed>>

-----------------------------------------------------------------------------
\* The extension host and all it runs are killed; the disk stays.
Killed ==
    /\ \E t \in Tasks : task[t].pc # "new"
    /\ task' = [t \in Tasks |-> Fresh("done")]
    /\ downloadInFlight' = FALSE /\ installInFlight' = FALSE /\ indexed' = Unbuilt
    /\ child' = [t \in Tasks |-> "none"] /\ session' = [t \in Tasks |-> "none"]
    /\ overlapped' = FALSE /\ lost' = FALSE /\ gen' = 0 /\ runCounter' = 0 /\ owed' = {}
    /\ UNCHANGED <<user, m2>>

DownloadStep(t) ==
    \/ Query(t) \/ StartRound(t) \/ NextArtifact(t) \/ RebuildClasspath(t) \/ Rebuilt(t) \/ RequeryMissing(t)
    \/ WrapUp(t) \/ FinalRebuild(t) \/ Finalized(t) \/ Fetch(t) \/ \E n \in 1 .. 2 : InstallVerifiedFile(t, n)
TestStep(t) == StartGroup(t) \/ SessionStarts(t) \/ DebuggingStarted(t) \/ ReadReports(t)
UserStep(t) ==
    \/ DownloadDependencies(t) \/ ConfirmDownloadConsent(t) \/ AnswerPrompt(t) \/ AnswerOffer(t)
    \/ InstallDependencies(t) \/ Confirm(t) \/ RunTests(t) \/ EnsureLauncher(t) \/ Cancel(t)
OtherStep(t) ==
    \/ FirstDiagnostics(t) \/ Persisted(t) \/ ToolInstalls(t) \/ ToolExits(t) \/ ToolAbandoned(t) \/ ToolStops(t)
    \/ Refresh(t) \/ Refreshed(t) \/ DebuggingRefused(t) \/ SessionEnds(t)

Next ==
    \/ \E t \in Tasks : DownloadStep(t) \/ TestStep(t) \/ UserStep(t) \/ OtherStep(t)
    \/ BuildLazily \/ Restart \/ GrantTrust \/ Killed
-----------------------------------------------------------------------------
(* Fairness: the extension's thread goes on, a request to a repository times
   out, one to the server is answered or rejected, startDebugging answers and
   a session that is told to stop ends.  Users owe no answer, and neither the
   build tool nor a session owes an end.                                     *)

Spec ==
    /\ Init /\ [][Next]_vars
    /\ \A t \in Tasks : WF_vars(DownloadStep(t) \/ TestStep(t) \/ (session[t] = "stopping" /\ SessionEnds(t)))

Coordinates == Coords \cup {Launcher}
Places == {"new", "done", "query", "offer", "consent", "prompt", "persisting", "round", "next", "rebuild", "rebuilding",
           "requery", "wrap", "final", "finalizing", "fetch", "install pom", "install jar",
           "confirm", "tool", "refresh", "refreshing", "launcher", "group", "starting", "wait"}

\* Type correctness of the extension's state.
TypeOK ==
    /\ task \in [Tasks -> [pc : Places, cancelled : BOOLEAN, client : 0 .. MaxRestarts, mode : {"", "prompt", "always"}, pending : SUBSET Coords,
                           round : 0 .. MAX_DOWNLOAD_ROUNDS, tried : SUBSET Coords, bytes : Nat, fresh : BOOLEAN,
                           dirty : BOOLEAN, coord : Coordinates, data : {"intact", "corrupt"}, read : SUBSET Coords,
                           groups : 0 .. Groups, name : Nat, heard : BOOLEAN, finished : BOOLEAN]]
    /\ kind \in Sessions
    /\ {trusted, downloadInFlight, installInFlight, overlapped, lost} \subseteq BOOLEAN
    /\ gen \in 0 .. MaxRestarts /\ runCounter \in Nat
    /\ indexed = Unbuilt \/ indexed \subseteq Coords
    /\ m2 \in [Coordinates -> [{"pom", "jar"} -> {"none", "intact", "corrupt"}]] /\ owed \subseteq Coords
    /\ child \in [Tasks -> {"none", "running", "stopping"}]
    /\ session \in [Tasks -> {"none", "asked", "running", "stopping", "over"}]

\* What is at a final path is data that its checksum confirmed, also after a
\* failed write or a killed extension, and two downloads of the same file do not
\* disturb each other.  That it is whole is left to rename, which is atomic: the
\* temporary names are unique and nobody reads them (installVerifiedFile).
FilesWhole == \A c \in Coordinates, ext \in {"pom", "jar"} : m2[c][ext] \in {"none", "intact"}

\* A jar is never there without the pom that says what it needs, whatever
\* step fails: the resolver would take the coordinate for complete and never
\* ask for its dependencies (fetchAndInstallArtifact).
JarHasPom == \A c \in Coordinates : m2[c].jar # "none" => m2[c].pom # "none"

Downloading == {t \in Tasks : InLoop(t) \/ (kind[t] = "manual" /\ task[t].pc \notin {"new", "done"})}
Installing == {t \in Tasks : task[t].pc \in {"tool", "refresh", "refreshing"}}

\* Unless one was started over another, a flag is set exactly while one
\* invocation is under way: every way out gives it back
\* (downloadDependencies, maybeProactiveDependencyCheck, installDependencies).
FlagsHeld ==
    ~overlapped =>
        /\ Cardinality(Downloading) = IF downloadInFlight THEN 1 ELSE 0
        /\ Cardinality(Installing) = IF installInFlight THEN 1 ELSE 0

\* One consent downloads no more than its bounds: files, bytes, rounds
\* (runDownloadLoop, fetchAndInstallArtifact).
BudgetKept ==
    \A t \in Tasks :
        /\ Cardinality(task[t].tried) <= MAX_ARTIFACTS_PER_INVOCATION
        /\ task[t].bytes <= MAX_TOTAL_BYTES_PER_INVOCATION

\* When nothing is under way any more, what was installed is in the
\* classpath, also if the loop was cancelled, met a bound or failed to ask
\* again; unless the rebuild itself failed, or two of them crossed
\* (runDownloadLoop, runInstall).
NothingUnindexed ==
    (\A t \in Tasks : task[t].pc \in {"new", "done", "offer", "confirm", "prompt"}) /\ indexed # Unbuilt /\ ~lost
        => owed \subseteq indexed

\* The reports of a test run that was not cancelled are read after its own
\* session has ended, whatever other runs do meanwhile (waitForSessionEnd).
ReportsReadAtEnd ==
    [][\A t \in Tasks : ReadReports(t) => session[t] = "over" \/ task[t].cancelled]_vars

\* The downloads that were agreed to come to their end (runDownloadLoop).
DownloadEnds == (\E t \in Tasks : InLoop(t)) ~> (\A t \in Tasks : ~InLoop(t))

CancelledRun(t) == kind[t] = "test" /\ task[t].cancelled /\ task[t].pc \in {"group", "starting", "wait"}

\* What one consent leaves in the local repository is usable and bounded:
\* whole files, poms before jars, no more than was allowed
\* (runDownloadLoop, fetchAndInstallArtifact).
DownloadsUsable == FilesWhole /\ JarHasPom /\ BudgetKept

\* A test run that is cancelled ends: before its session starts, while it
\* runs, and between two folders (runTests, waitForSessionEnd).
CancelledRunEnds == (\E t \in Tasks : CancelledRun(t)) ~> (\A t \in Tasks : ~CancelledRun(t))

\* What the user starts ends in order: flags are given back, reports are read
\* at the end of their own session, and downloads and cancelled test runs do
\* end (downloadDependencies, runTests).
InvocationsEnd == []FlagsHeld /\ ReportsReadAtEnd /\ DownloadEnds /\ CancelledRunEnds
=============================================================================
