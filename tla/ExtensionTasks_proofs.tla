------------------------ MODULE ExtensionTasks_proofs ------------------------
(***************************************************************************)
(* What the extension runs on the user's behalf, for any invocations, any  *)
(* dependencies and any bounds: files at their final paths are whole, a    *)
(* download keeps to its budget, what was installed is indexed, flags are  *)
(* given back, and reports are read at the end of their own session.       *)
(***************************************************************************)
EXTENDS ExtensionTasks, TLAPS

\* Steps that name no prover are left to Zenon.
USE ZenonT(60)

Task ==
    [pc : Places, cancelled : BOOLEAN, client : 0 .. MaxRestarts, mode : {"", "prompt", "always"}, pending : SUBSET Coords,
     round : 0 .. MAX_DOWNLOAD_ROUNDS, tried : SUBSET Coords, bytes : Nat, fresh : BOOLEAN,
     dirty : BOOLEAN, coord : Coordinates, data : {"intact", "corrupt"}, read : SUBSET Coords,
     groups : 0 .. Groups, name : Nat, heard : BOOLEAN, finished : BOOLEAN]

\* The places of runDownloadLoop, those before and those after its rebuilds
\* are asked for, and the places of every kind of invocation.
Ahead == {"round", "next", "fetch", "install pom", "install jar", "rebuild", "wrap", "final"}
LoopPlaces == Ahead \cup {"rebuilding", "requery", "finalizing"}
ToolPlaces == {"tool", "refresh", "refreshing"}
PlacesOf(k) ==
    {"new", "done"}
    \cup (IF k \in {"manual", "auto"} THEN {"query"} \cup LoopPlaces ELSE {})
    \cup (IF k = "manual" THEN {"offer", "consent"} ELSE {})
    \cup (IF k = "auto" THEN {"prompt", "persisting"} ELSE {})
    \cup (IF k \in {"manual", "install"} THEN {"confirm"} \cup ToolPlaces ELSE {})
    \cup (IF k = "test" THEN {"launcher", "fetch", "install pom", "install jar", "group", "starting", "wait"} ELSE {})

\* The artifacts an invocation has attempted are finitely many, and within
\* its budget; at first there is none.
Counted(S) == S = {} \/ (IsFiniteSet(S) /\ Cardinality(S) <= MAX_ARTIFACTS_PER_INVOCATION)

\* What holds of the record of one invocation by itself: it is where its kind
\* can be, holds only confirmed data, is within its budget with what it is
\* installing, and remembers what it has to rebuild for.
Sound(r, k) ==
    /\ r.pc \in PlacesOf(k) /\ r.data = "intact"
    /\ Counted(r.tried)
    /\ r.bytes <= MAX_TOTAL_BYTES_PER_INVOCATION
    /\ r.pc \in {"fetch", "install pom", "install jar"} /\ k # "test" => r.coord \in Coords
    /\ r.pc \in {"install pom", "install jar"} /\ k # "test" =>
         r.bytes + PomSize[r.coord] + JarSize[r.coord] <= MAX_TOTAL_BYTES_PER_INVOCATION
    /\ r.pc \in {"next", "fetch", "install pom", "install jar"} /\ k # "test" /\ r.fresh => r.dirty
    /\ r.pc \in {"rebuild", "rebuilding"} => r.dirty
    /\ r.pc = "query" /\ k = "manual" => r.mode = ""

Kinds == {"manual", "auto", "install", "test"}
TaskInv ==
    /\ task \in [Tasks -> Task] /\ kind \in Sessions /\ kind \in [Tasks -> Kinds]
    /\ \A t \in Tasks : Sound(task[t], kind[t])

\* The rest of the state, by its types.
GlobalInv ==
    /\ {trusted, downloadInFlight, installInFlight, overlapped, lost} \subseteq BOOLEAN
    /\ gen \in 0 .. MaxRestarts /\ runCounter \in Nat
    /\ indexed = Unbuilt \/ indexed \subseteq Coords
    /\ m2 \in [Coordinates -> [{"pom", "jar"} -> {"none", "intact", "corrupt"}]] /\ owed \subseteq Coords
    /\ child \in [Tasks -> {"none", "running", "stopping"}]
    /\ session \in [Tasks -> {"none", "asked", "running", "stopping", "over"}]

-----------------------------------------------------------------------------
(***************************************************************************)
(* What a step makes of the record of its invocation                       *)
(***************************************************************************)
\* The invocation's record is r now, the others are what they were.
Becomes(t, r) == task' = [task EXCEPT ![t] = r] /\ r \in Task /\ Sound(r, kind[t])

\* Two records with the same downloads, rebuilds and session.
Alike(r, s) ==
    /\ r.tried = s.tried /\ r.bytes = s.bytes /\ r.fresh = s.fresh /\ r.dirty = s.dirty /\ r.coord = s.coord
    /\ r.data = s.data /\ r.read = s.read /\ r.name = s.name /\ r.finished = s.finished /\ r.cancelled = s.cancelled

LEMMA FreshIs ==
    ASSUME NEW pc \in Places
    PROVE  /\ Fresh(pc) \in Task /\ Fresh(pc).pc = pc
           /\ Fresh(pc).name = 0 /\ ~Fresh(pc).dirty /\ ~Fresh(pc).fresh /\ Fresh(pc).tried = {} /\ Fresh(pc).bytes = 0
           /\ Fresh(pc).data = "intact" /\ ~Fresh(pc).finished /\ Fresh(pc).mode = ""
  BY BoundAssumption, SMTT(60), Z3T(60) DEF Fresh, Task, Coordinates

LEMMA BoundsNatural == 0 <= MAX_ARTIFACTS_PER_INVOCATION /\ 0 <= MAX_TOTAL_BYTES_PER_INVOCATION
  BY BoundAssumption, SMTT(60), Z3T(60)

\* An invocation that is done, or has just begun.
LEMMA FreshSound ==
    ASSUME NEW r, NEW k, r.pc \in PlacesOf(k) \ LoopPlaces, r.data = "intact", r.tried = {}, r.bytes = 0,
           r.pc = "query" /\ k = "manual" => r.mode = ""
    PROVE  Sound(r, k)
  <1>1. Counted(r.tried)
    BY DEF Counted
  <1>2. r.pc \notin {"next", "fetch", "install pom", "install jar", "rebuild", "rebuilding"}
    BY DEF LoopPlaces, Ahead
  <1>3. r.bytes <= MAX_TOTAL_BYTES_PER_INVOCATION
    BY BoundsNatural
  <1>4. QED
    BY <1>1, <1>2, <1>3 DEF Sound

LEMMA DoneBecomes ==
    ASSUME NEW t \in Tasks, Done(t)
    PROVE  \E r : /\ Becomes(t, r) /\ r.pc = "done" /\ r.name = 0
  <1>1. "done" \in Places /\ \A k : "done" \in PlacesOf(k) \ LoopPlaces
    BY DEF Places, PlacesOf, LoopPlaces, Ahead
  <1>a. /\ Fresh("done").pc = "done" /\ Fresh("done").data = "intact" /\ Fresh("done").tried = {}
        /\ Fresh("done").bytes = 0 /\ Fresh("done").mode = ""
    BY <1>1, FreshIs
  <1>2. Sound(Fresh("done"), kind[t])
    BY <1>1, <1>a, FreshSound
  <1>3. QED
    BY <1>1, <1>2, FreshIs DEF Done, Becomes

\* Going on to another place, as long as that place asks for no more.
LEMMA GoBecomes ==
    ASSUME TaskInv, NEW t \in Tasks, NEW pc \in (PlacesOf(kind[t]) \cap Places) \ {"query"}, Go(t, pc),
           pc \in {"fetch", "install pom", "install jar"} /\ kind[t] # "test" => task[t].coord \in Coords,
           pc \in {"install pom", "install jar"} => task[t].pc = "install pom",
           pc \in {"next", "fetch", "install pom", "install jar"} /\ kind[t] # "test" /\ task[t].fresh => task[t].dirty,
           pc \in {"rebuild", "rebuilding"} => task[t].dirty
    PROVE  \E r : Becomes(t, r) /\ r.pc = pc /\ Alike(r, task[t])
  <1> DEFINE r == [task[t] EXCEPT !.pc = pc]
  <1>1. task[t] \in Task /\ Sound(task[t], kind[t])
    BY DEF TaskInv
  <1>2. task' = [task EXCEPT ![t] = r]
    BY DEF Go
  <1>3. r \in Task /\ r.pc = pc /\ Alike(r, task[t])
    BY <1>1 DEF Task, Alike
  <1> HIDE DEF r
  <1>4. Sound(r, kind[t])
    BY <1>1, <1>3 DEF Sound, Alike
  <1>5. QED
    BY <1>2, <1>3, <1>4 DEF Becomes

\* An invocation that begins.
LEMMA BeginBecomes ==
    ASSUME TaskInv, NEW t \in Tasks, NEW r \in Task, task' = [task EXCEPT ![t] = r],
           r.pc \in PlacesOf(kind[t]) \ LoopPlaces, r.data = "intact", r.tried = {}, r.bytes = 0,
           r.pc = "query" /\ kind[t] = "manual" => r.mode = ""
    PROVE  Becomes(t, r)
  BY FreshSound DEF Becomes

LEMMA QueryBecomes ==
    ASSUME TaskInv, GlobalInv, NEW t \in Tasks, kind[t] = "auto", NEW m \in {"", "prompt", "always"},
           task' = [task EXCEPT ![t] = [Fresh("query") EXCEPT !.client = gen, !.mode = m]]
    PROVE  \E r : Becomes(t, r) /\ r.pc = "query" /\ r.name = 0
  <1> DEFINE r == [Fresh("query") EXCEPT !.client = gen, !.mode = m]
  <1>1. "query" \in Places /\ "query" \in PlacesOf(kind[t]) \ LoopPlaces
    BY DEF Places, PlacesOf, LoopPlaces, Ahead
  <1>a. Fresh("query") \in Task /\ Fresh("query").pc = "query" /\ Fresh("query").data = "intact"
        /\ Fresh("query").tried = {} /\ Fresh("query").bytes = 0 /\ Fresh("query").name = 0 /\ gen \in 0 .. MaxRestarts
    BY <1>1, FreshIs DEF GlobalInv
  <1>2. r \in Task /\ r.pc = "query" /\ r.data = "intact" /\ r.tried = {} /\ r.bytes = 0 /\ r.name = 0
    BY <1>a DEF Task
  <1> HIDE DEF r
  <1>3. Becomes(t, r)
    BY <1>1, <1>2, BeginBecomes DEF r
  <1>4. QED
    BY <1>2, <1>3

LEMMA DownloadBecomes ==
    ASSUME TaskInv, GlobalInv, NEW t \in Tasks, DownloadDependencies(t)
    PROVE  \E r : Becomes(t, r) /\ r.pc = "query" /\ r.name = 0
  <1> DEFINE r == [Fresh("query") EXCEPT !.client = gen]
  <1>1. "query" \in Places /\ "query" \in PlacesOf(kind[t]) \ LoopPlaces /\ task' = [task EXCEPT ![t] = r]
    BY DEF DownloadDependencies, Starts, Places, PlacesOf, LoopPlaces, Ahead
  <1>2. Fresh("query") \in Task /\ Fresh("query").pc = "query" /\ Fresh("query").data = "intact"
        /\ Fresh("query").tried = {} /\ Fresh("query").bytes = 0 /\ Fresh("query").name = 0 /\ Fresh("query").mode = "" /\ gen \in 0 .. MaxRestarts
    BY <1>1, FreshIs DEF GlobalInv
  <1>3. r \in Task /\ r.pc = "query" /\ r.data = "intact" /\ r.tried = {} /\ r.bytes = 0 /\ r.name = 0 /\ r.mode = ""
    BY <1>2 DEF Task
  <1> HIDE DEF r
  <1>4. Becomes(t, r)
    BY <1>1, <1>3, BeginBecomes
  <1>5. QED
    BY <1>3, <1>4

LEMMA DiagnosticsBecomes ==
    ASSUME TaskInv, GlobalInv, NEW t \in Tasks, FirstDiagnostics(t)
    PROVE  \E r : Becomes(t, r) /\ r.pc \in {"query", "done"} /\ r.name = 0
  <1>1. PICK m \in {"prompt", "always", "never"} :
           \/ m # "never" /\ task' = [task EXCEPT ![t] = [Fresh("query") EXCEPT !.client = gen, !.mode = m]]
           \/ Done(t)
    BY DEF FirstDiagnostics
  <1>2. QED
    BY <1>1, QueryBecomes, DoneBecomes DEF FirstDiagnostics

LEMMA TestsBecomes ==
    ASSUME TaskInv, NEW t \in Tasks, RunTests(t)
    PROVE  \E r : Becomes(t, r) /\ r.pc = "launcher" /\ r.name = 0
  <1> DEFINE r == [Fresh("launcher") EXCEPT !.groups = Groups]
  <1>1. "launcher" \in Places /\ "launcher" \in PlacesOf(kind[t]) \ LoopPlaces /\ task' = [task EXCEPT ![t] = r]
    BY DEF RunTests, Starts, Places, PlacesOf, LoopPlaces, Ahead
  <1>a. Fresh("launcher") \in Task /\ Fresh("launcher").pc = "launcher" /\ Fresh("launcher").data = "intact"
        /\ Fresh("launcher").tried = {} /\ Fresh("launcher").bytes = 0 /\ Fresh("launcher").name = 0
    BY <1>1, FreshIs
  <1>b. Groups \in 0 .. Groups
    BY BoundAssumption, SMTT(60), Z3T(60)
  <1>2. r \in Task /\ r.pc = "launcher" /\ r.data = "intact" /\ r.tried = {} /\ r.bytes = 0 /\ r.name = 0
    BY <1>a, <1>b DEF Task
  <1> HIDE DEF r
  <1>3. Becomes(t, r)
    BY <1>1, <1>2, BeginBecomes
  <1>4. QED
    BY <1>2, <1>3

\* New coordinates are pending.
LEMMA PendingBecomes ==
    ASSUME TaskInv, NEW t \in Tasks, NEW pc \in {"round", "consent", "prompt"} \cap PlacesOf(kind[t]), NEW P \in SUBSET Coords,
           task' = [task EXCEPT ![t].pc = pc, ![t].pending = P]
    PROVE  \E r : Becomes(t, r) /\ r.pc = pc /\ Alike(r, task[t])
  <1> DEFINE r == [task[t] EXCEPT !.pc = pc, !.pending = P]
  <1>1. task[t] \in Task /\ Sound(task[t], kind[t]) /\ pc \in Places
    BY DEF TaskInv, Places
  <1>2. task' = [task EXCEPT ![t] = r]
    BY <1>1 DEF TaskInv, Task
  <1>3. r \in Task /\ r.pc = pc /\ Alike(r, task[t])
    BY <1>1 DEF Task, Alike
  <1> HIDE DEF r
  <1>4. Sound(r, kind[t])
    BY <1>1, <1>3 DEF Sound, Alike
  <1>5. QED
    BY <1>2, <1>3, <1>4 DEF Becomes

\* Missing coordinates are coordinates.
LEMMA MissingTyped == GlobalInv => Missing \subseteq Coords /\ Classpath \subseteq Coords /\ Scan \subseteq Coords
  <1> SUFFICES ASSUME GlobalInv PROVE Missing \subseteq Coords /\ Classpath \subseteq Coords /\ Scan \subseteq Coords
    OBVIOUS
  <1>1. Scan \subseteq Coords
    BY DEF Scan
  <1>2. Classpath \subseteq Coords
    BY <1>1 DEF Classpath, GlobalInv
  <1>3. UNION {Brings[c] : c \in Classpath} \subseteq Coords
    BY <1>2, CoordsAssumption
  <1>4. QED
    BY <1>1, <1>2, <1>3, CoordsAssumption DEF Missing

LEMMA RoundBecomes ==
    ASSUME TaskInv, GlobalInv, NEW t \in Tasks, StartRound(t), kind[t] \in {"manual", "auto"}
    PROVE  \E r : /\ Becomes(t, r) /\ r.pc \in {"next", "wrap"}
                  /\ r.dirty = task[t].dirty /\ r.name = task[t].name
  <1>1. task[t] \in Task /\ Sound(task[t], kind[t])
    BY DEF TaskInv
  <1>2. CASE Go(t, "wrap")
    <2>1. "wrap" \in PlacesOf(kind[t]) \cap Places
      BY DEF PlacesOf, Places, LoopPlaces, Ahead
    <2>2. \E r : Becomes(t, r) /\ r.pc = "wrap" /\ Alike(r, task[t])
      BY <1>2, <2>1, GoBecomes
    <2>3. QED
      BY <2>2 DEF Alike
  <1>3. CASE ~Go(t, "wrap")
    <2> DEFINE r == [task[t] EXCEPT !.pc = "next", !.round = @ + 1, !.fresh = FALSE]
    <2>1. task[t].round < MAX_DOWNLOAD_ROUNDS
          /\ task' = [task EXCEPT ![t].pc = "next", ![t].round = @ + 1, ![t].fresh = FALSE]
      BY <1>3 DEF StartRound
    <2>2. task' = [task EXCEPT ![t] = r]
      BY <1>1, <2>1 DEF TaskInv, Task
    <2>a. task[t].round \in 0 .. MAX_DOWNLOAD_ROUNDS /\ "next" \in Places
      BY <1>1 DEF Task, Places
    <2>b. task[t].round + 1 \in 0 .. MAX_DOWNLOAD_ROUNDS
      BY <2>1, <2>a, BoundAssumption, SMTT(60), Z3T(60)
    <2>3. r \in Task
      BY <1>1, <2>a, <2>b DEF Task
    <2>4. /\ r.pc = "next" /\ ~r.fresh /\ r.dirty = task[t].dirty /\ r.name = task[t].name /\ r.data = task[t].data
          /\ r.tried = task[t].tried /\ r.bytes = task[t].bytes
      BY <1>1 DEF Task
    <2> HIDE DEF r
    <2>5. "next" \in PlacesOf(kind[t])
      BY DEF PlacesOf, LoopPlaces, Ahead
    <2>6. Sound(r, kind[t])
      BY <1>1, <2>4, <2>5 DEF Sound
    <2>7. QED
      BY <2>2, <2>3, <2>4, <2>6 DEF Becomes
  <1>4. QED
    BY <1>2, <1>3

\* A rebuild that is under way, from a place of its kind.
LEMMA SendBecomes ==
    ASSUME TaskInv, GlobalInv, NEW t \in Tasks, NEW to \in {"rebuilding", "finalizing", "refreshing"} \cap PlacesOf(kind[t]),
           NEW client \in 0 .. MaxRestarts, to = "rebuilding" => task[t].dirty,
           task' = [task EXCEPT ![t].pc = to, ![t].client = client, ![t].read = Scan]
    PROVE  \E r : Becomes(t, r) /\ r.pc = to /\ r.read = Scan /\ r.name = task[t].name
  <1> DEFINE r == [task[t] EXCEPT !.pc = to, !.client = client, !.read = Scan]
  <1>1. task[t] \in Task /\ Sound(task[t], kind[t]) /\ to \in Places /\ Scan \in SUBSET Coords
    BY MissingTyped DEF TaskInv, Places
  <1>2. task' = [task EXCEPT ![t] = r]
    BY <1>1 DEF TaskInv, Task
  <1>3. r \in Task
    BY <1>1 DEF Task
  <1>4. /\ r.pc = to /\ r.read = Scan /\ r.name = task[t].name /\ r.dirty = task[t].dirty
        /\ r.data = task[t].data /\ r.tried = task[t].tried /\ r.bytes = task[t].bytes
    BY <1>1 DEF Task
  <1> HIDE DEF r
  <1>5. Sound(r, kind[t])
    BY <1>1, <1>4 DEF Sound
  <1>6. QED
    BY <1>2, <1>3, <1>4, <1>5 DEF Becomes

LEMMA RebuiltBecomes ==
    ASSUME TaskInv, NEW t \in Tasks, task[t].pc = "rebuilding",
           task' = [task EXCEPT ![t].pc = "requery", ![t].dirty = FALSE, ![t].read = {}]
    PROVE  \E r : Becomes(t, r) /\ r.pc = "requery" /\ r.name = task[t].name
  <1> DEFINE r == [task[t] EXCEPT !.pc = "requery", !.dirty = FALSE, !.read = {}]
  <1>1. task[t] \in Task /\ Sound(task[t], kind[t]) /\ "requery" \in Places
    BY DEF TaskInv, Places
  <1>2. task' = [task EXCEPT ![t] = r]
    BY <1>1 DEF TaskInv, Task
  <1>3. r \in Task
    BY <1>1 DEF Task
  <1>4. /\ r.pc = "requery" /\ r.name = task[t].name
        /\ r.data = task[t].data /\ r.tried = task[t].tried /\ r.bytes = task[t].bytes
    BY <1>1 DEF Task
  <1> HIDE DEF r
  <1>5. "requery" \in PlacesOf(kind[t])
    BY <1>1 DEF Sound, PlacesOf, LoopPlaces, Ahead, ToolPlaces
  <1>6. Sound(r, kind[t])
    BY <1>1, <1>4, <1>5 DEF Sound
  <1>7. QED
    BY <1>2, <1>3, <1>4, <1>6 DEF Becomes

\* An artifact of a download that failed.
LEMMA FailedBecomes ==
    ASSUME TaskInv, NEW t \in Tasks, task[t].pc \in {"fetch", "install pom", "install jar"}, Settled(t, FALSE)
    PROVE  /\ owed' = owed
           /\ \/ \E r : /\ Becomes(t, r) /\ r.pc = "next" /\ r.dirty = task[t].dirty /\ r.name = task[t].name
              \/ \E r : kind[t] = "test" /\ Becomes(t, r) /\ r.pc = "done" /\ r.name = 0
  <1>1. task[t] \in Task /\ Sound(task[t], kind[t]) /\ "next" \in Places /\ Launcher \in Coordinates /\ kind[t] \in Kinds
    BY DEF TaskInv, Places, Coordinates
  <1>2. CASE kind[t] = "test"
    <2>1. Done(t) /\ owed' = owed
      BY <1>2 DEF Settled
    <2>2. QED
      BY <1>2, <2>1, DoneBecomes
  <1>3. CASE kind[t] # "test"
    <2> DEFINE r == [task[t] EXCEPT !.pc = "next", !.coord = Launcher]
    <2>1. task' = [task EXCEPT ![t].pc = "next", ![t].coord = Launcher] /\ owed' = owed
      BY <1>3 DEF Settled
    <2>2. task' = [task EXCEPT ![t] = r]
      BY <1>1, <2>1 DEF TaskInv, Task
    <2>3. r \in Task
      BY <1>1 DEF Task
    <2>4. /\ r.pc = "next" /\ r.name = task[t].name /\ r.dirty = task[t].dirty /\ r.fresh = task[t].fresh
          /\ r.data = task[t].data /\ r.tried = task[t].tried /\ r.bytes = task[t].bytes
      BY <1>1 DEF Task
    <2> HIDE DEF r
    <2>5. "next" \in PlacesOf(kind[t])
      BY <1>1, <1>3 DEF Sound, PlacesOf, LoopPlaces, Ahead, ToolPlaces, Kinds
    <2>6. Sound(r, kind[t])
      BY <1>1, <2>4, <2>5 DEF Sound
    <2>7. QED
      BY <2>1, <2>2, <2>3, <2>4, <2>6 DEF Becomes
  <1>4. QED
    BY <1>2, <1>3

LEMMA SumOfSizes == \A x, y, z \in Nat : x + y + z \in Nat
  BY SMTT(60), Z3T(60)

\* One that is installed: the bytes it was allowed are counted.
LEMMA InstalledBecomes ==
    ASSUME TaskInv, NEW t \in Tasks, task[t].pc = "install jar", Settled(t, TRUE)
    PROVE  \/ /\ owed' = owed \cup {task[t].coord} /\ task[t].coord \in Coords
              /\ \E r : Becomes(t, r) /\ r.pc = "next" /\ r.dirty /\ r.name = task[t].name /\ kind[t] # "test"
           \/ /\ owed' = owed /\ kind[t] = "test"
              /\ \E r : Becomes(t, r) /\ r.pc = "group" /\ Alike(r, task[t])
  <1>1. task[t] \in Task /\ Sound(task[t], kind[t]) /\ Launcher \in Coordinates /\ kind[t] \in Kinds
        /\ {"next", "group"} \subseteq Places
    BY DEF TaskInv, Places, Coordinates
  <1>2. CASE kind[t] = "test"
    <2>1. Go(t, "group") /\ owed' = owed /\ "group" \in PlacesOf(kind[t])
      BY <1>2 DEF Settled, PlacesOf
    <2>2. \E r : Becomes(t, r) /\ r.pc = "group" /\ Alike(r, task[t])
      BY <1>1, <2>1, GoBecomes
    <2>3. QED
      BY <1>2, <2>1, <2>2
  <1>3. CASE kind[t] # "test"
    <2> DEFINE c == task[t].coord
               b == task[t].bytes + PomSize[c] + JarSize[c]
               r == [task[t] EXCEPT !.pc = "next", !.fresh = TRUE, !.dirty = TRUE, !.coord = Launcher, !.bytes = b]
    <2>1. /\ task' = [task EXCEPT ![t].pc = "next", ![t].fresh = TRUE, ![t].dirty = TRUE, ![t].coord = Launcher,
                                  ![t].bytes = @ + PomSize[c] + JarSize[c]]
          /\ owed' = owed \cup {c}
      BY <1>3 DEF Settled
    <2>2. task' = [task EXCEPT ![t] = r]
      BY <1>1, <2>1 DEF TaskInv, Task
    <2>3. c \in Coords /\ b <= MAX_TOTAL_BYTES_PER_INVOCATION
      BY <1>1, <1>3 DEF Sound
    <2>4. PomSize[c] \in Nat /\ JarSize[c] \in Nat /\ task[t].bytes \in Nat
      BY <1>1, <2>3, SizeAssumption DEF Task
    <2>5. b \in Nat
      BY <2>4, SumOfSizes
    <2> HIDE DEF b
    <2>6. r \in Task
      BY <1>1, <2>5 DEF Task
    <2>7. /\ r.pc = "next" /\ r.name = task[t].name /\ r.dirty
          /\ r.data = task[t].data /\ r.tried = task[t].tried /\ r.bytes = b
      BY <1>1 DEF Task
    <2> HIDE DEF r
    <2>8. "next" \in PlacesOf(kind[t])
      BY <1>1, <1>3 DEF Sound, PlacesOf, LoopPlaces, Ahead, ToolPlaces, Kinds
    <2>9. Sound(r, kind[t])
      BY <1>1, <2>3, <2>7, <2>8 DEF Sound
    <2>10. QED
      BY <1>3, <2>1, <2>2, <2>3, <2>6, <2>7, <2>9 DEF Becomes
  <1>4. QED
    BY <1>2, <1>3

\* A file that was fetched is the one its checksum confirms, and fits.
LEMMA Fetched ==
    ASSUME NEW a \in Answers, NEW size, NEW max, FetchVerifiedFile(a, size, max) # "failed"
    PROVE  FetchVerifiedFile(a, size, max) = "intact" /\ size <= max
  BY DEF FetchVerifiedFile

LEMMA FetchBecomes ==
    ASSUME TaskInv, NEW t \in Tasks, Fetch(t)
    PROVE  /\ owed' = owed
           /\ \/ \E r : /\ Becomes(t, r) /\ r.pc \in {"next", "install pom"} /\ r.dirty = task[t].dirty
                         /\ r.name = task[t].name
              \/ \E r : kind[t] = "test" /\ Becomes(t, r) /\ r.pc = "done" /\ r.name = 0
  <1>1. task[t] \in Task /\ Sound(task[t], kind[t]) /\ task[t].pc = "fetch" /\ kind[t] \in Kinds /\ "install pom" \in Places
    BY DEF TaskInv, Fetch, At, Places
  <1>2. CASE Settled(t, FALSE)
    <2>1. /\ owed' = owed
          /\ \/ \E r : /\ Becomes(t, r) /\ r.pc = "next" /\ r.dirty = task[t].dirty /\ r.name = task[t].name
             \/ \E r : kind[t] = "test" /\ Becomes(t, r) /\ r.pc = "done" /\ r.name = 0
      BY <1>1, <1>2, FailedBecomes
    <2>2. QED
      BY <2>1
  <1>3. CASE ~Settled(t, FALSE)
    <2> DEFINE c == task[t].coord
    <2>1. PICK a, b \in Answers :
             /\ FetchVerifiedFile(a, PomSize[c], Budget(t)) # "failed"
             /\ FetchVerifiedFile(b, JarSize[c], JarBudget(t)) # "failed"
             /\ task' = [task EXCEPT ![t].pc = "install pom",
                          ![t].data = IF "corrupt" \in {FetchVerifiedFile(a, PomSize[c], Budget(t)),
                                                        FetchVerifiedFile(b, JarSize[c], JarBudget(t))}
                                      THEN "corrupt" ELSE "intact"]
             /\ owed' = owed
      BY <1>3 DEF Fetch
    <2>2. /\ FetchVerifiedFile(a, PomSize[c], Budget(t)) = "intact"
          /\ FetchVerifiedFile(b, JarSize[c], JarBudget(t)) = "intact" /\ JarSize[c] <= JarBudget(t)
      BY <2>1, Fetched
    <2>3. task' = [task EXCEPT ![t].pc = "install pom", ![t].data = "intact"]
      BY <2>1, <2>2
    <2> DEFINE r == [task[t] EXCEPT !.pc = "install pom", !.data = "intact"]
    <2>4. task' = [task EXCEPT ![t] = r]
      BY <1>1, <2>3 DEF TaskInv, Task
    <2>5. r \in Task
      BY <1>1 DEF Task
    <2>6. /\ r.pc = "install pom" /\ r.name = task[t].name /\ r.dirty = task[t].dirty /\ r.fresh = task[t].fresh
          /\ r.data = "intact" /\ r.tried = task[t].tried /\ r.bytes = task[t].bytes /\ r.coord = c
      BY <1>1 DEF Task
    <2> HIDE DEF r
    <2>7. "install pom" \in PlacesOf(kind[t])
      BY <1>1 DEF Sound, PlacesOf, LoopPlaces, Ahead, ToolPlaces, Kinds
    <2>8. kind[t] # "test" => /\ c \in Coords
                             /\ task[t].bytes + PomSize[c] + JarSize[c] <= MAX_TOTAL_BYTES_PER_INVOCATION
      <3> SUFFICES ASSUME kind[t] # "test"
                   PROVE  /\ c \in Coords
                          /\ task[t].bytes + PomSize[c] + JarSize[c] <= MAX_TOTAL_BYTES_PER_INVOCATION
        OBVIOUS
      <3>1. c \in Coords
        BY <1>1 DEF Sound
      <3>2. PomSize[c] \in Nat /\ JarSize[c] \in Nat /\ task[t].bytes \in Nat
        BY <1>1, <3>1, SizeAssumption DEF Task
      <3>3. JarSize[c] <= MAX_TOTAL_BYTES_PER_INVOCATION - task[t].bytes - PomSize[c]
        BY <2>2 DEF JarBudget, Budget
      <3>4. QED
        BY <3>1, <3>2, <3>3, BoundAssumption, SMTT(60), Z3T(60)
    <2>9. Sound(r, kind[t])
      BY <1>1, <2>6, <2>7, <2>8 DEF Sound
    <2>10. QED
      BY <2>1, <2>4, <2>5, <2>6, <2>9 DEF Becomes
  <1>4. QED
    BY <1>2, <1>3

\* Installing one of the two files of an artifact.
LEMMA FileBecomes ==
    ASSUME TaskInv, NEW t \in Tasks, NEW n \in 1 .. 2, InstallVerifiedFile(t, n)
    PROVE  \/ /\ owed' = owed /\ m2' = m2
              /\ \/ \E r : /\ Becomes(t, r) /\ r.pc = "next" /\ r.dirty = task[t].dirty /\ r.name = task[t].name
                 \/ \E r : kind[t] = "test" /\ Becomes(t, r) /\ r.pc = "done" /\ r.name = 0
           \/ /\ task[t].pc = "install pom" /\ owed' = owed /\ m2' = [m2 EXCEPT ![task[t].coord]["pom"] = "intact"]
              /\ \E r : Becomes(t, r) /\ r.pc = "install jar" /\ Alike(r, task[t])
           \/ /\ task[t].pc = "install jar" /\ Settled(t, TRUE)
              /\ m2' = [m2 EXCEPT ![task[t].coord]["jar"] = "intact"]
  <1>1. task[t] \in Task /\ Sound(task[t], kind[t]) /\ kind[t] \in Kinds /\ "install jar" \in Places
    BY DEF TaskInv, Places
  <1>2. task[t].data = "intact"
    BY <1>1 DEF Sound
  <1>a. n = 1 \/ n = 2
    BY SMTT(60), Z3T(60)
  <1>b. /\ <<"install pom", "install jar">>[1] = "install pom" /\ <<"install pom", "install jar">>[2] = "install jar"
        /\ InstallOrder[2] = "jar"
    BY DEF InstallOrder
  <1>3. CASE Settled(t, FALSE) /\ m2' = m2
    <2>1. task[t].pc \in {"fetch", "install pom", "install jar"}
      BY <1>a, <1>b DEF InstallVerifiedFile, At
    <2>2. QED
      BY <1>3, <2>1, FailedBecomes
  <1>4. CASE n = 1 /\ ~(Settled(t, FALSE) /\ m2' = m2)
    <2>1. /\ task[t].pc = "install pom" /\ owed' = owed /\ m2' = [m2 EXCEPT ![task[t].coord]["pom"] = "intact"]
          /\ Go(t, "install jar")
      BY <1>2, <1>4 DEF InstallVerifiedFile, At, InstallOrder
    <2>2. "install jar" \in PlacesOf(kind[t])
      BY <1>1, <2>1 DEF Sound, PlacesOf, LoopPlaces, Ahead, ToolPlaces, Kinds
    <2>3. \E r : Becomes(t, r) /\ r.pc = "install jar" /\ Alike(r, task[t])
      BY <1>1, <2>1, <2>2, GoBecomes DEF Sound
    <2>4. QED
      BY <2>1, <2>3
  <1>5. CASE n = 2 /\ ~(Settled(t, FALSE) /\ m2' = m2)
    <2>1. /\ task[t].pc = "install jar" /\ Settled(t, TRUE)
          /\ m2' = [m2 EXCEPT ![task[t].coord]["jar"] = task[t].data]
      BY <1>5, <1>b DEF InstallVerifiedFile, At
    <2>2. QED
      BY <1>2, <2>1
  <1>6. QED
    BY <1>a, <1>3, <1>4, <1>5

\* A folder of a test run is started under a name of its own.
LEMMA GroupBecomes ==
    ASSUME TaskInv, GlobalInv, NEW t \in Tasks, StartGroup(t)
    PROVE  \/ /\ runCounter' = runCounter + 1 /\ session' = [session EXCEPT ![t] = "asked"]
              /\ \E r : Becomes(t, r) /\ r.pc = "starting" /\ r.name = runCounter + 1 /\ ~r.finished
           \/ /\ runCounter' = runCounter /\ session' = session
              /\ \E r : Becomes(t, r) /\ r.pc = "done" /\ r.name = 0
  <1>1. task[t] \in Task /\ Sound(task[t], kind[t]) /\ "starting" \in Places /\ task[t].pc = "group" /\ kind[t] \in Kinds
    BY DEF TaskInv, Places, StartGroup, At
  <1>2. CASE task[t].groups > 0 /\ ~task[t].cancelled
    <2> DEFINE r == [task[t] EXCEPT !.pc = "starting", !.groups = @ - 1, !.name = runCounter + 1, !.heard = FALSE,
                                    !.finished = FALSE]
    <2>1. /\ runCounter' = runCounter + 1 /\ session' = [session EXCEPT ![t] = "asked"]
          /\ task' = [task EXCEPT ![t].pc = "starting", ![t].groups = @ - 1, ![t].name = runCounter + 1,
                                  ![t].heard = FALSE, ![t].finished = FALSE]
      BY <1>2 DEF StartGroup
    <2>2. task' = [task EXCEPT ![t] = r]
      BY <1>1, <2>1 DEF TaskInv, Task
    <2>3. task[t].groups \in 0 .. Groups /\ runCounter \in Nat
      BY <1>1 DEF Task, GlobalInv
    <2>4. task[t].groups - 1 \in 0 .. Groups /\ runCounter + 1 \in Nat
      BY <1>2, <2>3, BoundAssumption, SMTT(60), Z3T(60)
    <2>5. r \in Task
      BY <1>1, <2>4 DEF Task
    <2>6. /\ r.pc = "starting" /\ r.name = runCounter + 1 /\ ~r.finished
          /\ r.data = task[t].data /\ r.tried = task[t].tried /\ r.bytes = task[t].bytes
      BY <1>1 DEF Task
    <2> HIDE DEF r
    <2>7. "starting" \in PlacesOf(kind[t])
      BY <1>1 DEF Sound, PlacesOf, LoopPlaces, Ahead, ToolPlaces, Kinds
    <2>8. Sound(r, kind[t])
      BY <1>1, <2>6, <2>7 DEF Sound
    <2>9. QED
      BY <2>1, <2>2, <2>5, <2>6, <2>8 DEF Becomes
  <1>3. CASE ~(task[t].groups > 0 /\ ~task[t].cancelled)
    BY <1>3, DoneBecomes DEF StartGroup, tests
  <1>4. QED
    BY <1>2, <1>3

\* A cancelled invocation is where it was.
LEMMA CancelBecomes ==
    ASSUME TaskInv, NEW t \in Tasks, Cancel(t)
    PROVE  \E r : /\ Becomes(t, r) /\ r.pc = task[t].pc /\ r.dirty = task[t].dirty /\ r.read = task[t].read
                  /\ r.name = task[t].name /\ r.coord = task[t].coord /\ r.cancelled
  <1> DEFINE f == task[t].finished \/ (task[t].pc \in {"starting", "wait"} /\ ~task[t].finished /\ ~task[t].heard)
             r == [task[t] EXCEPT !.cancelled = TRUE, !.finished = f]
  <1>1. task[t] \in Task /\ Sound(task[t], kind[t])
    BY DEF TaskInv
  <1>2. task' = [task EXCEPT ![t].cancelled = TRUE, ![t].finished = f]
    BY <1>1 DEF Cancel, TaskInv, Task
  <1>3. f \in BOOLEAN
    OBVIOUS
  <1> HIDE DEF f
  <1>4. task' = [task EXCEPT ![t] = r]
    BY <1>1, <1>2 DEF TaskInv, Task
  <1>5. r \in Task
    BY <1>1, <1>3 DEF Task
  <1>6. /\ r.pc = task[t].pc /\ r.dirty = task[t].dirty /\ r.read = task[t].read /\ r.mode = task[t].mode /\ r.fresh = task[t].fresh
        /\ r.name = task[t].name /\ r.coord = task[t].coord /\ r.cancelled
        /\ r.data = task[t].data /\ r.tried = task[t].tried /\ r.bytes = task[t].bytes
    BY <1>1 DEF Task
  <1> HIDE DEF r
  <1>7. Sound(r, kind[t])
    BY <1>1, <1>6 DEF Sound
  <1>8. QED
    BY <1>4, <1>5, <1>6, <1>7 DEF Becomes

-----------------------------------------------------------------------------
(***************************************************************************)
(* What a step does, as far as the invariants tell                         *)
(***************************************************************************)
\* Where the flag of downloads is held, and what is still to be rebuilt for.
Holds(k, pc) == (k = "manual" /\ pc \notin {"new", "done"}) \/ (k = "auto" /\ pc \in LoopPlaces)
Dirty(t) == (kind[t] # "test" /\ task[t].dirty /\ task[t].pc \in Ahead) \/ task[t].pc = "refresh"
RebuildPlaces == {"rebuilding", "finalizing", "refreshing"}
Rebuilding(t) == task[t].pc \in RebuildPlaces
Waits(r) == r.pc \in {"starting", "wait"}

Others(t) == \A u \in Tasks \ {t} : task'[u] = task[u] /\ session'[u] = session[u]

\* The files: none, the pom, the jar or both of one coordinate.
FileEffect(t) ==
    \/ /\ m2' = m2
       /\ task'[t].pc = "install jar" => task[t].pc = "install jar" /\ task'[t].coord = task[t].coord
    \/ /\ m2' = [m2 EXCEPT ![task[t].coord]["pom"] = "intact"] /\ task[t].coord \in Coordinates
       /\ task'[t].coord = task[t].coord
    \/ /\ m2' = [m2 EXCEPT ![task[t].coord]["jar"] = "intact"] /\ task[t].coord \in Coordinates
       /\ task[t].pc = "install jar" /\ task'[t].pc # "install jar"

\* The index: nothing of note, something owed, a rebuild sent, failed or
\* answered, or one that failed in the loop.
IndexEffect(t) ==
    \/ /\ (Rebuilding(t) <=> Rebuilding(t)') /\ task'[t].read = task[t].read /\ (Dirty(t) => Dirty(t)')
       /\ owed' = owed /\ Scan \subseteq Scan' /\ lost' = lost /\ indexed' \in {indexed, Classpath}
    \/ /\ ~Rebuilding(t) /\ ~Rebuilding(t)' /\ (Dirty(t) => Dirty(t)')
       /\ owed' = owed /\ Scan \subseteq Scan' /\ lost' = lost /\ indexed' \in {indexed, Classpath}
    \/ /\ ~Rebuilding(t)' /\ Dirty(t)' /\ owed' \subseteq owed \cup Scan' /\ Scan \subseteq Scan' /\ lost' = lost
    \/ /\ Rebuilding(t)' /\ task'[t].read = Scan /\ Scan' = Scan /\ owed' = owed
       /\ lost' = (lost \/ \E u \in Tasks \ {t} : Rebuilding(u))
    \/ lost' /\ owed' = owed /\ Scan' = Scan
    \/ /\ Rebuilding(t) /\ ~Rebuilding(t)' /\ ~Dirty(t) /\ indexed' = task[t].read /\ owed' = owed /\ Scan' = Scan
       /\ lost' = lost

\* A flag stays, is given back or is taken.
FlagEffect(held, held1, flag, flag1) ==
    \/ (held <=> held1) /\ flag1 = flag /\ (overlapped => overlapped')
    \/ held /\ ~held1 /\ ~flag1 /\ (overlapped => overlapped')
    \/ ~held /\ held1 /\ flag1 /\ (overlapped \/ flag => overlapped')
FlagEffects(t) ==
    /\ FlagEffect(Holds(kind[t], task[t].pc), Holds(kind[t], task'[t].pc), downloadInFlight, downloadInFlight')
    /\ FlagEffect(task[t].pc \in ToolPlaces, task'[t].pc \in ToolPlaces, installInFlight, installInFlight')

\* Waiting for a session: not, from now on, still or cancelled.
ReportEffect(t) ==
    \/ ~Waits(task'[t]) /\ task'[t].name \in {task[t].name, 0} /\ runCounter' = runCounter
    \/ task'[t].name = runCounter + 1 /\ ~task'[t].finished /\ runCounter' = runCounter + 1
    \/ /\ Waits(task[t]) /\ task'[t].name = task[t].name /\ runCounter' = runCounter
       /\ task'[t].cancelled \/ (/\ task'[t].finished = task[t].finished /\ task'[t].cancelled = task[t].cancelled
                                  /\ session'[t] = session[t])

Effect(t) ==
    /\ TaskInv' /\ GlobalInv' /\ Others(t) /\ kind' = kind
    /\ FileEffect(t) /\ IndexEffect(t) /\ FlagEffects(t) /\ ReportEffect(t)

LEMMA Become ==
    ASSUME TaskInv, NEW t \in Tasks, NEW r, Becomes(t, r), kind' = kind
    PROVE  TaskInv' /\ task'[t] = r /\ \A u \in Tasks \ {t} : task'[u] = task[u]
  <1>1. task' = [task EXCEPT ![t] = r] /\ r \in Task /\ Sound(r, kind[t]) /\ task \in [Tasks -> Task]
    BY DEF Becomes, TaskInv
  <1>2. task' \in [Tasks -> Task] /\ task'[t] = r /\ \A u \in Tasks \ {t} : task'[u] = task[u]
    BY <1>1
  <1>3. \A u \in Tasks : Sound(task'[u], kind'[u])
    BY <1>1, <1>2 DEF TaskInv
  <1>4. (\A u \in Tasks : Sound(task[u], kind[u]))'
    BY <1>3 DEF Sound
  <1>5. QED
    BY <1>1, <1>2, <1>4 DEF TaskInv

\* Moves between places that differ in nothing the invariants tell.
Calm(k, p, q, dirty) ==
    /\ Holds(k, p) <=> Holds(k, q)
    /\ (p \in ToolPlaces) <=> (q \in ToolPlaces)
    /\ p \notin RebuildPlaces /\ q \notin RebuildPlaces /\ p # "refresh" /\ q \notin {"install jar", "starting", "wait"}
    /\ k # "test" /\ p \in Ahead /\ dirty => q \in Ahead

LEMMA CalmEffect ==
    ASSUME TaskInv, GlobalInv, NEW t \in Tasks, NEW r, Becomes(t, r), Calm(kind[t], task[t].pc, r.pc, task[t].dirty),
           \/ r.dirty = task[t].dirty /\ r.name = task[t].name
           \/ r.name = 0 /\ (kind[t] = "test" \/ task[t].pc \notin Ahead \/ ~task[t].dirty),
           trusted' \in BOOLEAN, UNCHANGED <<kind, flags, server, m2, child, tests, owed>>
    PROVE  Effect(t)
  <1>1. TaskInv' /\ task'[t] = r /\ \A u \in Tasks \ {t} : task'[u] = task[u]
    BY Become
  <1>2. GlobalInv'
    BY DEF GlobalInv, flags, server, tests
  <1>3. Others(t)
    BY <1>1 DEF Others, tests
  <1>4. FileEffect(t)
    BY <1>1 DEF FileEffect, Calm
  <1>5. ReportEffect(t)
    BY <1>1 DEF ReportEffect, Calm, Waits, tests
  <1>6. FlagEffects(t)
    BY <1>1 DEF FlagEffects, FlagEffect, Calm, flags
  <1>7. IndexEffect(t)
    <2>1. Scan' = Scan /\ lost' = lost /\ owed' = owed /\ indexed' = indexed
      BY DEF Scan, server
    <2>2. ~Rebuilding(t) /\ ~Rebuilding(t)' /\ (Dirty(t) => Dirty(t)')
      BY <1>1 DEF Rebuilding, Dirty, Calm
    <2>3. QED
      BY <2>1, <2>2 DEF IndexEffect
  <1>8. QED
    BY <1>1, <1>2, <1>3, <1>4, <1>5, <1>6, <1>7 DEF Effect

LEMMA PlaceOf ==
    ASSUME TaskInv, NEW t \in Tasks
    PROVE  task[t] \in Task /\ Sound(task[t], kind[t]) /\ task[t].pc \in PlacesOf(kind[t]) /\ kind[t] \in Kinds
  BY DEF TaskInv, Sound

LEMMA StartRoundEffect == ASSUME TaskInv, GlobalInv, NEW t \in Tasks, StartRound(t) PROVE Effect(t)
  <1>1. task[t].pc = "round" /\ kind[t] \in {"manual", "auto"}
    BY PlaceOf DEF StartRound, At, PlacesOf, LoopPlaces, Ahead, ToolPlaces, Kinds
  <1>2. PICK r : Becomes(t, r) /\ r.pc \in {"next", "wrap"} /\ r.dirty = task[t].dirty /\ r.name = task[t].name
    BY <1>1, RoundBecomes
  <1>3. Calm(kind[t], task[t].pc, r.pc, task[t].dirty)
    BY <1>1, <1>2 DEF Calm, Holds, LoopPlaces, Ahead, ToolPlaces, RebuildPlaces
  <1>4. QED
    BY <1>2, <1>3, CalmEffect DEF StartRound, GlobalInv, user

LEMMA FetchEffect == ASSUME TaskInv, GlobalInv, NEW t \in Tasks, Fetch(t) PROVE Effect(t)
  <1>1. task[t].pc = "fetch" /\ kind[t] \in {"manual", "auto", "test"}
    BY PlaceOf DEF Fetch, At, PlacesOf, LoopPlaces, Ahead, ToolPlaces, Kinds
  <1>2. UNCHANGED <<user, flags, server, m2, child, tests, owed>>
    BY FetchBecomes DEF Fetch
  <1>3. CASE \E r : /\ Becomes(t, r) /\ r.pc \in {"next", "install pom"} /\ r.dirty = task[t].dirty /\ r.name = task[t].name
    <2>1. PICK r : Becomes(t, r) /\ r.pc \in {"next", "install pom"} /\ r.dirty = task[t].dirty /\ r.name = task[t].name
      BY <1>3
    <2>2. Calm(kind[t], task[t].pc, r.pc, task[t].dirty)
      BY <1>1, <2>1 DEF Calm, Holds, LoopPlaces, Ahead, ToolPlaces, RebuildPlaces
    <2>3. QED
      BY <1>2, <2>1, <2>2, CalmEffect DEF GlobalInv, user
  <1>4. CASE \E r : kind[t] = "test" /\ Becomes(t, r) /\ r.pc = "done" /\ r.name = 0
    <2>1. PICK r : kind[t] = "test" /\ Becomes(t, r) /\ r.pc = "done" /\ r.name = 0
      BY <1>4
    <2>2. Calm(kind[t], task[t].pc, r.pc, task[t].dirty)
      BY <1>1, <2>1 DEF Calm, Holds, LoopPlaces, Ahead, ToolPlaces, RebuildPlaces
    <2>3. QED
      BY <1>2, <2>1, <2>2, CalmEffect DEF GlobalInv, user
  <1>5. QED
    BY <1>3, <1>4, FetchBecomes

LEMMA RunTestsEffect == ASSUME TaskInv, GlobalInv, NEW t \in Tasks, RunTests(t) PROVE Effect(t)
  <1>1. PICK r : Becomes(t, r) /\ r.pc = "launcher" /\ r.name = 0
    BY TestsBecomes
  <1>2. Calm(kind[t], task[t].pc, r.pc, task[t].dirty) /\ kind[t] = "test"
    BY <1>1 DEF RunTests, Starts, At, Calm, Holds, LoopPlaces, Ahead, ToolPlaces, RebuildPlaces
  <1>3. QED
    BY <1>1, <1>2, CalmEffect DEF RunTests, GlobalInv, user

LEMMA EnsureLauncherEffect == ASSUME TaskInv, GlobalInv, NEW t \in Tasks, EnsureLauncher(t) PROVE Effect(t)
  <1>1. task[t].pc = "launcher" /\ kind[t] = "test"
    BY PlaceOf DEF EnsureLauncher, At, PlacesOf, LoopPlaces, Ahead, ToolPlaces, Kinds
  <1>2. {"group", "fetch"} \subseteq PlacesOf(kind[t]) \cap Places
    BY <1>1 DEF PlacesOf, Places
  <1>3. ASSUME NEW pc \in {"group", "fetch"}, Go(t, pc) PROVE Effect(t)
    <2>1. PICK r : Becomes(t, r) /\ r.pc = pc /\ Alike(r, task[t])
      BY <1>1, <1>2, <1>3, GoBecomes
    <2>2. Calm(kind[t], task[t].pc, r.pc, task[t].dirty)
      BY <1>1, <1>3, <2>1 DEF Calm, Holds, LoopPlaces, Ahead, ToolPlaces, RebuildPlaces
    <2>3. QED
      BY <2>1, <2>2, CalmEffect DEF Alike, EnsureLauncher, GlobalInv, user
  <1>4. CASE Done(t)
    <2>1. PICK r : Becomes(t, r) /\ r.pc = "done" /\ r.name = 0
      BY <1>4, DoneBecomes
    <2>2. Calm(kind[t], task[t].pc, r.pc, task[t].dirty)
      BY <1>1, <2>1 DEF Calm, Holds, LoopPlaces, Ahead, ToolPlaces, RebuildPlaces
    <2>3. QED
      BY <1>1, <2>1, <2>2, CalmEffect DEF EnsureLauncher, GlobalInv, user
  <1>5. QED
    BY <1>3, <1>4 DEF EnsureLauncher

\* Steps that leave the files and the sessions alone.
LEMMA PlainEffect ==
    ASSUME TaskInv, GlobalInv, GlobalInv', NEW t \in Tasks, NEW r, Becomes(t, r), UNCHANGED <<kind, m2, tests>>,
           r.pc \notin {"install jar", "starting", "wait"}, r.name \in {task[t].name, 0},
           FlagEffect(Holds(kind[t], task[t].pc), Holds(kind[t], r.pc), downloadInFlight, downloadInFlight'),
           FlagEffect(task[t].pc \in ToolPlaces, r.pc \in ToolPlaces, installInFlight, installInFlight'),
           IndexEffect(t)
    PROVE  Effect(t)
  <1>1. TaskInv' /\ task'[t] = r /\ \A u \in Tasks \ {t} : task'[u] = task[u]
    BY Become
  <1>2. Others(t)
    BY <1>1 DEF Others, tests
  <1>3. FileEffect(t) /\ ReportEffect(t)
    BY <1>1 DEF FileEffect, ReportEffect, Waits, tests
  <1>4. FlagEffects(t)
    BY <1>1 DEF FlagEffects
  <1>5. QED
    BY <1>1, <1>2, <1>3, <1>4 DEF Effect

\* Steps that leave the index alone as well.
LEMMA IndexAside ==
    ASSUME TaskInv, NEW t \in Tasks, NEW r, Becomes(t, r), UNCHANGED <<kind, m2, lost, owed>>,
           indexed' \in {indexed, Classpath}, task[t].pc \notin RebuildPlaces, r.pc \notin RebuildPlaces,
           task[t].pc # "refresh",
           \/ kind[t] = "test" \/ task[t].pc \notin Ahead \/ ~task[t].dirty
           \/ r.dirty = task[t].dirty /\ r.pc \in Ahead
    PROVE  IndexEffect(t)
  <1>1. TaskInv' /\ task'[t] = r
    BY Become
  <1>2. Scan' = Scan
    BY DEF Scan
  <1>3. ~Rebuilding(t) /\ ~Rebuilding(t)' /\ (Dirty(t) => Dirty(t)')
    BY <1>1 DEF Rebuilding, Dirty
  <1>4. QED
    BY <1>2, <1>3 DEF IndexEffect

LEMMA DownloadDependenciesEffect == ASSUME TaskInv, GlobalInv, NEW t \in Tasks, DownloadDependencies(t) PROVE Effect(t)
  <1>1. PICK r : Becomes(t, r) /\ r.pc = "query" /\ r.name = 0
    BY DownloadBecomes
  <1>2. task[t].pc = "new" /\ kind[t] = "manual" /\ ~downloadInFlight /\ downloadInFlight'
        /\ UNCHANGED <<kind, trusted, installInFlight, overlapped, gen, indexed, lost, m2, child, tests, owed>>
    BY DEF DownloadDependencies, Starts, At, user, server
  <1>3. GlobalInv'
    BY <1>2 DEF DownloadDependencies, GlobalInv, tests
  <1>4. IndexEffect(t)
    BY <1>1, <1>2, IndexAside DEF RebuildPlaces, Ahead
  <1>5. /\ FlagEffect(Holds(kind[t], task[t].pc), Holds(kind[t], r.pc), downloadInFlight, downloadInFlight')
        /\ FlagEffect(task[t].pc \in ToolPlaces, r.pc \in ToolPlaces, installInFlight, installInFlight')
    BY <1>1, <1>2 DEF FlagEffect, Holds, ToolPlaces
  <1>6. QED
    BY <1>1, <1>2, <1>3, <1>4, <1>5, PlainEffect

LEMMA FirstDiagnosticsEffect == ASSUME TaskInv, GlobalInv, NEW t \in Tasks, FirstDiagnostics(t) PROVE Effect(t)
  <1>1. PICK r : Becomes(t, r) /\ r.pc \in {"query", "done"} /\ r.name = 0
    BY DiagnosticsBecomes
  <1>2. Calm(kind[t], task[t].pc, r.pc, task[t].dirty) /\ task[t].pc \notin Ahead
    BY <1>1 DEF FirstDiagnostics, At, Calm, Holds, LoopPlaces, Ahead, ToolPlaces, RebuildPlaces
  <1>3. UNCHANGED <<user, flags, server, m2, child, tests, owed>>
    BY DEF FirstDiagnostics
  <1>4. QED
    BY <1>1, <1>2, <1>3, CalmEffect DEF GlobalInv, user

\* An invocation that ends outside of the places with something to rebuild
\* for gives back what it holds.
LEMMA EndEffect ==
    ASSUME TaskInv, GlobalInv, GlobalInv', NEW t \in Tasks, Done(t), UNCHANGED <<kind, m2, tests, lost, owed, overlapped>>,
           indexed' \in {indexed, Classpath}, task[t].pc \notin RebuildPlaces, task[t].pc # "refresh", task[t].pc # "done",
           task[t].pc \notin Ahead \/ ~task[t].dirty,
           IF Holds(kind[t], task[t].pc) THEN downloadInFlight' = FALSE ELSE downloadInFlight' = downloadInFlight,
           IF task[t].pc \in ToolPlaces THEN installInFlight' = FALSE ELSE installInFlight' = installInFlight
    PROVE  Effect(t)
  <1>1. PICK r : Becomes(t, r) /\ r.pc = "done" /\ r.name = 0
    BY DoneBecomes
  <1>2. IndexEffect(t)
    BY <1>1, IndexAside DEF RebuildPlaces, Ahead
  <1>3. ~Holds(kind[t], r.pc) /\ r.pc \notin ToolPlaces
    BY <1>1 DEF Holds, LoopPlaces, Ahead, ToolPlaces
  <1>4. /\ FlagEffect(Holds(kind[t], task[t].pc), Holds(kind[t], r.pc), downloadInFlight, downloadInFlight')
        /\ FlagEffect(task[t].pc \in ToolPlaces, r.pc \in ToolPlaces, installInFlight, installInFlight')
    BY <1>3 DEF FlagEffect
  <1>5. QED
    BY <1>1, <1>2, <1>4, PlainEffect

\* A download that is agreed to without the command takes the flag.
LEMMA ProactiveEffect ==
    ASSUME TaskInv, GlobalInv, NEW t \in Tasks, NEW P \in SUBSET Coords, BeginProactively(t, P), kind[t] = "auto",
           task[t].pc \in {"query", "prompt", "persisting"}, indexed' \in {indexed, Classpath},
           UNCHANGED <<user, installInFlight, gen, lost, m2, child, tests, owed>>
    PROVE  Effect(t)
  <1>0. "round" \in PlacesOf(kind[t])
    BY DEF PlacesOf, LoopPlaces, Ahead
  <1>1. PICK r : Becomes(t, r) /\ r.pc = "round" /\ Alike(r, task[t])
    BY <1>0, PendingBecomes DEF BeginProactively
  <1>2. overlapped' = (overlapped \/ downloadInFlight) /\ downloadInFlight' = TRUE /\ kind' = kind /\ trusted' = trusted
    BY DEF BeginProactively, user
  <1>3. GlobalInv'
    <2>1. indexed' = Unbuilt \/ indexed' \subseteq Coords
      BY MissingTyped DEF GlobalInv
    <2>2. overlapped' \in BOOLEAN
      BY <1>2
    <2>3. QED
      BY <1>2, <2>1, <2>2 DEF GlobalInv, tests
  <1>4. IndexEffect(t)
    BY <1>1, <1>2, IndexAside DEF RebuildPlaces, Ahead
  <1>5. /\ FlagEffect(Holds(kind[t], task[t].pc), Holds(kind[t], r.pc), downloadInFlight, downloadInFlight')
        /\ FlagEffect(task[t].pc \in ToolPlaces, r.pc \in ToolPlaces, installInFlight, installInFlight')
    <2>1. ~Holds(kind[t], task[t].pc) /\ Holds(kind[t], r.pc) /\ task[t].pc \notin ToolPlaces /\ r.pc \notin ToolPlaces
      BY <1>1 DEF Holds, ToolPlaces, LoopPlaces, Ahead
    <2>2. QED
      BY <1>2, <2>1 DEF FlagEffect
  <1>6. QED
    BY <1>1, <1>2, <1>3, <1>4, <1>5, PlainEffect DEF Alike

\* EndQuietly, where the flag is held exactly by the command.
LEMMA QuietEffect ==
    ASSUME TaskInv, GlobalInv, NEW t \in Tasks, EndQuietly(t), GlobalInv', UNCHANGED <<kind, m2, tests, lost, owed, overlapped>>,
           indexed' \in {indexed, Classpath}, task[t].pc \in {"query", "offer", "consent", "confirm", "tool"},
           IF task[t].pc \in ToolPlaces THEN installInFlight' = FALSE ELSE installInFlight' = installInFlight
    PROVE  Effect(t)
  <1>1. Holds(kind[t], task[t].pc) <=> kind[t] = "manual"
    BY DEF Holds, LoopPlaces, Ahead
  <1>2. Done(t) /\ IF Holds(kind[t], task[t].pc) THEN downloadInFlight' = FALSE ELSE downloadInFlight' = downloadInFlight
    BY <1>1 DEF EndQuietly, EndDownload
  <1>3. task[t].pc \notin RebuildPlaces /\ task[t].pc \notin Ahead
    BY DEF RebuildPlaces, Ahead
  <1>4. QED
    BY <1>2, <1>3, EndEffect

\* Moves that change no flag, and the index at most to what a query builds.
LEMMA MoveEffect ==
    ASSUME TaskInv, GlobalInv, NEW t \in Tasks, NEW r, Becomes(t, r), Alike(r, task[t]),
           Calm(kind[t], task[t].pc, r.pc, task[t].dirty), indexed' \in {indexed, Classpath},
           UNCHANGED <<user, flags, gen, lost, m2, child, tests, owed>>
    PROVE  Effect(t)
  <1>1. GlobalInv'
    <2>1. indexed' = Unbuilt \/ indexed' \subseteq Coords
      BY MissingTyped DEF GlobalInv
    <2>2. QED
      BY <2>1 DEF GlobalInv, tests, user, flags
  <1>2. IndexEffect(t)
    BY IndexAside DEF Calm, Alike, user
  <1>3. /\ FlagEffect(Holds(kind[t], task[t].pc), Holds(kind[t], r.pc), downloadInFlight, downloadInFlight')
        /\ FlagEffect(task[t].pc \in ToolPlaces, r.pc \in ToolPlaces, installInFlight, installInFlight')
    BY DEF FlagEffect, Calm, flags
  <1>4. r.pc \notin {"install jar", "starting", "wait"} /\ r.name \in {task[t].name, 0}
    BY DEF Calm, Alike
  <1>5. QED
    BY <1>1, <1>2, <1>3, <1>4, PlainEffect DEF user

LEMMA QueryEffect == ASSUME TaskInv, GlobalInv, NEW t \in Tasks, Query(t) PROVE Effect(t)
  <1>1. task[t].pc = "query" /\ kind[t] \in {"manual", "auto"}
    BY PlaceOf DEF Query, QueryFails, QueryMissing, At, PlacesOf, LoopPlaces, Ahead, ToolPlaces, Kinds
  <1>2. UNCHANGED <<user, installInFlight, gen, lost, m2, child, tests, owed>> /\ indexed' \in {indexed, Classpath}
    BY DEF Query, QueryFails, QueryMissing
  <1>3. (indexed' = Unbuilt \/ indexed' \subseteq Coords) /\ Missing \in SUBSET Coords
    BY <1>2, MissingTyped DEF GlobalInv
  <1>4. CASE EndQuietly(t) /\ overlapped' = overlapped
    <2>1. downloadInFlight' \in BOOLEAN
      BY <1>4 DEF EndQuietly, EndDownload, GlobalInv
    <2>2. GlobalInv'
      BY <1>2, <1>3, <1>4, <2>1 DEF GlobalInv, user, tests
    <2>3. task[t].pc \notin ToolPlaces
      BY <1>1 DEF ToolPlaces
    <2>4. QED
      BY <1>1, <1>2, <1>4, <2>2, <2>3, QuietEffect DEF user
  <1>5. CASE Go(t, "offer") /\ UNCHANGED flags /\ kind[t] = "manual"
    <2>1. "offer" \in PlacesOf(kind[t]) \cap Places
      BY <1>5 DEF PlacesOf, Places
    <2>2. PICK r : Becomes(t, r) /\ r.pc = "offer" /\ Alike(r, task[t])
      BY <1>5, <2>1, GoBecomes
    <2>3. Calm(kind[t], task[t].pc, r.pc, task[t].dirty)
      BY <1>1, <1>5, <2>2 DEF Calm, Holds, LoopPlaces, Ahead, ToolPlaces, RebuildPlaces
    <2>4. QED
      BY <1>2, <1>5, <2>2, <2>3, MoveEffect
  <1>6. CASE BeginProactively(t, Missing) /\ kind[t] = "auto"
    BY <1>1, <1>2, <1>3, <1>6, ProactiveEffect
  <1>7. ASSUME NEW pc, pc = IF kind[t] = "manual" THEN "consent" ELSE "prompt", UNCHANGED flags,
               task' = [task EXCEPT ![t].pc = pc, ![t].pending = Missing]
        PROVE  Effect(t)
    <2>1. pc \in {"round", "consent", "prompt"} \cap PlacesOf(kind[t])
      BY <1>1, <1>7 DEF PlacesOf
    <2>2. PICK r : Becomes(t, r) /\ r.pc = pc /\ Alike(r, task[t])
      BY <1>3, <1>7, <2>1, PendingBecomes
    <2>3. Calm(kind[t], task[t].pc, r.pc, task[t].dirty)
      BY <1>1, <1>7, <2>2 DEF Calm, Holds, LoopPlaces, Ahead, ToolPlaces, RebuildPlaces
    <2>4. QED
      BY <1>2, <1>7, <2>2, <2>3, MoveEffect
  <1>8. task[t].mode = "always" => kind[t] = "auto"
    BY <1>1, PlaceOf DEF Sound
  <1>9. QED
    BY <1>1, <1>2, <1>4, <1>5, <1>6, <1>7, <1>8 DEF Query, QueryFails, QueryMissing, flags

LEMMA ConsentEffect == ASSUME TaskInv, GlobalInv, NEW t \in Tasks, ConfirmDownloadConsent(t) PROVE Effect(t)
  <1>1. task[t].pc = "consent" /\ kind[t] = "manual"
    BY PlaceOf DEF ConfirmDownloadConsent, At, PlacesOf, LoopPlaces, Ahead, ToolPlaces, Kinds
  <1>2. UNCHANGED <<user, installInFlight, overlapped, server, m2, child, tests, owed>>
    BY DEF ConfirmDownloadConsent
  <1>3. CASE EndDownload(t)
    <2>1. GlobalInv'
      BY <1>2, <1>3 DEF EndDownload, GlobalInv, user, server, tests
    <2>2. EndQuietly(t) /\ task[t].pc \notin ToolPlaces
      BY <1>1, <1>3 DEF EndQuietly, ToolPlaces
    <2>3. QED
      BY <1>1, <1>2, <2>1, <2>2, QuietEffect DEF user, server
  <1>4. CASE Go(t, "round") /\ UNCHANGED downloadInFlight
    <2>1. "round" \in PlacesOf(kind[t]) \cap Places
      BY <1>1 DEF PlacesOf, Places, LoopPlaces, Ahead
    <2>2. PICK r : Becomes(t, r) /\ r.pc = "round" /\ Alike(r, task[t])
      BY <1>4, <2>1, GoBecomes
    <2>3. Calm(kind[t], task[t].pc, r.pc, task[t].dirty)
      BY <1>1, <2>2 DEF Calm, Holds, LoopPlaces, Ahead, ToolPlaces, RebuildPlaces
    <2>4. QED
      BY <1>2, <1>4, <2>2, <2>3, MoveEffect DEF server, flags
  <1>5. QED
    BY <1>3, <1>4 DEF ConfirmDownloadConsent

LEMMA AnswerPromptEffect == ASSUME TaskInv, GlobalInv, NEW t \in Tasks, AnswerPrompt(t) PROVE Effect(t)
  <1>1. task[t].pc = "prompt" /\ kind[t] = "auto" /\ task[t].pending \in SUBSET Coords
    BY PlaceOf DEF AnswerPrompt, At, PlacesOf, LoopPlaces, Ahead, ToolPlaces, Kinds, Task
  <1>2. UNCHANGED <<user, server, m2, child, tests, owed>>
    BY DEF AnswerPrompt
  <1>3. CASE Done(t) /\ UNCHANGED flags
    <2>1. PICK r : Becomes(t, r) /\ r.pc = "done" /\ r.name = 0
      BY <1>3, DoneBecomes
    <2>2. Calm(kind[t], task[t].pc, r.pc, task[t].dirty) /\ task[t].pc \notin Ahead
      BY <1>1, <2>1 DEF Calm, Holds, LoopPlaces, Ahead, ToolPlaces, RebuildPlaces
    <2>3. QED
      BY <1>2, <1>3, <2>1, <2>2, CalmEffect DEF GlobalInv, user
  <1>4. CASE Go(t, "persisting") /\ UNCHANGED flags
    <2>1. "persisting" \in PlacesOf(kind[t]) \cap Places
      BY <1>1 DEF PlacesOf, Places
    <2>2. PICK r : Becomes(t, r) /\ r.pc = "persisting" /\ Alike(r, task[t])
      BY <1>4, <2>1, GoBecomes
    <2>3. Calm(kind[t], task[t].pc, r.pc, task[t].dirty)
      BY <1>1, <2>2 DEF Calm, Holds, LoopPlaces, Ahead, ToolPlaces, RebuildPlaces
    <2>4. QED
      BY <1>2, <1>4, <2>2, <2>3, MoveEffect DEF server
  <1>5. CASE BeginProactively(t, task[t].pending) /\ UNCHANGED installInFlight
    BY <1>1, <1>2, <1>5, ProactiveEffect DEF server
  <1>6. QED
    BY <1>3, <1>4, <1>5 DEF AnswerPrompt

LEMMA PersistedEffect == ASSUME TaskInv, GlobalInv, NEW t \in Tasks, Persisted(t) PROVE Effect(t)
  <1>1. task[t].pc = "persisting" /\ kind[t] = "auto" /\ task[t].pending \in SUBSET Coords
    BY PlaceOf DEF Persisted, At, PlacesOf, LoopPlaces, Ahead, ToolPlaces, Kinds, Task
  <1>2. QED
    BY <1>1, ProactiveEffect DEF Persisted, server

LEMMA InstallDependenciesEffect == ASSUME TaskInv, GlobalInv, NEW t \in Tasks, InstallDependencies(t) PROVE Effect(t)
  <1>1. task[t].pc = "new" /\ kind[t] = "install"
    BY DEF InstallDependencies, Starts, At
  <1>2. "confirm" \in PlacesOf(kind[t]) \cap Places
    BY <1>1 DEF PlacesOf, Places
  <1>3. PICK r : Becomes(t, r) /\ r.pc = "confirm" /\ Alike(r, task[t])
    BY <1>2, GoBecomes DEF InstallDependencies
  <1>4. Calm(kind[t], task[t].pc, r.pc, task[t].dirty)
    BY <1>1, <1>3 DEF Calm, Holds, LoopPlaces, Ahead, ToolPlaces, RebuildPlaces
  <1>5. QED
    BY <1>3, <1>4, MoveEffect DEF InstallDependencies, server

LEMMA AnswerOfferEffect == ASSUME TaskInv, GlobalInv, NEW t \in Tasks, AnswerOffer(t) PROVE Effect(t)
  <1>1. task[t].pc = "offer" /\ kind[t] = "manual"
    BY PlaceOf DEF AnswerOffer, At, PlacesOf, LoopPlaces, Ahead, ToolPlaces, Kinds
  <1>2. UNCHANGED <<user, installInFlight, overlapped, server, m2, child, tests, owed>>
    BY DEF AnswerOffer
  <1>3. CASE EndDownload(t)
    <2>1. GlobalInv'
      BY <1>2, <1>3 DEF EndDownload, GlobalInv, user, server, tests
    <2>2. EndQuietly(t) /\ task[t].pc \notin ToolPlaces
      BY <1>1, <1>3 DEF EndQuietly, ToolPlaces
    <2>3. QED
      BY <1>1, <1>2, <2>1, <2>2, QuietEffect DEF user, server
  <1>4. CASE Go(t, "confirm") /\ UNCHANGED downloadInFlight
    <2>1. "confirm" \in PlacesOf(kind[t]) \cap Places
      BY <1>1 DEF PlacesOf, Places
    <2>2. PICK r : Becomes(t, r) /\ r.pc = "confirm" /\ Alike(r, task[t])
      BY <1>4, <2>1, GoBecomes
    <2>3. Calm(kind[t], task[t].pc, r.pc, task[t].dirty)
      BY <1>1, <2>2 DEF Calm, Holds, LoopPlaces, Ahead, ToolPlaces, RebuildPlaces
    <2>4. QED
      BY <1>2, <1>4, <2>2, <2>3, MoveEffect DEF server, flags
  <1>5. QED
    BY <1>3, <1>4 DEF AnswerOffer

LEMMA ConfirmEffect == ASSUME TaskInv, GlobalInv, NEW t \in Tasks, Confirm(t) PROVE Effect(t)
  <1>1. task[t].pc = "confirm" /\ kind[t] \in {"manual", "install"}
    BY PlaceOf DEF Confirm, At, PlacesOf, LoopPlaces, Ahead, ToolPlaces, Kinds
  <1>2. UNCHANGED <<user, server, m2, tests, owed>>
    BY DEF Confirm
  <1>3. CASE EndQuietly(t) /\ UNCHANGED <<child, overlapped, installInFlight>>
    <2>1. downloadInFlight' \in BOOLEAN
      BY <1>3 DEF EndQuietly, EndDownload, GlobalInv
    <2>2. GlobalInv'
      BY <1>2, <1>3, <2>1 DEF GlobalInv, user, tests, server
    <2>3. task[t].pc \notin ToolPlaces
      BY <1>1 DEF ToolPlaces
    <2>4. QED
      BY <1>1, <1>2, <1>3, <2>2, <2>3, QuietEffect DEF user, server
  <1>4. CASE /\ Go(t, "tool") /\ child' = [child EXCEPT ![t] = "running"]
             /\ overlapped' = (overlapped \/ installInFlight) /\ installInFlight' = TRUE
             /\ UNCHANGED downloadInFlight
    <2>1. "tool" \in PlacesOf(kind[t]) \cap Places
      BY <1>1 DEF PlacesOf, Places, ToolPlaces
    <2>2. PICK r : Becomes(t, r) /\ r.pc = "tool" /\ Alike(r, task[t])
      BY <1>4, <2>1, GoBecomes
    <2>3. GlobalInv'
      <3>1. overlapped' \in BOOLEAN
        BY <1>4
      <3>2. QED
        BY <1>2, <1>4, <3>1 DEF GlobalInv, user, tests, server
    <2>4. IndexEffect(t)
      BY <1>1, <1>2, <2>2, IndexAside DEF RebuildPlaces, Ahead, user, server
    <2>5. /\ Holds(kind[t], task[t].pc) <=> Holds(kind[t], r.pc)
          /\ task[t].pc \notin ToolPlaces /\ r.pc \in ToolPlaces
      BY <1>1, <2>2 DEF Holds, ToolPlaces, LoopPlaces, Ahead
    <2>6. /\ FlagEffect(Holds(kind[t], task[t].pc), Holds(kind[t], r.pc), downloadInFlight, downloadInFlight')
          /\ FlagEffect(task[t].pc \in ToolPlaces, r.pc \in ToolPlaces, installInFlight, installInFlight')
      BY <1>4, <2>5 DEF FlagEffect
    <2>7. QED
      BY <1>2, <2>2, <2>3, <2>4, <2>6, PlainEffect DEF Alike, user
  <1>5. QED
    BY <1>3, <1>4 DEF Confirm

LEMMA WrapUpEffect == ASSUME TaskInv, GlobalInv, NEW t \in Tasks, WrapUp(t) PROVE Effect(t)
  <1>1. task[t].pc = "wrap" /\ kind[t] \in {"manual", "auto"}
    BY PlaceOf DEF WrapUp, At, PlacesOf, LoopPlaces, Ahead, ToolPlaces, Kinds
  <1>2. UNCHANGED <<user, installInFlight, overlapped, server, m2, child, tests, owed>>
    BY DEF WrapUp
  <1>3. CASE EndDownload(t) /\ ~task[t].dirty
    <2>1. GlobalInv'
      BY <1>2, <1>3 DEF EndDownload, GlobalInv, user, server, tests
    <2>2. Holds(kind[t], task[t].pc) /\ task[t].pc \notin ToolPlaces /\ task[t].pc \notin RebuildPlaces
      BY <1>1 DEF Holds, ToolPlaces, LoopPlaces, Ahead, RebuildPlaces
    <2>3. QED
      BY <1>1, <1>2, <1>3, <2>1, <2>2, EndEffect DEF user, server, EndDownload
  <1>4. CASE Go(t, "final") /\ UNCHANGED downloadInFlight
    <2>1. "final" \in PlacesOf(kind[t]) \cap Places
      BY <1>1 DEF PlacesOf, Places, LoopPlaces, Ahead
    <2>2. PICK r : Becomes(t, r) /\ r.pc = "final" /\ Alike(r, task[t])
      BY <1>4, <2>1, GoBecomes
    <2>3. Calm(kind[t], task[t].pc, r.pc, task[t].dirty)
      BY <1>1, <2>2 DEF Calm, Holds, LoopPlaces, Ahead, ToolPlaces, RebuildPlaces
    <2>4. QED
      BY <1>2, <1>4, <2>2, <2>3, MoveEffect DEF server, flags
  <1>5. QED
    BY <1>3, <1>4 DEF WrapUp

LEMMA RequeryEffect == ASSUME TaskInv, GlobalInv, NEW t \in Tasks, RequeryMissing(t) PROVE Effect(t)
  <1>1. task[t].pc = "requery" /\ kind[t] \in {"manual", "auto"}
    BY PlaceOf DEF RequeryMissing, At, PlacesOf, LoopPlaces, Ahead, ToolPlaces, Kinds
  <1>2. UNCHANGED <<user, flags, gen, lost, m2, child, tests, owed>> /\ indexed' \in {indexed, Classpath}
    BY DEF RequeryMissing
  <1>3. {"round", "wrap"} \subseteq PlacesOf(kind[t]) \cap Places /\ Missing \in SUBSET Coords
    BY <1>1, MissingTyped DEF PlacesOf, Places, LoopPlaces, Ahead
  <1>4. \E r : Becomes(t, r) /\ r.pc \in {"round", "wrap"} /\ Alike(r, task[t])
    <2>1. CASE Go(t, "wrap")
      BY <1>3, <2>1, GoBecomes
    <2>2. CASE task' = [task EXCEPT ![t].pc = "round", ![t].pending = Missing]
      BY <1>3, <2>2, PendingBecomes
    <2>3. QED
      BY <2>1, <2>2 DEF RequeryMissing
  <1>5. PICK r : Becomes(t, r) /\ r.pc \in {"round", "wrap"} /\ Alike(r, task[t])
    BY <1>4
  <1>6. Calm(kind[t], task[t].pc, r.pc, task[t].dirty)
    BY <1>1, <1>5 DEF Calm, Holds, LoopPlaces, Ahead, ToolPlaces, RebuildPlaces
  <1>7. QED
    BY <1>2, <1>5, <1>6, MoveEffect

\* A rebuild is sent, or cannot be.
LEMMA SendEffect ==
    ASSUME TaskInv, GlobalInv, NEW t \in Tasks, NEW from, NEW to, NEW client \in 0 .. MaxRestarts, SendRebuild(t, from, to, client),
           <<from, to>> \in {<<"rebuild", "rebuilding">>, <<"final", "finalizing">>, <<"refresh", "refreshing">>}
    PROVE  Effect(t)
  <1>1. task[t].pc = from /\ UNCHANGED <<user, gen, indexed, m2, child, tests, owed>> /\ Scan' = Scan
    BY DEF SendRebuild, At, Scan
  <1>2. /\ (from = "rebuild" /\ to = "rebuilding") \/ (from = "final" /\ to = "finalizing") \/ (from = "refresh" /\ to = "refreshing")
        /\ task[t].pc \in PlacesOf(kind[t]) /\ kind[t] \in Kinds /\ Sound(task[t], kind[t])
    BY PlaceOf
  <1>3. /\ to \in {"rebuilding", "finalizing", "refreshing"} \cap PlacesOf(kind[t])
        /\ to = "rebuilding" => task[t].dirty
        /\ from = "refresh" => kind[t] \in {"manual", "install"}
        /\ from # "refresh" => kind[t] \in {"manual", "auto"}
    BY <1>1, <1>2 DEF PlacesOf, LoopPlaces, Ahead, ToolPlaces, Kinds, Sound
  <1>4. CASE /\ task' = [task EXCEPT ![t].pc = to, ![t].client = client, ![t].read = Scan]
             /\ lost' = (lost \/ \E u \in Tasks \ {t} : task[u].pc \in {"rebuilding", "finalizing", "refreshing"})
             /\ UNCHANGED flags
    <2>1. PICK r : Becomes(t, r) /\ r.pc = to /\ r.read = Scan /\ r.name = task[t].name
      BY <1>3, <1>4, SendBecomes
    <2>2. GlobalInv'
      <3>1. lost' \in BOOLEAN
        BY <1>4
      <3>2. QED
        BY <1>1, <1>4, <3>1 DEF GlobalInv, flags, user, tests
    <2>3. task'[t] = r
      BY <1>1, <2>1, Become DEF user
    <2>4. IndexEffect(t)
      <3>1. Rebuilding(t)' /\ lost' = (lost \/ \E u \in Tasks \ {t} : Rebuilding(u))
        BY <1>3, <1>4, <2>1, <2>3 DEF Rebuilding, RebuildPlaces
      <3>2. QED
        BY <1>1, <2>1, <2>3, <3>1 DEF IndexEffect
    <2>5. /\ Holds(kind[t], task[t].pc) <=> Holds(kind[t], r.pc)
          /\ task[t].pc \in ToolPlaces <=> r.pc \in ToolPlaces
      BY <1>1, <1>2, <1>3, <2>1 DEF Holds, LoopPlaces, Ahead, ToolPlaces
    <2>6. /\ FlagEffect(Holds(kind[t], task[t].pc), Holds(kind[t], r.pc), downloadInFlight, downloadInFlight')
          /\ FlagEffect(task[t].pc \in ToolPlaces, r.pc \in ToolPlaces, installInFlight, installInFlight')
      BY <1>4, <2>5 DEF FlagEffect, flags
    <2>7. QED
      BY <1>1, <1>3, <2>1, <2>2, <2>4, <2>6, PlainEffect DEF user
  <1>5. CASE from = "rebuild" /\ Go(t, "wrap") /\ UNCHANGED <<lost, flags>>
    <2>1. "wrap" \in PlacesOf(kind[t]) \cap Places
      BY <1>3, <1>5 DEF PlacesOf, Places, LoopPlaces, Ahead
    <2>2. PICK r : Becomes(t, r) /\ r.pc = "wrap" /\ Alike(r, task[t])
      BY <1>5, <2>1, GoBecomes
    <2>3. Calm(kind[t], task[t].pc, r.pc, task[t].dirty)
      BY <1>1, <1>3, <1>5, <2>2 DEF Calm, Holds, LoopPlaces, Ahead, ToolPlaces, RebuildPlaces
    <2>4. QED
      BY <1>1, <1>5, <2>2, <2>3, MoveEffect
  <1>6. ASSUME lost' = TRUE, Done(t), overlapped' = overlapped, {downloadInFlight', installInFlight'} \subseteq BOOLEAN,
               IF Holds(kind[t], task[t].pc) THEN downloadInFlight' = FALSE ELSE downloadInFlight' = downloadInFlight,
               IF task[t].pc \in ToolPlaces THEN installInFlight' = FALSE ELSE installInFlight' = installInFlight
        PROVE  Effect(t)
    <2>1. PICK r : Becomes(t, r) /\ r.pc = "done" /\ r.name = 0
      BY <1>6, DoneBecomes
    <2>2. GlobalInv'
      BY <1>1, <1>6 DEF GlobalInv, user, tests
    <2>3. IndexEffect(t)
      BY <1>1, <1>6 DEF IndexEffect
    <2>4. ~Holds(kind[t], r.pc) /\ r.pc \notin ToolPlaces
      BY <2>1 DEF Holds, LoopPlaces, Ahead, ToolPlaces
    <2>5. /\ FlagEffect(Holds(kind[t], task[t].pc), Holds(kind[t], r.pc), downloadInFlight, downloadInFlight')
          /\ FlagEffect(task[t].pc \in ToolPlaces, r.pc \in ToolPlaces, installInFlight, installInFlight')
      BY <1>6, <2>4 DEF FlagEffect
    <2>6. QED
      BY <1>1, <2>1, <2>2, <2>3, <2>5, PlainEffect DEF user
  <1>7. CASE /\ from = "final" /\ lost' = TRUE /\ EndDownload(t) /\ UNCHANGED <<installInFlight, overlapped>>
    <2>1. Holds(kind[t], task[t].pc) /\ task[t].pc \notin ToolPlaces
      BY <1>1, <1>3, <1>7 DEF Holds, LoopPlaces, Ahead, ToolPlaces
    <2>2. {downloadInFlight', installInFlight'} \subseteq BOOLEAN
      BY <1>7 DEF EndDownload, GlobalInv
    <2>3. QED
      BY <1>6, <1>7, <2>1, <2>2 DEF EndDownload
  <1>8. CASE /\ from = "refresh" /\ lost' = TRUE /\ EndQuietly(t) /\ installInFlight' = FALSE /\ UNCHANGED overlapped
    <2>1. (Holds(kind[t], task[t].pc) <=> kind[t] = "manual") /\ task[t].pc \in ToolPlaces
      BY <1>1, <1>8 DEF Holds, LoopPlaces, Ahead, ToolPlaces
    <2>2. {downloadInFlight', installInFlight'} \subseteq BOOLEAN
      BY <1>8 DEF EndQuietly, EndDownload, GlobalInv
    <2>3. QED
      BY <1>6, <1>8, <2>1, <2>2 DEF EndDownload, EndQuietly
  <1>9. QED
    BY <1>4, <1>5, <1>7, <1>8 DEF SendRebuild

\* The answer to a rebuild, where nothing else is left to be rebuilt for.
LEMMA AnswerIndex ==
    ASSUME TaskInv, NEW t \in Tasks, NEW r, Becomes(t, r), task[t].pc \in RebuildPlaces, r.pc \notin RebuildPlaces,
           \/ indexed' = task[t].read /\ lost' = lost
           \/ lost' = TRUE,
           UNCHANGED <<kind, m2, owed>>
    PROVE  IndexEffect(t)
  <1>1. TaskInv' /\ task'[t] = r
    BY Become
  <1>2. Scan' = Scan
    BY DEF Scan
  <1>3. Rebuilding(t) /\ ~Rebuilding(t)' /\ ~Dirty(t)
    BY <1>1 DEF Rebuilding, Dirty, RebuildPlaces, Ahead
  <1>4. QED
    BY <1>2, <1>3 DEF IndexEffect

LEMMA RebuiltEffect == ASSUME TaskInv, GlobalInv, NEW t \in Tasks, Rebuilt(t) PROVE Effect(t)
  <1>1. task[t].pc = "rebuilding" /\ kind[t] \in {"manual", "auto"} /\ task[t].dirty /\ task[t].read \subseteq Coords
    BY PlaceOf DEF Rebuilt, At, PlacesOf, LoopPlaces, Ahead, ToolPlaces, Kinds, Sound, Task
  <1>2. UNCHANGED <<user, flags, gen, lost, m2, child, tests, owed>>
    BY DEF Rebuilt
  <1>3. CASE indexed' = task[t].read /\ task' = [task EXCEPT ![t].pc = "requery", ![t].dirty = FALSE, ![t].read = {}]
    <2>1. PICK r : Becomes(t, r) /\ r.pc = "requery" /\ r.name = task[t].name
      BY <1>1, <1>3, RebuiltBecomes
    <2>2. GlobalInv'
      BY <1>1, <1>2, <1>3 DEF GlobalInv, user, flags, tests
    <2>3. IndexEffect(t)
      BY <1>1, <1>2, <1>3, <2>1, AnswerIndex DEF user, RebuildPlaces
    <2>4. /\ Holds(kind[t], task[t].pc) /\ Holds(kind[t], r.pc)
          /\ task[t].pc \notin ToolPlaces /\ r.pc \notin ToolPlaces
      BY <1>1, <2>1 DEF Holds, LoopPlaces, Ahead, ToolPlaces
    <2>5. /\ FlagEffect(Holds(kind[t], task[t].pc), Holds(kind[t], r.pc), downloadInFlight, downloadInFlight')
          /\ FlagEffect(task[t].pc \in ToolPlaces, r.pc \in ToolPlaces, installInFlight, installInFlight')
      BY <1>2, <2>4 DEF FlagEffect, flags
    <2>6. QED
      BY <1>2, <2>1, <2>2, <2>3, <2>5, PlainEffect DEF user
  <1>4. CASE Go(t, "wrap") /\ UNCHANGED indexed
    <2>1. "wrap" \in PlacesOf(kind[t]) \cap Places
      BY <1>1 DEF PlacesOf, Places, LoopPlaces, Ahead
    <2>2. PICK r : Becomes(t, r) /\ r.pc = "wrap" /\ Alike(r, task[t])
      BY <1>4, <2>1, GoBecomes
    <2>3. GlobalInv'
      BY <1>2, <1>4 DEF GlobalInv, user, flags, tests
    <2>4. IndexEffect(t)
      <3>1. task'[t] = r /\ kind' = kind
        BY <1>2, <2>2, Become DEF user
      <3>2. ~Rebuilding(t)' /\ Dirty(t)'
        BY <1>1, <2>2, <3>1 DEF Rebuilding, RebuildPlaces, Dirty, Ahead, Alike
      <3>3. Scan' = Scan /\ lost' = lost /\ owed' = owed
        BY <1>2 DEF Scan
      <3>4. QED
        BY <3>2, <3>3 DEF IndexEffect
    <2>5. /\ Holds(kind[t], task[t].pc) /\ Holds(kind[t], r.pc)
          /\ task[t].pc \notin ToolPlaces /\ r.pc \notin ToolPlaces
      BY <1>1, <2>2 DEF Holds, LoopPlaces, Ahead, ToolPlaces
    <2>6. /\ FlagEffect(Holds(kind[t], task[t].pc), Holds(kind[t], r.pc), downloadInFlight, downloadInFlight')
          /\ FlagEffect(task[t].pc \in ToolPlaces, r.pc \in ToolPlaces, installInFlight, installInFlight')
      BY <1>2, <2>5 DEF FlagEffect, flags
    <2>7. QED
      BY <1>2, <2>2, <2>3, <2>4, <2>6, PlainEffect DEF Alike, user
  <1>5. QED
    BY <1>3, <1>4 DEF Rebuilt

\* The last rebuild of an invocation is answered, and ends it.
LEMMA LastEffect ==
    ASSUME TaskInv, GlobalInv, NEW t \in Tasks, Done(t), task[t].pc \in RebuildPlaces,
           \/ indexed' = task[t].read /\ lost' = lost
           \/ lost' = TRUE /\ indexed' = indexed,
           UNCHANGED <<user, overlapped, gen, m2, child, tests, owed>>,
           {downloadInFlight', installInFlight'} \subseteq BOOLEAN,
           IF Holds(kind[t], task[t].pc) THEN downloadInFlight' = FALSE ELSE downloadInFlight' = downloadInFlight,
           IF task[t].pc \in ToolPlaces THEN installInFlight' = FALSE ELSE installInFlight' = installInFlight
    PROVE  Effect(t)
  <1>1. PICK r : Becomes(t, r) /\ r.pc = "done" /\ r.name = 0
    BY DoneBecomes
  <1>2. GlobalInv'
    <2>1. (indexed' = Unbuilt \/ indexed' \subseteq Coords) /\ lost' \in BOOLEAN
      BY PlaceOf DEF GlobalInv, Task
    <2>2. QED
      BY <2>1 DEF GlobalInv, user, tests
  <1>3. IndexEffect(t)
    BY <1>1, AnswerIndex DEF user, RebuildPlaces
  <1>4. ~Holds(kind[t], r.pc) /\ r.pc \notin ToolPlaces
    BY <1>1 DEF Holds, LoopPlaces, Ahead, ToolPlaces
  <1>5. /\ FlagEffect(Holds(kind[t], task[t].pc), Holds(kind[t], r.pc), downloadInFlight, downloadInFlight')
        /\ FlagEffect(task[t].pc \in ToolPlaces, r.pc \in ToolPlaces, installInFlight, installInFlight')
    BY <1>4 DEF FlagEffect
  <1>6. QED
    BY <1>1, <1>2, <1>3, <1>5, PlainEffect DEF user

LEMMA FinalizedEffect == ASSUME TaskInv, GlobalInv, NEW t \in Tasks, Finalized(t) PROVE Effect(t)
  <1>1. task[t].pc = "finalizing" /\ kind[t] \in {"manual", "auto"}
    BY PlaceOf DEF Finalized, At, PlacesOf, LoopPlaces, Ahead, ToolPlaces, Kinds
  <1>2. Holds(kind[t], task[t].pc) /\ task[t].pc \notin ToolPlaces /\ task[t].pc \in RebuildPlaces
    BY <1>1 DEF Holds, LoopPlaces, Ahead, ToolPlaces, RebuildPlaces
  <1>3. {downloadInFlight', installInFlight'} \subseteq BOOLEAN
    BY DEF Finalized, EndDownload, GlobalInv
  <1>4. QED
    BY <1>2, <1>3, LastEffect DEF Finalized, EndDownload

LEMMA RefreshedEffect == ASSUME TaskInv, GlobalInv, NEW t \in Tasks, Refreshed(t) PROVE Effect(t)
  <1>1. task[t].pc = "refreshing"
    BY DEF Refreshed, At
  <1>2. (Holds(kind[t], task[t].pc) <=> kind[t] = "manual") /\ task[t].pc \in ToolPlaces /\ task[t].pc \in RebuildPlaces
    BY <1>1 DEF Holds, LoopPlaces, Ahead, ToolPlaces, RebuildPlaces
  <1>3. {downloadInFlight', installInFlight'} \subseteq BOOLEAN
    BY DEF Refreshed, EndQuietly, EndDownload, GlobalInv
  <1>4. QED
    BY <1>2, <1>3, LastEffect DEF Refreshed, EndQuietly, EndDownload

LEMMA ToolExitsEffect == ASSUME TaskInv, GlobalInv, NEW t \in Tasks, ToolExits(t) PROVE Effect(t)
  <1>1. task[t].pc = "tool" /\ kind[t] \in {"manual", "install"}
    BY PlaceOf DEF ToolExits, At, PlacesOf, LoopPlaces, Ahead, ToolPlaces, Kinds
  <1>2. UNCHANGED <<user, flags, server, m2, tests>> /\ owed' = owed \cup Scan /\ child' = [child EXCEPT ![t] = "none"]
    BY DEF ToolExits
  <1>3. "refresh" \in PlacesOf(kind[t]) \cap Places
    BY <1>1 DEF PlacesOf, Places, ToolPlaces
  <1>4. PICK r : Becomes(t, r) /\ r.pc = "refresh" /\ Alike(r, task[t])
    BY <1>3, GoBecomes DEF ToolExits
  <1>5. GlobalInv'
    <2>1. owed' \subseteq Coords
      BY <1>2, MissingTyped DEF GlobalInv
    <2>2. QED
      BY <1>2, <2>1 DEF GlobalInv, user, flags, tests, server
  <1>6. IndexEffect(t)
    <2>1. task'[t] = r
      BY <1>2, <1>4, Become DEF user
    <2>2. ~Rebuilding(t)' /\ Dirty(t)'
      BY <1>4, <2>1 DEF Rebuilding, RebuildPlaces, Dirty
    <2>3. Scan' = Scan /\ lost' = lost
      BY <1>2 DEF Scan, server
    <2>4. QED
      BY <1>2, <2>2, <2>3 DEF IndexEffect
  <1>7. /\ Holds(kind[t], task[t].pc) <=> Holds(kind[t], r.pc)
        /\ task[t].pc \in ToolPlaces /\ r.pc \in ToolPlaces
    BY <1>1, <1>4 DEF Holds, LoopPlaces, Ahead, ToolPlaces
  <1>8. /\ FlagEffect(Holds(kind[t], task[t].pc), Holds(kind[t], r.pc), downloadInFlight, downloadInFlight')
        /\ FlagEffect(task[t].pc \in ToolPlaces, r.pc \in ToolPlaces, installInFlight, installInFlight')
    BY <1>2, <1>7 DEF FlagEffect, flags
  <1>9. QED
    BY <1>2, <1>4, <1>5, <1>6, <1>8, PlainEffect DEF Alike, user

LEMMA ToolAbandonedEffect == ASSUME TaskInv, GlobalInv, NEW t \in Tasks, ToolAbandoned(t) PROVE Effect(t)
  <1>1. task[t].pc = "tool" /\ task[t].pc \in ToolPlaces
    BY DEF ToolAbandoned, At, ToolPlaces
  <1>2. UNCHANGED <<user, overlapped, server, m2, tests, owed>> /\ installInFlight' = FALSE /\ EndQuietly(t)
    BY DEF ToolAbandoned
  <1>3. GlobalInv'
    <2>1. downloadInFlight' \in BOOLEAN
      BY <1>2 DEF EndQuietly, EndDownload, GlobalInv
    <2>2. child' \in [Tasks -> {"none", "running", "stopping"}]
      BY DEF ToolAbandoned, GlobalInv
    <2>3. QED
      BY <1>2, <2>1, <2>2 DEF GlobalInv, user, tests, server
  <1>4. QED
    BY <1>1, <1>2, <1>3, QuietEffect DEF user, server

\* The file system and the repository of one coordinate.
LEMMA PutTyped ==
    ASSUME GlobalInv, NEW c \in Coordinates, NEW ext \in {"pom", "jar"}, m2' = [m2 EXCEPT ![c][ext] = "intact"]
    PROVE  /\ m2' \in [Coordinates -> [{"pom", "jar"} -> {"none", "intact", "corrupt"}]]
           /\ Scan \subseteq Scan' /\ (ext = "jar" /\ c \in Coords => c \in Scan')
           /\ ext = "pom" => Scan' = Scan
  BY DEF GlobalInv, Scan, Coordinates

LEMMA InstallFileEffect == ASSUME TaskInv, GlobalInv, NEW t \in Tasks, NEW n \in 1 .. 2, InstallVerifiedFile(t, n) PROVE Effect(t)
  <1>1. UNCHANGED <<user, flags, server, child, tests>> /\ task[t].coord \in Coordinates
    BY PlaceOf DEF InstallVerifiedFile, Task
  <1>2. task[t].pc \in {"install pom", "install jar"} /\ kind[t] \in {"manual", "auto", "test"}
    <2>1. n = 1 \/ n = 2
      BY SMTT(60), Z3T(60)
    <2>2. <<"install pom", "install jar">>[1] = "install pom" /\ <<"install pom", "install jar">>[2] = "install jar"
      OBVIOUS
    <2>3. task[t].pc \in {"install pom", "install jar"}
      BY <2>1, <2>2 DEF InstallVerifiedFile, At
    <2>4. QED
      BY <2>3, PlaceOf DEF PlacesOf, LoopPlaces, Ahead, ToolPlaces, Kinds
  <1>3. ASSUME NEW r, Becomes(t, r), r.pc = "next", r.dirty = task[t].dirty, r.name = task[t].name, UNCHANGED <<owed, m2>>
        PROVE  Effect(t)
    <2>1. Calm(kind[t], task[t].pc, r.pc, task[t].dirty)
      BY <1>2, <1>3 DEF Calm, Holds, LoopPlaces, Ahead, ToolPlaces, RebuildPlaces
    <2>2. QED
      BY <1>1, <1>3, <2>1, CalmEffect DEF GlobalInv, user
  <1>4. ASSUME NEW r, Becomes(t, r), r.pc = "done", r.name = 0, kind[t] = "test", UNCHANGED <<owed, m2>>
        PROVE  Effect(t)
    <2>1. Calm(kind[t], task[t].pc, r.pc, task[t].dirty)
      BY <1>2, <1>4 DEF Calm, Holds, LoopPlaces, Ahead, ToolPlaces, RebuildPlaces
    <2>2. QED
      BY <1>1, <1>4, <2>1, CalmEffect DEF GlobalInv, user
  <1>5. CASE /\ task[t].pc = "install pom" /\ owed' = owed /\ m2' = [m2 EXCEPT ![task[t].coord]["pom"] = "intact"]
             /\ \E r : Becomes(t, r) /\ r.pc = "install jar" /\ Alike(r, task[t])
    <2>1. PICK r : Becomes(t, r) /\ r.pc = "install jar" /\ Alike(r, task[t])
      BY <1>5
    <2>2. TaskInv' /\ task'[t] = r /\ \A u \in Tasks \ {t} : task'[u] = task[u]
      BY <1>1, <2>1, Become DEF user
    <2>3. m2' \in [Coordinates -> [{"pom", "jar"} -> {"none", "intact", "corrupt"}]] /\ Scan' = Scan
      BY <1>1, <1>5, PutTyped
    <2>4. GlobalInv'
      BY <1>1, <1>5, <2>3 DEF GlobalInv, user, flags, server, tests
    <2>5. Others(t) /\ FileEffect(t) /\ kind' = kind
      BY <1>1, <1>5, <2>1, <2>2 DEF Others, FileEffect, tests, user, Alike
    <2>6. IndexEffect(t)
      <3>1. ~Rebuilding(t) /\ ~Rebuilding(t)' /\ (Dirty(t) => Dirty(t)')
        BY <1>5, <2>1, <2>2, <2>5 DEF Rebuilding, RebuildPlaces, Dirty, Ahead, Alike
      <3>2. lost' = lost /\ indexed' = indexed
        BY <1>1 DEF server
      <3>3. QED
        BY <1>5, <2>3, <3>1, <3>2 DEF IndexEffect
    <2>7. FlagEffects(t)
      <3>1. /\ Holds(kind[t], task[t].pc) <=> Holds(kind[t], r.pc)
            /\ task[t].pc \notin ToolPlaces /\ r.pc \notin ToolPlaces
        BY <1>2, <1>5, <2>1 DEF Holds, LoopPlaces, Ahead, ToolPlaces
      <3>2. QED
        BY <1>1, <2>2, <3>1 DEF FlagEffects, FlagEffect, flags
    <2>8. ReportEffect(t)
      BY <1>1, <2>1, <2>2 DEF ReportEffect, Waits, tests, Alike
    <2>9. QED
      BY <2>2, <2>4, <2>5, <2>6, <2>7, <2>8 DEF Effect
  <1>6. CASE /\ task[t].pc = "install jar" /\ Settled(t, TRUE)
             /\ m2' = [m2 EXCEPT ![task[t].coord]["jar"] = "intact"]
    <2>1. \E r : /\ Becomes(t, r) /\ r.name = task[t].name
                 /\ \/ r.pc = "next" /\ r.dirty /\ kind[t] # "test" /\ task[t].coord \in Coords
                       /\ owed' = owed \cup {task[t].coord}
                    \/ r.pc = "group" /\ kind[t] = "test" /\ owed' = owed
      <3>1. CASE /\ owed' = owed \cup {task[t].coord} /\ task[t].coord \in Coords
                 /\ \E r : Becomes(t, r) /\ r.pc = "next" /\ r.dirty /\ r.name = task[t].name /\ kind[t] # "test"
        BY <3>1
      <3>2. CASE /\ owed' = owed /\ kind[t] = "test"
                 /\ \E r : Becomes(t, r) /\ r.pc = "group" /\ Alike(r, task[t])
        BY <3>2 DEF Alike
      <3>3. QED
        BY <1>6, <3>1, <3>2, InstalledBecomes
    <2>2. PICK r : /\ Becomes(t, r) /\ r.name = task[t].name
                   /\ \/ r.pc = "next" /\ r.dirty /\ kind[t] # "test" /\ task[t].coord \in Coords
                         /\ owed' = owed \cup {task[t].coord}
                      \/ r.pc = "group" /\ kind[t] = "test" /\ owed' = owed
      BY <2>1
    <2>3. TaskInv' /\ task'[t] = r /\ \A u \in Tasks \ {t} : task'[u] = task[u]
      BY <1>1, <2>2, Become DEF user
    <2>4. /\ m2' \in [Coordinates -> [{"pom", "jar"} -> {"none", "intact", "corrupt"}]] /\ Scan \subseteq Scan'
          /\ task[t].coord \in Coords => task[t].coord \in Scan'
      BY <1>1, <1>6, PutTyped
    <2>5. GlobalInv'
      <3>1. owed' \subseteq Coords
        BY <2>2 DEF GlobalInv
      <3>2. QED
        BY <1>1, <2>4, <3>1 DEF GlobalInv, user, flags, server, tests
    <2>6. Others(t) /\ FileEffect(t) /\ kind' = kind
      BY <1>1, <1>6, <2>2, <2>3 DEF Others, FileEffect, tests, user
    <2>7. IndexEffect(t)
      <3>1. lost' = lost /\ indexed' = indexed
        BY <1>1 DEF server
      <3>2. CASE kind[t] = "test"
        <4>1. ~Rebuilding(t) /\ ~Rebuilding(t)' /\ ~Dirty(t)
          BY <1>6, <2>2, <2>3, <3>2 DEF Rebuilding, RebuildPlaces, Dirty
        <4>2. QED
          BY <2>2, <2>4, <3>1, <3>2, <4>1 DEF IndexEffect
      <3>3. CASE kind[t] # "test"
        <4>1. ~Rebuilding(t)' /\ Dirty(t)'
          BY <2>2, <2>3, <2>6, <3>3 DEF Rebuilding, RebuildPlaces, Dirty, Ahead
        <4>2. owed' \subseteq owed \cup Scan'
          BY <2>2, <2>4, <3>3
        <4>3. QED
          BY <2>4, <3>1, <4>1, <4>2 DEF IndexEffect
      <3>4. QED
        BY <3>2, <3>3
    <2>8. FlagEffects(t)
      <3>1. /\ Holds(kind[t], task[t].pc) <=> Holds(kind[t], r.pc)
            /\ task[t].pc \notin ToolPlaces /\ r.pc \notin ToolPlaces
        BY <1>2, <1>6, <2>2 DEF Holds, LoopPlaces, Ahead, ToolPlaces
      <3>2. QED
        BY <1>1, <2>3, <3>1 DEF FlagEffects, FlagEffect, flags
    <2>9. ReportEffect(t)
      BY <1>1, <2>2, <2>3 DEF ReportEffect, Waits, tests
    <2>10. QED
      BY <2>3, <2>5, <2>6, <2>7, <2>8, <2>9 DEF Effect
  <1>7. QED
    BY <1>3, <1>4, <1>5, <1>6, FileBecomes

\* A step that leaves the invocation's place alone but for its session.
LEMMA TestEffect ==
    ASSUME TaskInv, GlobalInv, NEW t \in Tasks, NEW r, Becomes(t, r), GlobalInv', kind[t] = "test",
           task[t].pc \notin {"install jar"}, r.pc \notin {"install jar"},
           UNCHANGED <<user, flags, server, m2, child, owed>>, \A u \in Tasks \ {t} : session'[u] = session[u],
           ReportEffect(t)
    PROVE  Effect(t)
  <1>1. TaskInv' /\ task'[t] = r /\ \A u \in Tasks \ {t} : task'[u] = task[u]
    BY Become DEF user
  <1>2. task[t].pc \in PlacesOf("test") /\ r.pc \in PlacesOf("test")
    BY PlaceOf DEF Becomes, Sound
  <1>3. task[t].pc \notin RebuildPlaces \cup ToolPlaces /\ r.pc \notin RebuildPlaces \cup ToolPlaces
    BY <1>2 DEF PlacesOf, RebuildPlaces, ToolPlaces
  <1>4. IndexEffect(t)
    BY <1>2, <1>3, IndexAside DEF user, server, ToolPlaces
  <1>5. FlagEffects(t)
    BY <1>1, <1>3 DEF FlagEffects, FlagEffect, Holds, flags
  <1>6. Others(t) /\ FileEffect(t) /\ kind' = kind
    BY <1>1 DEF Others, FileEffect, user
  <1>7. QED
    BY <1>1, <1>4, <1>5, <1>6 DEF Effect

LEMMA StartGroupEffect == ASSUME TaskInv, GlobalInv, NEW t \in Tasks, StartGroup(t) PROVE Effect(t)
  <1>1. task[t].pc = "group" /\ kind[t] = "test"
    BY PlaceOf DEF StartGroup, At, PlacesOf, LoopPlaces, Ahead, ToolPlaces, Kinds
  <1>2. UNCHANGED <<user, flags, server, m2, child, owed>>
    BY DEF StartGroup
  <1>3. CASE /\ runCounter' = runCounter + 1 /\ session' = [session EXCEPT ![t] = "asked"]
             /\ \E r : Becomes(t, r) /\ r.pc = "starting" /\ r.name = runCounter + 1 /\ ~r.finished
    <2>1. PICK r : Becomes(t, r) /\ r.pc = "starting" /\ r.name = runCounter + 1 /\ ~r.finished
      BY <1>3
    <2>2. task'[t] = r
      BY <1>2, <2>1, Become DEF user
    <2>3. ReportEffect(t)
      BY <1>3, <2>1, <2>2 DEF ReportEffect
    <2>4. runCounter' \in Nat /\ session' \in [Tasks -> {"none", "asked", "running", "stopping", "over"}]
          /\ \A u \in Tasks \ {t} : session'[u] = session[u]
      BY <1>3, SMTT(60), Z3T(60) DEF GlobalInv
    <2>5. GlobalInv'
      BY <1>2, <2>4 DEF GlobalInv, user, flags, server
    <2>6. QED
      BY <1>1, <1>2, <2>1, <2>3, <2>4, <2>5, TestEffect
  <1>4. CASE /\ runCounter' = runCounter /\ session' = session
             /\ \E r : Becomes(t, r) /\ r.pc = "done" /\ r.name = 0
    <2>1. PICK r : Becomes(t, r) /\ r.pc = "done" /\ r.name = 0
      BY <1>4
    <2>2. Calm(kind[t], task[t].pc, r.pc, task[t].dirty)
      BY <1>1, <2>1 DEF Calm, Holds, LoopPlaces, Ahead, ToolPlaces, RebuildPlaces
    <2>3. QED
      BY <1>1, <1>2, <1>4, <2>1, <2>2, CalmEffect DEF GlobalInv, user, tests
  <1>5. QED
    BY <1>3, <1>4, GroupBecomes

LEMMA DebuggingStartedEffect == ASSUME TaskInv, GlobalInv, NEW t \in Tasks, DebuggingStarted(t) PROVE Effect(t)
  <1>1. task[t].pc = "starting" /\ kind[t] = "test"
    BY PlaceOf DEF DebuggingStarted, At, PlacesOf, LoopPlaces, Ahead, ToolPlaces, Kinds
  <1>2. "wait" \in PlacesOf(kind[t]) \cap Places
    BY <1>1 DEF PlacesOf, Places
  <1>3. PICK r : Becomes(t, r) /\ r.pc = "wait" /\ Alike(r, task[t])
    BY <1>2, GoBecomes DEF DebuggingStarted
  <1>4. UNCHANGED <<user, flags, server, m2, child, tests, owed>>
    BY DEF DebuggingStarted
  <1>5. task'[t] = r
    BY <1>3, <1>4, Become DEF user
  <1>6. ReportEffect(t)
    BY <1>1, <1>3, <1>4, <1>5 DEF ReportEffect, Waits, tests, Alike
  <1>7. GlobalInv'
    BY <1>4 DEF GlobalInv, user, flags, server, tests
  <1>8. QED
    BY <1>1, <1>3, <1>4, <1>6, <1>7, TestEffect DEF tests

LEMMA DebuggingRefusedEffect == ASSUME TaskInv, GlobalInv, NEW t \in Tasks, DebuggingRefused(t) PROVE Effect(t)
  <1>1. task[t].pc = "starting" /\ kind[t] = "test"
    BY PlaceOf DEF DebuggingRefused, At, PlacesOf, LoopPlaces, Ahead, ToolPlaces, Kinds
  <1>2. "group" \in PlacesOf(kind[t]) \cap Places
    BY <1>1 DEF PlacesOf, Places
  <1>3. PICK r : Becomes(t, r) /\ r.pc = "group" /\ Alike(r, task[t])
    BY <1>2, GoBecomes DEF DebuggingRefused
  <1>4. UNCHANGED <<user, flags, server, m2, child, runCounter, owed>> /\ session' = [session EXCEPT ![t] = "over"]
    BY DEF DebuggingRefused
  <1>5. task'[t] = r
    BY <1>3, <1>4, Become DEF user
  <1>6. ReportEffect(t)
    BY <1>1, <1>3, <1>4, <1>5 DEF ReportEffect, Waits, Alike
  <1>7. session' \in [Tasks -> {"none", "asked", "running", "stopping", "over"}] /\ \A u \in Tasks \ {t} : session'[u] = session[u]
    BY <1>4 DEF GlobalInv
  <1>8. GlobalInv'
    BY <1>4, <1>7 DEF GlobalInv, user, flags, server
  <1>9. QED
    BY <1>1, <1>3, <1>4, <1>6, <1>7, <1>8, TestEffect

LEMMA ReadReportsEffect == ASSUME TaskInv, GlobalInv, NEW t \in Tasks, ReadReports(t) PROVE Effect(t)
  <1>1. task[t].pc = "wait" /\ kind[t] = "test"
    BY PlaceOf DEF ReadReports, At, PlacesOf, LoopPlaces, Ahead, ToolPlaces, Kinds
  <1>2. "group" \in PlacesOf(kind[t]) \cap Places
    BY <1>1 DEF PlacesOf, Places
  <1>3. PICK r : Becomes(t, r) /\ r.pc = "group" /\ Alike(r, task[t])
    BY <1>2, GoBecomes DEF ReadReports
  <1>4. Calm(kind[t], task[t].pc, r.pc, task[t].dirty)
    BY <1>1, <1>3 DEF Calm, Holds, LoopPlaces, Ahead, ToolPlaces, RebuildPlaces
  <1>5. QED
    BY <1>3, <1>4, MoveEffect DEF ReadReports, server

LEMMA CancelEffect == ASSUME TaskInv, GlobalInv, NEW t \in Tasks, Cancel(t) PROVE Effect(t)
  <1>1. PICK r : /\ Becomes(t, r) /\ r.pc = task[t].pc /\ r.dirty = task[t].dirty /\ r.read = task[t].read
                 /\ r.name = task[t].name /\ r.coord = task[t].coord /\ r.cancelled
    BY CancelBecomes
  <1>2. UNCHANGED <<user, flags, server, m2, child, runCounter, owed>>
    BY DEF Cancel
  <1>3. TaskInv' /\ task'[t] = r /\ \A u \in Tasks \ {t} : task'[u] = task[u]
    BY <1>1, <1>2, Become DEF user
  <1>4. session' \in [Tasks -> {"none", "asked", "running", "stopping", "over"}] /\ \A u \in Tasks \ {t} : session'[u] = session[u]
    BY DEF Cancel, GlobalInv
  <1>5. GlobalInv'
    BY <1>2, <1>4 DEF GlobalInv, user, flags, server
  <1>6. Others(t) /\ FileEffect(t) /\ kind' = kind
    BY <1>1, <1>2, <1>3, <1>4 DEF Others, FileEffect, user
  <1>7. IndexEffect(t)
    <2>1. Scan' = Scan /\ lost' = lost /\ owed' = owed /\ indexed' = indexed
      BY <1>2 DEF Scan, server
    <2>2. (Rebuilding(t) <=> Rebuilding(t)') /\ (Dirty(t) => Dirty(t)') /\ task'[t].read = task[t].read
      BY <1>1, <1>3, <1>6 DEF Rebuilding, Dirty
    <2>3. QED
      BY <2>1, <2>2 DEF IndexEffect
  <1>8. FlagEffects(t)
    BY <1>1, <1>2, <1>3 DEF FlagEffects, FlagEffect, flags
  <1>9. ReportEffect(t)
    BY <1>1, <1>2, <1>3 DEF ReportEffect, Waits
  <1>10. QED
    BY <1>3, <1>5, <1>6, <1>7, <1>8, <1>9 DEF Effect

\* The build tool's own steps.
LEMMA ToolStopsEffect == ASSUME TaskInv, GlobalInv, NEW t \in Tasks, ToolStops(t) PROVE Effect(t)
  <1>1. UNCHANGED <<task, user, flags, server, m2, tests, owed>> /\ child' = [child EXCEPT ![t] = "none"]
    BY DEF ToolStops
  <1>2. TaskInv' /\ Others(t) /\ kind' = kind /\ task'[t] = task[t]
    BY <1>1 DEF TaskInv, Sound, Others, tests, user
  <1>3. GlobalInv'
    BY <1>1 DEF GlobalInv, user, flags, server, tests
  <1>4. IndexEffect(t)
    <2>1. Scan' = Scan /\ lost' = lost /\ owed' = owed /\ indexed' = indexed
      BY <1>1 DEF Scan, server
    <2>2. (Rebuilding(t) <=> Rebuilding(t)') /\ (Dirty(t) => Dirty(t)')
      BY <1>2 DEF Rebuilding, Dirty
    <2>3. QED
      BY <1>2, <2>1, <2>2 DEF IndexEffect
  <1>5. FlagEffects(t) /\ FileEffect(t)
    BY <1>1, <1>2 DEF FlagEffects, FlagEffect, flags, FileEffect
  <1>6. ReportEffect(t)
    BY <1>1, <1>2 DEF ReportEffect, tests
  <1>7. QED
    BY <1>2, <1>3, <1>4, <1>5, <1>6 DEF Effect

-----------------------------------------------------------------------------
(***************************************************************************)
(* The invariants of several invocations                                   *)
(***************************************************************************)
\* Files are whole, and a pom is there when its jar is installed.
FileInv ==
    /\ \A t \in Tasks : task[t].pc = "install jar" => m2[task[t].coord].pom # "none"
    /\ FilesWhole /\ JarHasPom

\* What was installed is indexed, or someone is to have it rebuilt, or a
\* rebuild that has read it is under way.
Indexed ==
    \/ \E t \in Tasks : Dirty(t)
    \/ \E t \in Tasks : Rebuilding(t) /\ owed \subseteq task[t].read
    \/ (\A t \in Tasks : ~Rebuilding(t)) /\ (indexed = Unbuilt \/ owed \subseteq indexed)
IndexInv ==
    /\ owed \subseteq Scan
    /\ ~lost => Indexed /\ \A t, u \in Tasks : Rebuilding(t) /\ Rebuilding(u) => t = u

\* A flag that is set is held by one invocation, and none holds one that is not.
Only(S, flag) == IF flag THEN \E t \in Tasks : S = {t} ELSE S = {}
FlagInv == ~overlapped => Only(Downloading, downloadInFlight) /\ Only(Installing, installInFlight)

\* Sessions have names of their own, and a wait has ended with its session
\* or by cancelling.
ReportInv ==
    /\ \A t \in Tasks : task[t].name <= runCounter
    /\ \A t, u \in Tasks : task[t].name = task[u].name => t = u \/ task[t].name = 0
    /\ \A t \in Tasks : Waits(task[t]) => task[t].name > 0 /\ (task[t].finished => session[t] = "over" \/ task[t].cancelled)

LEMMA FileStep ==
    ASSUME TaskInv, GlobalInv, FileInv, NEW t \in Tasks, Effect(t)
    PROVE  FileInv'
  <1>1. /\ m2 \in [Coordinates -> [{"pom", "jar"} -> {"none", "intact", "corrupt"}]]
        /\ \A u \in Tasks : task[u].coord \in Coordinates
    BY DEF GlobalInv, TaskInv, Task
  <1>2. /\ \A u \in Tasks \ {t} : task'[u] = task[u]
        /\ \A u \in Tasks : task[u].pc = "install jar" => m2[task[u].coord].pom # "none"
        /\ \A c \in Coordinates, ext \in {"pom", "jar"} : m2[c][ext] \in {"none", "intact"}
        /\ \A c \in Coordinates : m2[c].jar # "none" => m2[c].pom # "none"
    BY DEF Effect, Others, FileInv, FilesWhole, JarHasPom
  <1>3. CASE /\ m2' = m2
             /\ task'[t].pc = "install jar" => task[t].pc = "install jar" /\ task'[t].coord = task[t].coord
    BY <1>2, <1>3 DEF FileInv, FilesWhole, JarHasPom
  <1>4. ASSUME NEW ext \in {"pom", "jar"}, m2' = [m2 EXCEPT ![task[t].coord][ext] = "intact"],
               ext = "jar" => m2[task[t].coord].pom # "none",
               task'[t].pc = "install jar" => ext = "pom" /\ task'[t].coord = task[t].coord
        PROVE  FileInv'
    <2>1. \A c \in Coordinates, e \in {"pom", "jar"} :
             m2'[c][e] = IF c = task[t].coord /\ e = ext THEN "intact" ELSE m2[c][e]
      BY <1>1, <1>4
    <2>2. \A c \in Coordinates : m2[c].pom # "none" => m2'[c].pom # "none"
      BY <2>1
    <2>3. FilesWhole'
      BY <1>2, <2>1 DEF FilesWhole
    <2>4. JarHasPom'
      BY <1>2, <1>4, <2>1 DEF JarHasPom
    <2>5. ASSUME NEW u \in Tasks, task'[u].pc = "install jar" PROVE m2'[task'[u].coord].pom # "none"
      <3>1. CASE u = t
        BY <1>1, <1>4, <2>1, <2>5, <3>1
      <3>2. CASE u # t
        BY <1>1, <1>2, <2>2, <2>5, <3>2
      <3>3. QED
        BY <3>1, <3>2
    <2>6. QED
      BY <2>3, <2>4, <2>5 DEF FileInv
  <1>5. CASE /\ m2' = [m2 EXCEPT ![task[t].coord]["pom"] = "intact"] /\ task[t].coord \in Coordinates
             /\ task'[t].coord = task[t].coord
    BY <1>4, <1>5
  <1>6. CASE /\ m2' = [m2 EXCEPT ![task[t].coord]["jar"] = "intact"] /\ task[t].coord \in Coordinates
             /\ task[t].pc = "install jar" /\ task'[t].pc # "install jar"
    BY <1>2, <1>4, <1>6
  <1>7. QED
    BY <1>3, <1>5, <1>6 DEF Effect, FileEffect

LEMMA IndexStep ==
    ASSUME TaskInv, GlobalInv, IndexInv, NEW t \in Tasks, Effect(t)
    PROVE  IndexInv'
  <1>1. /\ \A u \in Tasks \ {t} : (Rebuilding(u) <=> Rebuilding(u)') /\ (Dirty(u) <=> Dirty(u)') /\ task'[u].read = task[u].read
        /\ owed \subseteq Scan
    BY DEF Effect, Others, Rebuilding, Dirty, IndexInv
  <1>2. ~lost => Indexed /\ \A x, u \in Tasks : Rebuilding(x) /\ Rebuilding(u) => x = u
    BY DEF IndexInv
  <1>3. ASSUME (Rebuilding(t) <=> Rebuilding(t)') /\ (task'[t].read = task[t].read \/ ~Rebuilding(t)),
               Dirty(t) => Dirty(t)', owed' = owed, Scan \subseteq Scan', lost' = lost, indexed' \in {indexed, Classpath}
        PROVE  IndexInv'
    <2>1. owed' \subseteq Scan'
      BY <1>1, <1>3
    <2>2. ASSUME ~lost' PROVE \A x, u \in Tasks : Rebuilding(x)' /\ Rebuilding(u)' => x = u
      BY <1>1, <1>2, <1>3, <2>2
    <2>3. ASSUME ~lost' PROVE Indexed'
      <3>1. Indexed
        BY <1>2, <1>3, <2>3
      <3>2. CASE \E x \in Tasks : Dirty(x)
        BY <1>1, <1>3, <3>2 DEF Indexed
      <3>3. CASE \E x \in Tasks : Rebuilding(x) /\ owed \subseteq task[x].read
        BY <1>1, <1>3, <3>3 DEF Indexed
      <3>4. CASE (\A x \in Tasks : ~Rebuilding(x)) /\ (indexed = Unbuilt \/ owed \subseteq indexed)
        <4>1. \A x \in Tasks : ~Rebuilding(x)'
          BY <1>1, <1>3, <3>4
        <4>2. indexed' = Unbuilt \/ owed' \subseteq indexed'
          BY <1>1, <1>3, <3>4 DEF Classpath, Unbuilt
        <4>3. QED
          BY <4>1, <4>2 DEF Indexed, Unbuilt
      <3>5. QED
        BY <3>1, <3>2, <3>3, <3>4 DEF Indexed
    <2>4. QED
      BY <2>1, <2>2, <2>3 DEF IndexInv
  <1>4. CASE /\ ~Rebuilding(t)' /\ Dirty(t)' /\ owed' \subseteq owed \cup Scan' /\ Scan \subseteq Scan' /\ lost' = lost
    <2>1. owed' \subseteq Scan' /\ Indexed'
      BY <1>1, <1>4 DEF Indexed
    <2>2. ASSUME ~lost' PROVE \A x, u \in Tasks : Rebuilding(x)' /\ Rebuilding(u)' => x = u
      BY <1>1, <1>2, <1>4, <2>2
    <2>3. QED
      BY <2>1, <2>2 DEF IndexInv
  <1>5. CASE /\ Rebuilding(t)' /\ task'[t].read = Scan /\ Scan' = Scan /\ owed' = owed
             /\ lost' = (lost \/ \E u \in Tasks \ {t} : Rebuilding(u))
    <2>1. owed' \subseteq Scan' /\ Indexed'
      BY <1>1, <1>5 DEF Indexed
    <2>2. ASSUME ~lost' PROVE \A x, u \in Tasks : Rebuilding(x)' /\ Rebuilding(u)' => x = u
      BY <1>1, <1>5, <2>2
    <2>3. QED
      BY <2>1, <2>2 DEF IndexInv
  <1>6. CASE lost' /\ owed' = owed /\ Scan' = Scan
    BY <1>1, <1>6 DEF IndexInv
  <1>7. CASE /\ Rebuilding(t) /\ ~Rebuilding(t)' /\ ~Dirty(t) /\ indexed' = task[t].read /\ owed' = owed /\ Scan' = Scan
             /\ lost' = lost
    <2>1. owed' \subseteq Scan'
      BY <1>1, <1>7
    <2>2. ASSUME ~lost' PROVE Indexed' /\ \A x, u \in Tasks : Rebuilding(x)' /\ Rebuilding(u)' => x = u
      <3>1. Indexed /\ \A x \in Tasks : Rebuilding(x) => x = t
        BY <1>2, <1>7, <2>2
      <3>2. \A x \in Tasks : ~Rebuilding(x)'
        BY <1>1, <1>7, <3>1
      <3>3. CASE \E x \in Tasks : Dirty(x)
        BY <1>1, <1>7, <3>2, <3>3 DEF Indexed
      <3>4. CASE \E x \in Tasks : Rebuilding(x) /\ owed \subseteq task[x].read
        BY <1>7, <3>1, <3>2, <3>4 DEF Indexed
      <3>5. QED
        BY <1>7, <3>1, <3>3, <3>4, <3>2 DEF Indexed
    <2>3. QED
      BY <2>1, <2>2 DEF IndexInv
  <1>8. QED
    BY <1>3, <1>4, <1>5, <1>6, <1>7 DEF Effect, IndexEffect

LEMMA Held ==
    ASSUME TaskInv
    PROVE  /\ \A t \in Tasks : t \in Downloading <=> Holds(kind[t], task[t].pc)
           /\ \A t \in Tasks : t \in Installing <=> task[t].pc \in ToolPlaces
           /\ Downloading \subseteq Tasks /\ Installing \subseteq Tasks
  BY PlaceOf DEF Downloading, Installing, InLoop, InFetch, Holds, LoopPlaces, Ahead, ToolPlaces

LEMMA OnlyStep ==
    ASSUME NEW S \in SUBSET Tasks, NEW S1 \in SUBSET Tasks, NEW t \in Tasks, NEW f \in BOOLEAN, NEW f1 \in BOOLEAN,
           \A u \in Tasks \ {t} : u \in S <=> u \in S1, Only(S, f), FlagEffect(t \in S, t \in S1, f, f1), ~overlapped'
    PROVE  Only(S1, f1)
  <1>1. CASE (t \in S <=> t \in S1) /\ f1 = f
    <2>1. S1 = S
      BY <1>1, SMTT(60), Z3T(60)
    <2>2. QED
      BY <1>1, <2>1
  <1>2. CASE t \in S /\ t \notin S1 /\ ~f1
    <2>1. S = {t}
      BY <1>2 DEF Only
    <2>2. S1 = {}
      BY <1>2, <2>1
    <2>3. QED
      BY <1>2, <2>2 DEF Only
  <1>3. CASE t \notin S /\ t \in S1 /\ f1 /\ ~f
    <2>1. S = {}
      BY <1>3 DEF Only
    <2>2. S1 = {t}
      BY <1>3, <2>1
    <2>3. QED
      BY <1>3, <2>2 DEF Only
  <1>4. QED
    BY <1>1, <1>2, <1>3 DEF FlagEffect

LEMMA FlagStep ==
    ASSUME TaskInv, GlobalInv, FlagInv, NEW t \in Tasks, Effect(t)
    PROVE  FlagInv'
  <1>1. TaskInv' /\ GlobalInv' /\ kind' = kind /\ \A u \in Tasks \ {t} : task'[u] = task[u]
    BY DEF Effect, Others
  <1>2. /\ \A u \in Tasks : u \in Downloading' <=> Holds(kind[u], task'[u].pc)
        /\ \A u \in Tasks : u \in Installing' <=> task'[u].pc \in ToolPlaces
        /\ Downloading' \subseteq Tasks /\ Installing' \subseteq Tasks
    BY <1>1, PlaceOf DEF Downloading, Installing, InLoop, InFetch, Holds, LoopPlaces, Ahead, ToolPlaces
  <1>3. /\ FlagEffect(t \in Downloading, t \in Downloading', downloadInFlight, downloadInFlight')
        /\ FlagEffect(t \in Installing, t \in Installing', installInFlight, installInFlight')
    BY <1>2, Held DEF Effect, FlagEffects, FlagEffect
  <1>4. /\ \A u \in Tasks \ {t} : u \in Downloading <=> u \in Downloading'
        /\ \A u \in Tasks \ {t} : u \in Installing <=> u \in Installing'
    BY <1>1, <1>2, Held
  <1>5. {downloadInFlight, installInFlight, downloadInFlight', installInFlight'} \subseteq BOOLEAN
    BY <1>1 DEF GlobalInv
  <1>6. ASSUME ~overlapped' PROVE Only(Downloading', downloadInFlight') /\ Only(Installing', installInFlight')
    <2>1. ~overlapped
      BY <1>3, <1>6 DEF FlagEffect
    <2>2. Only(Downloading, downloadInFlight) /\ Only(Installing, installInFlight)
      BY <2>1 DEF FlagInv
    <2>3. QED
      BY <1>2, <1>3, <1>4, <1>5, <1>6, <2>2, Held, OnlyStep, SMTT(60), Z3T(60)
  <1>7. QED
    BY <1>6 DEF FlagInv, Only

LEMMA ReportStep ==
    ASSUME TaskInv, GlobalInv, ReportInv, NEW t \in Tasks, Effect(t)
    PROVE  ReportInv'
  <1>1. /\ \A u \in Tasks \ {t} : task'[u] = task[u] /\ session'[u] = session[u]
        /\ runCounter \in Nat /\ \A u \in Tasks : task[u].name \in Nat /\ task'[u].name \in Nat
        /\ \A u \in Tasks : task[u].name <= runCounter
        /\ \A x, u \in Tasks : task[x].name = task[u].name => x = u \/ task[x].name = 0
    BY DEF Effect, Others, GlobalInv, TaskInv, Task, ReportInv
  <1>2. \A u \in Tasks \ {t} : Waits(task'[u]) => task'[u].name > 0 /\ (task'[u].finished => session'[u] = "over" \/ task'[u].cancelled)
    BY <1>1 DEF ReportInv, Waits
  <1>3. CASE ~Waits(task'[t]) /\ task'[t].name \in {task[t].name, 0} /\ runCounter' = runCounter
    <2>1. \A u \in Tasks : task'[u].name <= runCounter'
      BY <1>1, <1>3, SMTT(60), Z3T(60)
    <2>2. \A x, u \in Tasks : task'[x].name = task'[u].name => x = u \/ task'[x].name = 0
      BY <1>1, <1>3
    <2>3. QED
      BY <1>2, <1>3, <2>1, <2>2 DEF ReportInv, Waits
  <1>4. CASE task'[t].name = runCounter + 1 /\ ~task'[t].finished /\ runCounter' = runCounter + 1
    <2>1. \A u \in Tasks : task'[u].name <= runCounter'
      BY <1>1, <1>4, SMTT(60), Z3T(60)
    <2>2. \A u \in Tasks \ {t} : task'[u].name # task'[t].name
      BY <1>1, <1>4, SMTT(60), Z3T(60)
    <2>3. \A x, u \in Tasks : task'[x].name = task'[u].name => x = u \/ task'[x].name = 0
      BY <1>1, <2>2
    <2>4. task'[t].name > 0
      BY <1>1, <1>4, SMTT(60), Z3T(60)
    <2>5. QED
      BY <1>2, <1>4, <2>1, <2>3, <2>4 DEF ReportInv, Waits
  <1>5. CASE /\ Waits(task[t]) /\ task'[t].name = task[t].name /\ runCounter' = runCounter
             /\ task'[t].cancelled \/ (/\ task'[t].finished = task[t].finished /\ task'[t].cancelled = task[t].cancelled
                                        /\ session'[t] = session[t])
    <2>1. task[t].name > 0 /\ (task[t].finished => session[t] = "over" \/ task[t].cancelled)
      BY <1>5 DEF ReportInv
    <2>2. task'[t].name > 0 /\ (task'[t].finished => session'[t] = "over" \/ task'[t].cancelled)
      BY <1>5, <2>1
    <2>3. \A u \in Tasks : task'[u].name <= runCounter'
      BY <1>1, <1>5
    <2>4. \A x, u \in Tasks : task'[x].name = task'[u].name => x = u \/ task'[x].name = 0
      BY <1>1, <1>5, SMTT(60), Z3T(60)
    <2>5. QED
      BY <1>2, <2>2, <2>3, <2>4 DEF ReportInv, Waits
  <1>6. QED
    BY <1>3, <1>4, <1>5 DEF Effect, ReportEffect

IInv == TaskInv /\ GlobalInv /\ FileInv /\ IndexInv /\ FlagInv /\ ReportInv

\* Steps in which no invocation moves.
Still ==
    /\ kind' = kind
    /\ \A u \in Tasks : /\ task'[u].pc = task[u].pc /\ task'[u].dirty = task[u].dirty /\ task'[u].read = task[u].read
                        /\ task'[u].coord = task[u].coord

LEMMA StillFlags == ASSUME TaskInv, TaskInv', FlagInv, Still, UNCHANGED flags PROVE FlagInv'
  <1>1. Downloading' = Downloading /\ Installing' = Installing
    BY DEF Still, Downloading, Installing, InLoop, InFetch
  <1>2. QED
    BY <1>1 DEF FlagInv, Only, flags

LEMMA StillIndex ==
    ASSUME TaskInv, IndexInv, Still, lost' = lost, owed' = owed, Scan \subseteq Scan', indexed' \in {indexed, Classpath, Unbuilt}
    PROVE  IndexInv'
  <1>1. /\ \A u \in Tasks : (Rebuilding(u) <=> Rebuilding(u)') /\ (Dirty(u) <=> Dirty(u)') /\ task'[u].read = task[u].read
        /\ owed \subseteq Scan
    BY DEF Still, Rebuilding, Dirty, IndexInv
  <1>2. ~lost => Indexed /\ \A x, u \in Tasks : Rebuilding(x) /\ Rebuilding(u) => x = u
    BY DEF IndexInv
  <1>3. indexed = Unbuilt \/ owed \subseteq indexed => indexed' = Unbuilt \/ owed' \subseteq indexed'
    BY <1>1 DEF Classpath, Unbuilt
  <1>4. Indexed => Indexed'
    BY <1>1, <1>3 DEF Indexed, Unbuilt
  <1>5. QED
    BY <1>1, <1>2, <1>4 DEF IndexInv

LEMMA StillFiles == ASSUME TaskInv, FileInv, Still, m2' = m2 PROVE FileInv'
  BY DEF FileInv, FilesWhole, JarHasPom, Still

\* The build tool installs both files of a coordinate.
LEMMA ToolInstallsStep == ASSUME IInv, NEW t \in Tasks, ToolInstalls(t) PROVE IInv'
  <1>1. UNCHANGED <<task, user, flags, server, child, tests, owed>>
    BY DEF ToolInstalls
  <1>2. PICK c \in Coords : m2' = [m2 EXCEPT ![c] = [pom |-> "intact", jar |-> "intact"]]
    BY DEF ToolInstalls
  <1>3. m2 \in [Coordinates -> [{"pom", "jar"} -> {"none", "intact", "corrupt"}]] /\ c \in Coordinates
    BY DEF IInv, GlobalInv, Coordinates
  <1>4. m2' \in [Coordinates -> [{"pom", "jar"} -> {"none", "intact", "corrupt"}]]
    BY <1>2, <1>3, SMTT(60), Z3T(60)
  <1>5. \A d \in Coordinates, ext \in {"pom", "jar"} : m2'[d][ext] = IF d = c THEN "intact" ELSE m2[d][ext]
    BY <1>2, <1>3, SMTT(60), Z3T(60)
  <1>6. TaskInv' /\ Still
    BY <1>1 DEF IInv, TaskInv, Sound, Still, user
  <1>7. GlobalInv'
    BY <1>1, <1>4 DEF IInv, GlobalInv, user, flags, server, tests
  <1>8. FileInv'
    <2>1. \A u \in Tasks : task[u].coord \in Coordinates
      BY DEF IInv, TaskInv, Task
    <2>2. FilesWhole' /\ JarHasPom'
      BY <1>5 DEF IInv, FileInv, FilesWhole, JarHasPom
    <2>3. QED
      BY <1>1, <1>5, <2>1, <2>2 DEF IInv, FileInv
  <1>9. IndexInv'
    <2>1. \A d \in Coords : d \in Coordinates
      BY DEF Coordinates
    <2>2. Scan \subseteq Scan'
      BY <1>5, <2>1 DEF Scan
    <2>3. QED
      BY <1>1, <1>6, <2>2, StillIndex DEF IInv, server
  <1>10. FlagInv' /\ ReportInv'
    BY <1>1, <1>6, StillFlags DEF IInv, ReportInv, Waits, tests
  <1>11. QED
    BY <1>6, <1>7, <1>8, <1>9, <1>10 DEF IInv

\* A session starts or ends for those that hear of it.
LEMMA HeardBecomes ==
    ASSUME NEW r \in Task, NEW k, Sound(r, k)
    PROVE  /\ [r EXCEPT !.heard = TRUE] \in Task /\ Sound([r EXCEPT !.heard = TRUE], k)
           /\ [r EXCEPT !.finished = TRUE] \in Task /\ Sound([r EXCEPT !.finished = TRUE], k)
  <1> DEFINE h == [r EXCEPT !.heard = TRUE]
             f == [r EXCEPT !.finished = TRUE]
  <1>1. /\ h \in Task /\ h.pc = r.pc /\ h.data = r.data /\ h.tried = r.tried /\ h.bytes = r.bytes /\ h.coord = r.coord
        /\ h.fresh = r.fresh /\ h.dirty = r.dirty /\ h.mode = r.mode
    BY DEF Task
  <1>2. /\ f \in Task /\ f.pc = r.pc /\ f.data = r.data /\ f.tried = r.tried /\ f.bytes = r.bytes /\ f.coord = r.coord
        /\ f.fresh = r.fresh /\ f.dirty = r.dirty /\ f.mode = r.mode
    BY DEF Task
  <1> HIDE DEF h, f
  <1>3. Sound(h, k) /\ Sound(f, k)
    BY <1>1, <1>2 DEF Sound
  <1>4. QED
    BY <1>1, <1>2, <1>3 DEF h, f

LEMMA HeardFields ==
    ASSUME NEW r \in Task, NEW s \in {[r EXCEPT !.heard = TRUE], [r EXCEPT !.finished = TRUE], r}
    PROVE  /\ s.pc = r.pc /\ s.dirty = r.dirty /\ s.read = r.read /\ s.coord = r.coord /\ s.name = r.name
           /\ s.cancelled = r.cancelled
           /\ s = [r EXCEPT !.heard = TRUE] => s.finished = r.finished
  BY DEF Task

LEMMA SessionStep == ASSUME IInv, NEW t \in Tasks, SessionStarts(t) \/ SessionEnds(t) PROVE IInv'
  <1>1. UNCHANGED <<user, flags, server, m2, child, runCounter, owed>>
    BY DEF SessionStarts, SessionEnds
  <1>2. \A u \in Tasks : task[u] \in Task /\ Sound(task[u], kind[u])
    BY DEF IInv, TaskInv
  <1>3. /\ \A u \in Tasks : task'[u] \in {[task[u] EXCEPT !.heard = TRUE], [task[u] EXCEPT !.finished = TRUE], task[u]}
        /\ task' = [u \in Tasks |-> task'[u]]
    BY DEF SessionStarts, SessionEnds
  <1>4. TaskInv'
    <2>1. \A u \in Tasks : task'[u] \in Task /\ Sound(task'[u], kind[u])
      BY <1>2, <1>3, HeardBecomes
    <2>2. task' \in [Tasks -> Task]
      BY <1>3, <2>1
    <2>3. QED
      BY <1>1, <2>1, <2>2 DEF IInv, TaskInv, user, Sound
  <1>5. \A u \in Tasks : /\ task'[u].pc = task[u].pc /\ task'[u].dirty = task[u].dirty /\ task'[u].read = task[u].read
                         /\ task'[u].coord = task[u].coord /\ task'[u].name = task[u].name
                         /\ task'[u].cancelled = task[u].cancelled
    <2>1. SUFFICES ASSUME NEW u \in Tasks
                   PROVE  /\ task'[u].pc = task[u].pc /\ task'[u].dirty = task[u].dirty /\ task'[u].read = task[u].read
                          /\ task'[u].coord = task[u].coord /\ task'[u].name = task[u].name
                          /\ task'[u].cancelled = task[u].cancelled
      OBVIOUS
    <2>2. task[u] \in Task /\ task'[u] \in {[task[u] EXCEPT !.heard = TRUE], [task[u] EXCEPT !.finished = TRUE], task[u]}
      BY <1>2, <1>3
    <2>3. QED
      BY <2>2, HeardFields
  <1>6. Still
    BY <1>1, <1>5 DEF Still, user
  <1>7. session' \in [Tasks -> {"none", "asked", "running", "stopping", "over"}] /\ \A u \in Tasks \ {t} : session'[u] = session[u]
    BY DEF SessionStarts, SessionEnds, IInv, GlobalInv
  <1>8. GlobalInv'
    BY <1>1, <1>7 DEF IInv, GlobalInv, user, flags, server
  <1>9. FlagInv' /\ FileInv' /\ IndexInv'
    <2>1. Scan' = Scan
      BY <1>1 DEF Scan
    <2>2. QED
      BY <1>1, <1>4, <1>6, <2>1, StillFlags, StillFiles, StillIndex DEF IInv, server
  <1>10. ASSUME NEW u \in Tasks, Waits(task'[u])
         PROVE  task'[u].name > 0 /\ (task'[u].finished => session'[u] = "over" \/ task'[u].cancelled)
    <2>1. /\ Waits(task[u]) /\ task[u].name > 0
          /\ task[u].finished => session[u] = "over" \/ task[u].cancelled
      BY <1>5, <1>10 DEF Waits, IInv, ReportInv
    <2>2. CASE task'[u].finished = task[u].finished
      <3>1. session[u] = "over" => session'[u] = "over"
        BY <1>7 DEF SessionStarts, SessionEnds, IInv, GlobalInv
      <3>2. QED
        BY <1>5, <2>1, <2>2, <3>1
    <2>3. CASE task'[u].finished # task[u].finished
      <3>1. SessionEnds(t) /\ u \in Hearing(t)
        <4>1. CASE task'[u] = task[u]
          BY <2>3, <4>1
        <4>2. CASE task'[u] = [task[u] EXCEPT !.heard = TRUE]
          BY <1>2, <2>3, <4>2, HeardFields
        <4>3. QED
          BY <4>1, <4>2 DEF SessionStarts, SessionEnds
      <3>2. task[u].name = task[t].name
        BY <3>1 DEF Hearing
      <3>3. task[u].name # 0
        <4>1. task[u].name \in Nat
          BY <1>2 DEF Task
        <4>2. QED
          BY <2>1, <4>1, SMTT(60), Z3T(60)
      <3>4. u = t
        BY <3>2, <3>3 DEF IInv, ReportInv
      <3>5. session'[u] = "over"
        BY <3>1, <3>4 DEF SessionEnds, IInv, GlobalInv
      <3>6. QED
        BY <1>5, <2>1, <3>5
    <2>4. QED
      BY <2>2, <2>3
  <1>11. ReportInv'
    BY <1>1, <1>5, <1>10, SMTT(60), Z3T(60) DEF IInv, ReportInv
  <1>12. QED
    BY <1>4, <1>8, <1>9, <1>11 DEF IInv

LEMMA ServerStep == ASSUME IInv, BuildLazily \/ Restart \/ GrantTrust \/ UNCHANGED vars PROVE IInv'
  <1>1. /\ UNCHANGED <<task, kind, flags, lost, m2, child, tests, owed>> /\ indexed' \in {indexed, Classpath, Unbuilt}
        /\ trusted' \in BOOLEAN
    BY DEF BuildLazily, Restart, GrantTrust, vars, user, server, IInv, GlobalInv, Classpath
  <1>2. TaskInv' /\ Still
    BY <1>1 DEF IInv, TaskInv, Sound, Still
  <1>3. gen' \in 0 .. MaxRestarts
    <2>1. gen \in 0 .. MaxRestarts /\ MaxRestarts \in Nat
      BY BoundAssumption DEF IInv, GlobalInv
    <2>2. QED
      BY <2>1, SMTT(60), Z3T(60) DEF BuildLazily, Restart, GrantTrust, vars, server
  <1>4. indexed' = Unbuilt \/ indexed' \subseteq Coords
    BY <1>1, MissingTyped DEF IInv, GlobalInv
  <1>5. GlobalInv'
    BY <1>1, <1>3, <1>4 DEF IInv, GlobalInv, flags, tests
  <1>6. FileInv' /\ FlagInv' /\ IndexInv'
    <2>1. Scan' = Scan
      BY <1>1 DEF Scan
    <2>2. QED
      BY <1>1, <1>2, <2>1, StillFlags, StillFiles, StillIndex DEF IInv
  <1>7. ReportInv'
    BY <1>1 DEF IInv, ReportInv, Waits, tests
  <1>8. QED
    BY <1>2, <1>5, <1>6, <1>7 DEF IInv

\* Every invocation at one of its ends.
LEMMA AtRest ==
    ASSUME kind \in Sessions, NEW pc \in {"new", "done"}, task = [t \in Tasks |-> Fresh(pc)],
           ~downloadInFlight, ~installInFlight, indexed = Unbuilt, owed = {}, runCounter = 0
    PROVE  TaskInv /\ IndexInv /\ FlagInv /\ ReportInv
  <1>1. pc \in Places /\ \A k : pc \in PlacesOf(k) \ LoopPlaces
    BY DEF Places, PlacesOf, LoopPlaces, Ahead
  <1>2. /\ Fresh(pc) \in Task /\ Fresh(pc).pc = pc /\ Fresh(pc).name = 0 /\ Fresh(pc).data = "intact" /\ Fresh(pc).tried = {}
        /\ Fresh(pc).bytes = 0 /\ Fresh(pc).mode = ""
    BY <1>1, FreshIs
  <1>3. \A k : Sound(Fresh(pc), k)
    BY <1>1, <1>2, FreshSound
  <1>4. \A t \in Tasks : task[t] = Fresh(pc) /\ task[t].pc = pc /\ task[t].name = 0
    BY <1>2
  <1>5. TaskInv
    BY <1>2, <1>3, <1>4, SessionsAssumption DEF TaskInv, Kinds
  <1>6. IndexInv
    BY <1>4 DEF IndexInv, Indexed, Rebuilding, RebuildPlaces
  <1>7. FlagInv
    <2>1. \A t \in Tasks : ~Holds(kind[t], task[t].pc) /\ task[t].pc \notin ToolPlaces
      BY <1>4 DEF Holds, LoopPlaces, Ahead, ToolPlaces
    <2>2. Downloading = {} /\ Installing = {}
      BY <1>5, <2>1, Held
    <2>3. QED
      BY <2>2 DEF FlagInv, Only
  <1>8. ReportInv
    BY <1>4, SMTT(60), Z3T(60) DEF ReportInv, Waits
  <1>9. QED
    BY <1>5, <1>6, <1>7, <1>8

LEMMA InitStep == Init => IInv
  <1> SUFFICES ASSUME Init PROVE IInv
    OBVIOUS
  <1>1. TaskInv /\ IndexInv /\ FlagInv /\ ReportInv
    BY AtRest DEF Init
  <1>2. m2 = [c \in Coordinates |-> [pom |-> "none", jar |-> "none"]] /\ \A t \in Tasks : task[t].pc = "new"
    BY <1>1 DEF Init, Coordinates, Fresh
  <1>3. FileInv
    <2>1. \A c \in Coordinates, ext \in {"pom", "jar"} : m2[c][ext] = "none"
      BY <1>2, SMTT(60), Z3T(60)
    <2>2. QED
      BY <1>2, <2>1 DEF FileInv, FilesWhole, JarHasPom
  <1>4. gen \in 0 .. MaxRestarts
    BY BoundAssumption, SMTT(60), Z3T(60) DEF Init
  <1>5. m2 \in [Coordinates -> [{"pom", "jar"} -> {"none", "intact", "corrupt"}]]
    BY <1>2, SMTT(60), Z3T(60)
  <1>6. GlobalInv
    BY <1>4, <1>5 DEF Init, GlobalInv
  <1>7. QED
    BY <1>1, <1>3, <1>6 DEF IInv

LEMMA KilledStep == ASSUME IInv, Killed PROVE IInv'
  <1>1. /\ kind' \in Sessions /\ task' = [t \in Tasks |-> Fresh("done")] /\ ~downloadInFlight' /\ ~installInFlight'
        /\ indexed' = Unbuilt /\ owed' = {} /\ runCounter' = 0 /\ m2' = m2
    BY DEF Killed, IInv, TaskInv, user
  <1>2. TaskInv' /\ IndexInv' /\ FlagInv' /\ ReportInv'
    <2>1. "done" \in Places /\ \A k : "done" \in PlacesOf(k) \ LoopPlaces
      BY DEF Places, PlacesOf, LoopPlaces, Ahead
    <2>2. /\ Fresh("done") \in Task /\ Fresh("done").pc = "done" /\ Fresh("done").name = 0 /\ Fresh("done").data = "intact"
          /\ Fresh("done").tried = {} /\ Fresh("done").bytes = 0 /\ Fresh("done").mode = ""
      BY <2>1, FreshIs
    <2>3. \A k : Sound(Fresh("done"), k)
      BY <2>1, <2>2, FreshSound
    <2>4. \A t \in Tasks : task'[t] = Fresh("done") /\ task'[t].pc = "done" /\ task'[t].name = 0
      BY <1>1, <2>2
    <2>5. TaskInv'
      BY <1>1, <2>2, <2>3, <2>4, SessionsAssumption DEF TaskInv, Kinds
    <2>6. IndexInv'
      BY <1>1, <2>4 DEF IndexInv, Indexed, Rebuilding, RebuildPlaces, Unbuilt
    <2>7. Downloading' = {} /\ Installing' = {}
      BY <2>4 DEF Downloading, Installing, InLoop, InFetch
    <2>8. FlagInv' /\ ReportInv'
      BY <1>1, <2>4, <2>7, SMTT(60), Z3T(60) DEF FlagInv, Only, ReportInv, Waits
    <2>9. QED
      BY <2>5, <2>6, <2>8
  <1>3. FileInv'
    <2>1. \A t \in Tasks : task'[t].pc = "done"
      BY <1>1 DEF Fresh
    <2>2. QED
      BY <1>1, <2>1 DEF IInv, FileInv, FilesWhole, JarHasPom
  <1>4. gen' \in 0 .. MaxRestarts
    BY BoundAssumption, SMTT(60), Z3T(60) DEF Killed
  <1>5. GlobalInv'
    BY <1>4 DEF Killed, IInv, GlobalInv, user, Unbuilt
  <1>6. QED
    BY <1>2, <1>3, <1>5 DEF IInv

-----------------------------------------------------------------------------
LEMMA SendSteps ==
    ASSUME TaskInv, GlobalInv, NEW t \in Tasks, RebuildClasspath(t) \/ FinalRebuild(t) \/ Refresh(t)
    PROVE  Effect(t)
  <1>1. task[t].client \in 0 .. MaxRestarts /\ gen \in 0 .. MaxRestarts
    BY PlaceOf DEF Task, GlobalInv
  <1>2. CASE RebuildClasspath(t)
    BY <1>1, <1>2, SendEffect DEF RebuildClasspath
  <1>3. CASE FinalRebuild(t)
    BY <1>1, <1>3, SendEffect DEF FinalRebuild
  <1>4. CASE Refresh(t)
    BY <1>1, <1>4, SendEffect DEF Refresh
  <1>5. QED
    BY <1>2, <1>3, <1>4

-----------------------------------------------------------------------------
(* What counts the artifacts attempted rests on the library's facts about
   finite sets.                                                              *)
INSTANCE FiniteSetTheorems

LEMMA CountedIsFinite ==
    ASSUME NEW S, Counted(S)
    PROVE  IsFiniteSet(S) /\ Cardinality(S) \in Nat /\ Cardinality(S) <= MAX_ARTIFACTS_PER_INVOCATION
  <1>1. IsFiniteSet(S) /\ (S = {} => Cardinality(S) = 0)
    BY FS_EmptySet DEF Counted
  <1>2. Cardinality(S) \in Nat
    BY <1>1, FS_CardinalityType
  <1>3. QED
    BY <1>1, <1>2, BoundAssumption, SMTT(60), Z3T(60) DEF Counted

LEMMA OneMoreCounted ==
    ASSUME NEW S, Counted(S), NEW x, x \notin S, Cardinality(S) < MAX_ARTIFACTS_PER_INVOCATION
    PROVE  Counted(S \cup {x})
  <1>1. IsFiniteSet(S) /\ Cardinality(S) \in Nat
    BY CountedIsFinite
  <1>2. IsFiniteSet(S \cup {x}) /\ Cardinality(S \cup {x}) = Cardinality(S) + 1
    BY <1>1, FS_AddElement
  <1>3. QED
    BY <1>1, <1>2, BoundAssumption, SMTT(60), Z3T(60) DEF Counted

LEMMA ArtifactBecomes ==
    ASSUME TaskInv, NEW t \in Tasks, NextArtifact(t), kind[t] \in {"manual", "auto"}
    PROVE  \E r : /\ Becomes(t, r) /\ r.pc \in {"fetch", "rebuild", "wrap"}
                  /\ r.dirty = task[t].dirty /\ r.name = task[t].name
  <1>1. task[t] \in Task /\ Sound(task[t], kind[t]) /\ task[t].pc = "next"
    BY DEF TaskInv, NextArtifact, At
  <1> DEFINE left == task[t].pending \ task[t].tried
  <1>2. {"rebuild", "wrap", "fetch"} \subseteq PlacesOf(kind[t]) \cap Places
    BY DEF PlacesOf, Places, LoopPlaces, Ahead
  <1>3. CASE Go(t, "wrap")
    <2>1. \E r : Becomes(t, r) /\ r.pc = "wrap" /\ Alike(r, task[t])
      BY <1>2, <1>3, GoBecomes
    <2>2. QED
      BY <2>1 DEF Alike
  <1>4. CASE Go(t, "rebuild") /\ task[t].fresh
    <2>1. task[t].dirty
      BY <1>1, <1>4 DEF Sound
    <2>2. \E r : Becomes(t, r) /\ r.pc = "rebuild" /\ Alike(r, task[t])
      BY <1>2, <1>4, <2>1, GoBecomes
    <2>3. QED
      BY <2>2 DEF Alike
  <1>5. ASSUME NEW c \in left, Cardinality(task[t].tried) < MAX_ARTIFACTS_PER_INVOCATION,
               task' = [task EXCEPT ![t].pc = "fetch", ![t].coord = c, ![t].tried = @ \cup {c}]
        PROVE  \E r : /\ Becomes(t, r) /\ r.pc = "fetch" /\ r.dirty = task[t].dirty /\ r.name = task[t].name
    <2> DEFINE r == [task[t] EXCEPT !.pc = "fetch", !.coord = c, !.tried = @ \cup {c}]
    <2>1. c \in Coords /\ c \notin task[t].tried
      BY <1>1 DEF Task
    <2>2. task' = [task EXCEPT ![t] = r]
      BY <1>1, <1>5 DEF TaskInv, Task
    <2>3. r \in Task
      BY <1>1, <2>1 DEF Task, Places, Coordinates
    <2>4. /\ r.pc = "fetch" /\ r.fresh = task[t].fresh /\ r.dirty = task[t].dirty /\ r.name = task[t].name
          /\ r.data = task[t].data /\ r.tried = task[t].tried \cup {c} /\ r.bytes = task[t].bytes /\ r.coord = c
      BY <1>1 DEF Task
    <2> HIDE DEF r
    <2>5. Counted(task[t].tried \cup {c})
      BY <1>1, <1>5, <2>1, OneMoreCounted DEF Sound
    <2>6. Sound(r, kind[t])
      BY <1>1, <1>2, <2>1, <2>4, <2>5 DEF Sound
    <2>7. QED
      BY <2>2, <2>3, <2>4, <2>6 DEF Becomes
  <1>6. \/ Go(t, "wrap") \/ (Go(t, "rebuild") /\ task[t].fresh)
        \/ /\ Cardinality(task[t].tried) < MAX_ARTIFACTS_PER_INVOCATION
           /\ \E c \in left : task' = [task EXCEPT ![t].pc = "fetch", ![t].coord = c, ![t].tried = @ \cup {c}]
    BY DEF NextArtifact
  <1>7. QED
    BY <1>3, <1>4, <1>5, <1>6

LEMMA NextArtifactEffect == ASSUME TaskInv, GlobalInv, NEW t \in Tasks, NextArtifact(t) PROVE Effect(t)
  <1>1. task[t].pc = "next" /\ kind[t] \in {"manual", "auto"}
    BY PlaceOf DEF NextArtifact, At, PlacesOf, LoopPlaces, Ahead, ToolPlaces, Kinds
  <1>2. PICK r : Becomes(t, r) /\ r.pc \in {"fetch", "rebuild", "wrap"} /\ r.dirty = task[t].dirty /\ r.name = task[t].name
    BY <1>1, ArtifactBecomes
  <1>3. Calm(kind[t], task[t].pc, r.pc, task[t].dirty)
    BY <1>1, <1>2 DEF Calm, Holds, LoopPlaces, Ahead, ToolPlaces, RebuildPlaces
  <1>4. UNCHANGED <<user, flags, server, m2, child, tests, owed>>
    BY DEF NextArtifact
  <1>5. QED
    BY <1>2, <1>3, <1>4, CalmEffect DEF GlobalInv, user

LEMMA InvocationStep ==
    ASSUME TaskInv, GlobalInv, NEW t \in Tasks, DownloadStep(t) \/ TestStep(t) \/ UserStep(t) \/ OtherStep(t),
           ~SessionStarts(t), ~SessionEnds(t), ~ToolInstalls(t)
    PROVE  Effect(t)
  <1>1. CASE DownloadStep(t)
    BY <1>1, QueryEffect, StartRoundEffect, NextArtifactEffect, SendSteps, RebuiltEffect, RequeryEffect, WrapUpEffect,
       FinalizedEffect, FetchEffect, InstallFileEffect DEF DownloadStep
  <1>2. CASE TestStep(t)
    BY <1>2, StartGroupEffect, DebuggingStartedEffect, ReadReportsEffect DEF TestStep
  <1>3. CASE UserStep(t)
    BY <1>3, DownloadDependenciesEffect, ConsentEffect, AnswerPromptEffect, AnswerOfferEffect, InstallDependenciesEffect,
       ConfirmEffect, RunTestsEffect, EnsureLauncherEffect, CancelEffect DEF UserStep
  <1>4. CASE OtherStep(t)
    BY <1>4, FirstDiagnosticsEffect, PersistedEffect, ToolExitsEffect, ToolAbandonedEffect, ToolStopsEffect, SendSteps,
       RefreshedEffect, DebuggingRefusedEffect DEF OtherStep
  <1>5. QED
    BY <1>1, <1>2, <1>3, <1>4

LEMMA NextStep == IInv /\ [Next]_vars => IInv'
  <1> SUFFICES ASSUME IInv, [Next]_vars PROVE IInv'
    OBVIOUS
  <1>1. ASSUME NEW t \in Tasks, DownloadStep(t) \/ TestStep(t) \/ UserStep(t) \/ OtherStep(t) PROVE IInv'
    <2>1. CASE SessionStarts(t) \/ SessionEnds(t)
      BY <2>1, SessionStep
    <2>2. CASE ToolInstalls(t)
      BY <2>2, ToolInstallsStep
    <2>3. CASE ~(SessionStarts(t) \/ SessionEnds(t)) /\ ~ToolInstalls(t)
      <3>1. Effect(t)
        BY <1>1, <2>3, InvocationStep DEF IInv
      <3>2. TaskInv' /\ GlobalInv'
        BY <3>1 DEF Effect
      <3>3. FileInv' /\ IndexInv' /\ FlagInv' /\ ReportInv'
        BY <3>1, FileStep, IndexStep, FlagStep, ReportStep DEF IInv
      <3>4. QED
        BY <3>2, <3>3 DEF IInv
    <2>4. QED
      BY <2>1, <2>2, <2>3
  <1>2. CASE BuildLazily \/ Restart \/ GrantTrust \/ UNCHANGED vars
    BY <1>2, ServerStep
  <1>3. CASE Killed
    BY <1>3, KilledStep
  <1>4. QED
    BY <1>1, <1>2, <1>3 DEF Next

\* The inductive invariant holds throughout.
LEMMA Invariance == Spec => []IInv
  BY InitStep, NextStep, PTL DEF Spec

\* The extension's state keeps its types (extension.ts, testing.ts).
THEOREM Typed == Spec => []TypeOK
  <1>1. IInv => TypeOK
    BY DEF IInv, TaskInv, GlobalInv, Task, TypeOK
  <1>2. QED
    BY <1>1, Invariance, PTL

\* Whatever fails, crosses or is killed, what a consent leaves in the local
\* repository is whole files, no jar without its pom, and no more than was
\* allowed (fetchAndInstallArtifact, installVerifiedFile, runDownloadLoop).
THEOREM Usable == Spec => []DownloadsUsable
  <1>1. IInv => DownloadsUsable
    BY CountedIsFinite DEF IInv, TaskInv, Sound, FileInv, DownloadsUsable, BudgetKept
  <1>2. QED
    BY <1>1, Invariance, PTL

\* Once nothing is under way, all that was installed is in the classpath,
\* unless a last rebuild failed or two crossed (runDownloadLoop, runInstall).
THEOREM InstalledIsIndexed == Spec => []NothingUnindexed
  <1>1. ASSUME IInv PROVE NothingUnindexed
    <2> SUFFICES ASSUME \A t \in Tasks : task[t].pc \in {"new", "done", "offer", "confirm", "prompt"}, indexed # Unbuilt, ~lost
                 PROVE  owed \subseteq indexed
      BY DEF NothingUnindexed
    <2>1. \A t \in Tasks : ~Dirty(t) /\ ~Rebuilding(t)
      BY DEF Dirty, Rebuilding, RebuildPlaces, Ahead
    <2>2. QED
      BY <1>1, <2>1 DEF IInv, IndexInv, Indexed
  <1>2. QED
    BY <1>1, Invariance, PTL

\* As long as none is started over another, the flags of downloads and of
\* installations are set exactly while one invocation is under way, whichever
\* way it ends (downloadDependencies, runInstall).
THEOREM FlagsGivenBack == Spec => []FlagsHeld
  <1>1. ASSUME IInv PROVE FlagsHeld
    <2>1. ASSUME NEW S, NEW flag \in BOOLEAN, Only(S, flag) PROVE Cardinality(S) = IF flag THEN 1 ELSE 0
      BY <2>1, FS_Singleton, FS_EmptySet DEF Only
    <2>2. downloadInFlight \in BOOLEAN /\ installInFlight \in BOOLEAN
      BY <1>1 DEF IInv, GlobalInv
    <2>3. QED
      BY <1>1, <2>1, <2>2 DEF IInv, FlagInv, FlagsHeld
  <1>2. QED
    BY <1>1, Invariance, PTL

\* The reports of a run that was not cancelled are read after its own session
\* has ended (waitForSessionEnd).
THEOREM ReportsOfOwnSession == Spec => ReportsReadAtEnd
  <1>1. ASSUME IInv, NEW t \in Tasks, ReadReports(t) PROVE session[t] = "over" \/ task[t].cancelled
    <2>1. Waits(task[t]) /\ task[t].finished
      BY <1>1 DEF ReadReports, At, Waits
    <2>2. QED
      BY <1>1, <2>1 DEF IInv, ReportInv
  <1>2. IInv /\ [Next]_vars => [\A t \in Tasks : ReadReports(t) => session[t] = "over" \/ task[t].cancelled]_vars
    BY <1>1
  <1>3. QED
    BY <1>2, Invariance, PTL DEF Spec, ReportsReadAtEnd
=============================================================================
