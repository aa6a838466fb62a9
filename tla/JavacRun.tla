------------------------------- MODULE JavacRun -------------------------------
(***************************************************************************)
(* One javac process at a time: the single-flight flag of execute_command  *)
(* (crates/server/src/main.rs), the blocking job that runs the compiler,   *)
(* its timeout, the slot shared with shutdown, and the reader threads a    *)
(* killed run leaves behind (crates/server/src/javac.rs).                  *)
(*                                                                         *)
(* A request has a handler on the executor and, once it has claimed the    *)
(* flag, a job on the blocking pool, which a cancelled handler does not    *)
(* stop.  The operating system's part is external: children exit when they *)
(* like, and a descendant of one may keep its output pipes open.           *)
(***************************************************************************)
EXTENDS Integers, FiniteSets

CONSTANTS
    Requests,     \* checkProject requests in flight at once
    LeakCap,      \* LeakedReaders::cap
    MaxRuns       \* bound on the runs

ASSUME ConstantsAssumption ==
    /\ LeakCap \in Nat
    /\ MaxRuns \in Nat

NoChild == "none"       \* the slot is empty
Exited  == "exited"     \* the slot holds the handle of a child already reaped
Pipes   == {"stdout", "stderr"}

ASSUME SlotAssumption == NoChild \notin Requests /\ Exited \notin Requests

VARIABLES
    javac_running,  \* Backend::javac_running
    server,         \* "up", "stopping" after shutdown, "exited"
    handler,        \* is a request's handler waiting for its job, or cancelled?
    job,            \* where its job is
    child,          \* the process it spawned
    held,           \* pipes a descendant of that process still holds
    slot,           \* Backend::javac_child
    outcome,        \* RunOutcome of the last job of each request
    live,           \* leaked readers still blocked
    runs            \* runs so far

vars == <<javac_running, server, handler, job, child, held, slot, outcome, live, runs>>

Jobs == {"none", "start", "spawned", "poll", "join", "finished"}
Outcomes == {"none", "Completed", "TimedOut", "Cancelled", "SpawnError"}

TypeOK ==
    /\ javac_running \in BOOLEAN
    /\ server \in {"up", "stopping", "exited"}
    /\ handler \in [Requests -> {"idle", "await", "dropped"}]
    /\ job \in [Requests -> Jobs]
    /\ child \in [Requests -> {"none", "alive", "zombie", "reaped"}]
    /\ held \in [Requests -> SUBSET Pipes]
    /\ slot \in Requests \cup {NoChild, Exited}
    /\ outcome \in [Requests -> Outcomes]
    /\ live \in Nat
    /\ runs \in Nat

Init ==
    /\ javac_running = FALSE
    /\ server = "up"
    /\ handler = [r \in Requests |-> "idle"]
    /\ job = [r \in Requests |-> "none"]
    /\ child = [r \in Requests |-> "none"]
    /\ held = [r \in Requests |-> {}]
    /\ slot = NoChild
    /\ outcome = [r \in Requests |-> "none"]
    /\ live = 0
    /\ runs = 0

-----------------------------------------------------------------------------
(***************************************************************************)
(* The handler                                                             *)
(***************************************************************************)
\* A mutant of ExecuteCommand: the flag is set without being tested.
ExecuteCommandUntested(r) ==
    /\ server = "up"
    /\ handler[r] = "idle" /\ job[r] = "none"
    /\ runs < MaxRuns
    /\ runs' = runs + 1
    /\ javac_running' = TRUE
    /\ handler' = [handler EXCEPT ![r] = "await"]
    /\ job' = [job EXCEPT ![r] = "start"]
    /\ UNCHANGED <<server, child, held, slot, outcome, live>>

\* execute_command past the swap of the flag; a request that finds it set
\* returns "already-running" and changes nothing.  The service refuses
\* requests once it was shut down.
ExecuteCommand(r) ==
    /\ server = "up"
    /\ handler[r] = "idle" /\ job[r] = "none"
    /\ ~javac_running
    /\ runs < MaxRuns
    /\ runs' = runs + 1
    /\ javac_running' = TRUE
    /\ handler' = [handler EXCEPT ![r] = "await"]
    /\ job' = [job EXCEPT ![r] = "start"]
    /\ UNCHANGED <<server, child, held, slot, outcome, live>>

\* A mutant of Return: the flag has no guard.
ReturnKeepsFlag(r) ==
    /\ handler[r] = "await"
    /\ job[r] = "finished"
    /\ handler' = [handler EXCEPT ![r] = "idle"]
    /\ job' = [job EXCEPT ![r] = "none"]
    /\ UNCHANGED <<javac_running, server, child, held, slot, outcome, live, runs>>

\* The job's result reaches the handler, whose guard clears the flag.
Return(r) ==
    /\ handler[r] = "await"
    /\ job[r] = "finished"
    /\ javac_running' = FALSE
    /\ handler' = [handler EXCEPT ![r] = "idle"]
    /\ job' = [job EXCEPT ![r] = "none"]
    /\ UNCHANGED <<server, child, held, slot, outcome, live, runs>>

\* $/cancelRequest drops the handler, and with it the guard; not the job.  A
\* dropped request is not sent again.
Cancel(r) ==
    /\ handler[r] = "await"
    /\ javac_running' = FALSE
    /\ handler' = [handler EXCEPT ![r] = "dropped"]
    /\ UNCHANGED <<server, job, child, held, slot, outcome, live, runs>>

-----------------------------------------------------------------------------
(***************************************************************************)
(* The job                                                                 *)
(***************************************************************************)
\* The job ends with outcome o.
Finish(r, o) ==
    /\ job' = [job EXCEPT ![r] = IF handler[r] = "await" THEN "finished" ELSE "none"]
    /\ outcome' = [outcome EXCEPT ![r] = o]

\* LeakedReaders::at_capacity
AtCapacity == live >= LeakCap

\* run refuses at the cap, or fails before the process exists.
Refuse(r) ==
    /\ job[r] = "start"
    /\ Finish(r, "SpawnError")
    /\ UNCHANGED <<javac_running, server, handler, child, held, slot, live, runs>>

\* run_in_scratch up to the spawn, and the reader threads.
Spawn(r) ==
    /\ job[r] = "start"
    /\ ~AtCapacity
    /\ child' = [child EXCEPT ![r] = "alive"]
    /\ \E h \in SUBSET Pipes : held' = [held EXCEPT ![r] = h]
    /\ job' = [job EXCEPT ![r] = "spawned"]
    /\ UNCHANGED <<javac_running, server, handler, slot, outcome, live, runs>>

\* The child is stored where shutdown can reach it; whatever handle was there
\* is dropped, which neither kills nor reaps.
StoreChild(r) ==
    /\ job[r] = "spawned"
    /\ slot' = r
    /\ job' = [job EXCEPT ![r] = "poll"]
    /\ UNCHANGED <<javac_running, server, handler, child, held, outcome, live, runs>>

\* The child in the slot has been waited for.
Reaped == IF slot \in Requests THEN [child EXCEPT ![slot] = "reaped"] ELSE child

\* LeakedReaders::register for both readers of a job that will not join them.
LeakReaders == live' = live + Cardinality(Pipes)

\* poll_until_exit_or_timeout finds the slot empty: shutdown took the child.
PollCancelled(r) ==
    /\ job[r] = "poll"
    /\ slot = NoChild
    /\ LeakReaders
    /\ Finish(r, "Cancelled")
    /\ UNCHANGED <<javac_running, server, handler, child, held, slot, runs>>

\* It finds that the child in the slot exited, and thereby reaps it.
PollExited(r) ==
    /\ job[r] = "poll"
    /\ \/ slot = Exited
       \/ slot \in Requests /\ child[slot] = "zombie"
    /\ child' = Reaped
    /\ slot' = Exited
    /\ job' = [job EXCEPT ![r] = "join"]
    /\ UNCHANGED <<javac_running, server, handler, held, outcome, live, runs>>

\* A mutant of PollTimedOut: the child is not killed.
PollTimedOutSpares(r) ==
    /\ job[r] = "poll"
    /\ slot' = NoChild
    /\ LeakReaders
    /\ Finish(r, "TimedOut")
    /\ UNCHANGED <<javac_running, server, handler, child, held, runs>>

\* The deadline passed: kill and reap what is in the slot by now.
PollTimedOut(r) ==
    /\ job[r] = "poll"
    /\ child' = Reaped
    /\ slot' = NoChild
    /\ LeakReaders
    /\ Finish(r, "TimedOut")
    /\ UNCHANGED <<javac_running, server, handler, held, runs>>

\* Both readers are joined: their pipes are closed by everyone.
Join(r) ==
    /\ job[r] = "join"
    /\ child[r] # "alive" /\ held[r] = {}
    /\ Finish(r, "Completed")
    /\ UNCHANGED <<javac_running, server, handler, child, held, slot, live, runs>>

-----------------------------------------------------------------------------
(***************************************************************************)
(* Shutdown and the operating system                                       *)
(***************************************************************************)
\* shutdown calls kill_running_child.
Shutdown ==
    /\ server = "up"
    /\ server' = "stopping"
    /\ child' = Reaped
    /\ slot' = NoChild
    /\ UNCHANGED <<javac_running, handler, job, held, outcome, live, runs>>

\* main returns: handlers are dropped with their guards, and the runtime waits
\* for the jobs.
Exit ==
    /\ server = "stopping"
    /\ \A r \in Requests : job[r] \in {"none", "finished"}
    /\ server' = "exited"
    /\ javac_running' = FALSE
    /\ handler' = [r \in Requests |-> IF handler[r] = "await" THEN "idle" ELSE handler[r]]
    /\ job' = [r \in Requests |-> "none"]
    /\ UNCHANGED <<child, held, slot, outcome, live, runs>>

ChildExits(r) ==
    /\ child[r] = "alive"
    /\ child' = [child EXCEPT ![r] = "zombie"]
    /\ UNCHANGED <<javac_running, server, handler, job, held, slot, outcome, live, runs>>

\* A descendant lets go of a pipe a job may be joining on.
PipeCloses(r) ==
    /\ \E p \in held[r] : held' = [held EXCEPT ![r] = @ \ {p}]
    /\ UNCHANGED <<javac_running, server, handler, job, child, slot, outcome, live, runs>>

\* A leaked reader sees its pipe close and sets its flag.
ReaderDone ==
    /\ live > 0
    /\ live' = live - 1
    /\ UNCHANGED <<javac_running, server, handler, job, child, held, slot, outcome, runs>>

-----------------------------------------------------------------------------
JobStep(r) ==
    \/ Refuse(r) \/ Spawn(r) \/ StoreChild(r)
    \/ PollCancelled(r) \/ PollExited(r) \/ PollTimedOut(r) \/ Join(r)

Next ==
    \/ \E r \in Requests :
          \/ ExecuteCommand(r) \/ Return(r) \/ Cancel(r)
          \/ JobStep(r)
          \/ ChildExits(r) \/ PipeCloses(r)
    \/ Shutdown \/ Exit
    \/ ReaderDone

Spec == Init /\ [][Next]_vars

(***************************************************************************)
(* Fairness: a job's thread runs and its deadline arrives, and the executor*)
(* polls a handler whose job is done.  Nothing makes a compiler exit or a  *)
(* descendant close a pipe.                                                *)
(***************************************************************************)
FairSpec == Spec /\ \A r \in Requests : WF_vars(JobStep(r)) /\ WF_vars(Return(r))

-----------------------------------------------------------------------------
(***************************************************************************)
(* Properties                                                              *)
(***************************************************************************)
Alive == {r \in Requests : child[r] = "alive"}

Awaiting == {r \in Requests : handler[r] = "await"}

\* JavacRunningGuard: the flag is set exactly while one handler waits for its
\* job, however that handler ends, cancellation and shutdown included; no two
\* handlers ever hold it.
FlagHasHolder ==
    /\ javac_running <=> Awaiting # {}
    /\ \A r, s \in Awaiting : r = s

\* No request has been cancelled so far.
Undropped == \A r \in Requests : handler[r] # "dropped"

\* Until a request is cancelled, no two compilers are alive, and the slot never
\* loses one that a job is still polling for.
OneCompiler ==
    Undropped =>
        /\ \A r, s \in Alive : r = s
        /\ \A r \in Requests : job[r] = "poll" => slot \in {r, NoChild}

\* A check in flight never survives as a zombie or an orphan past the server's
\* own lifetime, whichever step of the run shutdown meets: when the process is
\* gone, every compiler it started has been reaped.
NoSurvivor ==
    Undropped /\ server = "exited" =>
        \A r \in Requests : child[r] \in {"none", "reaped"}

\* The readers left behind are bounded: a run is refused at the cap, so a last
\* one admitted just below it can add its two.
LeakBounded == Undropped => live <= LeakCap + Cardinality(Pipes) - 1

\* One check at a time: the flag has one holder, and there is one compiler
\* (JavacRunningGuard, javac::run).
OneCheckAtATime == FlagHasHolder /\ OneCompiler

\* A check leaves nothing behind but what is bounded: no process after the
\* server is gone, and no more readers than the cap allows (kill_running_child,
\* LeakedReaders).
NothingLeaks == NoSurvivor /\ LeakBounded

\* A run says it was cancelled only when the server is shutting down.
CancelledOnlyByShutdown ==
    Undropped => \A r \in Requests : outcome[r] = "Cancelled" => server # "up"

\* "A single bad run can never wedge every future checkProject invocation":
\* the single-flight flag, once taken, is given back.
NeverWedged == javac_running /\ Undropped ~> ~javac_running \/ ~Undropped

\* A run never wedges the checks that follow, even when the compiler never
\* exits, provided its descendants do not hold on to its pipes for ever.
FlagReleased == (\A r \in Requests : []<>(held[r] = {})) => NeverWedged

=============================================================================
