---------------------------- MODULE JavacRun_proofs ----------------------------
(* Proofs about JavacRun, for any number of requests and runs and any cap.    *)
EXTENDS JavacRun, FiniteSetTheorems, TLAPS

\* There are two pipes.
LEMMA TwoPipes == Cardinality(Pipes) = 2
<1>1. Pipes = {"stdout"} \cup {"stderr"} /\ "stderr" \notin {"stdout"}
  BY DEF Pipes
<1>2. IsFiniteSet({"stdout"}) /\ Cardinality({"stdout"}) = 1
  BY FS_Singleton
<1>3. QED
  BY <1>1, <1>2, FS_AddElement

\* TypeOK without the flag, whose Boolean value gets steps of its own.
ProcessesOK ==
    /\ server \in {"up", "stopping", "exited"}
    /\ handler \in [Requests -> {"idle", "await", "dropped"}]
    /\ job \in [Requests -> Jobs]
    /\ child \in [Requests -> {"none", "alive", "zombie", "reaped"}]
    /\ held \in [Requests -> SUBSET Pipes]
    /\ slot \in Requests \cup {NoChild, Exited}
    /\ outcome \in [Requests -> Outcomes]
    /\ live \in Nat
    /\ runs \in Nat

\* The flag is only ever set, cleared or left alone.
LEMMA FlagType == javac_running \in BOOLEAN /\ [Next]_vars => javac_running' \in BOOLEAN
<1> SUFFICES ASSUME javac_running \in BOOLEAN, [Next]_vars
             PROVE  javac_running' = javac_running \/ javac_running' = TRUE
                    \/ javac_running' = FALSE
  OBVIOUS
<1>1. QED
  BY DEF Next, JobStep, ExecuteCommand, Return, Cancel, Refuse, Spawn, StoreChild,
         PollCancelled, PollExited, PollTimedOut, Join, ChildExits, PipeCloses,
         Shutdown, Exit, ReaderDone, vars

\* Flags, jobs, processes and the slot stay within their types.
THEOREM Typing == Spec => []TypeOK
<1> USE ConstantsAssumption, SlotAssumption
<1>1. Init => TypeOK
  <2>1. Init => ProcessesOK
    BY DEF Init, ProcessesOK, Jobs, Outcomes
  <2>2. Init => javac_running \in BOOLEAN
    BY DEF Init
  <2>3. QED
    BY <2>1, <2>2 DEF TypeOK, ProcessesOK
<1>2. TypeOK /\ [Next]_vars => TypeOK'
  <2> SUFFICES ASSUME TypeOK, [Next]_vars PROVE TypeOK'
    OBVIOUS
  <2>0. ProcessesOK /\ javac_running \in BOOLEAN
    BY DEF TypeOK, ProcessesOK
  <2>1. ASSUME NEW r \in Requests, ExecuteCommand(r) \/ Return(r) \/ Cancel(r)
        PROVE  ProcessesOK'
    <3>1. /\ handler' = [handler EXCEPT ![r] = "await"]
             \/ handler' = [handler EXCEPT ![r] = "idle"]
             \/ handler' = [handler EXCEPT ![r] = "dropped"]
          /\ \/ job' = [job EXCEPT ![r] = "start"]
             \/ job' = [job EXCEPT ![r] = "none"]
             \/ job' = job
          /\ runs' = runs + 1 \/ runs' = runs
          /\ UNCHANGED <<server, child, held, slot, outcome, live>>
      BY <2>1 DEF ExecuteCommand, Return, Cancel
    <3>2. QED
      BY <2>0, <3>1 DEF ProcessesOK, Jobs
  <2>2. ASSUME NEW r \in Requests, Refuse(r) \/ StoreChild(r) PROVE ProcessesOK'
    BY <2>0, <2>2 DEF Refuse, StoreChild, Finish, ProcessesOK, Jobs, Outcomes
  <2>3. ASSUME NEW r \in Requests, Spawn(r) PROVE ProcessesOK'
    <3>1. PICK h \in SUBSET Pipes : held' = [held EXCEPT ![r] = h]
      BY <2>3 DEF Spawn
    <3>2. QED
      BY <2>0, <2>3, <3>1 DEF Spawn, ProcessesOK, Jobs
  <2>4. ASSUME NEW r \in Requests, PollCancelled(r) \/ PollTimedOut(r)
        PROVE  ProcessesOK'
    <3>1. live' = live + 2
      BY <2>4, TwoPipes DEF PollCancelled, PollTimedOut, LeakReaders
    <3>2. QED
      BY <2>0, <2>4, <3>1
      DEF PollCancelled, PollTimedOut, Finish, Reaped, ProcessesOK, Jobs, Outcomes
  <2>5. ASSUME NEW r \in Requests, PollExited(r) \/ Join(r) PROVE ProcessesOK'
    BY <2>0, <2>5 DEF PollExited, Join, Finish, Reaped, ProcessesOK, Jobs, Outcomes
  <2>6. ASSUME NEW r \in Requests, ChildExits(r) \/ PipeCloses(r) PROVE ProcessesOK'
    BY <2>0, <2>6 DEF ChildExits, PipeCloses, ProcessesOK
  <2>7. CASE Shutdown \/ ReaderDone
    <3>1. ProcessesOK'
      BY <2>0, <2>7 DEF Shutdown, ReaderDone, Reaped, ProcessesOK
    <3>2. QED
      BY <2>0, <3>1, FlagType DEF TypeOK, ProcessesOK
  <2>8. CASE Exit
    <3>1. /\ server' = "exited" /\ handler' = [r \in Requests |-> IF handler[r] = "await" THEN "idle" ELSE handler[r]]
          /\ job' = [r \in Requests |-> "none"]
          /\ UNCHANGED <<child, held, slot, outcome, live, runs>>
      BY <2>8 DEF Exit
    <3>2. ProcessesOK'
      BY <2>0, <3>1 DEF ProcessesOK, Jobs
    <3>3. QED
      BY <2>0, <3>2, FlagType DEF TypeOK, ProcessesOK
  <2>9. CASE UNCHANGED vars
    BY <2>9 DEF vars, TypeOK
  <2>10. ProcessesOK' => TypeOK'
    BY <2>0, FlagType DEF TypeOK, ProcessesOK
  <2>11. QED
    BY <2>1, <2>2, <2>3, <2>4, <2>5, <2>6, <2>7, <2>8, <2>9, <2>10 DEF Next, JobStep
<1>3. QED
  BY <1>1, <1>2, PTL DEF Spec

-----------------------------------------------------------------------------
(* Single flight, until a request is cancelled *)

\* A handler waits exactly for its own unfinished or finished job, there is
\* one at a time and the flag is set meanwhile; a process that is not reaped
\* belongs to a job that is about to store it or polls the slot that holds it.
FlightInv ==
    /\ \A r \in Requests : handler[r] = "await" => javac_running = TRUE
    /\ \A r, s \in Requests : handler[r] = "await" /\ handler[s] = "await" => r = s
    /\ \A r \in Requests : job[r] # "none" => handler[r] = "await"
    /\ \A r \in Requests : child[r] \in {"alive", "zombie"} =>
          job[r] = "spawned" \/ (job[r] = "poll" /\ slot = r)
    /\ \A r \in Requests : slot = r => job[r] = "poll"
    /\ \A r \in Requests : job[r] = "poll" => slot = r \/ slot = NoChild
    /\ \A r \in Requests : job[r] = "poll" /\ slot = NoChild => server # "up"
    /\ \A r \in Requests : outcome[r] = "Cancelled" => server # "up"
    /\ server = "exited" => \A r \in Requests : job[r] = "none"
    /\ live <= LeakCap + 1
    /\ \A r \in Requests : job[r] \in {"spawned", "poll"} => live < LeakCap

\* It holds before the first run.
LEMMA FlightInit == Init => FlightInv
  BY ConstantsAssumption, SlotAssumption DEF Init, FlightInv, NoChild

\* Every step preserves it.
LEMMA FlightStep ==
    ASSUME Undropped', TypeOK, FlightInv, [Next]_vars
    PROVE  FlightInv'
<1> USE ConstantsAssumption, SlotAssumption
<1>0. ProcessesOK
  BY DEF TypeOK, ProcessesOK
<1>1. ASSUME NEW r \in Requests, ExecuteCommand(r) PROVE FlightInv'
  <2>1. /\ server = "up" /\ javac_running # TRUE /\ javac_running' = TRUE
        /\ handler' = [handler EXCEPT ![r] = "await"]
        /\ job' = [job EXCEPT ![r] = "start"]
        /\ UNCHANGED <<server, child, held, slot, outcome, live>>
        /\ job[r] = "none"
    BY <1>1 DEF ExecuteCommand
  <2>2. QED
    BY <1>0, <2>1 DEF FlightInv, ProcessesOK
<1>2. ASSUME NEW r \in Requests, Return(r) PROVE FlightInv'
  <2>1. /\ handler[r] = "await" /\ job[r] = "finished"
        /\ handler' = [handler EXCEPT ![r] = "idle"]
        /\ job' = [job EXCEPT ![r] = "none"]
        /\ UNCHANGED <<server, child, held, slot, outcome, live>>
    BY <1>2 DEF Return
  <2>2. QED
    BY <1>0, <2>1 DEF FlightInv, ProcessesOK
<1>3. ASSUME NEW r \in Requests, Refuse(r) PROVE FlightInv'
  BY <1>0, <1>3 DEF Refuse, Finish, FlightInv, ProcessesOK
<1>4. ASSUME NEW r \in Requests, Spawn(r) PROVE FlightInv'
  <2>1. /\ job[r] = "start" /\ live < LeakCap
        /\ child' = [child EXCEPT ![r] = "alive"]
        /\ job' = [job EXCEPT ![r] = "spawned"]
        /\ UNCHANGED <<javac_running, server, handler, slot, outcome, live>>
    BY <1>0, <1>4 DEF Spawn, AtCapacity, ProcessesOK
  <2>2. QED
    BY <1>0, <2>1 DEF FlightInv, ProcessesOK
<1>5. ASSUME NEW r \in Requests, StoreChild(r) PROVE FlightInv'
  BY <1>0, <1>5 DEF StoreChild, FlightInv, ProcessesOK
<1>6. ASSUME NEW r \in Requests, PollCancelled(r) \/ PollTimedOut(r) PROVE FlightInv'
  <2>1. live' = live + 2
    BY <1>6, TwoPipes DEF PollCancelled, PollTimedOut, LeakReaders
  <2>2. live < LeakCap /\ job[r] = "poll" /\ handler[r] = "await"
    BY <1>6 DEF PollCancelled, PollTimedOut, FlightInv
  <2>3. QED
    BY <1>0, <1>6, <2>1, <2>2
    DEF PollCancelled, PollTimedOut, Finish, Reaped, FlightInv, ProcessesOK, NoChild
<1>7. ASSUME NEW r \in Requests, PollExited(r) PROVE FlightInv'
  BY <1>0, <1>7 DEF PollExited, Reaped, FlightInv, ProcessesOK, NoChild, Exited
<1>8. ASSUME NEW r \in Requests, Join(r) PROVE FlightInv'
  BY <1>0, <1>8 DEF Join, Finish, FlightInv, ProcessesOK
<1>9. ASSUME NEW r \in Requests, ChildExits(r) \/ PipeCloses(r) PROVE FlightInv'
  BY <1>0, <1>9 DEF ChildExits, PipeCloses, FlightInv, ProcessesOK
<1>10. CASE Shutdown
  BY <1>0, <1>10 DEF Shutdown, Reaped, FlightInv, ProcessesOK, NoChild, Exited
<1>11. CASE Exit
  <2>1. /\ server' = "exited" /\ handler' = [r \in Requests |-> IF handler[r] = "await" THEN "idle" ELSE handler[r]]
        /\ job' = [r \in Requests |-> "none"]
        /\ \A r \in Requests : job[r] \in {"none", "finished"}
        /\ UNCHANGED <<child, held, slot, outcome, live, runs>>
    BY <1>11 DEF Exit
  <2>2. QED
    BY <1>0, <2>1 DEF FlightInv, ProcessesOK
<1>12. CASE ReaderDone
  BY <1>0, <1>12 DEF ReaderDone, FlightInv, ProcessesOK
<1>13. CASE UNCHANGED vars
  BY <1>13 DEF vars, FlightInv
<1>14. ASSUME NEW r \in Requests, Cancel(r) PROVE FALSE
  BY <1>0, <1>14 DEF Cancel, Undropped, ProcessesOK
<1>15. QED
  BY <1>14, <1>1, <1>2, <1>3, <1>4, <1>5, <1>6, <1>7, <1>8, <1>9, <1>10, <1>11, <1>12, <1>13
  DEF Next, JobStep

\* A request that was cancelled stays cancelled.
LEMMA DroppedForGood ==
    ASSUME TypeOK, [Next]_vars, Undropped'
    PROVE  Undropped
<1>1. ASSUME NEW s \in Requests, handler[s] = "dropped" PROVE handler'[s] = "dropped"
  BY <1>1 DEF TypeOK, Next, JobStep, ExecuteCommand, Return, Cancel, Refuse, Spawn,
              StoreChild, PollCancelled, PollExited, PollTimedOut, Join, ChildExits,
              PipeCloses, Shutdown, Exit, ReaderDone, vars
<1>2. QED
  BY <1>1 DEF Undropped

\* The inductive invariant holds until a request is cancelled.
LEMMA Flight == Spec => [](Undropped => FlightInv)
<1>1. TypeOK /\ [Next]_vars /\ Undropped' => Undropped
  BY DroppedForGood
<1>2. TypeOK /\ FlightInv /\ [Next]_vars /\ Undropped' => FlightInv'
  BY FlightStep
<1>3. QED
  BY <1>1, <1>2, FlightInit, Typing, PTL DEF Spec

\* Until a request is cancelled there is never a second compiler, and the slot never
\* loses one that its job polls for.
THEOREM SingleFlight == Spec => []OneCompiler
<1>1. (Undropped => FlightInv) => OneCompiler
  BY DEF FlightInv, OneCompiler, Alive
<1>2. QED
  BY <1>1, Flight, PTL

\* Unless a request was cancelled, no compiler survives the server, whichever step of the
\* run shutdown meets.
THEOREM NoCompilerSurvives == Spec => []NoSurvivor
<1>1. TypeOK /\ (Undropped => FlightInv) => NoSurvivor
  BY DEF FlightInv, NoSurvivor, TypeOK
<1>2. QED
  BY <1>1, Flight, Typing, PTL

\* The readers abandoned by killed runs number at most one above the cap,
\* until a request is cancelled.
THEOREM LeaksBounded == Spec => []LeakBounded
<1>1. TypeOK /\ (Undropped => FlightInv) => LeakBounded
  BY TwoPipes, ConstantsAssumption DEF FlightInv, LeakBounded, TypeOK
<1>2. QED
  BY <1>1, Flight, Typing, PTL

\* Until a request is cancelled, a run that reports being cancelled was met by
\* shutdown.
THEOREM CancelledMeansShutdown == Spec => []CancelledOnlyByShutdown
<1>1. (Undropped => FlightInv) => CancelledOnlyByShutdown
  BY DEF FlightInv, CancelledOnlyByShutdown
<1>2. QED
  BY <1>1, Flight, PTL

\* The guard and its handler go together under every step, cancellation
\* included: the flag is set by the one handler that found it clear, and
\* cleared with that handler.
THEOREM GuardReleases == Spec => []FlagHasHolder
<1>1. Init => FlagHasHolder
  BY DEF Init, FlagHasHolder, Awaiting
<1>2. TypeOK /\ FlagHasHolder /\ [Next]_vars => FlagHasHolder'
  <2> SUFFICES ASSUME TypeOK, FlagHasHolder, [Next]_vars PROVE FlagHasHolder'
    OBVIOUS
  <2>0. handler \in [Requests -> {"idle", "await", "dropped"}]
    BY DEF TypeOK
  <2>1. ASSUME NEW r \in Requests, ExecuteCommand(r) PROVE FlagHasHolder'
    <3>1. Awaiting = {}
      BY <2>1 DEF ExecuteCommand, FlagHasHolder
    <3>2. javac_running' = TRUE /\ handler' = [handler EXCEPT ![r] = "await"]
      BY <2>1 DEF ExecuteCommand
    <3>3. Awaiting' = {r}
      BY <2>0, <3>1, <3>2 DEF Awaiting
    <3>4. QED
      BY <3>2, <3>3 DEF FlagHasHolder
  <2>2. ASSUME NEW r \in Requests, Return(r) \/ Cancel(r) PROVE FlagHasHolder'
    <3>1. /\ handler[r] = "await"
          /\ javac_running' = FALSE
          /\ \/ handler' = [handler EXCEPT ![r] = "idle"]
             \/ handler' = [handler EXCEPT ![r] = "dropped"]
      BY <2>2 DEF Return, Cancel
    <3>2. \A s \in Requests : handler[s] = "await" => s = r
      BY <3>1 DEF FlagHasHolder, Awaiting
    <3>3. Awaiting' = {}
      BY <2>0, <3>1, <3>2 DEF Awaiting
    <3>4. QED
      BY <3>1, <3>3 DEF FlagHasHolder
  <2>3. CASE Exit
    <3>1. javac_running' = FALSE /\ handler' = [r \in Requests |-> IF handler[r] = "await" THEN "idle" ELSE handler[r]]
      BY <2>3 DEF Exit
    <3>2. Awaiting' = {}
      BY <3>1 DEF Awaiting
    <3>3. QED
      BY <3>1, <3>2 DEF FlagHasHolder
  <2>4. CASE UNCHANGED <<javac_running, handler>>
    BY <2>4 DEF FlagHasHolder, Awaiting
  <2>5. QED
    BY <2>1, <2>2, <2>3, <2>4
    DEF Next, JobStep, Refuse, Spawn, StoreChild, PollCancelled, PollExited,
        PollTimedOut, Join, ChildExits, PipeCloses, Shutdown, ReaderDone, vars
<1>3. QED
  BY <1>1, <1>2, Typing, PTL DEF Spec

\* One check at a time: the flag has one holder always, and there is one
\* compiler until a request is cancelled (JavacRunningGuard, javac::run).
THEOREM ChecksAreSingle == Spec => []OneCheckAtATime
<1>1. FlagHasHolder /\ OneCompiler => OneCheckAtATime
  BY DEF OneCheckAtATime
<1>2. QED
  BY <1>1, GuardReleases, SingleFlight, PTL

\* Neither compilers nor readers pile up, whatever the runs and the cap
\* (kill_running_child, LeakedReaders).
THEOREM ChecksLeaveNothing == Spec => []NothingLeaks
<1>1. NoSurvivor /\ LeakBounded => NothingLeaks
  BY DEF NothingLeaks
<1>2. QED
  BY <1>1, NoCompilerSurvives, LeaksBounded, PTL

=============================================================================
