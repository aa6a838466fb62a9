------------------------ MODULE ClasspathRebuild_proofs ------------------------
(***************************************************************************)
(* Proofs about ClasspathRebuild, for any set of tasks and any bound.      *)
(***************************************************************************)
EXTENDS ClasspathRebuild, TLAPS

(***************************************************************************)
(* Type correctness                                                        *)
(***************************************************************************)
\* Every step of every task keeps the coalescer, the snapshot and the tasks'
\* own state within their types.
THEOREM Typing == Spec => []TypeOK
<1>1. Init => TypeOK
  BY DEF Init, TypeOK, Unbuilt
<1>2. TypeOK /\ [Next]_vars => TypeOK'
  <2> SUFFICES ASSUME TypeOK, [Next]_vars PROVE TypeOK'
    OBVIOUS
  <2> USE DEF TypeOK
  <2>1. CASE EditBuildFile
    BY <2>1 DEF EditBuildFile
  <2>2. CASE LazyBuild
    BY <2>2 DEF LazyBuild
  <2>3. ASSUME NEW t \in Tasks, DidChangeWatchedFiles(t) PROVE TypeOK'
    <3>1. events' \in Nat
      BY <2>3 DEF DidChangeWatchedFiles
    <3>2. coalescer' \in [driving : BOOLEAN, dirty : BOOLEAN, in_flight : BOOLEAN]
      BY <2>3 DEF DidChangeWatchedFiles, OnEvent
    <3>3. pc' \in [Tasks -> {"idle"} \cup DriverPcs \cup CommandPcs]
      BY <2>3 DEF DidChangeWatchedFiles, DriverPcs
    <3> QED
      BY <2>3, <3>1, <3>2, <3>3 DEF DidChangeWatchedFiles
  <2>4. ASSUME NEW t \in Tasks, DebounceElapsed(t) PROVE TypeOK'
    BY <2>4 DEF DebounceElapsed, OnDebounceElapsed, DriverPcs
  <2>5. ASSUME NEW t \in Tasks, Build(t) PROVE TypeOK'
    BY <2>5 DEF Build, DriverPcs, CommandPcs
  <2>6. ASSUME NEW t \in Tasks, Swap(t) PROVE TypeOK'
    BY <2>6 DEF Swap, DriverPcs, CommandPcs
  <2>7. ASSUME NEW t \in Tasks, RebuildFinished(t) PROVE TypeOK'
    BY <2>7 DEF RebuildFinished, OnRebuildFinished, DriverPcs
  <2>8. ASSUME NEW t \in Tasks, InstallAndCommand(t) PROVE TypeOK'
    BY <2>8 DEF InstallAndCommand, CommandPcs
  <2>9. ASSUME NEW t \in Tasks, CommandReturns(t) PROVE TypeOK'
    BY <2>9 DEF CommandReturns
  <2>10. CASE UNCHANGED vars
    BY <2>10 DEF vars
  <2> QED
    BY <2>1, <2>2, <2>3, <2>4, <2>5, <2>6, <2>7, <2>8, <2>9, <2>10 DEF Next, Drive
<1> QED
  BY <1>1, <1>2, PTL DEF Spec

(***************************************************************************)
(* One driver at a time                                                    *)
(***************************************************************************)
\* The coalescer elects one driver, for any number of tasks, also when
\* commands and panicking builds run beside it.
THEOREM DriverElection == Spec => []OneDriver
<1>1. Init => OneDriver
  BY DEF Init, OneDriver, Drivers, DriverPcs
<1>2. TypeOK /\ OneDriver /\ [Next]_vars => OneDriver'
  <2> SUFFICES ASSUME TypeOK, OneDriver, [Next]_vars PROVE OneDriver'
    OBVIOUS
  <2> USE DEF TypeOK, OneDriver, Drivers, DriverPcs, CommandPcs
  <2>1. CASE EditBuildFile
    BY <2>1 DEF EditBuildFile
  <2>2. CASE LazyBuild
    BY <2>2 DEF LazyBuild
  <2>3. ASSUME NEW t \in Tasks, DidChangeWatchedFiles(t) PROVE OneDriver'
    BY <2>3 DEF DidChangeWatchedFiles, OnEvent
  <2>4. ASSUME NEW t \in Tasks, DebounceElapsed(t) PROVE OneDriver'
    BY <2>4 DEF DebounceElapsed, OnDebounceElapsed
  <2>5. ASSUME NEW t \in Tasks, Build(t) PROVE OneDriver'
    BY <2>5 DEF Build
  <2>6. ASSUME NEW t \in Tasks, Swap(t) PROVE OneDriver'
    BY <2>6 DEF Swap
  <2>7. ASSUME NEW t \in Tasks, RebuildFinished(t) PROVE OneDriver'
    BY <2>7 DEF RebuildFinished, OnRebuildFinished
  <2>8. ASSUME NEW t \in Tasks, InstallAndCommand(t) PROVE OneDriver'
    BY <2>8 DEF InstallAndCommand
  <2>9. ASSUME NEW t \in Tasks, CommandReturns(t) PROVE OneDriver'
    BY <2>9 DEF CommandReturns
  <2>10. CASE UNCHANGED vars
    BY <2>10 DEF vars
  <2> QED
    BY <2>1, <2>2, <2>3, <2>4, <2>5, <2>6, <2>7, <2>8, <2>9, <2>10 DEF Next, Drive
<1> QED
  BY <1>1, <1>2, Typing, PTL DEF Spec

(***************************************************************************)
(* No lost event                                                           *)
(***************************************************************************)
(***************************************************************************)
(* NoLostEvent is not inductive: it says nothing of a rebuild under way.   *)
(* The strengthening follows the driver's work through the two windows in  *)
(* which a change can slip in: between reading the files and the swap, and *)
(* between the swap and the driver's decision to stop.                     *)
(***************************************************************************)
Unaccounted == coalescer.dirty \/ events > 0

Fresh ==
    /\ NoLostEvent
    /\ classpath \in 0 .. disk \cup {Unbuilt, Emptied}
    /\ \A t \in Tasks : built[t] \in 0 .. disk \cup {Emptied}
    /\ ~Commanded => \A t \in Tasks :
          /\ pc[t] \notin CommandPcs
          /\ pc[t] = "built" => built[t] \in {disk, Emptied} \/ Unaccounted
          /\ pc[t] = "republish" => classpath \in {disk, Emptied} \/ Unaccounted

\* Each step keeps the strengthening.
LEMMA FreshStep ==
    ASSUME TypeOK, OneDriver, Fresh, [Next]_vars
    PROVE  Fresh'
<1> USE DEF TypeOK, Fresh, NoLostEvent, Settled, Unaccounted, Commanded, Unbuilt, Emptied
<1>1. CASE EditBuildFile
  BY <1>1 DEF EditBuildFile, Unbuilt, CommandPcs
<1>2. CASE LazyBuild
  BY <1>2 DEF LazyBuild, Unbuilt
<1>3. ASSUME NEW t \in Tasks, DidChangeWatchedFiles(t) PROVE Fresh'
  BY <1>3 DEF DidChangeWatchedFiles, OnEvent, OneDriver, Drivers, DriverPcs, CommandPcs
<1>4. ASSUME NEW t \in Tasks, DebounceElapsed(t) PROVE Fresh'
  BY <1>4 DEF DebounceElapsed, OnDebounceElapsed, OneDriver, Drivers, DriverPcs, CommandPcs
<1>5. ASSUME NEW t \in Tasks, Build(t) PROVE Fresh'
  BY <1>5 DEF Build, CommandPcs
<1>6. ASSUME NEW t \in Tasks, Swap(t) PROVE Fresh'
  BY <1>6 DEF Swap, OneDriver, Drivers, DriverPcs, CommandPcs
<1>7. ASSUME NEW t \in Tasks, RebuildFinished(t) PROVE Fresh'
  BY <1>7 DEF RebuildFinished, OnRebuildFinished, OneDriver, Drivers, DriverPcs, CommandPcs
<1>8. ASSUME NEW t \in Tasks, InstallAndCommand(t) PROVE Fresh'
  BY <1>8 DEF InstallAndCommand
<1>9. ASSUME NEW t \in Tasks, CommandReturns(t) PROVE Fresh'
  BY <1>9 DEF CommandReturns, CommandPcs
<1>10. CASE UNCHANGED vars
  BY <1>10 DEF vars
<1> QED
  BY <1>1, <1>2, <1>3, <1>4, <1>5, <1>6, <1>7, <1>8, <1>9, <1>10 DEF Next, Drive

\* It holds in the initial state.
LEMMA FreshInit == Init => Fresh
BY DEF Init, Fresh, NoLostEvent, CommandPcs, Unbuilt, Emptied

\* The strengthening is an invariant.
LEMMA FreshInvariant == Spec => []Fresh
<1>1. TypeOK /\ OneDriver /\ Fresh /\ [Next]_vars => Fresh'
  BY FreshStep
<1> QED
  BY <1>1, FreshInit, Typing, DriverElection, PTL DEF Spec

\* No build-file change is ever lost by the coalescer and its driver, as long
\* as the rebuild command has not been used.
THEOREM NoChangeIsLost == Spec => []NoLostEvent
<1>1. Fresh => NoLostEvent
  BY DEF Fresh
<1> QED
  BY <1>1, FreshInvariant, PTL

\* A swap that takes the snapshot back to an older revision leaves another
\* rebuild due: the build it stores is current, and then not older than any
\* snapshot, or a change is still to be accounted for (rebuild_classpath).
THEOREM OlderIsRebuilt == Spec => OlderOnlyForNow
<1> DEFINE Passing == ~Commanded' /\ classpath' \in Nat /\ classpath > classpath' =>
                        coalescer'.dirty \/ events' > 0
<1>1. TypeOK /\ Fresh /\ [Next]_vars => [Passing]_vars
  <2> SUFFICES ASSUME TypeOK, Fresh, Next PROVE Passing
    OBVIOUS
  <2>1. ASSUME NEW t \in Tasks, Swap(t) PROVE Passing
    BY <2>1 DEF Swap, TypeOK, Fresh, Unaccounted, Commanded, CommandPcs, Unbuilt, Emptied
  <2>2. CASE LazyBuild
    BY <2>2 DEF LazyBuild, TypeOK, Unbuilt
  <2>3. CASE UNCHANGED classpath
    BY <2>3 DEF TypeOK, Unbuilt, Emptied
  <2>4. LazyBuild \/ (\E t \in Tasks : Swap(t)) \/ UNCHANGED classpath
    BY DEF Next, EditBuildFile, DidChangeWatchedFiles, Drive, DebounceElapsed, Build, RebuildFinished,
           InstallAndCommand, CommandReturns
  <2> QED
    BY <2>1, <2>2, <2>3, <2>4
<1> QED
  BY <1>1, Typing, FreshInvariant, PTL DEF Spec, OlderOnlyForNow

(***************************************************************************)
(* Refinement                                                              *)
(***************************************************************************)
\* Each step of the driver is a step of the abstract resolver or a stutter.
LEMMA RefinementStep ==
    ASSUME TypeOK, OneDriver, Fresh, [Next]_vars
    PROVE  [Promise!PromiseNext]_(Promise!pvars)
<1> USE DEF TypeOK, Promise!pvars, Settled, Commanded, Unbuilt, Emptied
<1>1. CASE EditBuildFile
  BY <1>1 DEF EditBuildFile, Promise!PromiseNext, Promise!Change, Unbuilt
<1>2. CASE LazyBuild
  BY <1>2 DEF LazyBuild, Unbuilt
<1>3. ASSUME NEW t \in Tasks, DidChangeWatchedFiles(t) PROVE UNCHANGED Promise!pvars
  BY <1>3 DEF DidChangeWatchedFiles, OnEvent
<1>4. ASSUME NEW t \in Tasks, DebounceElapsed(t) PROVE UNCHANGED Promise!pvars
  BY <1>4 DEF DebounceElapsed, OnDebounceElapsed
<1>5. ASSUME NEW t \in Tasks, Build(t) PROVE UNCHANGED Promise!pvars
  BY <1>5 DEF Build
<1>6. ASSUME NEW t \in Tasks, Swap(t) PROVE Promise!Resolve
  BY <1>6 DEF Swap, Promise!Resolve, OneDriver, Drivers, DriverPcs, Fresh, CommandPcs, Unbuilt
<1>7. ASSUME NEW t \in Tasks, RebuildFinished(t)
      PROVE  Promise!Rest \/ UNCHANGED Promise!pvars
  BY <1>7 DEF RebuildFinished, OnRebuildFinished, Promise!Rest, Fresh, Unaccounted,
              OneDriver, Drivers, DriverPcs, Unbuilt
<1>8. ASSUME NEW t \in Tasks, InstallAndCommand(t) PROVE Promise!Change
  BY <1>8 DEF InstallAndCommand, Promise!Change
<1>9. ASSUME NEW t \in Tasks, CommandReturns(t) PROVE UNCHANGED Promise!pvars
  BY <1>9 DEF CommandReturns
<1>10. CASE UNCHANGED vars
  BY <1>10 DEF vars
<1> QED
  BY <1>1, <1>2, <1>3, <1>4, <1>5, <1>6, <1>7, <1>8, <1>9, <1>10
     DEF Next, Drive, Promise!PromiseNext

\* The coalesced rebuild implements the abstract resolver of ClasspathPromise.
THEOREM RebuildImplementsPromise == Spec => ImplementsPromise
<1>1. Init => Promise!PromiseInit
  BY DEF Init, Promise!PromiseInit, Settled, Commanded
<1>2. TypeOK /\ OneDriver /\ Fresh /\ [Next]_vars => [Promise!PromiseNext]_(Promise!pvars)
  BY RefinementStep
<1> QED
  BY <1>1, <1>2, FreshInvariant, Typing, DriverElection, PTL
     DEF Spec, ImplementsPromise, Promise!PromiseSpec
=============================================================================
