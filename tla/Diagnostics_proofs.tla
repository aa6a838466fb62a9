-------------------------- MODULE Diagnostics_proofs --------------------------
(* Proofs about Diagnostics, for any number of documents, handlers and       *)
(* messages.                                                                 *)
EXTENDS Diagnostics, TLAPS

-----------------------------------------------------------------------------
(* Types of the operators the actions are built from *)

\* The idle values are values of their types.
LEMMA IdleTypes ==
    /\ NoReports \in [Uris -> Report]
    /\ NoEntry \in Entry
    /\ Idle \in TaskType
    /\ IdleCheck \in CheckType
    /\ NoWalk \in WalkType
  BY DEF NoReports, Empty, Report, NoEntry, Entry, NoText, Idle, TaskType, IdleCheck,
         CheckType, StaleJavac, NoWalk, WalkType

\* A task handed to a pass is a task.
LEMMA StartedTypes ==
    /\ \A stale \in StaleJavac : Refreshing(stale) \in TaskType
    /\ \A u \in Uris : FastPath(u) \in TaskType
  BY IdleTypes DEF Refreshing, FastPath, TaskType

\* compute_diagnostics gives a report for any map of entries.
LEMMA ComputeType ==
    ASSUME TypeOK, NEW j \in [Uris -> Entry], NEW u \in Uris, NEW cp \in Nat
    PROVE  Compute(u, j, cp) \in Report
  BY DEF TypeOK, Compute, Report, Entry, NoText, Empty

\* A call of ensure_workspace_index is one, whatever its stage.
LEMMA WalkTypes ==
    ASSUME TypeOK
    PROVE  Called \in WalkType /\ Walking \in WalkType /\ Ready \in WalkType
  BY IdleTypes DEF Called, Walking, Ready, WalkType, TypeOK

\* Replacing one call by another keeps them typed.
LEMMA WalkUpdate ==
    ASSUME walk \in [Tasks \cup {Checker} -> WalkType], NEW w, NEW v \in WalkType
    PROVE  [walk EXCEPT ![w] = v] \in [Tasks \cup {Checker} -> WalkType]
  OBVIOUS

\* raced' is a truth value after any step.
LEMMA TrackType == Track => raced' \in BOOLEAN
  BY Zenon DEF Track

\* Replacing one task by a task keeps the tasks typed.
LEMMA TaskUpdate ==
    ASSUME task \in [Tasks -> TaskType], NEW t \in Tasks, NEW v \in TaskType
    PROVE  [task EXCEPT ![t] = v] \in [Tasks -> TaskType]
  OBVIOUS

\* Initial states are typed.
LEMMA TypeInit == Init => TypeOK
<1> SUFFICES ASSUME Init PROVE TypeOK
  OBVIOUS
<1>1. dirty \in BOOLEAN /\ raced \in BOOLEAN
  BY Zenon DEF Init
<1>2. shown \in [Uris -> Report]
  BY DEF Init, Report, Empty, NoText
<1>3. walk \in [Tasks \cup {Checker} -> WalkType]
  BY IdleTypes DEF Init
<1>4. QED
  BY <1>1, <1>2, <1>3, IdleTypes, ConstantsAssumption DEF Init, TypeOK, NoText

\* Every step keeps the types.
LEMMA TypeStep == TypeOK /\ [Next]_vars => TypeOK'
<1> SUFFICES ASSUME TypeOK, [Next]_vars PROVE TypeOK'
  OBVIOUS
<1> USE ConstantsAssumption
<1> DEFINE Walks == [Tasks \cup {Checker} -> WalkType]
<1>0. ASSUME NEW t \in Tasks, NEW stale \in StaleJavac, Refresh(t, stale)
      PROVE  task' \in [Tasks -> TaskType] /\ walk' \in Walks
  BY <1>0, StartedTypes, WalkTypes, WalkUpdate DEF Refresh, TypeOK
<1>1. ASSUME NEW t \in Tasks, NEW u \in Uris, DidOpen(t, u) PROVE TypeOK'
  <2>1. task' \in [Tasks -> TaskType] /\ walk' \in Walks /\ raced' \in BOOLEAN
    BY <1>0, <1>1, TrackType DEF StaleJavac, DidOpen
  <2>2. QED
    BY <1>1, <2>1 DEF DidOpen, Receive, TypeOK, indexVars
<1>2. ASSUME NEW t \in Tasks, NEW u \in Uris, DidChangeDeclaration(t, u) PROVE TypeOK'
  <2>1. task' \in [Tasks -> TaskType] /\ walk' \in Walks /\ raced' \in BOOLEAN
    BY <1>0, <1>2, TrackType DEF StaleJavac, DidChangeDeclaration
  <2>2. javac' \in [Uris -> Entry]
    BY <1>2, IdleTypes DEF DidChangeDeclaration, TypeOK
  <2>3. QED
    BY <1>2, <2>1, <2>2 DEF DidChangeDeclaration, Receive, TypeOK, indexVars
<1>3. ASSUME NEW t \in Tasks, NEW u \in Uris, DidChangeBody(t, u) PROVE TypeOK'
  <2>1. task' \in [Tasks -> TaskType]
    BY <1>3, StartedTypes DEF DidChangeBody, TypeOK
  <2>2. javac' \in [Uris -> Entry]
    BY <1>3, IdleTypes DEF DidChangeBody, TypeOK
  <2>3. raced' \in BOOLEAN
    BY <1>3, TrackType DEF DidChangeBody
  <2>4. QED
    BY <1>3, <2>1, <2>2, <2>3 DEF DidChangeBody, Receive, TypeOK, indexVars
<1>4. ASSUME NEW t \in Tasks, NEW u \in Uris, DidClose(t, u) PROVE TypeOK'
  <2>1. task' \in [Tasks -> TaskType] /\ walk' \in Walks /\ raced' \in BOOLEAN
    BY <1>0, <1>4, TrackType DEF StaleJavac, DidClose
  <2>2. Empty \in Report
    BY DEF Empty, Report, NoText
  <2>3. shown' \in [Uris -> Report]
    BY <1>4, <2>2 DEF DidClose, TypeOK
  <2>4. QED
    BY <1>4, <2>1, <2>3 DEF DidClose, Receive, TypeOK, indexVars
<1>5. ASSUME NEW t \in Tasks, NEW u \in Uris, DidSave(t, u) PROVE TypeOK'
  <2>1. raced' \in BOOLEAN
    BY <1>5, TrackType DEF DidSave
  <2>2. QED
    BY <1>5, <2>1 DEF DidSave, Receive, TypeOK, indexVars
<1>6. ASSUME NEW t \in Tasks, NEW u \in Uris, OnJavaSourceEvent(t, u) PROVE TypeOK'
  <2>1. task' \in [Tasks -> TaskType] /\ walk' \in Walks
    BY <1>0, <1>6 DEF StaleJavac, OnJavaSourceEvent, TypeOK
  <2>2. raced' \in BOOLEAN /\ dirty' \in BOOLEAN
    BY <1>6, TrackType, Zenon DEF OnJavaSourceEvent, TypeOK
  <2>3. QED
    BY <1>6, <2>1, <2>2 DEF OnJavaSourceEvent, Receive, TypeOK, genVars
<1>7. ASSUME NEW t \in Tasks, ClasspathSwapped(t) PROVE TypeOK'
  <2>1. task' \in [Tasks -> TaskType] /\ walk' \in Walks /\ raced' \in BOOLEAN
    BY <1>0, <1>7, TrackType DEF StaleJavac, ClasspathSwapped
  <2>2. QED
    BY <1>7, <2>1 DEF ClasspathSwapped, Receive, TypeOK, genVars, indexVars
<1>8. ASSUME NEW t \in Tasks, Query(t) PROVE TypeOK'
  <2>1. [Idle EXCEPT !.pc = "query"] \in TaskType
    BY IdleTypes DEF TaskType
  <2>2. task' \in [Tasks -> TaskType] /\ walk' \in Walks /\ raced' \in BOOLEAN
    BY <1>8, <2>1, TaskUpdate, WalkTypes, WalkUpdate, TrackType DEF Query, TypeOK
  <2>3. QED
    BY <1>8, <2>2 DEF Query, Receive, TypeOK, genVars, indexVars
<1>9. ASSUME NEW t \in Tasks, QueryEnd(t) PROVE TypeOK'
  <2>1. task' \in [Tasks -> TaskType] /\ walk' \in Walks /\ raced' \in BOOLEAN
    BY <1>9, IdleTypes, TaskUpdate, WalkUpdate, TrackType DEF QueryEnd, TypeOK
  <2>2. QED
    BY <1>9, <2>1 DEF QueryEnd, TypeOK, docVars, genVars, indexVars
<1>10. ASSUME NEW w \in Tasks \cup {Checker}, EnsureIndex(w) PROVE TypeOK'
  <2>1. walk' \in Walks /\ raced' \in BOOLEAN
    BY <1>10, WalkTypes, WalkUpdate, TrackType DEF EnsureIndex, TypeOK
  <2>2. QED
    BY <1>10, <2>1 DEF EnsureIndex, TypeOK, docVars, genVars, indexVars
<1>11. ASSUME NEW w \in Tasks \cup {Checker}, InstallIndex(w) PROVE TypeOK'
  <2>1. walk' \in Walks /\ raced' \in BOOLEAN
    BY <1>11, WalkTypes, WalkUpdate, TrackType DEF InstallIndex, TypeOK
  <2>2. dirty' \in BOOLEAN
    BY <1>11, Zenon DEF InstallIndex
  <2>3. index' \in Nat
    BY <1>11 DEF InstallIndex, TypeOK, WalkType
  <2>4. QED
    BY <1>11, <2>1, <2>2, <2>3 DEF InstallIndex, TypeOK, docVars, genVars
<1>12. ASSUME NEW t \in Tasks, RefreshSnapshot(t) PROVE TypeOK'
  <2>1. javac' \in [Uris -> Entry]
    BY <1>12, IdleTypes DEF RefreshSnapshot, TypeOK
  <2> DEFINE snap == [u \in Uris |-> Compute(u, javac', walk[t].classpath)]
  <2>2. snap \in [Uris -> Report]
    <3>1. walk[t].classpath \in Nat
      BY DEF TypeOK, WalkType
    <3>2. QED
      BY <2>1, <3>1, ComputeType
  <2>3. task'[t] \in TaskType /\ task' = [task EXCEPT ![t] = task'[t]]
    <3> HIDE DEF snap
    <3>1. task' = [task EXCEPT ![t] = [@ EXCEPT !.pc = "publish",
                     !.gen = semantic_generation, !.todo = open, !.snapshot = snap]]
      BY <1>12 DEF RefreshSnapshot, snap
    <3>2. QED
      BY <3>1, <2>2 DEF TypeOK, TaskType
  <2>4. task' \in [Tasks -> TaskType]
    BY <2>3, TaskUpdate DEF TypeOK
  <2>5. walk' \in Walks /\ raced' \in BOOLEAN
    BY <1>12, IdleTypes, WalkUpdate, TrackType DEF RefreshSnapshot, TypeOK
  <2>6. QED
    BY <1>12, <2>1, <2>4, <2>5 DEF RefreshSnapshot, TypeOK, docVars, genVars, indexVars
<1>13. ASSUME NEW t \in Tasks, NEW u \in Uris, RefreshPublish(t, u) PROVE TypeOK'
  <2>1. task' \in [Tasks -> TaskType]
    BY <1>13 DEF RefreshPublish, TypeOK, TaskType
  <2>2. shown' \in [Uris -> Report]
    BY <1>13 DEF RefreshPublish, TypeOK, TaskType
  <2>3. raced' \in BOOLEAN
    BY <1>13, TrackType DEF RefreshPublish
  <2>4. QED
    BY <1>13, <2>1, <2>2, <2>3 DEF RefreshPublish, TypeOK, docVars, genVars, indexVars
<1>14. ASSUME NEW t \in Tasks, RefreshEnd(t) PROVE TypeOK'
  <2>1. raced' \in BOOLEAN
    BY <1>14, TrackType DEF RefreshEnd
  <2>2. QED
    BY <1>14, <2>1, IdleTypes DEF RefreshEnd, TypeOK, docVars, genVars, indexVars
<1>15. ASSUME NEW t \in Tasks, NEW u \in Uris, FastPublish(t, u) PROVE TypeOK'
  <2>1. Compute(u, javac, classpath) \in Report
    BY ComputeType DEF TypeOK
  <2>2. raced' \in BOOLEAN
    BY <1>15, TrackType DEF FastPublish
  <2>3. QED
    BY <1>15, <2>1, <2>2, IdleTypes DEF FastPublish, TypeOK, docVars, genVars, indexVars
<1>16. StartVersions \in [Uris -> Nat]
  BY DEF StartVersions, TypeOK
<1>17. ASSUME NEW scoped \in BOOLEAN, CheckStart(scoped) PROVE TypeOK'
  <2>1. check' \in CheckType
    BY <1>17, <1>16, IdleTypes DEF CheckStart, TypeOK, CheckType
  <2>2. raced' \in BOOLEAN
    BY <1>17, TrackType DEF CheckStart
  <2>3. QED
    BY <1>17, <2>1, <2>2 DEF CheckStart, TypeOK, genVars, indexVars
<1>18. ASSUME NEW found \in SUBSET Uris, CheckCompile(found) PROVE TypeOK'
  <2>1. check' \in CheckType
    BY <1>18 DEF CheckCompile, TypeOK, CheckType
  <2>2. raced' \in BOOLEAN
    BY <1>18, TrackType DEF CheckCompile
  <2>3. QED
    BY <1>18, <2>1, <2>2 DEF CheckCompile, TypeOK, docVars, genVars, indexVars
<1>19. CASE CheckTerminal
  <2>1. raced' \in BOOLEAN
    BY <1>19, TrackType DEF CheckTerminal
  <2>2. QED
    BY <1>19, <2>1, IdleTypes DEF CheckTerminal, TypeOK, docVars, genVars, indexVars
<1>20. CASE CheckJdkTooOld
  <2>1. check' \in CheckType
    BY <1>20, <1>16 DEF CheckJdkTooOld, TypeOK, CheckType
  <2>2. walk' \in Walks /\ raced' \in BOOLEAN
    BY <1>20, WalkTypes, WalkUpdate, TrackType DEF CheckJdkTooOld, TypeOK
  <2>3. QED
    BY <1>20, <2>1, <2>2 DEF CheckJdkTooOld, TypeOK, docVars, genVars, indexVars
<1>21. CASE CheckCompleted
  <2>1. check' \in CheckType
    <3>1. CASE check' = IdleCheck
      BY <3>1, IdleTypes
    <3>2. CASE check' = [IdleCheck EXCEPT !.pc = "compile", !.versions = StartVersions,
                                          !.gen = provider_generation]
      BY <3>2, <1>16, IdleTypes DEF CheckType, TypeOK
    <3>3. CASE check' = [check EXCEPT !.pc = "merge"]
      BY <3>3 DEF CheckType, TypeOK
    <3>4. QED
      BY <1>21, <3>1, <3>2, <3>3 DEF CheckCompleted
  <2>2. walk' \in Walks /\ raced' \in BOOLEAN
    BY <1>21, WalkTypes, WalkUpdate, TrackType DEF CheckCompleted, TypeOK
  <2>3. QED
    BY <1>21, <2>1, <2>2 DEF CheckCompleted, TypeOK, docVars, genVars, indexVars
<1>22. CASE CheckMerge
  <2>1. javac' \in [Uris -> Entry]
    BY <1>22, IdleTypes DEF CheckMerge, TypeOK, CheckType, Entry
  <2> DEFINE snap == [u \in Uris |-> Compute(u, javac', walk[Checker].classpath)]
  <2>2. snap \in [Uris -> Report]
    <3>1. walk[Checker].classpath \in Nat
      BY DEF TypeOK, WalkType
    <3>2. QED
      BY <2>1, <3>1, ComputeType
  <2>3. PICK todo \in SUBSET Uris :
            check' = [check EXCEPT !.pc = "publish", !.todo = todo, !.snapshot = snap]
    BY <1>22 DEF CheckMerge, Stored, Unchanged, TypeOK, CheckType
  <2>4. check' \in CheckType
    <3> HIDE DEF snap
    <3>1. QED
      BY <2>2, <2>3 DEF CheckType, TypeOK
  <2>5. walk' \in Walks /\ raced' \in BOOLEAN
    BY <1>22, IdleTypes, WalkUpdate, TrackType DEF CheckMerge, TypeOK
  <2>6. QED
    BY <1>22, <2>1, <2>4, <2>5 DEF CheckMerge, TypeOK, docVars, genVars, indexVars
<1>23. ASSUME NEW u \in Uris, CheckPublish(u) PROVE TypeOK'
  <2>1. check' \in CheckType
    BY <1>23 DEF CheckPublish, TypeOK, CheckType
  <2>2. shown' \in [Uris -> Report]
    BY <1>23 DEF CheckPublish, TypeOK, CheckType
  <2>3. raced' \in BOOLEAN
    BY <1>23, TrackType DEF CheckPublish
  <2>4. QED
    BY <1>23, <2>1, <2>2, <2>3 DEF CheckPublish, TypeOK, docVars, genVars, indexVars
<1>24. CASE CheckEnd
  <2>1. raced' \in BOOLEAN
    BY <1>24, TrackType DEF CheckEnd
  <2>2. QED
    BY <1>24, <2>1, IdleTypes DEF CheckEnd, TypeOK, docVars, genVars, indexVars
<1>25. CASE UNCHANGED vars
  BY <1>25 DEF vars, TypeOK, docVars, genVars, indexVars
<1>26. QED
  BY <1>1, <1>2, <1>3, <1>4, <1>5, <1>6, <1>7, <1>8, <1>9, <1>10, <1>11, <1>12, <1>13,
     <1>14, <1>15, <1>17, <1>18, <1>19, <1>20, <1>21, <1>22, <1>23, <1>24, <1>25
  DEF Next, Handle, Publish, Check

\* The documents, generations, stored results, publications, handlers and the
\* check always have their declared types.
THEOREM Typing == Spec => []TypeOK
  BY TypeInit, TypeStep, PTL DEF Spec

-----------------------------------------------------------------------------
(* Stored javac results and versions *)

\* EntryForCurrentVersion needs that no entry is from a later opening, so that
\* opening a document makes every entry it has an earlier one.
VersionInv ==
    /\ EntryForCurrentVersion
    /\ \A u \in Uris : javac[u].opened <= opened[u]

\* It holds initially.
LEMMA VersionInit == Init => VersionInv
  BY ConstantsAssumption DEF Init, VersionInv, EntryForCurrentVersion, NoEntry

\* Every step preserves it: an edit drops the entry it makes old, a merge
\* stores entries of the versions it finds, a refresh only drops entries.
LEMMA VersionStep == TypeOK /\ VersionInv /\ [Next]_vars => VersionInv'
<1> SUFFICES ASSUME TypeOK, VersionInv, [Next]_vars PROVE VersionInv'
  OBVIOUS
<1> USE DEF VersionInv, EntryForCurrentVersion
<1>1. ASSUME NEW t \in Tasks, NEW u \in Uris, DidOpen(t, u) PROVE VersionInv'
  <2>1. \A x \in Uris : javac[x].opened \in Nat /\ opened[x] \in Nat
    BY DEF TypeOK, Entry
  <2>2. /\ opened' = [opened EXCEPT ![u] = @ + 1] /\ javac' = javac
        /\ open' = open \cup {u} /\ ver' = [ver EXCEPT ![u] = 1]
    BY <1>1 DEF DidOpen
  <2>3. QED
    BY <2>1, <2>2 DEF TypeOK
<1>2. ASSUME NEW t \in Tasks, NEW u \in Uris,
             DidChangeDeclaration(t, u) \/ DidChangeBody(t, u)
      PROVE  VersionInv'
  <2>1. /\ javac' = [javac EXCEPT ![u] = NoEntry] /\ ver' = [ver EXCEPT ![u] = @ + 1]
        /\ open' = open /\ opened' = opened
    BY <1>2 DEF DidChangeDeclaration, DidChangeBody
  <2>2. opened[u] \in Nat /\ NoEntry.opened = 0
    BY DEF TypeOK, NoEntry
  <2>3. QED
    BY <2>1, <2>2 DEF TypeOK
<1>3. ASSUME NEW t \in Tasks, NEW u \in Uris, DidClose(t, u) PROVE VersionInv'
  BY <1>3 DEF DidClose
<1>4. ASSUME NEW t \in Tasks, RefreshSnapshot(t) PROVE VersionInv'
  <2>1. /\ javac' = javac
           \/ javac' = [u \in Uris |-> IF u \in open THEN NoEntry ELSE javac[u]]
        /\ open' = open /\ opened' = opened /\ ver' = ver
    BY <1>4 DEF RefreshSnapshot, docVars
  <2>2. NoEntry.opened = 0 /\ \A u \in Uris : opened[u] \in Nat
    BY DEF TypeOK, NoEntry
  <2>3. QED
    BY <2>1, <2>2 DEF TypeOK
<1>5. CASE CheckMerge
  <2> DEFINE kept == IF check.scoped THEN Stored(javac) \ Module ELSE {}
             new  == Unchanged(check.versions, check.found)
  <2>1. /\ javac' = [u \in Uris |->
                  IF u \in new
                  THEN [src |-> check.src[u], ver |-> check.versions[u],
                        opened |-> opened[u]]
                  ELSE IF u \in kept THEN javac[u] ELSE NoEntry]
        /\ open' = open /\ opened' = opened /\ ver' = ver
    BY <1>5 DEF CheckMerge, docVars
  <2>2. NoEntry.opened = 0 /\ \A u \in Uris : opened[u] \in Nat
    BY DEF TypeOK, NoEntry
  <2>3. \A u \in open : u \in new => check.versions[u] = ver[u]
    BY DEF Unchanged
  <2> HIDE DEF kept, new
  <2>4. QED
    BY <2>1, <2>2, <2>3 DEF TypeOK
<1>6. CASE UNCHANGED <<open, ver, opened, javac>>
  BY <1>6
<1>7. QED
  <2>1. ASSUME NEW t \in Tasks, NEW u \in Uris,
               \/ DidSave(t, u) \/ OnJavaSourceEvent(t, u) \/ ClasspathSwapped(t)
               \/ RefreshPublish(t, u) \/ FastPublish(t, u)
        PROVE  UNCHANGED <<open, ver, opened, javac>>
    BY <2>1 DEF DidSave, OnJavaSourceEvent, ClasspathSwapped, RefreshPublish,
                FastPublish, docVars
  <2>2. ASSUME \/ \E t \in Tasks : \/ ClasspathSwapped(t) \/ RefreshEnd(t)
                                   \/ Query(t) \/ QueryEnd(t)
               \/ \E w \in Tasks \cup {Checker} : EnsureIndex(w) \/ InstallIndex(w)
        PROVE  UNCHANGED <<open, ver, opened, javac>>
    BY <2>2 DEF ClasspathSwapped, RefreshEnd, Query, QueryEnd, EnsureIndex, InstallIndex,
                docVars
  <2>3. ASSUME \/ \E scoped \in BOOLEAN : CheckStart(scoped)
               \/ \E found \in SUBSET Uris : CheckCompile(found)
               \/ CheckTerminal \/ CheckJdkTooOld \/ CheckCompleted \/ CheckEnd
               \/ \E u \in Uris : CheckPublish(u)
               \/ UNCHANGED vars
        PROVE  UNCHANGED <<open, ver, opened, javac>>
    BY <2>3 DEF CheckStart, CheckCompile, CheckTerminal, CheckJdkTooOld,
                CheckCompleted, CheckEnd, CheckPublish, docVars, vars
  <2>4. QED
    BY <1>1, <1>2, <1>3, <1>4, <1>5, <1>6, <2>1, <2>2, <2>3
    DEF Next, Handle, Publish, Check

\* However edits, openings, refreshes and checks interleave, a javac result
\* stored for an open document since it was opened is for its current version:
\* did_change's removal and the revision filter of publish_javac_diagnostics
\* leave no window for a stale entry.
THEOREM JavacEntriesCurrent == Spec => []EntryForCurrentVersion
<1>1. VersionInv => EntryForCurrentVersion
  BY DEF VersionInv
<1>2. QED
  BY <1>1, Typing, VersionInit, VersionStep, PTL DEF Spec

-----------------------------------------------------------------------------
(* What the index and the history say *)

\* An index that is not marked is of the files there are: ensure_built compares
\* the epoch before it clears the mark.
IndexInv == index = dirty_epoch \/ dirty

\* It holds initially.
LEMMA IndexInit == Init => IndexInv
  BY DEF Init, IndexInv

\* Every step preserves it.
LEMMA IndexStep == IndexInv /\ [Next]_vars => IndexInv'
<1> SUFFICES ASSUME IndexInv, [Next]_vars PROVE IndexInv'
  OBVIOUS
<1>1. ASSUME NEW t \in Tasks, NEW u \in Uris, OnJavaSourceEvent(t, u) PROVE IndexInv'
  BY <1>1 DEF OnJavaSourceEvent, IndexInv
<1>2. ASSUME NEW w \in Tasks \cup {Checker}, InstallIndex(w) PROVE IndexInv'
  BY <1>2 DEF InstallIndex, IndexInv
<1>3. CASE UNCHANGED indexVars
  BY <1>3 DEF IndexInv, indexVars
<1>4. QED
  <2>1. ASSUME NEW t \in Tasks, NEW u \in Uris,
               \/ DidOpen(t, u) \/ DidChangeDeclaration(t, u) \/ DidChangeBody(t, u)
               \/ DidClose(t, u) \/ DidSave(t, u)
        PROVE  UNCHANGED indexVars
    BY <2>1 DEF DidOpen, DidChangeDeclaration, DidChangeBody, DidClose, DidSave
  <2>2. ASSUME NEW t \in Tasks, \/ ClasspathSwapped(t) \/ Query(t) \/ QueryEnd(t) \/ Publish(t)
        PROVE  UNCHANGED indexVars
    BY <2>2 DEF ClasspathSwapped, Query, QueryEnd, Publish, RefreshSnapshot, RefreshEnd,
                RefreshPublish, FastPublish
  <2>3. ASSUME NEW w \in Tasks \cup {Checker}, EnsureIndex(w) PROVE UNCHANGED indexVars
    BY <2>3 DEF EnsureIndex
  <2>4. ASSUME Check PROVE UNCHANGED indexVars
    BY <2>4 DEF Check, CheckStart, CheckCompile, CheckTerminal, CheckJdkTooOld,
                CheckCompleted, CheckMerge, CheckPublish, CheckEnd
  <2>5. ASSUME UNCHANGED vars PROVE UNCHANGED indexVars
    BY <2>5 DEF vars
  <2>6. QED
    BY <1>1, <1>2, <1>3, <2>1, <2>2, <2>3, <2>4, <2>5 DEF Next, Handle

\* While no pass has been overtaken, none is outdated.
RacedInv == Outdated => raced

\* It holds initially.
LEMMA RacedInit == Init => RacedInv
  BY DEF Init, RacedInv, Outdated, Idle, NoWalk

\* Every step of the program is tracked.
LEMMA NextTracks == Next => Track
<1>1. ASSUME NEW t \in Tasks, NEW u \in Uris,
             \/ DidOpen(t, u) \/ DidChangeDeclaration(t, u) \/ DidChangeBody(t, u)
             \/ DidClose(t, u) \/ DidSave(t, u) \/ OnJavaSourceEvent(t, u)
      PROVE  Track
  BY <1>1 DEF DidOpen, DidChangeDeclaration, DidChangeBody, DidClose, DidSave,
              OnJavaSourceEvent
<1>2. ASSUME NEW t \in Tasks, ClasspathSwapped(t) \/ Query(t) \/ QueryEnd(t) \/ Publish(t)
      PROVE  Track
  BY <1>2 DEF ClasspathSwapped, Query, QueryEnd, Publish, RefreshSnapshot, RefreshEnd,
              RefreshPublish, FastPublish
<1>3. ASSUME NEW w \in Tasks \cup {Checker}, EnsureIndex(w) \/ InstallIndex(w) PROVE Track
  BY <1>3 DEF EnsureIndex, InstallIndex
<1>4. ASSUME Check PROVE Track
  BY <1>4 DEF Check, CheckStart, CheckCompile, CheckTerminal, CheckJdkTooOld,
              CheckCompleted, CheckMerge, CheckPublish, CheckEnd
<1>5. QED
  BY <1>1, <1>2, <1>3, <1>4 DEF Next, Handle

\* A race is remembered until the generation moves.
LEMMA RacedKept ==
    ASSUME [Next]_vars, semantic_generation' = semantic_generation
    PROVE  raced => raced'
<1>1. CASE Track
  BY <1>1, Zenon DEF Track
<1>2. CASE UNCHANGED vars
  BY <1>2 DEF vars
<1>3. QED
  BY <1>1, <1>2, NextTracks

\* Every step preserves RacedInv.
LEMMA RacedStep == RacedInv /\ [Next]_vars => RacedInv'
<1> SUFFICES ASSUME RacedInv, [Next]_vars PROVE RacedInv'
  OBVIOUS
<1>1. CASE Track
  BY <1>1, Zenon DEF Track, RacedInv
<1>2. CASE UNCHANGED vars
  BY <1>2 DEF vars, RacedInv, Outdated, docVars, genVars, indexVars
<1>3. QED
  BY <1>1, <1>2, NextTracks

-----------------------------------------------------------------------------
(* Publications are current *)

Pair(r) == <<r.txt, r.world>>

\* No pass is ahead of the generation counter, and one that has not been
\* superseded holds a snapshot of the present: of the texts and declarations in
\* any case, of the index if no pass was overtaken.
SnapshotInv ==
    \A t \in Tasks : task[t].pc = "publish" =>
        /\ task[t].gen <= semantic_generation
        /\ task[t].gen = semantic_generation =>
              /\ \A u \in Uris : Pair(task[t].snapshot[u]) = Native(u)
              /\ raced \/ \A u \in task[t].todo : task[t].snapshot[u].index = dirty_epoch

\* The native part of a report does not depend on the javac map or classpath.
LEMMA NativeValue ==
    ASSUME NEW u, NEW j, NEW cp
    PROVE  Pair(Compute(u, j, cp)) = Native(u)
  BY DEF Pair, Native, Compute, Empty

\* Native is what the documents and the world say.
LEMMA NativeFrame ==
    ASSUME UNCHANGED <<open, txt, world>>
    PROVE  \A u : Native(u)' = Native(u)
  BY DEF Native

\* It holds initially.
LEMMA SnapshotInit == Init => SnapshotInv
  BY DEF Init, SnapshotInv, Idle

\* A handler that moves the generation supersedes every pass.
LEMMA Superseded ==
    ASSUME TypeOK, SnapshotInv,
           semantic_generation' = semantic_generation + 1,
           \A t \in Tasks : task'[t] = task[t] \/ task'[t].pc # "publish"
    PROVE  SnapshotInv'
<1>1. \A t \in Tasks : task[t].gen \in Nat
  BY DEF TypeOK, TaskType
<1>2. \A t \in Tasks : task'[t].pc = "publish" =>
          task'[t].gen <= semantic_generation /\ task'[t].gen \in Nat
  BY <1>1 DEF SnapshotInv
<1>3. semantic_generation \in Nat
  BY DEF TypeOK
<1>4. QED
  BY <1>2, <1>3 DEF SnapshotInv

\* A step that starts no publication and leaves what is native alone keeps the
\* snapshots.
LEMMA SnapshotFrame ==
    ASSUME SnapshotInv, raced => raced',
           UNCHANGED <<semantic_generation, dirty_epoch, open, txt, world>>,
           \A t \in Tasks :
               \/ task'[t].pc # "publish"
               \/ /\ task'[t].pc = task[t].pc
                  /\ task'[t].gen = task[t].gen
                  /\ task'[t].todo \subseteq task[t].todo
                  /\ task'[t].snapshot = task[t].snapshot
    PROVE  SnapshotInv'
<1> SUFFICES ASSUME NEW t \in Tasks, task'[t].pc = "publish"
             PROVE  /\ task'[t].gen <= semantic_generation
                    /\ task'[t].gen = semantic_generation =>
                          /\ \A u \in Uris : Pair(task'[t].snapshot[u]) = Native(u)'
                          /\ raced' \/ \A u \in task'[t].todo :
                                           task'[t].snapshot[u].index = dirty_epoch
  BY DEF SnapshotInv
<1>1. /\ task[t].pc = "publish" /\ task'[t].gen = task[t].gen
      /\ task'[t].todo \subseteq task[t].todo /\ task'[t].snapshot = task[t].snapshot
  OBVIOUS
<1>2. QED
  BY <1>1, NativeFrame DEF SnapshotInv

\* Started tasks do not publish yet.
LEMMA StartedPc ==
    /\ \A stale : Refreshing(stale).pc = "refresh"
    /\ \A u : FastPath(u).pc = "fast"
    /\ Idle.pc = "idle"
    /\ [Idle EXCEPT !.pc = "query"].pc = "query"
  BY DEF Refreshing, FastPath, Idle

\* Steps of the check and of the index leave documents, generations and tasks.
LEMMA ApartSteps ==
    ASSUME Check \/ \E w \in Tasks \cup {Checker} : EnsureIndex(w) \/ InstallIndex(w)
    PROVE  UNCHANGED <<semantic_generation, dirty_epoch, open, txt, world, classpath, task>>
<1>1. CASE Check
  BY <1>1 DEF Check, CheckStart, CheckCompile, CheckTerminal, CheckJdkTooOld,
              CheckCompleted, CheckMerge, CheckPublish, CheckEnd, docVars, genVars, indexVars
<1>2. ASSUME NEW w \in Tasks \cup {Checker}, EnsureIndex(w) \/ InstallIndex(w)
      PROVE  UNCHANGED <<semantic_generation, dirty_epoch, open, txt, world, classpath, task>>
  BY <1>2 DEF EnsureIndex, InstallIndex, docVars, genVars, indexVars
<1>3. QED
  BY <1>1, <1>2

\* What a refresh snapshots is of the present: unless a pass was overtaken, the
\* index its caller waited for is not marked.
LEMMA SnapshotTaken ==
    ASSUME TypeOK, IndexInv, RacedInv, SnapshotInv, [Next]_vars,
           NEW t \in Tasks, RefreshSnapshot(t)
    PROVE  SnapshotInv' /\ (raced \/ ~dirty)
<1> DEFINE snap == [u \in Uris |-> Compute(u, javac', walk[t].classpath)]
<1>1. /\ task' = [task EXCEPT ![t] = [@ EXCEPT !.pc = "publish",
                    !.gen = semantic_generation, !.todo = open, !.snapshot = snap]]
      /\ UNCHANGED <<open, txt, world, semantic_generation, dirty_epoch>>
  BY DEF RefreshSnapshot, docVars, genVars, indexVars
<1>2. \A u \in Uris : Pair(snap[u]) = Native(u)
  BY NativeValue
<1>3. \A u \in open : snap[u].index = index
  BY DEF Compute, TypeOK
<1>4. \A u \in Uris : Native(u)' = Native(u)
  BY <1>1, NativeFrame
<1> HIDE DEF snap
<1>5. /\ task'[t].gen = semantic_generation /\ task'[t].snapshot = snap
      /\ task'[t].todo = open
      /\ \A x \in Tasks \ {t} : task'[x] = task[x]
  BY <1>1 DEF TypeOK, TaskType
<1>6. raced \/ ~dirty
  BY DEF RacedInv, Outdated, RefreshSnapshot
<1>7. raced \/ \A u \in open : snap[u].index = dirty_epoch
  BY <1>3, <1>6 DEF IndexInv
<1>8. raced => raced'
  BY <1>1, RacedKept
<1>9. ASSUME NEW x \in Tasks, task'[x].pc = "publish"
      PROVE  /\ task'[x].gen <= semantic_generation'
             /\ task'[x].gen = semantic_generation' =>
                   /\ \A u \in Uris : Pair(task'[x].snapshot[u]) = Native(u)'
                   /\ raced' \/ \A u \in task'[x].todo :
                                    task'[x].snapshot[u].index = dirty_epoch'
  <2>1. CASE x = t
    <3>1. semantic_generation <= semantic_generation
      BY DEF TypeOK
    <3>2. QED
      BY <2>1, <3>1, <1>1, <1>2, <1>4, <1>5, <1>7, <1>8
  <2>2. CASE x # t
    BY <2>2, <1>1, <1>4, <1>5, <1>8, <1>9 DEF SnapshotInv
  <2>3. QED
    BY <2>1, <2>2
<1>10. QED
  BY <1>6, <1>9 DEF SnapshotInv

\* Every step preserves the snapshots: what changes a document or a file takes
\* a generation with it.
LEMMA SnapshotStep ==
    TypeOK /\ IndexInv /\ RacedInv /\ SnapshotInv /\ [Next]_vars => SnapshotInv'
<1> SUFFICES ASSUME TypeOK, IndexInv, RacedInv, SnapshotInv, [Next]_vars PROVE SnapshotInv'
  OBVIOUS
<1>1. ASSUME NEW t \in Tasks, NEW u \in Uris,
             \/ DidOpen(t, u) \/ DidChangeDeclaration(t, u) \/ DidChangeBody(t, u)
             \/ DidClose(t, u) \/ DidSave(t, u)
      PROVE  SnapshotInv'
  <2>1. /\ semantic_generation' = semantic_generation + 1
        /\ \/ task' = task
           \/ task' = [task EXCEPT ![t] = Refreshing("None")]
           \/ task' = [task EXCEPT ![t] = Refreshing("AllOpen")]
           \/ task' = [task EXCEPT ![t] = FastPath(u)]
    BY <1>1 DEF DidOpen, DidChangeDeclaration, DidChangeBody, DidClose, DidSave, Refresh
  <2>2. \A x \in Tasks : task'[x] = task[x] \/ task'[x].pc # "publish"
    BY <2>1, StartedPc DEF TypeOK
  <2>3. QED
    BY <2>1, <2>2, Superseded
<1>2. ASSUME NEW t \in Tasks, NEW u \in Uris, OnJavaSourceEvent(t, u)
      PROVE  SnapshotInv'
  <2>1. CASE u \in open
    <3>1. UNCHANGED <<semantic_generation, dirty_epoch, open, txt, world, task>>
      BY <1>2, <2>1 DEF OnJavaSourceEvent, genVars
    <3>2. QED
      BY <3>1, RacedKept, SnapshotFrame
  <2>2. CASE u \notin open
    <3>1. /\ semantic_generation' = semantic_generation + 1
          /\ task' = [task EXCEPT ![t] = Refreshing("AllOpen")]
      BY <1>2, <2>2 DEF OnJavaSourceEvent, Refresh
    <3>2. \A x \in Tasks : task'[x] = task[x] \/ task'[x].pc # "publish"
      BY <3>1, StartedPc DEF TypeOK
    <3>3. QED
      BY <3>1, <3>2, Superseded
  <2>3. QED
    BY <2>1, <2>2
<1>3. ASSUME NEW t \in Tasks, RefreshSnapshot(t) PROVE SnapshotInv'
  BY <1>3, SnapshotTaken
<1>4. ASSUME NEW t \in Tasks, NEW u \in Uris, RefreshPublish(t, u) PROVE SnapshotInv'
  <2>1. /\ UNCHANGED <<semantic_generation, dirty_epoch, open, txt, world>>
        /\ task' = [task EXCEPT ![t].todo = @ \ {u}]
    BY <1>4 DEF RefreshPublish, docVars, genVars, indexVars
  <2>2. \A x \in Tasks : /\ task'[x].pc = task[x].pc /\ task'[x].gen = task[x].gen
                         /\ task'[x].todo \subseteq task[x].todo
                         /\ task'[x].snapshot = task[x].snapshot
    BY <2>1 DEF TypeOK, TaskType
  <2>3. QED
    BY <2>1, <2>2, RacedKept, SnapshotFrame
<1>5. ASSUME NEW t \in Tasks, NEW u \in Uris, FastPublish(t, u) PROVE SnapshotInv'
  <2>1. /\ UNCHANGED <<semantic_generation, dirty_epoch, open, txt, world>>
        /\ task' = [task EXCEPT ![t] = Idle]
    BY <1>5 DEF FastPublish, docVars, genVars, indexVars
  <2>2. \A x \in Tasks : task'[x] = task[x] \/ task'[x].pc # "publish"
    BY <2>1, StartedPc DEF TypeOK
  <2>3. QED
    BY <2>1, <2>2, RacedKept, SnapshotFrame
<1>6. ASSUME NEW t \in Tasks, RefreshEnd(t) \/ QueryEnd(t) PROVE SnapshotInv'
  <2>1. /\ UNCHANGED <<semantic_generation, dirty_epoch, open, txt, world>>
        /\ task' = [task EXCEPT ![t] = Idle]
    BY <1>6 DEF RefreshEnd, QueryEnd, docVars, genVars, indexVars
  <2>2. \A x \in Tasks : task'[x] = task[x] \/ task'[x].pc # "publish"
    BY <2>1, StartedPc DEF TypeOK
  <2>3. QED
    BY <2>1, <2>2, RacedKept, SnapshotFrame
<1>7. ASSUME NEW t \in Tasks, ClasspathSwapped(t) \/ Query(t) PROVE SnapshotInv'
  <2>1. /\ UNCHANGED <<semantic_generation, dirty_epoch, open, txt, world>>
        /\ \/ task' = [task EXCEPT ![t] = Refreshing("None")]
           \/ task' = [task EXCEPT ![t] = [Idle EXCEPT !.pc = "query"]]
    BY <1>7 DEF ClasspathSwapped, Query, Refresh, genVars, indexVars
  <2>2. \A x \in Tasks : task'[x] = task[x] \/ task'[x].pc # "publish"
    BY <2>1, StartedPc DEF TypeOK
  <2>3. QED
    BY <2>1, <2>2, RacedKept, SnapshotFrame
<1>8. CASE Check \/ \E w \in Tasks \cup {Checker} : EnsureIndex(w) \/ InstallIndex(w)
  BY <1>8, ApartSteps, RacedKept, SnapshotFrame
<1>9. CASE UNCHANGED vars
  <2>1. UNCHANGED <<semantic_generation, dirty_epoch, open, txt, world, task, raced>>
    BY <1>9 DEF vars, docVars, genVars, indexVars
  <2>2. QED
    BY <2>1, SnapshotFrame
<1>10. QED
  BY <1>1, <1>2, <1>3, <1>4, <1>5, <1>6, <1>7, <1>8, <1>9 DEF Next, Handle, Publish

\* What a refresh sends is of the present.
LEMMA SentIsCurrent ==
    ASSUME TypeOK, RacedInv, SnapshotInv, [Next]_vars,
           NEW t \in Tasks, NEW x \in Uris, RefreshPublish(t, x)
    PROVE  /\ Pair(shown'[x]) = Native(x)'
           /\ raced' \/ (shown'[x].classpath = classpath' /\ shown'[x].index = dirty_epoch')
<1>1. /\ UNCHANGED <<open, txt, world, classpath, semantic_generation, dirty_epoch>>
      /\ shown' = [shown EXCEPT ![x] = task[t].snapshot[x]]
      /\ task[t].pc = "publish" /\ task[t].gen = semantic_generation /\ x \in task[t].todo
  BY DEF RefreshPublish, docVars, genVars, indexVars
<1>2. shown'[x] = task[t].snapshot[x]
  BY <1>1 DEF TypeOK
<1>3. Pair(shown'[x]) = Native(x)'
  BY <1>1, <1>2, NativeFrame DEF SnapshotInv
<1>4. raced \/ task[t].snapshot[x].classpath = classpath
  BY <1>1 DEF RacedInv, Outdated
<1>5. raced \/ task[t].snapshot[x].index = dirty_epoch
  BY <1>1 DEF SnapshotInv
<1>6. QED
  BY <1>1, <1>2, <1>3, <1>4, <1>5, RacedKept

\* So is what a fast path sends, of an index that is not marked.
LEMMA FastIsCurrent ==
    ASSUME TypeOK, IndexInv, NEW t \in Tasks, NEW x \in Uris, FastPublish(t, x)
    PROVE  /\ Pair(shown'[x]) = Native(x)'
           /\ x \in open' => /\ shown'[x].classpath = classpath'
                             /\ shown'[x].index = dirty_epoch' \/ dirty'
<1>1. /\ UNCHANGED <<open, txt, world, classpath, dirty_epoch, dirty>>
      /\ shown' = [shown EXCEPT ![x] = Compute(x, javac, classpath)]
  BY DEF FastPublish, docVars, indexVars
<1>2. shown'[x] = Compute(x, javac, classpath)
  BY <1>1 DEF TypeOK
<1>3. Pair(shown'[x]) = Native(x)'
  BY <1>1, <1>2, NativeFrame, NativeValue
<1>4. x \in open => /\ Compute(x, javac, classpath).classpath = classpath
                    /\ Compute(x, javac, classpath).index = index
  BY DEF Compute
<1>5. QED
  BY <1>1, <1>2, <1>3, <1>4 DEF IndexInv

\* What a step other than a check's publishes is the present.
LEMMA PublicationStep ==
    ASSUME TypeOK, IndexInv, RacedInv, SnapshotInv, [Next]_vars, check' = check,
           NEW u \in Uris, shown'[u] # shown[u]
    PROVE  Fresh(u)' /\ (raced' \/ Resolved(u)')
<1>1. ASSUME NEW t \in Tasks, NEW x \in Uris, DidClose(t, x)
      PROVE  Fresh(u)' /\ Resolved(u)'
  <2>1. shown' = [shown EXCEPT ![x] = Empty] /\ open' = open \ {x}
    BY <1>1 DEF DidClose
  <2>2. x = u
    BY <2>1 DEF TypeOK
  <2>3. shown'[u] = Empty /\ u \notin open'
    BY <2>1, <2>2 DEF TypeOK
  <2>4. QED
    BY <2>3 DEF Empty, Native, Fresh, Resolved
<1>2. ASSUME NEW t \in Tasks, NEW x \in Uris, RefreshPublish(t, x)
      PROVE  Fresh(u)' /\ (raced' \/ Resolved(u)')
  <2>1. x = u
    BY <1>2 DEF TypeOK, RefreshPublish
  <2>2. QED
    BY <1>2, <2>1, SentIsCurrent DEF Pair, Fresh, Resolved
<1>3. ASSUME NEW t \in Tasks, NEW x \in Uris, FastPublish(t, x)
      PROVE  Fresh(u)' /\ Resolved(u)'
  <2>1. x = u
    BY <1>3 DEF TypeOK, FastPublish
  <2>2. QED
    BY <1>3, <2>1, FastIsCurrent DEF Pair, Fresh, Resolved
<1>4. ~Check
  <2>1. ASSUME NEW x \in Uris, CheckPublish(x) PROVE FALSE
    <3>1. check'.todo = check.todo \ {x} /\ x \in check.todo
      BY <2>1 DEF CheckPublish, TypeOK, CheckType
    <3>2. QED
      BY <3>1
  <2>2. QED
    BY <2>1 DEF Check, CheckStart, CheckCompile, CheckTerminal, CheckJdkTooOld,
                CheckCompleted, CheckMerge, CheckEnd
<1>5. QED
  BY <1>1, <1>2, <1>3, <1>4
  DEF Next, Handle, Publish, DidOpen, DidChangeDeclaration, DidChangeBody, DidSave,
      OnJavaSourceEvent, ClasspathSwapped, Query, QueryEnd, EnsureIndex, InstallIndex,
      RefreshSnapshot, RefreshEnd, vars

\* A handler's publication never overwrites results for a newer text or newer
\* declarations: the generation that refresh_open_diagnostics compares before
\* each send rules out every older snapshot.  It is resolved against the files
\* and the classpath of that moment, or an index marked as old, unless one of
\* them overtook a pass.
THEOREM PublicationsCurrent == Spec => PublishesCurrent
<1>1. TypeOK /\ IndexInv /\ RacedInv /\ SnapshotInv /\ [Next]_vars =>
        [\A u \in Uris : shown'[u] # shown[u] /\ check' = check =>
                             Fresh(u)' /\ (raced' \/ Resolved(u)')]_vars
  BY PublicationStep
<1>2. QED
  BY <1>1, SnapshotStep, SnapshotInit, IndexStep, IndexInit, RacedStep, RacedInit, Typing, PTL
  DEF Spec, PublishesCurrent

-----------------------------------------------------------------------------
(* Overlapping passes converge *)

\* Task t will still publish u, from a snapshot of the present or a later one.
Covers(t, u) ==
    \/ task[t].pc = "refresh"
    \/ /\ task[t].pc = "publish"
       /\ task[t].gen = semantic_generation
       /\ u \in task[t].todo

\* The client sees u as it is.
Settled(u) ==
    /\ Pair(shown[u]) = Native(u)
    /\ raced \/ (shown[u].classpath = classpath /\ shown[u].index = dirty_epoch)

\* What the client does not show yet, some pass that is not superseded will; a
\* marked index is rebuilt by a pass that has not taken its snapshot.
FreshInv ==
    last = "refresh" =>
        /\ \A u \in open : Settled(u) \/ \E t \in Tasks : Covers(t, u)
        /\ raced \/ open = {} \/ ~dirty \/ \E t \in Tasks : task[t].pc = "refresh"

\* It holds initially.
LEMMA FreshInit == Init => FreshInv
<1> SUFFICES ASSUME Init PROVE FreshInv
  OBVIOUS
<1>1. \A u \in open : Settled(u)
  BY ConstantsAssumption DEF Init, Settled, Pair, Native
<1>2. open = {} \/ ~dirty
  BY DEF Init
<1>3. QED
  BY <1>1, <1>2 DEF FreshInv

\* A started refresh covers every open document.
LEMMA RefreshCovers ==
    ASSUME TypeOK, NEW t \in Tasks, NEW stale, Refresh(t, stale)
    PROVE  FreshInv'
<1>1. task'[t].pc = "refresh"
  BY StartedPc DEF Refresh, TypeOK
<1>2. QED
  BY <1>1 DEF Covers, FreshInv

\* A document that a step does not touch stays settled while nothing it shows
\* is overtaken.
LEMMA SettledFrame ==
    ASSUME raced => raced', NEW u, shown'[u] = shown[u],
           UNCHANGED <<open, txt, world, classpath, dirty_epoch>>, Settled(u)
    PROVE  Settled(u)'
  BY NativeFrame DEF Settled

\* A step that leaves documents, publications and tasks alone, and does not
\* mark the index, preserves the invariant.
LEMMA FreshFrame ==
    ASSUME FreshInv, raced => raced', raced' \/ (dirty' => dirty),
           UNCHANGED <<semantic_generation, dirty_epoch, open, txt, world, classpath,
                       shown, last>>,
           \A t \in Tasks : task'[t] = task[t] \/
               (task[t].pc # "refresh" /\ \A u \in open : ~Covers(t, u))
    PROVE  FreshInv'
<1> SUFFICES ASSUME last = "refresh" PROVE FreshInv'
  BY DEF FreshInv
<1>1. ASSUME NEW u \in open, NEW t \in Tasks, Covers(t, u) PROVE Covers(t, u)'
  <2>1. task'[t] = task[t]
    BY <1>1
  <2>2. QED
    BY <1>1, <2>1 DEF Covers
<1>2. \A u \in open : Settled(u) => Settled(u)'
  BY SettledFrame
<1>3. \A t \in Tasks : task[t].pc = "refresh" => task'[t].pc = "refresh"
  OBVIOUS
<1>4. \A u \in open' : Settled(u)' \/ \E t \in Tasks : Covers(t, u)'
  BY <1>1, <1>2 DEF FreshInv
<1>5. raced' \/ open' = {} \/ ~dirty' \/ \E t \in Tasks : task'[t].pc = "refresh"
  BY <1>3 DEF FreshInv
<1>6. QED
  BY <1>4, <1>5 DEF FreshInv

\* A step that publishes one document, and ends or goes on, leaves the others.
LEMMA FreshPublished ==
    ASSUME TypeOK, FreshInv, last = "refresh", raced => raced',
           UNCHANGED <<semantic_generation, dirty_epoch, dirty, open, txt, world, classpath,
                       last>>,
           NEW t \in Tasks, task[t].pc # "refresh", NEW x \in Uris,
           Settled(x)' \/ \E s \in Tasks \ {t} : Covers(s, x),
           \A u \in Uris \ {x} : shown'[u] = shown[u] /\ (Covers(t, u) => Covers(t, u)'),
           \A s \in Tasks \ {t} : task'[s] = task[s]
    PROVE  FreshInv'
<1>1. ASSUME NEW u \in Uris, NEW s \in Tasks \ {t}, Covers(s, u) PROVE Covers(s, u)'
  BY <1>1 DEF Covers
<1>2. \A u \in Uris \ {x} : Settled(u) => Settled(u)'
  BY SettledFrame
<1>3. \A s \in Tasks : task[s].pc = "refresh" => task'[s].pc = "refresh"
  OBVIOUS
<1>4. open \subseteq Uris
  BY DEF TypeOK
<1>5. ASSUME NEW u \in open PROVE Settled(u)' \/ \E s \in Tasks : Covers(s, u)'
  <2>1. CASE u = x
    BY <2>1, <1>1
  <2>2. CASE u # x
    BY <2>2, <1>1, <1>2, <1>4 DEF FreshInv
  <2>3. QED
    BY <2>1, <2>2
<1>6. raced' \/ open' = {} \/ ~dirty' \/ \E s \in Tasks : task'[s].pc = "refresh"
  BY <1>3 DEF FreshInv
<1>7. QED
  BY <1>5, <1>6 DEF FreshInv

\* Every step leaves an uncovered document fresh.
LEMMA FreshStep ==
    TypeOK /\ IndexInv /\ RacedInv /\ SnapshotInv /\ FreshInv /\ [Next]_vars => FreshInv'
<1> SUFFICES ASSUME TypeOK, IndexInv, RacedInv, SnapshotInv, FreshInv, [Next]_vars
             PROVE  FreshInv'
  OBVIOUS
<1>0. ASSUME NEW t \in Tasks, ClasspathSwapped(t) PROVE FreshInv'
  BY <1>0, RefreshCovers DEF ClasspathSwapped
<1>1. ASSUME NEW t \in Tasks, NEW x \in Uris,
             DidOpen(t, x) \/ DidChangeDeclaration(t, x) \/ DidClose(t, x)
      PROVE  FreshInv'
  BY <1>1, RefreshCovers DEF DidOpen, DidChangeDeclaration, DidClose
<1>2. ASSUME NEW t \in Tasks, NEW x \in Uris, OnJavaSourceEvent(t, x) PROVE FreshInv'
  <2>1. CASE x \in open
    <3>1. UNCHANGED <<semantic_generation, dirty_epoch, dirty, open, txt, world, classpath,
                      shown, last, task>>
      BY <1>2, <2>1 DEF OnJavaSourceEvent, genVars
    <3>2. QED
      BY <3>1, RacedKept, FreshFrame
  <2>2. CASE x \notin open
    BY <1>2, <2>2, RefreshCovers DEF OnJavaSourceEvent
  <2>3. QED
    BY <2>1, <2>2
<1>3. ASSUME NEW t \in Tasks, RefreshSnapshot(t) PROVE FreshInv'
  <2> DEFINE snap == [u \in Uris |-> Compute(u, javac', walk[t].classpath)]
  <2>1. /\ task' = [task EXCEPT ![t] = [@ EXCEPT !.pc = "publish",
                      !.gen = semantic_generation, !.todo = open, !.snapshot = snap]]
        /\ UNCHANGED <<open, semantic_generation, dirty>>
    BY <1>3 DEF RefreshSnapshot, docVars, genVars, indexVars
  <2> HIDE DEF snap
  <2>2. /\ task'[t].pc = "publish" /\ task'[t].gen = semantic_generation
        /\ task'[t].todo = open
    BY <2>1 DEF TypeOK, TaskType
  <2>3. \A u \in open : Covers(t, u)'
    BY <2>1, <2>2 DEF Covers
  <2>4. raced' \/ ~dirty'
    BY <1>3, <2>1, SnapshotTaken, RacedKept
  <2>5. QED
    BY <2>1, <2>3, <2>4 DEF FreshInv
<1>4. ASSUME NEW t \in Tasks, NEW x \in Uris, RefreshPublish(t, x), last = "refresh"
      PROVE  FreshInv'
  <2>1. /\ UNCHANGED <<semantic_generation, dirty_epoch, dirty, open, txt, world, classpath,
                       last>>
        /\ shown' = [shown EXCEPT ![x] = task[t].snapshot[x]]
        /\ task' = [task EXCEPT ![t].todo = @ \ {x}]
        /\ task[t].pc = "publish" /\ task[t].gen = semantic_generation
    BY <1>4 DEF RefreshPublish, docVars, genVars, indexVars
  <2>2. Settled(x)'
    BY <1>4, SentIsCurrent DEF Settled
  <2>3. /\ task'[t].pc = task[t].pc /\ task'[t].gen = task[t].gen
        /\ \A u \in Uris \ {x} : u \in task[t].todo => u \in task'[t].todo
        /\ \A s \in Tasks \ {t} : task'[s] = task[s]
    BY <2>1 DEF TypeOK, TaskType
  <2>4. \A u \in Uris \ {x} : Covers(t, u) => Covers(t, u)'
    BY <2>1, <2>3 DEF Covers
  <2>5. \A u \in Uris \ {x} : shown'[u] = shown[u]
    BY <2>1 DEF TypeOK
  <2>6. QED
    BY <1>4, <2>1, <2>2, <2>3, <2>4, <2>5, RacedKept, FreshPublished
<1>5. ASSUME NEW t \in Tasks, RefreshEnd(t) \/ Query(t) \/ QueryEnd(t) PROVE FreshInv'
  <2>1. /\ UNCHANGED <<semantic_generation, dirty_epoch, dirty, open, txt, world, classpath,
                       shown, last>>
        /\ \A s \in Tasks \ {t} : task'[s] = task[s]
    BY <1>5 DEF RefreshEnd, Query, QueryEnd, docVars, genVars, indexVars, TypeOK
  <2>2. task[t].pc # "refresh" /\ \A u \in open : ~Covers(t, u)
    BY <1>5 DEF RefreshEnd, Query, QueryEnd, Receive, Covers
  <2>3. QED
    BY <2>1, <2>2, RacedKept, FreshFrame
<1>6. ASSUME NEW t \in Tasks, NEW x \in Uris, FastPublish(t, x), last = "refresh"
      PROVE  FreshInv'
  <2>1. /\ UNCHANGED <<semantic_generation, dirty_epoch, dirty, open, txt, world, classpath,
                       last>>
        /\ shown' = [shown EXCEPT ![x] = Compute(x, javac, classpath)]
        /\ task' = [task EXCEPT ![t] = Idle]
        /\ task[t].pc = "fast"
    BY <1>6 DEF FastPublish, docVars, genVars, indexVars
  <2>2. raced => raced'
    BY <2>1, RacedKept
  <2>3. \A s \in Tasks \ {t} : task'[s] = task[s]
    BY <2>1 DEF TypeOK
  <2>4. \A u \in Uris \ {x} : shown'[u] = shown[u]
    BY <2>1 DEF TypeOK
  <2>5. \A u \in Uris : ~Covers(t, u)
    BY <2>1 DEF Covers
  <2>6. CASE x \in open
    <3>1. CASE raced \/ ~dirty
      <4>1. Settled(x)'
        BY <1>6, <2>1, <2>2, <2>6, <3>1, FastIsCurrent DEF Settled
      <4>2. QED
        BY <1>6, <2>1, <2>2, <2>3, <2>4, <2>5, <4>1, FreshPublished
    <3>2. CASE ~raced /\ dirty
      <4>1. PICK s \in Tasks : task[s].pc = "refresh"
        BY <1>6, <2>6, <3>2 DEF FreshInv
      <4>2. s \in Tasks \ {t} /\ Covers(s, x)
        BY <2>1, <4>1 DEF Covers
      <4>3. QED
        BY <1>6, <2>1, <2>2, <2>3, <2>4, <2>5, <4>2, FreshPublished
    <3>3. QED
      BY <3>1, <3>2
  <2>7. CASE x \notin open
    <3>1. \A u \in open : shown'[u] = shown[u] /\ u \in Uris
      BY <2>4, <2>7 DEF TypeOK
    <3>2. ASSUME NEW u \in open, NEW s \in Tasks, Covers(s, u) PROVE Covers(s, u)'
      BY <2>1, <2>3, <2>5, <3>1, <3>2 DEF Covers
    <3>3. \A u \in open : Settled(u) => Settled(u)'
      BY <2>1, <2>2, <3>1, SettledFrame
    <3>4. \A s \in Tasks : task[s].pc = "refresh" => task'[s].pc = "refresh"
      BY <2>1, <2>3
    <3>5. \A u \in open' : Settled(u)' \/ \E s \in Tasks : Covers(s, u)'
      BY <1>6, <2>1, <3>2, <3>3 DEF FreshInv
    <3>6. raced' \/ open' = {} \/ ~dirty' \/ \E s \in Tasks : task'[s].pc = "refresh"
      BY <1>6, <2>1, <2>2, <3>4 DEF FreshInv
    <3>7. QED
      BY <3>5, <3>6 DEF FreshInv
  <2>8. QED
    BY <2>6, <2>7
<1>7. ASSUME NEW t \in Tasks, NEW x \in Uris, DidChangeBody(t, x) \/ DidSave(t, x)
      PROVE  FreshInv'
  BY <1>7 DEF DidChangeBody, DidSave, FreshInv
<1>8. ASSUME NEW w \in Tasks \cup {Checker}, EnsureIndex(w) PROVE FreshInv'
  <2>1. UNCHANGED <<shown, last, dirty>>
    BY <1>8 DEF EnsureIndex, indexVars
  <2>2. QED
    BY <1>8, <2>1, ApartSteps, RacedKept, FreshFrame
<1>9. ASSUME NEW w \in Tasks \cup {Checker}, InstallIndex(w) PROVE FreshInv'
  <2>1. /\ UNCHANGED <<shown, last>> /\ walk[w].pc = "walking"
        /\ dirty' = (dirty_epoch # walk[w].epoch)
    BY <1>9 DEF InstallIndex
  <2>2. raced \/ ~dirty'
    BY <2>1 DEF RacedInv, Outdated
  <2>3. QED
    BY <1>9, <2>1, <2>2, ApartSteps, RacedKept, FreshFrame
<1>10. CASE Check
  <2>1. ASSUME NEW x \in Uris, CheckPublish(x) PROVE FreshInv'
    BY <2>1 DEF CheckPublish, FreshInv
  <2>2. ASSUME ~\E x \in Uris : CheckPublish(x) PROVE FreshInv'
    <3>1. UNCHANGED <<shown, last, dirty>>
      BY <1>10, <2>2 DEF Check, CheckStart, CheckCompile, CheckTerminal, CheckJdkTooOld,
                         CheckCompleted, CheckMerge, CheckEnd, indexVars
    <3>2. QED
      BY <1>10, <3>1, ApartSteps, RacedKept, FreshFrame
  <2>3. QED
    BY <2>1, <2>2
<1>11. CASE UNCHANGED vars
  <2>1. UNCHANGED <<semantic_generation, dirty_epoch, dirty, open, txt, world, classpath,
                    shown, last, task, raced>>
    BY <1>11 DEF vars, docVars, genVars, indexVars
  <2>2. QED
    BY <2>1, FreshFrame
<1>12. ASSUME NEW t \in Tasks, NEW x \in Uris, RefreshPublish(t, x) \/ FastPublish(t, x)
       PROVE  FreshInv'
  <2>1. last' = last
    BY <1>12 DEF RefreshPublish, FastPublish
  <2>2. CASE last = "refresh"
    BY <1>4, <1>6, <1>12, <2>2
  <2>3. CASE last # "refresh"
    BY <2>1, <2>3 DEF FreshInv
  <2>4. QED
    BY <2>2, <2>3
<1>13. QED
  BY <1>0, <1>1, <1>2, <1>3, <1>5, <1>7, <1>8, <1>9, <1>10, <1>11, <1>12
  DEF Next, Handle, Publish

\* However many refreshes overlap and abort one another, and whatever checks,
\* saves and classpath swaps they race with: when the last event was one that
\* refreshes and its pass is done, the client shows every open document's text
\* against the declarations as they are; and against the files and the
\* classpath as they are, with no rebuild of the index owed, unless an event or
\* a swap overtook a pass since the generation last moved.
THEOREM PassesConverge == Spec => []QuiescentFresh
<1>1. FreshInv => QuiescentFresh
  BY DEF FreshInv, QuiescentFresh, Quiescent, Covers, Pair, Fresh, Settled, Resolved
<1>2. QED
  BY <1>1, SnapshotStep, FreshStep, SnapshotInit, FreshInit, IndexStep, IndexInit, RacedStep,
     RacedInit, Typing, PTL
  DEF Spec

=============================================================================
