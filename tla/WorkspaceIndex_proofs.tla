------------------------- MODULE WorkspaceIndex_proofs -------------------------
(***************************************************************************)
(* Proofs about WorkspaceIndex, for any files, roots, cap and number of    *)
(* overlapping walks.                                                      *)
(***************************************************************************)
EXTENDS WorkspaceIndex, FiniteSetTheorems, TLAPS

\* The empty walk is a walk.
LEMMA NoWalkType == NoWalk \in WalkType
BY DEF NoWalk, WalkType, Unread

\* Invalidating an index yields an index.
LEMMA InvalidateType ==
    ASSUME NEW i \in InnerType
    PROVE  Invalidate(i) \in InnerType
<1> DEFINE e == i.dirty_epoch + 1
<1>1. e \in Nat
  BY DEF InnerType
<1> HIDE DEF e
<1>2. [i EXCEPT !.dirty = TRUE, !.dirty_epoch = e] \in InnerType
  BY <1>1 DEF InnerType
<1> QED
  BY <1>2 DEF Invalidate, e

\* Replacing the index by a finished walk yields an index.
LEMMA InstalledType ==
    ASSUME TypeOK, NEW k \in WalkType
    PROVE  Installed(inner, k) \in InnerType
<1> USE DEF TypeOK, WalkType, InnerType
<1> DEFINE d == (inner.dirty_epoch # k.epoch_before) \/ k.incomplete
<1>1. d \in BOOLEAN
  OBVIOUS
<1> HIDE DEF d
<1>2. [inner EXCEPT !.entries = k.entries, !.seen = k.seen,
            !.roots = k.roots, !.root_mtimes = k.root_mtimes,
            !.truncated = k.truncated, !.built = TRUE, !.dirty = d] \in InnerType
  BY <1>1
<1> QED
  BY <1>2 DEF Installed, d

\* Recording a root takes a walk to a walk.
LEMMA RecordRootType ==
    ASSUME TypeOK, NEW k \in WalkType, NEW r \in Roots
    PROVE  RecordRoot(k, r) \in WalkType
<1> USE DEF TypeOK, WalkType
<1>1. [k.root_mtimes EXCEPT ![r] = mtime[r]] \in [Roots -> Int]
  OBVIOUS
<1>2. {g \in Files : RootOf[g] = r} \in SUBSET Files
  OBVIOUS
<1> QED
  BY <1>1, <1>2 DEF RecordRoot

\* Scanning a file takes a walk to a walk.
LEMMA ScanFileType ==
    ASSUME TypeOK, NEW k \in WalkType, NEW f \in Files
    PROVE  ScanFile(k, f) \in WalkType
<1> USE DEF TypeOK, WalkType
<1>1. [k.seen EXCEPT ![f] = rev[f]] \in [Files -> Int]
  OBVIOUS
<1> QED
  BY <1>1 DEF ScanFile

\* Every handler and every step of a walk keeps the index and the walks within
\* their types.
THEOREM Typing == Spec => []TypeOK
<1>1. Init => TypeOK
  <2> SUFFICES ASSUME Init PROVE TypeOK
    OBVIOUS
  <2>1. NoWalk \in WalkType
    BY NoWalkType
  <2>2. inner \in InnerType
    BY DEF Init, InnerType, Unread
  <2> QED
    BY <2>1, <2>2, ConstantsAssumption DEF Init, TypeOK
<1>2. TypeOK /\ [Next]_vars => TypeOK'
  <2> SUFFICES ASSUME TypeOK, [Next]_vars PROVE TypeOK'
    OBVIOUS
  <2> USE DEF TypeOK
  <2>1. ASSUME NEW f \in Files, Rewrite(f) PROVE TypeOK'
    BY <2>1 DEF Rewrite
  <2>2. ASSUME NEW f \in Files, AppearOrVanish(f) PROVE TypeOK'
    BY <2>2, ConstantsAssumption DEF AppearOrVanish
  <2>3. ASSUME NEW f \in Files, Open(f) PROVE TypeOK'
    BY <2>3 DEF Open
  <2>4. ASSUME NEW f \in Files, Close(f) PROVE TypeOK'
    BY <2>4 DEF Close
  <2>5. ASSUME NEW f \in Files, OnJavaSourceEvent(f) PROVE TypeOK'
    <3>1. Invalidate(inner) \in InnerType
      BY InvalidateType
    <3>2. inner' \in InnerType
      BY <2>5, <3>1 DEF OnJavaSourceEvent
    <3>3. notified' \in [Files -> Nat]
      BY <2>5 DEF OnJavaSourceEvent
    <3> QED
      BY <2>5, <3>2, <3>3 DEF OnJavaSourceEvent
  <2>6. ASSUME NEW w \in Walkers, Start(w) PROVE TypeOK'
    <3>1. [NoWalk EXCEPT !.todo = SourceRoots, !.epoch_before = inner.dirty_epoch]
            \in WalkType
      <4>1. NoWalk \in WalkType
        BY NoWalkType
      <4>2. SourceRoots \in SUBSET Roots
        BY ConstantsAssumption DEF SourceRoots
      <4>3. inner.dirty_epoch \in Nat
        BY DEF InnerType
      <4> QED
        BY <4>1, <4>2, <4>3 DEF WalkType
    <3> QED
      BY <2>6, <3>1 DEF Start
  <2>7. ASSUME NEW w \in Walkers, NEW r \in Roots, NextRoot(w, r) PROVE TypeOK'
    <3>1. walk[w] \in WalkType
      OBVIOUS
    <3>2. RecordRoot(walk[w], r) \in WalkType
      BY <3>1, RecordRootType
    <3> QED
      BY <2>7, <3>2 DEF NextRoot
  <2>8. ASSUME NEW w \in Walkers, NEW f \in Files, NextFile(w, f) PROVE TypeOK'
    <3>1. walk[w] \in WalkType
      OBVIOUS
    <3>2. ScanFile(walk[w], f) \in WalkType
      BY <3>1, ScanFileType
    <3> QED
      BY <2>8, <3>2 DEF NextFile
  <2>9. ASSUME NEW w \in Walkers, NEW f \in Files, FailFile(w, f) PROVE TypeOK'
    <3>1. PassOver(walk[w], f) \in WalkType
      BY DEF WalkType, PassOver
    <3> QED
      BY <2>9, <3>1 DEF FailFile
  <2>10. ASSUME NEW w \in Walkers, Install(w) PROVE TypeOK'
    <3>1. Installed(inner, walk[w]) \in InnerType /\ NoWalk \in WalkType
      BY InstalledType, NoWalkType
    <3> QED
      BY <2>10, <3>1 DEF Install
  <2>11. ASSUME NEW w \in Walkers, Cancel(w) PROVE TypeOK'
    <3>1. NoWalk \in WalkType
      BY NoWalkType
    <3> QED
      BY <2>11, <3>1 DEF Cancel
  <2>12. CASE UNCHANGED vars
    BY <2>12 DEF vars
  <2> QED
    BY <2>1, <2>2, <2>3, <2>4, <2>5, <2>6, <2>7, <2>8, <2>9, <2>10, <2>11, <2>12 DEF Next
<1> QED
  BY <1>1, <1>2, PTL DEF Spec

(***************************************************************************)
(* The inductive invariant.  The three properties speak of the installed   *)
(* index only; what makes them hold is the same statement about every walk *)
(* in progress, restricted to the files it has passed, and relative to the *)
(* epoch and the root times it remembers.                                  *)
(***************************************************************************)
Passed(k, f) == RootOf[f] \in k.roots /\ f \notin k.left

WalkInv(k) ==
    /\ IsFiniteSet(k.entries) /\ Cardinality(k.entries) <= Cap
    /\ k.epoch_before <= inner.dirty_epoch
    /\ \A r \in k.roots : k.root_mtimes[r] <= mtime[r]
    /\ \A f \in Files : Passed(k, f) /\ ~k.truncated /\ ~k.incomplete =>
          /\ k.seen[f] >= 0
          /\ k.epoch_before = inner.dirty_epoch => k.seen[f] >= notified[f]
          /\ f \in Direct /\ k.root_mtimes[RootOf[f]] = mtime[RootOf[f]]
                => k.seen[f] >= listed[f]

IndexInv ==
    /\ IsFiniteSet(inner.entries) /\ Cardinality(inner.entries) <= Cap
    /\ \A r \in inner.roots : inner.root_mtimes[r] <= mtime[r]
    /\ inner.built /\ ~inner.dirty /\ ~inner.truncated =>
          \A f \in Files : RootOf[f] \in inner.roots =>
              /\ inner.seen[f] >= 0
              /\ inner.seen[f] >= notified[f]
              /\ f \in Direct /\ inner.root_mtimes[RootOf[f]] = mtime[RootOf[f]]
                    => inner.seen[f] >= listed[f]

HistoryInv ==
    \A f \in Files : notified[f] <= rev[f] /\ listed[f] <= rev[f]

IInv ==
    /\ HistoryInv
    /\ IndexInv
    /\ \A w \in Walkers : WalkInv(walk[w])

\* An empty walk knows nothing and promises nothing.
LEMMA NoWalkInv ==
    ASSUME TypeOK
    PROVE  WalkInv(NoWalk)
<1>1. IsFiniteSet({}) /\ Cardinality({}) = 0
  BY FS_EmptySet
<1>2. inner.dirty_epoch \in Nat
  BY DEF TypeOK, InnerType
<1> QED
  BY <1>1, <1>2, ConstantsAssumption DEF NoWalk, WalkInv, Passed

\* Recording a root's time before its files are looked at keeps the promise:
\* the root's files are all still to be passed.
LEMMA RecordRootInv ==
    ASSUME TypeOK, NEW k \in WalkType, NEW r \in Roots, WalkInv(k), k.left = {}
    PROVE  WalkInv(RecordRoot(k, r))
<1> DEFINE n == RecordRoot(k, r)
<1>1. /\ n.entries = k.entries /\ n.seen = k.seen
      /\ n.epoch_before = k.epoch_before /\ n.incomplete = k.incomplete
      /\ n.roots = k.roots \cup {r}
      /\ n.root_mtimes = [k.root_mtimes EXCEPT ![r] = mtime[r]]
  BY DEF RecordRoot, WalkType
<1>2. ~n.truncated => ~k.truncated /\ n.left = {f \in Files : RootOf[f] = r}
  BY DEF RecordRoot, WalkType
<1>3. k.root_mtimes \in [Roots -> Int] /\ mtime \in [Roots -> Nat]
  BY DEF TypeOK, WalkType
<1> HIDE DEF n
<1>4. \A q \in n.roots : n.root_mtimes[q] <= mtime[q]
  BY <1>1, <1>3 DEF WalkInv, WalkType
<1>5. ASSUME NEW f \in Files, Passed(n, f), ~n.truncated, ~n.incomplete
      PROVE  /\ n.seen[f] >= 0
             /\ n.epoch_before = inner.dirty_epoch => n.seen[f] >= notified[f]
             /\ f \in Direct /\ n.root_mtimes[RootOf[f]] = mtime[RootOf[f]]
                   => n.seen[f] >= listed[f]
  <2>1. RootOf[f] # r /\ RootOf[f] \in k.roots
    BY <1>1, <1>2, <1>5 DEF Passed
  <2>2. Passed(k, f) /\ ~k.truncated /\ ~k.incomplete
    BY <1>1, <1>2, <1>5, <2>1 DEF Passed
  <2>3. n.root_mtimes[RootOf[f]] = k.root_mtimes[RootOf[f]]
    BY <1>1, <1>3, <2>1, ConstantsAssumption
  <2> QED
    BY <1>1, <2>2, <2>3 DEF WalkInv
<1> QED
  BY <1>1, <1>4, <1>5 DEF WalkInv, n

\* Scanning a file shows it as it is now, which is at least as new as anything
\* reported of it.
LEMMA ScanFileInv ==
    ASSUME TypeOK, HistoryInv, NEW k \in WalkType, NEW f \in Files, WalkInv(k)
    PROVE  WalkInv(ScanFile(k, f))
<1> DEFINE n == ScanFile(k, f)
<1>0. /\ k.seen \in [Files -> Int] /\ rev \in [Files -> Nat]
      /\ notified \in [Files -> Nat] /\ listed \in [Files -> Nat]
  BY DEF TypeOK, WalkType
<1>1. CASE f \in exists /\ Cardinality(k.entries) >= Cap
  BY <1>1 DEF ScanFile, WalkInv, WalkType, Passed
<1>2. CASE ~(f \in exists /\ Cardinality(k.entries) >= Cap)
  <2>1. /\ n.left = k.left \ {f} /\ n.seen = [k.seen EXCEPT ![f] = rev[f]]
        /\ n.entries = IF f \in exists THEN k.entries \cup {f} ELSE k.entries
        /\ n.roots = k.roots /\ n.root_mtimes = k.root_mtimes
        /\ n.epoch_before = k.epoch_before
        /\ n.truncated = k.truncated /\ n.incomplete = k.incomplete
    BY <1>2 DEF ScanFile, WalkType
  <2> HIDE DEF n
  <2>2. IsFiniteSet(n.entries) /\ Cardinality(n.entries) <= Cap
    <3>1. CASE f \in exists
      <4>1. IsFiniteSet(k.entries) /\ Cardinality(k.entries) \in Nat
        BY FS_CardinalityType DEF WalkInv
      <4>2. Cardinality(k.entries) < Cap
        BY <1>2, <3>1, <4>1, ConstantsAssumption
      <4>3. /\ IsFiniteSet(k.entries \cup {f})
            /\ \/ Cardinality(k.entries \cup {f}) = Cardinality(k.entries)
               \/ Cardinality(k.entries \cup {f}) = Cardinality(k.entries) + 1
        BY <4>1, FS_AddElement
      <4> QED
        BY <2>1, <3>1, <4>1, <4>2, <4>3, ConstantsAssumption
    <3>2. CASE f \notin exists
      BY <2>1, <3>2 DEF WalkInv
    <3> QED
      BY <3>1, <3>2
  <2>3. ASSUME NEW g \in Files, Passed(n, g), ~n.truncated, ~n.incomplete
        PROVE  /\ n.seen[g] >= 0
               /\ n.epoch_before = inner.dirty_epoch => n.seen[g] >= notified[g]
               /\ g \in Direct /\ n.root_mtimes[RootOf[g]] = mtime[RootOf[g]]
                     => n.seen[g] >= listed[g]
    <3>1. CASE g = f
      BY <2>1, <3>1, <1>0 DEF HistoryInv
    <3>2. CASE g # f
      <4>1. Passed(k, g) /\ n.seen[g] = k.seen[g]
        BY <2>1, <2>3, <3>2, <1>0 DEF Passed
      <4> QED
        BY <2>1, <2>3, <4>1 DEF WalkInv
    <3> QED
      BY <3>1, <3>2
  <2> QED
    BY <2>1, <2>2, <2>3 DEF WalkInv, n
<1> QED
  BY <1>1, <1>2

\* Passing over an unreadable file leaves a walk that promises nothing.
LEMMA PassOverInv ==
    ASSUME TypeOK, NEW k \in WalkType, NEW f \in Files, WalkInv(k)
    PROVE  WalkInv(PassOver(k, f))
BY DEF PassOver, WalkInv, WalkType, Passed

\* A finished walk keeps its promise when it becomes the index: the index is
\* clean only if no invalidation was accepted since the walk began.
LEMMA InstallInv ==
    ASSUME TypeOK, NEW k \in WalkType, WalkInv(k), k.left = {}
    PROVE  LET i == Installed(inner, k) IN
           /\ i.dirty_epoch = inner.dirty_epoch
           /\ IsFiniteSet(i.entries) /\ Cardinality(i.entries) <= Cap
           /\ \A r \in i.roots : i.root_mtimes[r] <= mtime[r]
           /\ i.built /\ ~i.dirty /\ ~i.truncated =>
                 \A f \in Files : RootOf[f] \in i.roots =>
                     /\ i.seen[f] >= 0
                     /\ i.seen[f] >= notified[f]
                     /\ f \in Direct /\ i.root_mtimes[RootOf[f]] = mtime[RootOf[f]]
                           => i.seen[f] >= listed[f]
<1> DEFINE i == Installed(inner, k)
<1>1. /\ i.entries = k.entries /\ i.seen = k.seen /\ i.roots = k.roots
      /\ i.root_mtimes = k.root_mtimes /\ i.truncated = k.truncated
      /\ i.dirty_epoch = inner.dirty_epoch
      /\ i.dirty = ((inner.dirty_epoch # k.epoch_before) \/ k.incomplete)
  BY DEF Installed, TypeOK, InnerType
<1> HIDE DEF i
<1>2. ASSUME ~i.dirty, ~i.truncated, NEW f \in Files, RootOf[f] \in i.roots
      PROVE  /\ Passed(k, f) /\ ~k.truncated /\ ~k.incomplete
             /\ k.epoch_before = inner.dirty_epoch
  BY <1>1, <1>2 DEF Passed
<1> QED
  BY <1>1, <1>2 DEF WalkInv, i

\* The invariant holds before anything was walked.
LEMMA IInvInit == Init => IInv
<1> SUFFICES ASSUME Init PROVE IInv
  OBVIOUS
<1>1. IsFiniteSet({}) /\ Cardinality({}) = 0
  BY FS_EmptySet
<1>2. HistoryInv /\ IndexInv
  BY <1>1, ConstantsAssumption DEF Init, HistoryInv, IndexInv
<1>3. WalkInv(NoWalk)
  BY <1>1, ConstantsAssumption DEF Init, NoWalk, WalkInv, Passed
<1> QED
  BY <1>2, <1>3 DEF Init, IInv

\* Every step keeps the invariant.
LEMMA IInvStep ==
    ASSUME TypeOK, IInv, [Next]_vars
    PROVE  IInv'
<1> USE DEF TypeOK
<1>1. ASSUME NEW f \in Files, Rewrite(f) PROVE IInv'
  <2>1. HistoryInv'
    BY <1>1 DEF Rewrite, IInv, HistoryInv
  <2>2. IndexInv' /\ \A w \in Walkers : WalkInv(walk[w])'
    BY <1>1 DEF Rewrite, IInv, IndexInv, WalkInv, Passed
  <2> QED
    BY <2>1, <2>2 DEF IInv
<1>2. ASSUME NEW f \in Files, AppearOrVanish(f) PROVE IInv'
  <2>0. RootOf[f] \in Roots
    BY ConstantsAssumption
  <2>1. HistoryInv'
    BY <1>2 DEF AppearOrVanish, IInv, HistoryInv
  <2>2. \A r \in Roots : mtime[r] <= mtime'[r]
    BY <1>2, <2>0 DEF AppearOrVanish
  <2>3. \A g \in Direct : mtime'[RootOf[g]] = mtime[RootOf[g]] => listed'[g] = listed[g]
    BY <1>2, <2>0, ConstantsAssumption DEF AppearOrVanish
  <2>4. UNCHANGED <<inner, walk, notified>>
    BY <1>2 DEF AppearOrVanish
  <2>5. IndexInv'
    <3>1. /\ inner.roots \in SUBSET Roots /\ inner.root_mtimes \in [Roots -> Int]
          /\ mtime \in [Roots -> Nat] /\ mtime' \in [Roots -> Nat]
      BY <1>2, <2>0 DEF InnerType, AppearOrVanish
    <3>2. \A r \in inner.roots : inner.root_mtimes[r] <= mtime[r] /\ inner.root_mtimes[r] <= mtime'[r]
      BY <2>2, <3>1 DEF IInv, IndexInv
    <3>3. \A g \in Files : RootOf[g] \in inner.roots /\ inner.root_mtimes[RootOf[g]] = mtime'[RootOf[g]]
             => mtime'[RootOf[g]] = mtime[RootOf[g]]
      BY <2>2, <3>1, <3>2
    <3> QED
      BY <2>3, <2>4, <3>2, <3>3, ConstantsAssumption DEF IInv, IndexInv
  <2>6. ASSUME NEW w \in Walkers PROVE WalkInv(walk[w])'
    <3> DEFINE k == walk[w]
    <3>0. k \in WalkType
      OBVIOUS
    <3>1. /\ k.roots \in SUBSET Roots /\ k.root_mtimes \in [Roots -> Int]
          /\ mtime \in [Roots -> Nat] /\ mtime' \in [Roots -> Nat]
      <4>1. mtime \in [Roots -> Nat] /\ mtime' \in [Roots -> Nat]
        BY <1>2, <2>0 DEF AppearOrVanish
      <4> QED
        BY <3>0, <4>1 DEF WalkType
    <3>2. \A r \in k.roots : k.root_mtimes[r] <= mtime[r] /\ k.root_mtimes[r] <= mtime'[r]
      BY <2>2, <3>1 DEF IInv, WalkInv
    <3>3. \A g \in Files : RootOf[g] \in k.roots /\ k.root_mtimes[RootOf[g]] = mtime'[RootOf[g]]
             => mtime'[RootOf[g]] = mtime[RootOf[g]]
      BY <2>2, <3>1, <3>2
    <3> QED
      BY <2>3, <2>4, <3>2, <3>3, ConstantsAssumption DEF IInv, WalkInv, Passed
  <2> QED
    BY <2>1, <2>5, <2>6 DEF IInv
<1>3. ASSUME NEW f \in Files, Open(f) \/ Close(f) PROVE IInv'
  BY <1>3 DEF Open, Close, IInv, HistoryInv, IndexInv, WalkInv, Passed
<1>4. ASSUME NEW f \in Files, OnJavaSourceEvent(f) PROVE IInv'
  <2>1. CASE f \in open
    BY <1>4, <2>1 DEF OnJavaSourceEvent, IInv, HistoryInv, IndexInv, WalkInv, Passed
  <2>2. CASE f \notin open
    <3>1. /\ inner'.dirty /\ inner'.dirty_epoch = inner.dirty_epoch + 1
          /\ inner'.entries = inner.entries /\ inner'.roots = inner.roots
          /\ inner'.root_mtimes = inner.root_mtimes
      BY <1>4, <2>2 DEF OnJavaSourceEvent, Invalidate, InnerType
    <3>2. HistoryInv'
      BY <1>4, <2>2 DEF OnJavaSourceEvent, IInv, HistoryInv
    <3>3. UNCHANGED <<mtime, walk, listed>>
      BY <1>4 DEF OnJavaSourceEvent
    <3>4. IndexInv'
      BY <3>1, <3>3 DEF IInv, IndexInv
    <3>5. ASSUME NEW w \in Walkers PROVE WalkInv(walk[w])'
      <4>1. walk[w].epoch_before \in Nat /\ inner.dirty_epoch \in Nat
        BY DEF WalkType, InnerType
      <4> QED
        BY <3>1, <3>3, <4>1 DEF IInv, WalkInv, Passed
    <3> QED
      BY <3>2, <3>4, <3>5 DEF IInv
  <2> QED
    BY <2>1, <2>2
<1>5. ASSUME NEW w \in Walkers, NEW k \in WalkType, WalkInv(k),
             walk' = [walk EXCEPT ![w] = k],
             UNCHANGED <<rev, mtime, inner, notified, listed>>
      PROVE  IInv'
  <2>1. \A v \in Walkers : WalkInv(walk'[v])
    BY <1>5 DEF IInv
  <2>2. \A v \in Walkers : WalkInv(walk[v])'
    BY <1>5, <2>1 DEF WalkInv, Passed
  <2>3. HistoryInv' /\ IndexInv'
    BY <1>5 DEF IInv, HistoryInv, IndexInv
  <2> QED
    BY <2>2, <2>3 DEF IInv
<1>6. ASSUME NEW w \in Walkers, Start(w) PROVE IInv'
  <2> DEFINE k == [NoWalk EXCEPT !.todo = SourceRoots, !.epoch_before = inner.dirty_epoch]
  <2>1. k \in WalkType
    <3>1. SourceRoots \in SUBSET Roots
      BY ConstantsAssumption DEF SourceRoots
    <3>2. inner.dirty_epoch \in Nat
      BY DEF InnerType
    <3> QED
      BY <3>1, <3>2, NoWalkType DEF WalkType
  <2>2. WalkInv(k)
    <3>1. IsFiniteSet({}) /\ Cardinality({}) = 0
      BY FS_EmptySet
    <3>2. inner.dirty_epoch \in Nat
      BY DEF InnerType
    <3> QED
      BY <3>1, <3>2, ConstantsAssumption DEF NoWalk, WalkInv, Passed
  <2> QED
    BY <1>5, <1>6, <2>1, <2>2 DEF Start
<1>7. ASSUME NEW w \in Walkers, NEW r \in Roots, NextRoot(w, r) PROVE IInv'
  <2>1. walk[w] \in WalkType /\ WalkInv(walk[w]) /\ walk[w].left = {}
    BY <1>7 DEF IInv, NextRoot
  <2>2. RecordRoot(walk[w], r) \in WalkType /\ WalkInv(RecordRoot(walk[w], r))
    BY <2>1, RecordRootType, RecordRootInv
  <2> QED
    BY <1>5, <1>7, <2>2 DEF NextRoot
<1>8. ASSUME NEW w \in Walkers, NEW f \in Files, NextFile(w, f) PROVE IInv'
  <2>1. walk[w] \in WalkType /\ WalkInv(walk[w]) /\ HistoryInv
    BY <1>8 DEF IInv
  <2>2. ScanFile(walk[w], f) \in WalkType /\ WalkInv(ScanFile(walk[w], f))
    BY <2>1, ScanFileType, ScanFileInv
  <2> QED
    BY <1>5, <1>8, <2>2 DEF NextFile
<1>9. ASSUME NEW w \in Walkers, NEW f \in Files, FailFile(w, f) PROVE IInv'
  <2>1. walk[w] \in WalkType /\ WalkInv(walk[w])
    BY <1>9 DEF IInv
  <2>2. PassOver(walk[w], f) \in WalkType
    BY <2>1 DEF PassOver, WalkType
  <2>3. WalkInv(PassOver(walk[w], f))
    BY <2>1, PassOverInv
  <2> QED
    BY <1>5, <1>9, <2>2, <2>3 DEF FailFile
<1>10. ASSUME NEW w \in Walkers, Cancel(w) PROVE IInv'
  <2>1. WalkInv(NoWalk)
    BY NoWalkInv
  <2> QED
    BY <1>5, <1>10, <2>1, NoWalkType DEF Cancel
<1>11. ASSUME NEW w \in Walkers, Install(w) PROVE IInv'
  <2>1. walk[w] \in WalkType /\ WalkInv(walk[w]) /\ walk[w].left = {}
    BY <1>11 DEF IInv, Install
  <2>2. /\ inner' = Installed(inner, walk[w])
        /\ walk' = [walk EXCEPT ![w] = NoWalk]
        /\ UNCHANGED <<rev, mtime, notified, listed>>
    BY <1>11 DEF Install
  <2>3. inner'.dirty_epoch = inner.dirty_epoch
    BY <2>1, <2>2, InstallInv
  <2>4. IndexInv'
    BY <2>1, <2>2, InstallInv DEF IndexInv
  <2>5. \A v \in Walkers : WalkInv(walk'[v])
    BY <2>2, NoWalkInv DEF IInv
  <2>6. \A v \in Walkers : WalkInv(walk[v])'
    BY <2>2, <2>3, <2>5 DEF WalkInv, Passed
  <2>7. HistoryInv'
    BY <2>2 DEF IInv, HistoryInv
  <2> QED
    BY <2>4, <2>6, <2>7 DEF IInv
<1>12. CASE UNCHANGED vars
  BY <1>12 DEF vars, IInv, HistoryInv, IndexInv, WalkInv, Passed
<1> QED
  BY <1>1, <1>2, <1>3, <1>4, <1>6, <1>7, <1>8, <1>9, <1>10, <1>11, <1>12 DEF Next

\* The inductive invariant holds always.
LEMMA Invariant == Spec => []IInv
<1>1. TypeOK /\ IInv /\ [Next]_vars => IInv'
  BY IInvStep
<1> QED
  BY <1>1, IInvInit, Typing, PTL DEF Spec

\* "A racing invalidation is never lost", for any number of overlapping walks.
THEOREM InvalidationsSurvive == Spec => []NoLostInvalidation
<1>1. IInv => NoLostInvalidation
  BY DEF IInv, IndexInv, NoLostInvalidation
<1> QED
  BY <1>1, Invariant, PTL

\* The recorded root times detect every file that appears in or leaves a root.
THEOREM ListingsDetected == Spec => []RootTimeDetectsListing
<1>1. IInv => RootTimeDetectsListing
  BY ConstantsAssumption DEF IInv, IndexInv, RootTimeDetectsListing
<1> QED
  BY <1>1, Invariant, PTL

\* The cap bounds the index and every walk, and a walk it cut short says so.
THEOREM CapRespected == Spec => []CapIsReported
<1>1. IInv => CapIsReported
  BY DEF IInv, IndexInv, WalkInv, CapIsReported, Unread
<1> QED
  BY <1>1, Invariant, PTL
=============================================================================
