--------------------------- MODULE ClasspathPromise ---------------------------
(***************************************************************************)
(* What the rest of the server relies on about the classpath: it may lag   *)
(* behind the build files while a resolution is pending, and it is current *)
(* whenever none is, unless resolving failed.  Implemented by              *)
(* ClasspathRebuild.                                                       *)
(***************************************************************************)
EXTENDS Integers

CONSTANT Failed   \* the outcome of a resolution that failed

VARIABLES disk, resolved, busy

pvars == <<disk, resolved, busy>>

PromiseInit == resolved = disk /\ busy = FALSE

\* A build file changes: a resolution becomes due.  If nothing has been
\* resolved from the old files yet, the first resolution reads the new ones.
Change ==
    /\ disk' = disk + 1
    /\ resolved' \in {resolved, disk + 1}
    /\ busy' = TRUE

\* While one is due, the stored resolution may be replaced by one of any
\* revision that has existed, or fail.
Resolve ==
    /\ busy
    /\ resolved' \in 0 .. disk \cup {Failed}
    /\ UNCHANGED <<disk, busy>>

\* The resolver comes to rest only on the current revision or a failure.
Rest ==
    /\ busy
    /\ resolved \in {disk, Failed}
    /\ busy' = FALSE
    /\ UNCHANGED <<disk, resolved>>

PromiseNext == Change \/ Resolve \/ Rest

PromiseSpec == PromiseInit /\ [][PromiseNext]_pvars
=============================================================================
