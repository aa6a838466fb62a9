-------------------------- MODULE MCClasspathRebuild --------------------------
(* ClasspathRebuild on a small instance. *)
EXTENDS ClasspathRebuild, TLC

TaskSymmetry == Permutations(Tasks)
=============================================================================
