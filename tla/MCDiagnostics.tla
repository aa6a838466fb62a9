----------------------------- MODULE MCDiagnostics -----------------------------
(* Instances of Diagnostics for TLC: handlers are interchangeable. *)
EXTENDS Diagnostics, TLC

TaskSymmetry == Permutations(Tasks)

=============================================================================
