--------------------------- MODULE MCWorkspaceIndex ---------------------------
(* WorkspaceIndex on two roots: a conventional one without files, and one    *)
(* scanned while a document in it is open, with a file directly inside it    *)
(* and one further down.                                                     *)
EXTENDS WorkspaceIndex, TLC

CONSTANTS fa, fb, rmain, rother

WalkerSymmetry == Permutations(Walkers)

MCRootOf == fa :> rother @@ fb :> rother
=============================================================================
