------------------------------ MODULE MCAnalyses ------------------------------
(***************************************************************************)
(* The queries of MCTypes, about the type engine, the debug adapter's data *)
(* and the classpath, and those of MCSyntax, about names, members and      *)
(* diagnostics, asked in one run.                                          *)
(***************************************************************************)
EXTENDS MCTypes

CONSTANT MAX_DIAGNOSTICS
Syntax == INSTANCE MCSyntax

\* A name means the declaration Java says it means, a class built from source
\* has the constructors and supertypes of its text or says it does not know
\* them, and an edit that changes what other files see changes the fingerprint
\* (model.rs, resolve.rs, srcclass.rs; stated in MCSyntax).
DeclarationsExact == Syntax!DeclarationsExact

\* A member is found where Java finds it, the overriding one first, and none is
\* lost on the way through open, closed and library classes (resolve.rs,
\* srcclass.rs; stated in MCSyntax).
MembersExact == Syntax!MembersExact

\* What is flagged is wrong, and the passes over a file stay within their bound
\* and say no more of a damaged file (diagnostics.rs and structural.rs of the
\* syntax crate; stated, with what is left out, in MCSyntax).
ReportsSound == Syntax!ReportsSound

AskSyntax == Syntax!Asking
AllNext == Next \/ (query = Idle /\ AskSyntax)
AllSpec == Init /\ [][AllNext]_vars
=============================================================================
