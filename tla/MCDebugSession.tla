---------------------------- MODULE MCDebugSession ----------------------------
(* A file with an outer class with code on lines 2 and 5 and an inner one on  *)
(* line 3: a breakpoint on line 3 binds in whichever class is there first, at *)
(* line 5 of the outer one or at line 3 of the inner one.                     *)
EXTENDS DebugSession
CONSTANTS outer, inner

MCCodeLines == [c \in Classes |-> IF c = outer THEN {2, 5} ELSE {3}]

=============================================================================
