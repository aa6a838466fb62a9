-------------------------- MODULE MCExtensionTasks --------------------------
(***************************************************************************)
(* Two invocations in one session.  a is missing and brings in b and c.    *)
(* Two artifacts are the bound, and the bytes suffice for a and b but not  *)
(* for a and c.                                                            *)
(***************************************************************************)
EXTENDS ExtensionTasks

MCSessions ==
    {<<"auto", "manual">>, <<"manual", "manual">>, <<"manual", "install">>, <<"test", "test">>}
MCBrings == [a |-> {"b", "c"}, b |-> {}, c |-> {}]
MCPomSize == [a |-> 1, b |-> 1, c |-> 1, launcher |-> 1]
MCJarSize == [a |-> 1, b |-> 1, c |-> 2, launcher |-> 1]
=============================================================================
