------------------------------ MODULE TreePasses ------------------------------
(***************************************************************************)
(* The three passes over the tree of a parsed file, each of which adds to  *)
(* a list of diagnostics until the list is full: syntax errors (lib.rs),   *)
(* structure (structural.rs) and meaning (diagnostics.rs).                 *)
(*                                                                         *)
(* A node has its kind, its name (for a package its path), its modifiers   *)
(* in order with "@" for an annotation, what is known of it (`how`, by     *)
(* kind), and its children, of which some may be the parser's ERROR and    *)
(* MISSING nodes; bodies of types are left out, an anonymous class body is *)
(* a node "anonymous".  A callable has its "params", and then its "block". *)
(***************************************************************************)
EXTENDS SemanticChecks

CONSTANT MAX_DIAGNOSTICS

Part(k, name, mods, how, kids) == [k |-> k, name |-> name, mods |-> mods, how |-> how, kids |-> kids]
TypeKinds == {"class", "interface", "enum", "record", "annotation"}

RECURSIVE HasError(_)
HasError(t) == t.k \in {"ERROR", "MISSING"} \/ \E n \in DOMAIN t.kids : HasError(t.kids[n])

Under(n, paths) == [m \in DOMAIN paths |-> <<n>> \o paths[m]]
\* The stack gives back the last child first.
LastFirst(seqs) == FlattenSeq(Reverse(seqs))

RECURSIVE Visited(_)
Visited(t) == <<<<>>>> \o LastFirst([n \in DOMAIN t.kids |-> Under(n, Visited(t.kids[n]))])

Flag(rule, at) == [rule |-> rule, at |-> at]
\* Every pass stops, and every loop of a check returns, at a full list.
Capped(flags) == SubSeq(flags, 1, Min({MAX_DIAGNOSTICS, Len(flags)}))

-----------------------------------------------------------------------------
(* Syntax errors.                                                            *)

RECURSIVE SyntaxErrors(_)
SyntaxErrors(t) ==
    IF t.k \in {"ERROR", "MISSING"} THEN <<<<>>>>
    ELSE LastFirst([n \in DOMAIN t.kids |-> IF HasError(t.kids[n]) THEN Under(n, SyntaxErrors(t.kids[n])) ELSE <<>>])

SyntaxDiagnostics(root) ==
    LET at == SyntaxErrors(root) IN Capped([n \in DOMAIN at |-> Flag("syntax", at[n])])

-----------------------------------------------------------------------------
(* Structure.                                                                *)

\* The places of a sequence that hold what an earlier place holds.
Repeats(s) == SelectSeq([n \in DOMAIN s |-> n], LAMBDA n : \E m \in 1 .. n - 1 : s[m] = s[n])
FlagRepeats(rule, keys, at) == LET r == Repeats(keys) IN [n \in DOMAIN r |-> Flag(rule, at[r[n]])]

Children(root, p, kinds) ==
    LET t == NodeAt(root, p)
    IN SelectSeq([n \in DOMAIN t.kids |-> p \o <<n>>], LAMBDA q : NodeAt(root, q).k \in kinds)
NamesAt(root, ps) == [n \in DOMAIN ps |-> NodeAt(root, ps[n]).name]

\* The type a node belongs to; an anonymous class is one.
EnclosingTypes(root, p) ==
    LET around == {n \in 0 .. Len(p) - 1 : NodeAt(root, SubSeq(p, 1, n)).k \in TypeKinds \cup {"anonymous"}}
    IN IF around = {} THEN {} ELSE {SubSeq(p, 1, Max(around))}

Keywords(t) == SelectSeq(t.mods, LAMBDA w : w # "@")
HasModifier(t, word) == word \in ToSet(t.mods)

CheckRepeatedModifiers(root, p) ==
    LET t == NodeAt(root, p)
        words == Keywords(t)
    IN IF HasError(t) THEN <<>> ELSE FlagRepeats("repeated modifier", words, [n \in DOMAIN words |-> p \o <<-n>>])

CheckModifierCombo(root, p, a, b) ==
    LET t == NodeAt(root, p)
    IN IF ~HasError(t) /\ {a, b} \subseteq ToSet(Keywords(t)) /\ t.name # "" THEN <<Flag(b, p)>> ELSE <<>>

CheckMethodBodyShape(root, p) ==
    LET t == NodeAt(root, p)
        wrong == \E e \in EnclosingTypes(root, p) :
                    /\ ~HasError(NodeAt(root, e))
                    /\ IF NodeAt(root, e).k = "interface"
                       THEN ToSet(t.mods) \cap {"default", "static", "private"} = {}
                       ELSE HasModifier(t, "abstract") /\ t.name # ""
    IN IF ~HasError(t) /\ Children(root, p, {"block"}) # <<>> /\ wrong THEN <<Flag("body", p)>> ELSE <<>>

ParamsOf(root, p) == Children(root, p \o <<1>>, {"param", "spread", "receiver", "comment"})

\* The types as written, or unknown unless all parameters are plain.
Plainly(root, p) == \A q \in ToSet(ParamsOf(root, p)) : NodeAt(root, q).k = "param"
ParamTypesText(root, p) == [n \in DOMAIN ParamsOf(root, p) |-> NodeAt(root, ParamsOf(root, p)[n]).how.text]

CheckDuplicateMembers(root, p) ==
    LET fields == SelectSeq(Children(root, p, {"field", "constant"}), LAMBDA q : ~HasError(NodeAt(root, q)))
        declarators == FlattenSeq([n \in DOMAIN fields |-> Children(root, fields[n], {"declarator"})])
        methods == SelectSeq(Children(root, p, {"method"}), LAMBDA q : ~HasError(NodeAt(root, q)) /\ Plainly(root, q))
    IN IF NodeAt(root, p).name = "" THEN <<>>
       ELSE FlagRepeats("member", NamesAt(root, declarators), declarators)
              \o FlagRepeats("member", [n \in DOMAIN methods |->
                                          <<NodeAt(root, methods[n]).name, ParamTypesText(root, methods[n])>>], methods)

CheckDuplicateParams(root, p) ==
    LET named == SelectSeq(ParamsOf(root, p), LAMBDA q : NodeAt(root, q).k \in {"param", "spread"} /\ NodeAt(root, q).name # "")
    IN FlagRepeats("parameter", NamesAt(root, named), named)

CheckFilename(root, stem) ==
    LET wrong == SelectSeq(Children(root, <<>>, TypeKinds),
                           LAMBDA q : LET t == NodeAt(root, q)
                                      IN ~HasError(t) /\ HasModifier(t, "public") /\ t.name \notin {"", stem})
    IN IF stem = "" THEN <<>> ELSE [n \in DOMAIN wrong |-> Flag("file", wrong[n])]

CheckDuplicateTopLevel(root) ==
    LET named == SelectSeq(Children(root, <<>>, TypeKinds), LAMBDA q : ~HasError(NodeAt(root, q)) /\ NodeAt(root, q).name # "")
    IN FlagRepeats("class", NamesAt(root, named), named)

\* `expected` holds the package that the place of the file asks for, if known.
CheckPackage(root, expected) ==
    LET decls == Children(root, <<>>, {"package"})
        decl == NodeAt(root, decls[1])
        Wrong(e) == CASE decls = <<>> -> Children(root, <<>>, TypeKinds) # <<>> /\ e # "" /\ ~HasError(root)
                      [] Len(decls) = 1 -> ~HasError(decl) /\ decl.name # e
                      [] OTHER -> FALSE
    IN IF \E e \in expected : Wrong(e) THEN <<Flag("package", <<>>)>> ELSE <<>>

StructuralFlags(root, p) ==
    LET t == NodeAt(root, p)
        Combo(kinds, a, b) == IF t.k \in kinds THEN CheckModifierCombo(root, p, a, b) ELSE <<>>
        owned == \E e \in EnclosingTypes(root, p) : ~HasError(NodeAt(root, e)) /\ NodeAt(root, e).name # ""
    IN CASE t.k \in TypeKinds ->
              CheckRepeatedModifiers(root, p) \o Combo({"class"}, "abstract", "final")
                \o Combo({"class", "interface"}, "sealed", "non-sealed") \o CheckDuplicateMembers(root, p)
         [] t.k = "method" ->
              CheckRepeatedModifiers(root, p) \o Combo({"method"}, "abstract", "final")
                \o Combo({"method"}, "abstract", "private") \o CheckMethodBodyShape(root, p)
                \o (IF ~HasError(t) /\ t.name # "" THEN CheckDuplicateParams(root, p) ELSE <<>>)
         [] t.k = "ctor" ->
              CheckRepeatedModifiers(root, p) \o (IF ~HasError(t) /\ owned THEN CheckDuplicateParams(root, p) ELSE <<>>)
         [] t.k \in {"field", "constant"} -> CheckRepeatedModifiers(root, p)
         [] OTHER -> <<>>

StructuralDiagnostics(root, stem, expected) ==
    LET walk == Visited(root)
    IN Capped(CheckFilename(root, stem) \o CheckDuplicateTopLevel(root) \o CheckPackage(root, expected)
                \o FlattenSeq([n \in DOMAIN walk |-> StructuralFlags(root, walk[n])]))

-----------------------------------------------------------------------------
(* Meaning.  What the checks decide of a node by itself is in `how`: of a
   return, a block, an identifier and a field access, whether it is flagged;
   of a callable, whether its name is unused and which of its parameters.
   An assignment has its operator and whether the value fits, a declaration
   what is known of its type, and a declarator whether its value fits and it
   is unused; a call how it resolves.                                        *)

\* A return is flagged only for the innermost method around it.
MethodAround(root, p) ==
    SubSeq(p, 1, Max({n \in 0 .. Len(p) - 1 : NodeAt(root, SubSeq(p, 1, n)).k = "method"}))

CheckAssignment(root, p) ==
    LET t == NodeAt(root, p)
    IN IF ~HasError(t) /\ ~HasError(NodeAt(root, Front(p))) /\ t.how.op = "=" /\ t.how.fits = "no"
       THEN <<Flag("assignment", p)>> ELSE <<>>

CheckInitializers(root, p) ==
    LET t == NodeAt(root, p)
        unfit == SelectSeq(Children(root, p, {"declarator"}), LAMBDA q : NodeAt(root, q).how.fits = "no")
    IN IF ~HasError(t) /\ t.how = "known" THEN [n \in DOMAIN unfit |-> Flag("assignment", unfit[n])] ELSE <<>>

FlagUnused(root, p, clean) ==
    LET unused == SelectSeq(Children(root, p, {"declarator"}), LAMBDA q : NodeAt(root, q).how.unused)
    IN IF clean THEN [n \in DOMAIN unused |-> Flag("unused", unused[n])] ELSE <<>>

FlagUnusedParameters(root, p) ==
    LET t == NodeAt(root, p)
    IN IF Len(t.kids) > 1 /\ ~HasError(t.kids[1]) /\ ~HasError(t.kids[2])
       THEN [n \in DOMAIN t.how.params |-> Flag("unused", p \o <<1, t.how.params[n]>>)] ELSE <<>>

\* Calls that are proved wrong: no candidate applies, or no one is best; for
\* constructors also that there can be no such object.
CheckCall(root, p, wrong) ==
    IF ~HasError(NodeAt(root, p)) /\ ~HasError(NodeAt(root, Front(p))) /\ wrong THEN <<Flag("call", p)>> ELSE <<>>
CheckInvocation(root, p) == CheckCall(root, p, NodeAt(root, p).how.call \in {"none", "ambiguous"})
CheckInstantiation(root, p) ==
    CheckCall(root, p, NodeAt(root, p).how \in {"none", "ambiguous", "abstract", "inaccessible", "no outer"})

SemanticFlags(root, p, options) ==
    LET t == NodeAt(root, p)
        If(c, flags) == IF c THEN flags ELSE <<>>
        unresolved == "unresolved members" \in options
        unused == "unused" \in options
        member == If(t.how.object /\ t.how.missing, <<Flag("member", p)>>)
    IN CASE t.k = "return" -> If(t.how /\ ~HasError(NodeAt(root, MethodAround(root, p))), <<Flag("return", p)>>)
         [] t.k = "block" -> If(t.how /\ ~HasError(t), <<Flag("unreachable", p)>>)
         [] t.k = "assignment" -> CheckAssignment(root, p)
         [] t.k = "local" ->
              CheckInitializers(root, p)
                \o If(unused, FlagUnused(root, p, \E scope \in LocalScopes(root, p) : ~HasError(NodeAt(root, scope))))
         [] t.k = "field" -> CheckInitializers(root, p) \o If(unused, FlagUnused(root, p, ~HasError(root)))
         [] t.k = "method" ->
              If(unused, If(t.how.unused /\ ~HasError(root), <<Flag("unused", p)>>) \o FlagUnusedParameters(root, p))
         [] t.k = "ctor" -> If(unused, FlagUnusedParameters(root, p))
         [] t.k = "access" -> If(unresolved /\ t.how, <<Flag("member", p)>>)
         [] t.k = "invocation" -> If(unresolved, IF member # <<>> THEN member ELSE CheckInvocation(root, p))
         [] t.k = "creation" -> If(unresolved, CheckInstantiation(root, p))
         [] t.k = "identifier" -> If(unresolved /\ ~HasError(root) /\ t.how, <<Flag("identifier", p)>>)
         [] OTHER -> <<>>

SemanticDiagnostics(root, options) ==
    LET walk == Visited(root)
    IN Capped(FlattenSeq([n \in DOMAIN walk |-> SemanticFlags(root, walk[n], options)]))
===============================================================================
