---------------------------- MODULE SemanticChecks ----------------------------
(***************************************************************************)
(* The semantic diagnostics of crates/syntax/src/diagnostics.rs, each as   *)
(* the decision it makes: whether a node of the file is flagged.           *)
(*                                                                         *)
(* A file is a tree; a node has its kind, the identifier written in it,    *)
(* its modifiers and annotations, and its children, and is named by its    *)
(* path from the root.                                                     *)
(***************************************************************************)
EXTENDS MemberWalk

-----------------------------------------------------------------------------
(* check_unreachable: each block alone, at most one flag per block.  A try
   has its body, its catch blocks and, when `fin`, its finally block last;
   every statement not listed is taken to complete.                          *)

Stmt(k, label, kids, fin) == [k |-> k, label |-> label, kids |-> kids, fin |-> fin]

RECURSIVE CanCompleteNormally(_)
BlockCanCompleteNormally(kids) == \A n \in DOMAIN kids : CanCompleteNormally(kids[n])

TryNeedsEvery(s) ==
    LET bodies == IF s.fin THEN Front(s.kids) ELSE s.kids
    IN \A n \in DOMAIN bodies : BlockCanCompleteNormally(bodies[n].kids)

TryCanCompleteNormally(s) ==
    LET bodies == IF s.fin THEN Front(s.kids) ELSE s.kids
    IN /\ \E n \in DOMAIN bodies : BlockCanCompleteNormally(bodies[n].kids)
       /\ s.fin => BlockCanCompleteNormally(Last(s.kids).kids)

CanCompleteNormally(s) ==
    CASE s.k \in {"return", "throw", "break", "continue"} -> FALSE
      [] s.k = "block" -> BlockCanCompleteNormally(s.kids)
      [] s.k = "try" -> TryCanCompleteNormally(s)
      [] OTHER -> TRUE

\* The child of a block that is flagged, 0 for none.
CheckUnreachable(block) ==
    LET ends == {n \in 1 .. Len(block.kids) - 1 : ~CanCompleteNormally(block.kids[n])}
    IN IF ends = {} THEN 0 ELSE Min(ends) + 1

-----------------------------------------------------------------------------
(* The unused rules count spellings.                                         *)

Tree(k, name, mods, kids) == [k |-> k, name |-> name, mods |-> mods, kids |-> kids]

RECURSIVE NodeAt(_, _)
NodeAt(t, p) == IF p = <<>> THEN t ELSE NodeAt(t.kids[p[1]], Tail(p))

RECURSIVE Paths(_)
Paths(t) == {<<>>} \cup UNION {{<<n>> \o p : p \in Paths(t.kids[n])} : n \in DOMAIN t.kids}

Identifiers(t) == {p \in Paths(t) : NodeAt(t, p).name # ""}

IdentifierCount(root, name) == Cardinality({p \in Identifiers(root) : NodeAt(root, p).name = name})

\* Another identifier of that spelling anywhere below the scope.
NameUsed(root, scope, p, name) ==
    \E q \in Identifiers(NodeAt(root, scope)) :
        scope \o q # p /\ NodeAt(root, scope \o q).name = name

\* The body around a local: the child, on the way up, of the method,
\* constructor, initializer or class, when that child is a block.
LocalScopes(root, p) ==
    LET stops == {n \in 0 .. Len(p) - 1 : NodeAt(root, SubSeq(p, 1, n)).k
                                             \in {"method", "ctor", "static", "class"}}
        body == SubSeq(p, 1, Max(stops) + 1)
    IN IF stops # {} /\ NodeAt(root, body).k = "block" THEN {body} ELSE {}

UnusedLocal(root, p) ==
    /\ NodeAt(root, p).k = "local"
    /\ \E scope \in LocalScopes(root, p) : ~NameUsed(root, scope, p, NodeAt(root, p).name)

UnusedPrivate(root, p) ==
    LET n == NodeAt(root, p)
    IN /\ n.k \in {"field", "method"} /\ "private" \in n.mods
       /\ n.mods \cap {"annotated", "override"} = {}
       /\ n.k = "field" => n.name # "serialVersionUID"
       /\ IdentifierCount(root, n.name) = 1

\* Parameters of constructors, and of private or static methods that no
\* caller outside fixes; a callable's last child is its body.
UnusedParameter(root, p) ==
    LET callable == NodeAt(root, Front(p))
        body == Front(p) \o <<Len(callable.kids)>>
    IN /\ p # <<>> /\ NodeAt(root, p).k = "param"
       /\ \/ callable.k = "ctor"
          \/ /\ callable.k = "method" /\ callable.mods \cap {"private", "static"} # {}
             /\ "override" \notin callable.mods /\ callable.name # "main"
       /\ Last(callable.kids).k = "block"
       /\ ~NameUsed(root, body, p, NodeAt(root, p).name)

-----------------------------------------------------------------------------
(* check_member: the receiver resolved, not as bare Object, its hierarchy all
   there, and no member of that spelling in it.                              *)

CheckMember(w, r, name) ==
    LET known == MemberNames(w, r.ty)
    IN r.ty # None /\ r.ty # External(ObjectClass, r.ty.args) /\ known.complete /\ name \notin known.names

-----------------------------------------------------------------------------
(* check_unresolved_identifier.  The place: the declaration around it, the
   scopes of code around it (NameScopes), the catch parameters and resources
   around it, and whether an anonymous class body is among them.             *)

MayBind(doc, name) ==
    \E n \in DOMAIN doc.imports :
        \/ doc.imports[n].kind = "static" /\ Last(doc.imports[n].path) = name
        \/ doc.imports[n].kind = "static wildcard"

CheckUnresolvedIdentifier(w, i, j, scopes, handled, anonymous, name) ==
    LET chain == Enclosing(w.docs[i], j)
    IN /\ ~MayBind(w.docs[i], name)
       /\ LookupBinding(scopes, name) = 0
       /\ name \notin handled /\ ~anonymous /\ chain # <<>>
       /\ \A n \in DOMAIN chain :
            LET known == MemberNames(w, InProject(<<i, chain[n]>>))
            IN known.complete /\ <<name>> \notin known.names

-----------------------------------------------------------------------------
(* check_return and lhs_declaration.                                         *)

\* The method a return statement answers, by the kinds of the nodes around it,
\* innermost first; 0 inside a lambda or a constructor.
NearestMethod(kinds) ==
    LET stops == {n \in DOMAIN kinds : kinds[n] \in {"method", "lambda", "ctor"}}
    IN IF stops # {} /\ kinds[Min(stops)] = "method" THEN Min(stops) ELSE 0

\* `fits` is what is_assignable proves of the value: "yes", "no" or "unknown".
CheckReturn(kinds, error, void, value, fits) ==
    /\ NearestMethod(kinds) # 0 /\ ~error
    /\ IF void THEN value ELSE ~value \/ fits = "no"

\* Where a flagged assignment says its variable is declared: the nearest
\* block, method or constructor that declares it, else the class it is in.
LhsScope(scope, name, thisField) ==
    LET binds == CASE scope.kind = "block" /\ ~thisField -> SelectSeq(scope.binds, LAMBDA b : b.before)
                   [] scope.kind = "params" /\ ~thisField -> scope.binds
                   [] scope.kind = "type" -> scope.binds
                   [] OTHER -> <<>>
    IN SelectSeq(binds, LAMBDA b : b.name = name)

LhsDeclaration(scopes, name, thisField) ==
    LET types == {n \in DOMAIN scopes : scopes[n].kind = "type"}
        reach == IF types = {} THEN Len(scopes) ELSE Min(types)
        hits == {n \in 1 .. reach : LhsScope(scopes[n], name, thisField) # <<>>}
    IN IF hits = {} THEN 0 ELSE Last(LhsScope(scopes[Min(hits)], name, thisField)).id
===============================================================================
