------------------------------ MODULE MemberWalk ------------------------------
(***************************************************************************)
(* The members of a resolved type and the types of expressions:            *)
(* crates/syntax/src/resolve.rs (ResolvedType::from_type_ref, walk_members,*)
(* diag_walk, resolve_member_segment, resolve_scoped_path,                 *)
(* resolve_receiver_depth) and model.rs (find_member, all_members).        *)
(*                                                                         *)
(* A resolved type is in an open document, in a class file, an array, a    *)
(* primitive, void, null, or None; a receiver also says whether it is the  *)
(* type itself (static) or a value of it.                                  *)
(***************************************************************************)
EXTENDS SourceClasses

MAX_RESOLVE_DEPTH == 64

Ty(k, d, b, args) == [k |-> k, d |-> d, b |-> b, args |-> args]
None == Ty("none", Nothing, NoName, <<>>)
InProject(d) == Ty("in", d, NoName, <<>>)
External(b, args) == Ty("ext", Nothing, b, args)
Primitive(p) == Ty("prim", Nothing, [pkg |-> <<>>, path |-> <<p>>], <<>>)

StringClass == InPackage(JavaLang, "String")

\* A name declared twice in the open documents is nobody's.
FromTypeRef(w, t) ==
    LET d == GetNamed(w, t.b)
    IN CASE t.k = "named" /\ d # Nothing -> Ty("in", d, NoName, t.args)
         [] t.k = "named" /\ ByBinary(w, t.b) = {} /\ Known(w, t.b) -> External(t.b, t.args)
         [] t.k = "array" -> Ty("array", Nothing, NoName, t.args)
         [] t.k \in {"prim", "void"} -> Ty(t.k, Nothing, t.b, <<>>)
         [] OTHER -> None

ResolveTypeNode(w, i, j, n) ==
    FromTypeRef(w, LowerTypeNode(w, i, j, "open", VarsInScope(w.docs[i], j), n))

ResolveSuper(w, d, n) ==
    ResolveTypeNode(w, d[1], d[2], Node("name", DeclOf(w, d).supers[n], <<>>))

-----------------------------------------------------------------------------
(* model.rs find_member and all_members: the open documents only.            *)

RECURSIVE FindMemberIn(_, _, _, _)
FindMemberIn(w, todo, name, visited) ==
    IF todo = <<>> THEN <<>>
    ELSE LET d == todo[1].d
             own == SelectSeq(OwnMembers(w.docs[d[1]], d[2]), LAMBDA m : m.name = name)
             supers == SourceSupers(w, d)
             next == [n \in DOMAIN supers |-> [d |-> supers[n], depth |-> todo[1].depth + 1]]
         IN IF d \in visited \/ todo[1].depth > MAX_SUPER_DEPTH
            THEN FindMemberIn(w, Tail(todo), name, visited)
            ELSE IF own # <<>> THEN <<[m |-> own[1], from |-> d]>>
            ELSE FindMemberIn(w, next \o Tail(todo), name, visited \cup {d})

FindMember(w, d, name) == FindMemberIn(w, <<[d |-> d, depth |-> 0]>>, name, {})

RECURSIVE CollectInherited(_, _, _, _)
CollectInherited(w, todo, acc, visited) ==
    IF todo = <<>> THEN acc
    ELSE LET d == todo[1].d
             own == [n \in DOMAIN OwnMembers(w.docs[d[1]], d[2]) |->
                       [m |-> OwnMembers(w.docs[d[1]], d[2])[n], from |-> d]]
             seen == {acc[n].m.sig : n \in DOMAIN acc}
             supers == SourceSupers(w, d)
             next == [n \in DOMAIN supers |-> [d |-> supers[n], depth |-> todo[1].depth + 1]]
         IN IF d \in visited \/ todo[1].depth > MAX_SUPER_DEPTH
            THEN CollectInherited(w, Tail(todo), acc, visited)
            ELSE CollectInherited(w, next \o Tail(todo),
                                  acc \o SelectSeq(own, LAMBDA e : e.m.sig \notin seen), visited \cup {d})

AllMembers(w, d, static) ==
    SelectSeq(CollectInherited(w, <<[d |-> d, depth |-> 0]>>, <<>>, {}),
              LAMBDA e : static => e.m.static \/ e.m.kind = "type")

-----------------------------------------------------------------------------
(* walk_members.  The accumulator has the members kept, with the type that
   declares each, the signatures seen and the types visited.                 *)

NoAcc == [out |-> <<>>, seen |-> {}, visited |-> {}]

\* A member joins unless its signature is there; overloads differ in theirs.
Keep(acc, static, ty, ms) ==
    LET Add(a, m) ==
          IF (static /\ ~m.static /\ m.kind # "type") \/ m.kind = "constructor" \/ m.sig \in a.seen THEN a
          ELSE [a EXCEPT !.out = Append(@, [m |-> m, from |-> ty]), !.seen = @ \cup {m.sig}]
    IN FoldLeft(Add, acc, ms)

ArrayMembers ==
    <<[name |-> <<"length">>, kind |-> "field", static |-> FALSE,
       sig |-> <<{}, <<"length">>, <<>>>>, meta |-> <<>>],
      Generated(<<"clone">>, FALSE, <<>>)>>

\* The supertypes in the order the walk follows them; for a class file the
\* structured ones when the hierarchy is complete, else the erased names.
WalkedSupers(w, ty) ==
    LET written == [n \in DOMAIN DeclOf(w, ty.d).supers |-> ResolveSuper(w, ty.d, n)]
        class == ClassOf(w, ty.b)
    IN CASE ty.k = "in" ->
              SelectSeq(written, LAMBDA t : t # None)
                \o (IF DeclOf(w, ty.d).kind = "enum" THEN <<External(EnumClass, <<>>)>> ELSE <<>>)
         [] ty.k = "array" -> <<External(ObjectClass, <<>>)>>
         [] ty.k = "ext" /\ class.complete ->
              SelectSeq([n \in DOMAIN class.supertypes |-> FromTypeRef(w, class.supertypes[n])],
                        LAMBDA t : t # None)
         [] ty.k = "ext" /\ ~class.complete ->
              [n \in DOMAIN class.supers |-> External(class.supers[n], <<>>)]
         [] OTHER -> <<>>

DeclaredIn(w, ty) ==
    CASE ty.k = "in" -> OwnMembers(w.docs[ty.d[1]], ty.d[2]) \o LombokMembers(w.docs[ty.d[1]], ty.d[2])
      [] ty.k = "array" -> ArrayMembers
      [] ty.k = "ext" -> ClassOf(w, ty.b).members
      [] OTHER -> <<>>

Erased(ty) == IF ty.k = "array" THEN ty ELSE [ty EXCEPT !.args = <<>>]

RECURSIVE WalkAll(_, _, _, _, _)
WalkMembersSupersFirst(w, ty, static, acc, depth) ==
    LET above == WalkAll(w, WalkedSupers(w, ty), static, [acc EXCEPT !.visited = @ \cup {Erased(ty)}], depth + 1)
    IN IF \/ depth > MAX_RESOLVE_DEPTH \/ Erased(ty) \in acc.visited
          \/ ty.k = "ext" /\ ~Known(w, ty.b) THEN acc
       ELSE Keep(above, static, ty, DeclaredIn(w, ty))

WalkMembers(w, ty, static, acc, depth) ==
    LET own == Keep([acc EXCEPT !.visited = @ \cup {Erased(ty)}], static, ty, DeclaredIn(w, ty))
        below == WalkAll(w, WalkedSupers(w, ty), static, own, depth + 1)
        enum == ty.k = "in" /\ DeclOf(w, ty.d).kind = "enum"
    IN IF \/ depth > MAX_RESOLVE_DEPTH \/ Erased(ty) \in acc.visited
          \/ ty.k = "ext" /\ ~Known(w, ty.b) THEN acc
       ELSE IF enum THEN Keep(below, FALSE, ty, EnumSynthetic) ELSE below

WalkAll(w, tys, static, acc, depth) ==
    IF tys = <<>> THEN acc
    ELSE WalkAll(w, Tail(tys), static, WalkMembers(w, tys[1], static, acc, depth), depth)

CollectMembers(w, ty, static) == WalkMembers(w, ty, static, NoAcc, 0).out

FindMemberHier(w, ty, static, name, kind) ==
    SelectSeq(CollectMembers(w, ty, static), LAMBDA e : e.m.name = name /\ e.m.kind = kind)

-----------------------------------------------------------------------------
(* member_names and diag_walk: the names for "cannot resolve", and whether
   the whole hierarchy was there to read them from.  The erased names are
   the supertypes of a class file here; generated Lombok members are not
   among the names of an open class.                                         *)

RECURSIVE DiagWalkAll(_, _, _, _)
DiagWalk(w, ty, acc, depth) ==
    LET class == ClassOf(w, ty.b)
        written == [n \in DOMAIN DeclOf(w, ty.d).supers |-> ResolveSuper(w, ty.d, n)]
        enum == DeclOf(w, ty.d).kind = "enum"
        supers == IF ty.k = "in"
                  THEN SelectSeq(written, LAMBDA t : t # None)
                         \o (IF enum THEN <<External(EnumClass, <<>>)>> ELSE <<>>)
                  ELSE [n \in DOMAIN class.supers |-> External(class.supers[n], <<>>)]
        members == IF ty.k = "in"
                   THEN OwnMembers(w.docs[ty.d[1]], ty.d[2]) \o (IF enum THEN EnumSynthetic ELSE <<>>)
                   ELSE SelectSeq(class.members, LAMBDA m : m.kind # "constructor")
        here == [names |-> acc.names \cup {members[n].name : n \in DOMAIN members},
                 complete |-> acc.complete /\ (ty.k = "in" => \A n \in DOMAIN written : written[n] # None),
                 visited |-> acc.visited \cup {Erased(ty)}]
    IN IF depth > MAX_RESOLVE_DEPTH THEN [acc EXCEPT !.complete = FALSE]
       ELSE CASE ty.k = "array" -> [acc EXCEPT !.names = @ \cup {m.name : m \in ToSet(ArrayMembers)}]
         [] ty.k \in {"in", "ext"} ->
              IF Erased(ty) \in acc.visited THEN acc
              ELSE IF ty.k = "ext" /\ ~Known(w, ty.b) THEN [acc EXCEPT !.complete = FALSE]
              ELSE DiagWalkAll(w, supers, here, depth + 1)
         [] OTHER -> acc

DiagWalkAll(w, tys, acc, depth) ==
    IF tys = <<>> THEN acc ELSE DiagWalkAll(w, Tail(tys), DiagWalk(w, tys[1], acc, depth), depth)

MemberNames(w, ty) ==
    LET walk == DiagWalk(w, ty, [names |-> {}, complete |-> TRUE, visited |-> {}], 0)
        object == Known(w, ObjectClass)
    IN IF ty.k \notin {"in", "ext", "array"} THEN [names |-> {}, complete |-> TRUE]
       ELSE [names |-> walk.names \cup
                         (IF object THEN {m.name : m \in ToSet(ClassOf(w, ObjectClass).members)} ELSE {}),
             complete |-> walk.complete /\ object]

-----------------------------------------------------------------------------
(* resolve_member_segment, member_result_type and the dotted path.           *)

Resolved(ty, static) == [ty |-> ty, static |-> static]
Unresolved == Resolved(None, FALSE)
Instance(ty) == Resolved(ty, FALSE)

\* The declaration of a member of an open document: its type is read in the
\* document that declares it.
DeclaredMember(w, e) ==
    SelectSeq(ValueMembers(DeclOf(w, e.from.d)),
              LAMBDA m : <<m.mods, m.name, m.params>> = e.m.sig /\ (m.kind = "method" <=> e.m.kind = "method"))[1]

MemberResultType(w, e) ==
    IF e.from.k = "in" /\ e.m.kind # "type" /\ e.m \in ToSet(OwnMembers(w.docs[e.from.d[1]], e.from.d[2]))
    THEN IF DeclaredMember(w, e).kind = "const" THEN Instance(InProject(e.from.d))
         ELSE Instance(ResolveTypeNode(w, e.from.d[1], e.from.d[2], DeclaredMember(w, e).type))
    ELSE IF e.m.meta # <<>> THEN Instance(FromTypeRef(w, e.m.meta[1].result))
    ELSE Unresolved

ResolveMemberSegment(w, r, name) ==
    LET nested == Nested(r.ty.b, name)
        members == CollectMembers(w, r.ty, r.static)
        types == SelectSeq(members, LAMBDA e : e.m.kind = "type" /\ e.m.name = <<name>>)
        fields == SelectSeq(members, LAMBDA e : e.m.kind = "field" /\ e.m.name = <<name>>)
        inner == CHOOSE k \in MemberTypes(w.docs[types[1].from.d[1]], types[1].from.d[2]) :
                   w.docs[types[1].from.d[1]].decls[k].name = name
    IN IF r.static /\ r.ty.k = "ext" /\ Known(w, nested) THEN Resolved(External(nested, <<>>), TRUE)
       ELSE IF types # <<>> THEN Resolved(InProject(<<types[1].from.d[1], inner>>), TRUE)
       ELSE IF fields # <<>> THEN MemberResultType(w, fields[1])
       ELSE Unresolved

WalkSegments(w, head, path) ==
    LET Step(r, name) == IF r.ty = None THEN r ELSE ResolveMemberSegment(w, r, name)
    IN FoldLeft(Step, head, path)

-----------------------------------------------------------------------------
(* Expressions.  A place in code is a declaration of a document and the
   variables in scope there, innermost first: each has its written type, read
   from the tree of document `doc`, or "var" with its initializer, which an
   enhanced for iterates (each).  The resolver reads every binding's type with
   the imports of the document that asks.  A variable-arity parameter has the
   type written before the dots.  An expression has its kind, the names and
   types written in it, and its operands.                                    *)

Expr(k, name, type, args) == [k |-> k, name |-> name, type |-> type, args |-> args]
NoType == Node("error", <<>>, <<>>)
VarType == Node("name", <<"var">>, <<>>)

IterableElementType(w, ty) ==
    CASE ty.k = "array" -> FromTypeRef(w, ty.args[1])
      [] ty.k = "ext" /\ ty.args # <<>> /\ ty.args[1].k \notin {"wild", "unknown"} -> FromTypeRef(w, ty.args[1])
      [] OTHER -> None

NameAsType(w, i, j, name) ==
    LET d == ResolveTypeName(w, i, j, <<name>>)
        b == ResolveSimpleToFqn(w, i, name)
    IN IF d # Nothing THEN Resolved(InProject(d), TRUE)
       ELSE IF b # NoName THEN Resolved(External(b, <<>>), TRUE)
       ELSE Unresolved

FieldBindings(w, i, j) ==
    LET fields == SelectSeq(AllMembers(w, <<i, j>>, FALSE), LAMBDA e : e.m.kind = "field")
    IN [n \in DOMAIN fields |->
          LET f == SelectSeq(ValueMembers(DeclOf(w, fields[n].from)), LAMBDA m : m.name = fields[n].m.name)[1]
          IN [name |-> f.name[1], each |-> FALSE, init |-> Expr("none", "", NoType, <<>>),
              type |-> IF f.kind = "const" THEN NoType ELSE f.type]]

RECURSIVE FlattenScoped(_)
FlattenScoped(e) ==
    (IF e.args = <<>> THEN <<>> ELSE FlattenScoped(e.args[1])) \o (IF e.name = "" THEN <<>> ELSE <<e.name>>)

RECURSIVE ResolveReceiver(_, _, _, _, _, _)

ResolveName(w, i, j, vars, name, depth) ==
    LET bindings == vars \o (IF j = 0 THEN <<>> ELSE FieldBindings(w, i, j))
        at == {n \in DOMAIN bindings : bindings[n].name = name}
        found == bindings[Min(at)]
        value == ResolveReceiver(w, i, j, vars, found.init, depth + 1)
    IN IF at = {} THEN NameAsType(w, i, j, name)
       ELSE IF found.type \notin {VarType, NoType} THEN Instance(ResolveTypeNode(w, i, j, found.type))
       ELSE Instance(IF found.each THEN IterableElementType(w, value.ty) ELSE value.ty)

ResolveScopedPath(w, i, j, vars, path, depth) ==
    LET lexical == WalkSegments(w, ResolveName(w, i, j, vars, path[1], depth), Tail(path))
        known == {k \in 1 .. Len(path) : Known(w, Split(SubSeq(path, 1, k), 0))}
        k == Max(known)
    IN IF lexical.ty # None THEN lexical
       ELSE IF known = {} THEN Unresolved
       ELSE WalkSegments(w, Resolved(External(Split(SubSeq(path, 1, k), 0), <<>>), TRUE),
                         SubSeq(path, k + 1, Len(path)))

ResolveReceiver(w, i, j, vars, e, depth) ==
    LET Value(n) == ResolveReceiver(w, i, j, vars, e.args[n], depth + 1)
        receiver == IF e.args = <<>> THEN Instance(InProject(<<i, j>>)) ELSE Value(1)
        methods == FindMemberHier(w, receiver.ty, receiver.static, <<e.name>>, "method")
    IN IF depth > MAX_RESOLVE_DEPTH THEN Unresolved
       ELSE CASE e.k = "this" /\ j # 0 -> Instance(InProject(<<i, j>>))
         [] e.k = "super" /\ j # 0 ->
              IF w.docs[i].decls[j].supers = <<>> THEN Unresolved ELSE Instance(ResolveSuper(w, <<i, j>>, 1))
         [] e.k = "name" -> ResolveName(w, i, j, vars, e.name, depth + 1)
         [] e.k = "call" /\ (e.args # <<>> \/ j # 0) ->
              IF methods = <<>> THEN Unresolved ELSE MemberResultType(w, methods[1])
         [] e.k \in {"cast", "new"} -> Instance(ResolveTypeNode(w, i, j, e.type))
         [] e.k = "index" -> IF Value(1).ty.k = "array" THEN Instance(FromTypeRef(w, Value(1).ty.args[1]))
                             ELSE Unresolved
         [] e.k = "literal" -> IF e.name = "String" THEN Instance(External(StringClass, <<>>))
                               ELSE IF e.name = "null" THEN Instance(Ty("null", Nothing, NoName, <<>>))
                               ELSE Instance(Primitive(e.name))
         [] e.k = "field" -> IF Value(1).ty # None THEN ResolveMemberSegment(w, Value(1), e.name)
                             ELSE ResolveScopedPath(w, i, j, vars, FlattenScoped(e), depth)
         [] e.k \in {"paren", "assign"} -> Value(1)
         [] e.k = "plus" -> IF External(StringClass, <<>>) \in {Value(1).ty, Value(2).ty}
                            THEN Instance(External(StringClass, <<>>)) ELSE Unresolved
         [] e.k \in {"compare", "instanceof", "not"} -> Instance(Primitive("boolean"))
         [] OTHER -> Unresolved

\* A type name is no value.
ResolveExpressionType(w, i, j, vars, e) ==
    LET r == ResolveReceiver(w, i, j, vars, e, 0) IN IF r.static THEN None ELSE r.ty
===============================================================================
