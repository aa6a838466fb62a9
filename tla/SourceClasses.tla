---------------------------- MODULE SourceClasses ----------------------------
(***************************************************************************)
(* Classes read from source: the members a declaration has in the parse    *)
(* tree (crates/syntax/src/model.rs own_members), the members Lombok adds  *)
(* (lombok.rs), written types as structured types (typeref.rs), and the    *)
(* lowering of a project file to the shape of a class file (srcclass.rs).  *)
(*                                                                         *)
(* A member name is its sequence of camel-case words, so <<"get", "x">> is *)
(* getX.  A declaration has its kind, modifiers, Lombok marks, type        *)
(* parameters, written supertypes, whether an extends clause is among them *)
(* (extends), whether its header parsed (ok), and its members: record      *)
(* components, methods, fields, enum constants, constructors, a compact    *)
(* constructor, or text that did not parse ("error").  A written type is a *)
(* record of one shape: "prim", "void", "array", "generic", "wild", "name" *)
(* or "error", with its name and its arguments.                            *)
(***************************************************************************)
EXTENDS NameScopes

Node(k, name, args) == [k |-> k, name |-> name, args |-> args]
TypeRef(k, b, args) == [k |-> k, b |-> b, args |-> args]
Unknown == TypeRef("unknown", NoName, <<>>)
NamedRef(b) == TypeRef("named", b, <<>>)
ArrayRef(t) == TypeRef("array", NoName, <<t>>)

EnumClass == InPackage(JavaLang, "Enum")
RecordClass == InPackage(JavaLang, "Record")
ObjectClass == InPackage(JavaLang, "Object")

-----------------------------------------------------------------------------
(* own_members: the record components, then the body.  Interface fields and
   enum constants are static without saying so; a constructor is no member.
   The rendered signature of a member carries its modifiers.                 *)

IsStatic(decl, m) ==
    \/ "static" \in m.mods
    \/ m.kind = "const"
    \/ m.kind = "field" /\ decl.kind \in {"interface", "annotation"}

MemberTypes(doc, j) == {k \in DOMAIN doc.decls : doc.decls[k].outer = j /\ ~doc.decls[k].local}

ValueMembers(decl) ==
    SelectSeq(decl.members, LAMBDA m : m.kind \in {"component", "method", "field", "const"})

OwnMembers(doc, j) ==
    LET decl == doc.decls[j]
        body == ValueMembers(decl)
        nested == SetToSortSeq(MemberTypes(doc, j), LAMBDA a, b : a < b)
    IN [n \in DOMAIN body |->
          [name |-> body[n].name,
           kind |-> IF body[n].kind = "method" THEN "method" ELSE "field",
           static |-> IsStatic(decl, body[n]),
           sig |-> <<body[n].mods, body[n].name, body[n].params>>, meta |-> <<>>]]
       \o [n \in DOMAIN nested |->
          [name |-> <<doc.decls[nested[n]].name>>, kind |-> "type",
           static |-> "static" \in doc.decls[nested[n]].mods,
           sig |-> <<{}, <<doc.decls[nested[n]].name>>, <<>>>>, meta |-> <<>>]]

-----------------------------------------------------------------------------
(* lombok.rs: only in a file that imports lombok, only for classes, never a
   method whose name the class already declares.                             *)

FileUsesLombok(doc) == \E n \in DOMAIN doc.imports : doc.imports[n].path[1] = "lombok"

InstanceFields(decl) == SelectSeq(decl.members, LAMBDA m : m.kind = "field" /\ ~IsStatic(decl, m))

BooleanType == Node("prim", <<"boolean">>, <<>>)

\* getFoo, isFoo for a boolean, and a boolean already named isFoo keeps its name.
GetterName(f) ==
    IF f.type # BooleanType THEN <<"get">> \o f.name
    ELSE IF Len(f.name) > 1 /\ f.name[1] = "is" THEN f.name ELSE <<"is">> \o f.name

Generated(name, static, params) ==
    [name |-> name, kind |-> "method", static |-> static, sig |-> <<{}, name, params>>, meta |-> <<>>]

FieldAccessors(decl, f) ==
    LET marks == decl.marks \cup f.marks
        getter == "getter" \in marks \/ decl.marks \cap {"data", "value"} # {}
        setter == /\ "setter" \in marks \/ "data" \in decl.marks
                  /\ "final" \notin f.mods /\ "value" \notin decl.marks
    IN (IF getter THEN <<Generated(GetterName(f), FALSE, <<>>)>> ELSE <<>>)
         \o (IF setter THEN <<Generated(<<"set">> \o f.name, FALSE, <<f.type>>)>> ELSE <<>>)
         \o (IF "with" \in marks THEN <<Generated(<<"with">> \o f.name, FALSE, <<f.type>>)>> ELSE <<>>)

Synthesize(decl) ==
    LET fields == InstanceFields(decl)
        wanted == FlattenSeq([n \in DOMAIN fields |-> FieldAccessors(decl, fields[n])])
                    \o (IF "builder" \in decl.marks THEN <<Generated(<<"builder">>, TRUE, <<>>)>> ELSE <<>>)
        declared == {m.name : m \in {m \in ToSet(decl.members) : m.kind = "method"}}
    IN IF decl.kind # "class" THEN <<>> ELSE SelectSeq(wanted, LAMBDA m : m.name \notin declared)

LombokMembers(doc, j) == IF FileUsesLombok(doc) THEN Synthesize(doc.decls[j]) ELSE <<>>

\* The @Builder companion: a fluent setter per instance field, and build().
BuilderMembers(decl) ==
    LET fields == InstanceFields(decl)
    IN [n \in DOMAIN fields |-> Generated(fields[n].name, FALSE, <<fields[n].type>>)]
         \o <<Generated(<<"build">>, FALSE, <<>>)>>

-----------------------------------------------------------------------------
(* Which names are read how: "open" is resolve.rs over the open documents,
   "closed" srcclass.rs over what the project and the classpath are known to
   contain, "first" srcclass.rs for a fingerprint, which asks nobody.        *)

PickFqn(w, how, candidates) ==
    LET known == SelectSeq(candidates, LAMBDA c : how = "first" \/ Exists(w, c))
    IN IF known = <<>> THEN NoName ELSE known[1]

NestedInScopeOuterFirst(doc, j, simple) ==
    LET chain == Enclosing(doc, j)
        hits == {n \in DOMAIN chain : \E k \in MemberTypes(doc, chain[n]) : doc.decls[k].name = simple}
    IN IF hits = {} THEN NoName ELSE Nested(BinaryIdentity(doc, chain[Max(hits)]), simple)

\* The member types of the enclosing declarations, innermost first.  The body
\* of an enum keeps its members one level deeper than the walk looks.
NestedInScope(doc, j, simple) ==
    LET chain == Enclosing(doc, j)
        reached == {n \in DOMAIN chain : \A m \in 2 .. n : doc.decls[chain[m]].kind # "enum"}
        hits == {n \in reached :
                   /\ doc.decls[chain[n]].kind # "enum"
                   /\ \E k \in MemberTypes(doc, chain[n]) : doc.decls[k].name = simple}
    IN IF hits = {} THEN NoName ELSE Nested(BinaryIdentity(doc, chain[Min(hits)]), simple)

SourceResolver(w, i, j, how, name) ==
    LET doc == w.docs[i]
        spelled == {k \in 0 .. Min({ImportAttempts, Len(name)}) - 1 :
                      how = "first" \/ Exists(w, Split(name, k))}
        outer == PickFqn(w, how, Candidates(doc, name[1]))
        inner == [outer EXCEPT !.path = @ \o Tail(name)]
        nested == NestedInScope(doc, j, name[1])
    IN IF Len(name) > 1
       THEN IF spelled # {} THEN Split(name, Min(spelled))
            ELSE IF outer = NoName THEN NoName ELSE PickFqn(w, how, <<inner>>)
       ELSE IF nested # NoName THEN nested ELSE PickFqn(w, how, Candidates(doc, name[1]))

ResolveNamed(w, i, j, how, name) ==
    IF how = "open" THEN NamedResolver(w, i, j, name) ELSE SourceResolver(w, i, j, how, name)

RECURSIVE LowerTypeNode(_, _, _, _, _, _)
LowerTypeNode(w, i, j, how, vars, n) ==
    LET Lower(m) == LowerTypeNode(w, i, j, how, vars, m)
        variable == IF Len(n.name) = 1 THEN TypeVariable(vars, n.name[1]) ELSE NoName
        base == Lower(n.args[1])
        named == ResolveNamed(w, i, j, how, n.name)
    IN CASE n.k \in {"prim", "void"} -> TypeRef(n.k, [pkg |-> <<>>, path |-> n.name], <<>>)
         [] n.k = "array" -> ArrayRef(Lower(n.args[1]))
         [] n.k = "generic" ->
                IF base.k # "named" THEN Unknown
                ELSE [base EXCEPT !.args = [m \in 1 .. Len(n.args) - 1 |-> Lower(n.args[m + 1])]]
         [] n.k = "wild" -> TypeRef("wild", [pkg |-> <<>>, path |-> n.name],
                                    [m \in DOMAIN n.args |-> Lower(n.args[m])])
         [] n.k = "name" /\ variable # NoName -> TypeRef("var", variable, <<>>)
         [] n.k = "name" /\ variable = NoName /\ named # NoName -> NamedRef(named)
         [] OTHER -> Unknown

RECURSIVE ContainsUnknown(_)
ContainsUnknown(t) == t.k = "unknown" \/ \E n \in DOMAIN t.args : ContainsUnknown(t.args[n])

-----------------------------------------------------------------------------
(* srcclass.rs to_external_class.                                            *)

AccessOf(mods, default) ==
    CASE "public" \in mods -> "public"
      [] "public" \notin mods /\ "protected" \in mods -> "protected"
      [] mods \cap {"public", "protected"} = {} /\ "private" \in mods -> "private"
      [] OTHER -> default

ClassVars(doc, j) ==
    [m \in DOMAIN doc.decls[j].params |->
       [name |-> doc.decls[j].params[m], owner |-> BinaryIdentity(doc, j)]]

Lower(w, i, j, how, n) == LowerTypeNode(w, i, j, how, ClassVars(w.docs[i], j), n)

\* The erased supertype names: what no candidate places is left out.
SuperNames(w, i, j, how) ==
    LET decl == w.docs[i].decls[j]
        picked == [n \in DOMAIN decl.supers |->
                     PickFqn(w, how, Candidates(w.docs[i], Last(decl.supers[n])))]
        known == SelectSeq(picked, LAMBDA b : b # NoName)
    IN IF decl.kind = "enum" THEN <<EnumClass>> \o known
       ELSE IF known = <<>> THEN <<ObjectClass>> ELSE known

Supertypes(w, i, j, how) ==
    LET decl == w.docs[i].decls[j]
        written == [n \in DOMAIN decl.supers |-> Lower(w, i, j, how, Node("name", decl.supers[n], <<>>))]
    IN CASE decl.kind = "enum" -> <<NamedRef(EnumClass)>> \o written
         [] decl.kind = "record" -> <<NamedRef(RecordClass)>> \o written
         [] decl.kind = "class" /\ ~decl.extends -> <<NamedRef(ObjectClass)>> \o written
         [] OTHER -> written

HierarchyComplete(w, i, j, how) ==
    w.docs[i].decls[j].ok /\ \A t \in ToSet(Supertypes(w, i, j, how)) : ~ContainsUnknown(t)

IsAbstract(decl, m) ==
    \/ "abstract" \in m.mods
    \/ decl.kind = "interface" /\ m.mods \cap {"static", "private", "default"} = {} /\ ~m.body

MemberAccess(decl, m) ==
    IF m.kind = "const" THEN "public"
    ELSE AccessOf(m.mods, IF decl.kind = "interface" THEN "public" ELSE "package")

LowerParameters(w, i, j, how, m) ==
    [n \in DOMAIN m.params |->
       LET t == Lower(w, i, j, how, m.params[n])
       IN IF m.varargs /\ n = Len(m.params) THEN ArrayRef(t) ELSE t]

\* A method, field or constant as a class file would show it.  The parameters
\* of a header that did not parse are not known.
MemberFromNode(w, i, j, how, m) ==
    LET decl == w.docs[i].decls[j]
        method == m.kind = "method"
    IN [name |-> m.name, kind |-> IF method THEN "method" ELSE "field",
        static |-> IsStatic(decl, m), sig |-> <<{}, m.name, m.params>>,
        meta |-> <<[access |-> MemberAccess(decl, m), static |-> IsStatic(decl, m),
                    abstract |-> method /\ IsAbstract(decl, m), known |-> method /\ m.ok, varargs |-> method /\ m.varargs,
                    params |-> IF method THEN LowerParameters(w, i, j, how, m) ELSE <<>>,
                    result |-> IF m.kind = "const" THEN NamedRef(BinaryIdentity(w.docs[i], j))
                               ELSE Lower(w, i, j, how, m.type)]>>]

ExternallyVisible(m) == m.kind \in {"component", "const"} \/ "private" \notin m.mods

Constructor(access, known, varargs, params, sig) ==
    [name |-> <<"init">>, kind |-> "constructor", static |-> FALSE, sig |-> <<{}, <<"init">>, sig>>,
     meta |-> <<[access |-> access, static |-> FALSE, abstract |-> FALSE, known |-> known,
                 varargs |-> varargs, params |-> params, result |-> TypeRef("void", NoName, <<>>)]>>]

Components(decl) == SelectSeq(decl.members, LAMBDA m : m.kind = "component")

\* The declared constructors; with none, a record's canonical constructor with
\* the access of its compact form, or the default one with the class's access.
ConstructorMembers(w, i, j, how) ==
    LET decl == w.docs[i].decls[j]
        real == SelectSeq(decl.members, LAMBDA m : m.kind = "ctor")
        compact == SelectSeq(decl.members, LAMBDA m : m.kind = "compact")
        class == AccessOf(decl.mods, "package")
        types == [n \in DOMAIN Components(decl) |-> Components(decl)[n].type]
        canonical == Constructor(IF compact = <<>> THEN class ELSE AccessOf(compact[1].mods, class), TRUE,
                                 FALSE, [n \in DOMAIN types |-> Lower(w, i, j, how, types[n])], types)
    IN CASE decl.kind \in {"interface", "annotation"} -> <<>>
         [] decl.kind = "record" /\ real = <<>> -> <<canonical>>
         [] decl.kind \in {"class", "enum"} /\ real = <<>> -> <<Constructor(class, TRUE, FALSE, <<>>, <<>>)>>
         [] OTHER -> [n \in DOMAIN real |->
                        Constructor(AccessOf(real[n].mods, "package"), real[n].ok, real[n].varargs,
                                    LowerParameters(w, i, j, how, real[n]), real[n].params)]

\* Neither a constructor half typed nor text that might have been one.
ConstructorsComplete(decl) ==
    \A m \in ToSet(decl.members) : m.kind # "error" /\ (m.kind \in {"ctor", "compact"} => m.ok)

EnumSynthetic ==
    <<Generated(<<"values">>, TRUE, <<>>),
      Generated(<<"value", "Of">>, TRUE, <<Node("name", <<"String">>, <<>>)>>)>>

ToExternalClass(w, i, j, how) ==
    LET doc == w.docs[i]
        decl == doc.decls[j]
        seen == SelectSeq(ValueMembers(decl), LAMBDA m : ExternallyVisible(m))
    IN [supers |-> SuperNames(w, i, j, how), supertypes |-> Supertypes(w, i, j, how),
        complete |-> HierarchyComplete(w, i, j, how), constructors |-> ConstructorsComplete(decl),
        kind |-> decl.kind, access |-> AccessOf(decl.mods, "package"),
        static |-> decl.outer = 0 \/ "static" \in decl.mods \/ decl.kind # "class",
        abstract |-> "abstract" \in decl.mods \/ decl.kind \in {"interface", "annotation"},
        members |-> [n \in DOMAIN seen |-> MemberFromNode(w, i, j, how, seen[n])]
                      \o ConstructorMembers(w, i, j, how)
                      \o (IF decl.kind = "enum" THEN EnumSynthetic ELSE <<>>)
                      \o LombokMembers(doc, j)]

\* class_from_doc: a declared type by its path, or the companion that @Builder
\* adds to one, whose simple name (the outer's and "Builder") is "Builder" here.
NoClass == [supers |-> <<>>, complete |-> FALSE, members |-> <<>>]

FindTypeByPath(doc, path) ==
    LET hits == {j \in DOMAIN doc.decls : path # <<>> /\ BinaryIdentity(doc, j).path = path}
    IN IF hits = {} THEN 0 ELSE Min(hits)

ClassFromDoc(w, i, path) ==
    LET doc == w.docs[i]
        j == FindTypeByPath(doc, path)
        outer == FindTypeByPath(doc, Front(path))
    IN IF j # 0 THEN ToExternalClass(w, i, j, "closed")
       ELSE IF /\ Last(path) = "Builder" /\ outer # 0
               /\ FileUsesLombok(doc) /\ "builder" \in doc.decls[outer].marks
       THEN [supers |-> <<ObjectClass>>, complete |-> FALSE, members |-> BuilderMembers(doc.decls[outer])]
       ELSE NoClass

\* The symbol source's class of a name that is Known: project files shadow jars.
ClassOf(w, b) ==
    LET source == IF DocOf(w, b) = 0 THEN NoClass ELSE ClassFromDoc(w, DocOf(w, b), b.path)
    IN IF source # NoClass THEN source ELSE w.lib[b]

-----------------------------------------------------------------------------
(* The fingerprint of a document: the shape of every declaration that has a
   binary name, by that name; two documents agree on it iff they agree on it
   as a function.  Bodies, member order apart, are no part of a shape.       *)

Shape(w, i, j) ==
    LET c == ToExternalClass(w, i, j, "first")
    IN <<c.kind, c.access, c.abstract, c.static, c.supertypes, c.complete, c.constructors,
         [n \in DOMAIN c.members |-> <<c.members[n].name, c.members[n].kind, c.members[n].meta>>],
         w.docs[i].decls[j].params>>

DeclarationFingerprint(w, i) ==
    LET doc == w.docs[i]
        named == {j \in DOMAIN doc.decls : BinaryIdentity(doc, j) # NoName}
    IN {<<BinaryIdentity(doc, j), Shape(w, i, j)>> : j \in named}
===============================================================================
