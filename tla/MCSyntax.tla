-------------------------------- MODULE MCSyntax --------------------------------
(***************************************************************************)
(* The analyser's reading of names, classes, members and statements,       *)
(* against the rules of Java.  Each step asks one question of the model:   *)
(* a query is a small project together with what is looked up in it, and   *)
(* when it is answered the properties compare the answer with a definition *)
(* that follows the language rule.                                         *)
(***************************************************************************)
EXTENDS TreePasses, TLC

VARIABLE query
vars == <<query>>

Idle == [q |-> "idle"]
Ask(q) == query' = q
Answer == query # Idle /\ query' = Idle
Is(q) == query.q = q

-----------------------------------------------------------------------------
(* Writing projects down.                                                    *)

Decl(name, outer, kind, supers, members) ==
    [name |-> name, outer |-> outer, local |-> FALSE, params |-> <<>>, supers |-> supers,
     kind |-> kind, mods |-> {"public"}, marks |-> {}, extends |-> supers # <<>> /\ kind = "class",
     ok |-> TRUE, members |-> members]
Member(kind, name, mods, type, params) ==
    [kind |-> kind, name |-> name, mods |-> mods, type |-> type, params |-> params,
     body |-> TRUE, ok |-> TRUE, marks |-> {}, varargs |-> FALSE]
File(file, package, imports, decls) ==
    [file |-> file, package |-> package, imports |-> imports, decls |-> decls]
Import(kind, path) == [kind |-> kind, path |-> path]
Jar(supers, members) ==
    [supers |-> supers, supertypes |-> [n \in DOMAIN supers |-> NamedRef(supers[n])],
     complete |-> TRUE, members |-> members]
Named(name) == Node("name", <<name>>, <<>>)
IntType == Node("prim", <<"int">>, <<>>)

Object == Jar(<<>>, <<Generated(<<"hash">>, FALSE, <<>>)>>)
String == Jar(<<ObjectClass>>, <<Generated(<<"trim">>, FALSE, <<>>)>>)
Base == ObjectClass :> Object @@ StringClass :> String @@ EnumClass :> Jar(<<ObjectClass>>, <<>>)
          @@ RecordClass :> Jar(<<ObjectClass>>, <<>>)

-----------------------------------------------------------------------------
(* Type names.  A file a/A.java with the class A and its member class I asks
   for T, which may be a member of either, imported alone, in the package,
   imported on demand from p or q, or in java.lang.                          *)

Places == {"I.T", "A.T", "p.T", "p.O.T", "a.T", "q.T", "lang.T"}
Singles == {<<>>, <<"p", "T">>, <<"p", "O", "T">>}
OnDemands == {<<>>, <<"p">>, <<"q">>, <<"p", "q">>}

Asker(at, single, stars) ==
    File("A", <<"a">>,
         (IF single = <<>> THEN <<>> ELSE <<Import("single", single)>>)
           \o [n \in DOMAIN stars |-> Import("wildcard", <<stars[n]>>)],
         <<Decl("A", 0, "class", <<>>, <<>>), Decl("I", 1, "class", <<>>, <<>>)>>
           \o (IF "A.T" \in at THEN <<Decl("T", 1, "class", <<>>, <<>>)>> ELSE <<>>)
           \o (IF "I.T" \in at THEN <<Decl("T", 2, "class", <<>>, <<>>)>> ELSE <<>>))

Unit(there, package, name) ==
    IF there THEN <<File(name, <<package>>, <<>>, <<Decl(name, 0, "class", <<>>, <<>>)>>)>> ELSE <<>>

\* The files of the packages in open are open in the editor, and A's is.
NamesWorld(at, single, stars, open) ==
    LET docs == <<Asker(at, single, stars)>>
                  \o Unit("p.T" \in at, "p", "T") \o Unit("a.T" \in at, "a", "T") \o Unit("q.T" \in at, "q", "T")
                  \o (IF "p.O.T" \in at
                      THEN <<File("O", <<"p">>, <<>>, <<Decl("O", 0, "class", <<>>, <<>>),
                                                        Decl("T", 1, "class", <<>>, <<>>)>>)>>
                      ELSE <<>>)
    IN [docs |-> docs, open |-> {i \in DOMAIN docs : i = 1 \/ docs[i].package[1] \in open},
        lib |-> IF "lang.T" \in at THEN Base @@ InPackage(JavaLang, "T") :> Jar(<<ObjectClass>>, <<>>)
                ELSE Base]

AskTypeNames ==
    \E at \in SUBSET Places, single \in Singles, stars \in OnDemands, open \in SUBSET {"p", "a", "q"}, j \in {1, 2} :
        /\ single = <<"p", "O", "T">> => "p" \in open
        /\ Ask([q |-> "type name", w |-> NamesWorld(at, single, stars, open), j |-> j,
                nested |-> single = <<"p", "O", "T">>])

\* All the types of the project and the classpath.
AllTypes(w) ==
    DOMAIN w.lib \cup UNION {{BinaryIdentity(w.docs[i], j) : j \in DOMAIN w.docs[i].decls} : i \in DOMAIN w.docs}

\* The types a simple name may mean at a place by the scope rules of Java: the
\* member types of the innermost enclosing class that has one, else the
\* single import, else the package, else every on-demand package.
Meant(w, i, j, simple) ==
    LET doc == w.docs[i]
        there == AllTypes(w)
        around == {k \in ToSet(Enclosing(doc, j)) :
                     doc.decls[k].name = simple \/ Nested(BinaryIdentity(doc, k), simple) \in there}
        inner == CHOOSE k \in around : \A l \in around : k >= l
        single == SingleImport(doc, simple)
    IN IF around # {}
       THEN {IF doc.decls[inner].name = simple THEN BinaryIdentity(doc, inner)
             ELSE Nested(BinaryIdentity(doc, inner), simple)}
       ELSE IF single # <<>>
       THEN there \cap {Split(single, k) : k \in 0 .. Len(single) - 1}
       ELSE IF InPackage(doc.package, simple) \in there THEN {InPackage(doc.package, simple)}
       ELSE there \cap {InPackage(p, simple) : p \in ToSet(Wildcards(doc)) \cup {JavaLang}}

\* The one meant is in no open file, but another that an on-demand import of
\* the file reaches is.
OpenOvertakes(w, i, simple, meant) ==
    LET shown == UNION {{BinaryIdentity(w.docs[k], j) : j \in DOMAIN w.docs[k].decls} : k \in w.open}
    IN meant \cap shown = {} /\ \E p \in ToSet(Wildcards(w.docs[i])) : InPackage(p, simple) \in shown

\* A type name in an open file means what the scope rules say, whatever else
\* the project holds under the same name: an inner member type hides an outer
\* one, a single import the package, the package the on-demand imports.  The
\* lookup asks the open files before the closed ones, so the last of these may
\* fail if OpenOvertakes.  Names that are no legal Java (ambiguous, or an
\* import of nothing) are not asked, nor imports of a type nested in a closed
\* file.
TypeNamesExact ==
    Is("type name") =>
        LET meant == Meant(query.w, 1, query.j, "T")
        IN Cardinality(meant) = 1 /\ ~OpenOvertakes(query.w, 1, "T", meant) =>
             {ResolveNamed(query.w, 1, query.j, "open", <<"T">>)} = meant

\* The same of a name in a file that is not open, read from the index: two
\* resolvers, one answer (an import of a nested type apart, which the second
\* one does not look for).
ClosedNamesExact ==
    Is("type name") =>
        LET meant == Meant(query.w, 1, query.j, "T")
        IN Cardinality(meant) = 1 /\ ~query.nested =>
             {ResolveNamed(query.w, 1, query.j, "closed", <<"T">>)} = meant

-----------------------------------------------------------------------------
(* Variable names.  The scopes around a use of x, innermost first, up to the
   class; x is bound once at most between them and the fields, as Java wants. *)

Bind(id, before) == [name |-> "x", id |-> id, before |-> before]
CodeScopes(id) ==
    {[kind |-> k, binds |-> bs] :
       k \in {"block", "for", "foreach", "switch", "condition", "params", "lambda"},
       bs \in {<<>>} \cup {<<Bind(id, before)>> : before \in BOOLEAN}}
TypeScopes(id) == {[kind |-> "type", binds |-> bs] : bs \in {<<>>, <<Bind(id, TRUE)>>}}

AskBindings ==
    \E a \in CodeScopes(1), b \in CodeScopes(2), c \in CodeScopes(3), t \in TypeScopes(4), u \in TypeScopes(5) :
        /\ Len(a.binds) + Len(b.binds) + Len(c.binds) <= 1
        /\ Ask([q |-> "binding", scopes |-> <<a, b, c, t, u>>])

\* What x refers to: the innermost scope that declares it, a block only by
\* what stands before the use, a class by its fields.
Declares(scope) ==
    scope.binds # <<>> /\ (scope.kind = "block" => scope.binds[1].before)
Referred(scopes) ==
    LET hits == {n \in DOMAIN scopes : Declares(scopes[n])}
    IN IF hits = {} THEN 0 ELSE scopes[Min(hits)].binds[1].id

\* A variable name is given to the declaration that Java gives it to, or to
\* none when that is a field of a class further out: a local in scope hides
\* the field, a local declared below the use does not.
BindingsSound ==
    Is("binding") =>
        LET r == Referred(query.scopes)
        IN LookupBinding(query.scopes, "x") = IF r = 5 THEN 0 ELSE r

-----------------------------------------------------------------------------
(* Classes.  One file declares A with up to two members of the kinds its own
   kind allows; it may use Lombok, extend a known class S or one that is not
   in the project, and be half typed.                                        *)

Method(mods, params) == Member("method", <<"m">>, mods, IntType, params)
Ctor(params) == Member("ctor", <<"A">>, {"public"}, NoType, params)

Shared == {Method({"public"}, <<>>), Method({"private"}, <<>>), Method({"public", "static"}, <<IntType>>),
           Member("field", <<"x">>, {"public", "static"}, IntType, <<>>)}
Fields == {Member("field", <<"x">>, {"private"}, IntType, <<>>),
           Member("field", <<"open">>, {"private", "final"}, BooleanType, <<>>),
           Member("method", <<"get", "x">>, {"public"}, IntType, <<>>)}
Constructors == {Ctor(<<>>), Ctor(<<IntType>>), [Ctor(<<IntType>>) EXCEPT !.ok = FALSE],
                 Member("error", <<"A">>, {}, NoType, <<>>)}
Component == Member("component", <<"c">>, {}, IntType, <<>>)
Compact == Member("compact", <<"A">>, {"public"}, NoType, <<>>)

Pool(kind) ==
    CASE kind = "class" -> Shared \cup Fields \cup Constructors
      [] kind = "interface" -> {[Method({}, <<>>) EXCEPT !.body = FALSE], Method({"default"}, <<IntType>>),
                                Member("field", <<"x">>, {}, IntType, <<>>)}
      [] kind = "enum" -> Shared \cup Constructors \cup {Member("const", <<"K">>, {}, NoType, <<>>)}
      [] kind = "record" -> Shared \cup {Component, Compact, Ctor(<<IntType>>),
                                         Member("error", <<"A">>, {}, NoType, <<>>)}

MarkSets == {{}, {"data"}, {"getter", "with"}, {"value", "builder"}}

ClassWorld(kind, members, supers, marks, ok) ==
    [docs |-> <<File("A", <<"a">>, IF marks = {} THEN <<>> ELSE <<Import("wildcard", <<"lombok">>)>>,
                     <<[Decl("A", 0, kind, supers, members) EXCEPT !.marks = marks, !.ok = ok]>>),
                File("S", <<"a">>, <<>>,
                     <<Decl("S", 0, IF kind = "class" THEN "class" ELSE "interface", <<>>,
                            <<Member("method", <<"s">>, {"public"}, IntType, <<>>)>>)>>)>>,
     open |-> {}, lib |-> Base]

AskClasses ==
    \E kind \in {"class", "interface", "enum", "record"} :
    \E members \in UNION {[1 .. n -> Pool(kind)] : n \in 0 .. 2},
       supers \in {<<>>, <<<<"S">>>>, <<<<"Gone">>>>}, marks \in MarkSets, ok \in BOOLEAN :
        /\ marks # {} => kind = "class" /\ ok
        /\ Len(members) = 2 => members[1] # members[2]
        /\ Ask([q |-> "declared", w |-> ClassWorld(kind, members, supers, marks, ok)])

A == InPackage(<<"a">>, "A")
OpenIn(w) == [w EXCEPT !.open = {1}]

\* What another file can name of a type: its members that are not private,
\* without those that every object has.
Offered(w, ty, static) ==
    {[name |-> e.m.name, kind |-> e.m.kind, static |-> e.m.static] :
       e \in {e \in ToSet(CollectMembers(w, ty, static)) :
                /\ "private" \notin e.m.sig[1] /\ e.m.kind # "type"
                /\ e.from.b \notin {ObjectClass, RecordClass}}}

\* Opening a file in the editor does not change what its types offer to the
\* others: the tree of the open document and the class read from the file on
\* disk have the same members, inherited and generated ones included.
OpenClosedAgree ==
    Is("declared") =>
        \A static \in BOOLEAN :
            Offered(OpenIn(query.w), InProject(<<1, 1>>), static) = Offered(query.w, External(A, <<>>), static)

\* The parameter lists of the constructors Java gives the class, reading what
\* is half typed as a constructor with one parameter more.
JavaConstructors(decl) ==
    LET written == {m \in ToSet(decl.members) : m.kind \in {"ctor", "error"}}
        canonical == [n \in DOMAIN Components(decl) |-> Components(decl)[n].type]
    IN {IF m.kind = "ctor" /\ m.ok THEN m.params ELSE m.params \o <<IntType>> : m \in written}
         \cup (IF decl.kind \in {"class", "enum"} /\ written = {} THEN {<<>>} ELSE {})
         \cup (IF decl.kind = "record" THEN {canonical} ELSE {})

ConstructorsListed(w) ==
    JavaConstructors(w.docs[1].decls[1])
      = {m.sig[3] : m \in {m \in ToSet(ClassOf(w, A).members) : m.kind = "constructor"}}

\* When a class says its constructors are all there, they are: `new A(...)` is
\* only ever judged against every constructor that the class has.  Records
\* that declare another constructor than the canonical one are not asked.
ConstructorsAllThere ==
    Is("declared") /\ ClassOf(query.w, A).constructors =>
        LET decl == query.w.docs[1].decls[1]
        IN \/ decl.kind = "record" /\ \E m \in ToSet(decl.members) : m.kind = "ctor"
           \/ ConstructorsListed(query.w)

\* When a class says its hierarchy is complete, every supertype written in
\* the source is among its supertypes by the name Java gives it.
HierarchyHonest ==
    Is("declared") =>
        LET c == ClassOf(query.w, A)
            decl == query.w.docs[1].decls[1]
        IN c.complete =>
             \A n \in DOMAIN decl.supers :
                 \E b \in Meant(query.w, 1, 1, decl.supers[n][1]) : NamedRef(b) \in ToSet(c.supertypes)

-----------------------------------------------------------------------------
(* Edits.  Two versions of one file, that differ in the declaration or only
   in what a body holds.                                                     *)

Versions ==
    {[Decl("A", 0, kind, supers, members) EXCEPT !.mods = mods, !.params = params] :
       kind \in {"class", "interface"}, supers \in {<<>>, <<<<"S">>>>, <<<<"Gone">>>>},
       members \in {<<>>} \cup {<<m>> : m \in Shared \cup Constructors},
       mods \in {{}, {"public"}, {"public", "abstract"}}, params \in {<<>>, <<"T">>}}

AskEdits ==
    \E before \in Versions, after \in Versions :
        /\ before.supers = after.supers \/ before.members = after.members
        /\ Ask([q |-> "edit", before |-> before, after |-> after])
AskLombokEdits ==
    \E ms, ns \in {<<m>> : m \in Fields}, before, after \in MarkSets :
        Ask([q |-> "edit", before |-> [Decl("A", 0, "class", <<>>, ms) EXCEPT !.marks = before],
                           after |-> [Decl("A", 0, "class", <<>>, ns) EXCEPT !.marks = after]])

\* The file of both versions imports Lombok.
EditWorld(decl) ==
    LET w == ClassWorld("class", <<>>, <<>>, {"data"}, TRUE) IN [w EXCEPT !.docs[1].decls[1] = decl]

\* What the checks of the other files read of a class.
ReadOf(w) ==
    LET c == ClassOf(w, A)
    IN <<c.supers, c.supertypes, c.complete, c.constructors, c.kind, c.access, c.abstract, w.docs[1].decls[1].params,
         [n \in DOMAIN c.members |->
            <<c.members[n].name, c.members[n].kind, c.members[n].static, c.members[n].meta>>]>>

\* An edit that leaves the fingerprint of the file alone leaves alone all that
\* other files read of its classes, what Lombok generates included, so that
\* re-checking only the edited file misses nothing.  Both versions have the
\* same imports: a name stands in the fingerprint for its first candidate, so
\* one more import on demand could go unnoticed.
FingerprintSound ==
    Is("edit") =>
        LET v == EditWorld(query.before)
            w == EditWorld(query.after)
        IN DeclarationFingerprint(v, 1) = DeclarationFingerprint(w, 1) => ReadOf(v) = ReadOf(w)

-----------------------------------------------------------------------------
(* Hierarchies.  A, open in the editor, with a member class I; B and C each in
   an open file, in a file of the index, in a jar, or nowhere; any of the
   three above the others, in a circle too while someone types; each with one
   of two overloads of m or a field n.                                       *)

M0 == Member("method", <<"m">>, {"public"}, IntType, <<>>)
M1 == Member("method", <<"m">>, {"public"}, IntType, <<IntType>>)
N == Member("field", <<"n">>, {"public"}, IntType, <<>>)
MemberSets == {<<>>, <<M0>>, <<M1>>, <<N>>}

B == InPackage(<<"a">>, "B")
C == InPackage(<<"a">>, "C")
JarMembers(ms) ==
    [n \in DOMAIN ms |-> [Generated(ms[n].name, FALSE, ms[n].params) EXCEPT
                            !.kind = IF ms[n].kind = "field" THEN "field" ELSE "method"]]

FileOf(name, supers, members) == <<File(name, <<"a">>, <<>>, <<Decl(name, 0, "class", supers, members)>>)>>

Hierarchy(h) ==
    LET AFile == File("A", <<"a">>, h.imports,
                      <<Decl("A", 0, "class", h.aSupers, h.a), Decl("I", 1, "class", h.iSupers, <<>>)>>)
        BFile == IF h.bAt \in {"open", "closed"} THEN FileOf("B", h.bSupers, h.b) ELSE <<>>
        CFile == IF h.cAt \in {"open", "closed"} THEN FileOf("C", h.cSupers, h.c) ELSE <<>>
        docs == <<AFile>> \o BFile \o CFile
        shown == {"A"} \cup (IF h.bAt = "open" THEN {"B"} ELSE {}) \cup (IF h.cAt = "open" THEN {"C"} ELSE {})
        JarOf(b, supers, members) ==
            b :> Jar(<<ObjectClass>> \o [n \in DOMAIN supers |-> InPackage(<<"a">>, supers[n][1])],
                     JarMembers(members))
    IN [docs |-> docs, open |-> {i \in DOMAIN docs : docs[i].file \in shown},
        lib |-> (IF h.bAt = "jar" THEN JarOf(B, h.bSupers, h.b) ELSE <<>>)
                  @@ (IF h.cAt = "jar" THEN JarOf(C, h.cSupers, h.c) ELSE <<>>) @@ Base]

Homes == {"open", "closed", "jar", "gone"}
Above(s) == <<<<s>>>>

Shapes ==
    [aSupers : {<<>>, Above("B"), Above("C"), <<<<"B">>, <<"C">>>>}, iSupers : {<<>>, Above("B")},
     bSupers : {<<>>, Above("C")}, cSupers : {<<>>, Above("A")}, bAt : Homes, cAt : Homes,
     a : {<<>>, <<M0>>}, b : MemberSets, c : MemberSets, imports : {<<>>}]

\* A class in a jar is compiled: all above it is in jars, or missing.
Buildable(h) ==
    /\ h.bAt = "jar" /\ h.bSupers # <<>> => h.cAt \in {"jar", "gone"}
    /\ h.cAt = "jar" => h.cSupers = <<>>
    /\ h.bAt = "gone" => h.b = <<>> /\ h.bSupers = <<>>
    /\ h.cAt = "gone" => h.c = <<>> /\ h.cSupers = <<>>

AskHierarchies ==
    \E h \in {h \in Shapes : Buildable(h)} : Ask([q |-> "hierarchy", h |-> h])

SupersIn(h, t) == CASE t = "A" -> h.aSupers [] t = "I" -> h.iSupers [] t = "B" -> h.bSupers [] t = "C" -> h.cSupers
MembersIn(h, t) == CASE t = "A" -> h.a [] t = "I" -> <<>> [] t = "B" -> h.b [] t = "C" -> h.c
HomeOf(h, t) == CASE t = "B" -> h.bAt [] t = "C" -> h.cAt [] OTHER -> "open"

DirectlyAbove(h, ts) == UNION {{s[1] : s \in ToSet(SupersIn(h, t))} : t \in ts}

\* A type and all that is above it; four types make three steps enough.
AllAbove(h, t) ==
    LET one == {t} \cup DirectlyAbove(h, {t})
        two == one \cup DirectlyAbove(h, one)
    IN two \cup DirectlyAbove(h, two)

Callable(h, t) == {<<m.name, m.params>> : m \in UNION {ToSet(MembersIn(h, s)) : s \in AllAbove(h, t)}}
MemberNamesOf(h, t) == {c[1] : c \in Callable(h, t)} \cup {<<"hash">>}

\* Every member of the hierarchy is offered, wherever its class lives and
\* whatever circle the supertypes make: an overload is not taken for an
\* override, and nothing but the hierarchy's members is offered.
NothingLost ==
    Is("hierarchy") =>
        {<<e.m.name, e.m.sig[3]>> : e \in {e \in ToSet(CollectMembers(Hierarchy(query.h), InProject(<<1, 1>>), FALSE)) :
                                             e.from.b # ObjectClass /\ e.m.kind # "type"}}
          = Callable(query.h, "A")

NameOfFrom(w, ty) == IF ty.k = "in" THEN DeclOf(w, ty.d).name ELSE ty.b.path[1]

\* Of several declarations of one method the lookup finds the one that
\* overrides the others: no class between A and the declaring class declares
\* it again.  Where every class is open, the lookup for documentation, which
\* has a walk of its own, finds the first of them too.
OverrideFoundFirst ==
    Is("hierarchy") =>
        LET h == query.h
            w == Hierarchy(h)
            found == FindMemberHier(w, InProject(<<1, 1>>), FALSE, <<"m">>, "method")
            documented == FindMember(w, <<1, 1>>, <<"m">>)
            FirstOf(params) == SelectSeq(found, LAMBDA e : e.m.sig[3] = params)
        IN /\ h.bAt = "open" /\ h.cAt = "open" =>
                 [n \in DOMAIN documented |-> InProject(documented[n].from)]
                   = (IF found = <<>> THEN <<>> ELSE <<found[1].from>>)
           /\ "A" \notin AllAbove(h, "C") =>
             \A params \in {<<>>, <<IntType>>} :
                 FirstOf(params) # <<>> =>
                     LET winner == NameOfFrom(w, FirstOf(params)[1].from)
                     IN \A t \in AllAbove(h, "A") \ {winner} :
                          winner \in AllAbove(h, t) =>
                              \A n \in DOMAIN MembersIn(h, t) :
                                  MembersIn(h, t)[n].name = <<"m">> => MembersIn(h, t)[n].params # params

\* Some class above the type is nowhere; or nowhere above B, a class whose
\* file is closed.
Missing(h, t) == \E s \in AllAbove(h, t) : HomeOf(h, s) = "gone"
MissingBehindClosed(h) == h.bAt = "closed" /\ h.bSupers # <<>> /\ h.cAt = "gone"

\* The members of A that are flagged with "Cannot resolve".
Flagged(h) ==
    {name \in {<<"m">>, <<"n">>, <<"hash">>, <<"z">>} : CheckMember(Hierarchy(h), Instance(InProject(<<1, 1>>)), name)}

\* "Cannot resolve member" is said only of a name that no class of the
\* hierarchy has, and while a class above is missing only if a closed file
\* extends that class: to_external_class drops a supertype it cannot resolve,
\* and diag_walk then takes the hierarchy for complete (see SilentIfIncomplete).
MemberFlagsSound ==
    Is("hierarchy") =>
        \A name \in Flagged(query.h) :
            /\ Missing(query.h, "A") => MissingBehindClosed(query.h)
            /\ name \notin MemberNamesOf(query.h, "A")

\* What a class offers is not flagged where it is used, except, in an open
\* file, what Lombok generates there (walk_members has it, diag_walk has not).
OfferedNotFlagged ==
    Is("declared") =>
        LET w == OpenIn(query.w)
            generated == {m.name : m \in ToSet(LombokMembers(w.docs[1], 1))}
            Names(v, ty) == {o.name : o \in Offered(v, ty, FALSE)}
        IN /\ \A name \in Names(w, InProject(<<1, 1>>)) :
                 CheckMember(w, Instance(InProject(<<1, 1>>)), name) => name \in generated
           /\ \A name \in Names(query.w, External(A, <<>>)) : ~CheckMember(query.w, Instance(External(A, <<>>)), name)

\* "Cannot resolve member" is never said while a class above the type is
\* missing, open and closed files alike: "Diagnostics stay silent for incomplete
\* hierarchies that might contain the member" (member_names, resolve.rs), and
\* "unknown project/classpath types ... stay silent" (diagnostics.rs).
SilentIfIncomplete ==
    [][Answer => (Is("hierarchy") /\ Missing(query.h, "A") => Flagged(query.h) = {})]_vars

-----------------------------------------------------------------------------
(* Bare identifiers: n, read inside I in A, with a local, a catch parameter or
   a static import of the name around it or not.                             *)

Contexts ==
    [local : {"none", "above", "below"}, handled : BOOLEAN, anonymous : BOOLEAN,
     imports : {<<>>, <<Import("static", <<"p", "Q", "n">>)>>, <<Import("static wildcard", <<"p", "Q">>)>>,
                <<Import("static", <<"p", "Q", "z">>)>>}]

AskIdentifiers ==
    \E h \in {h \in Shapes : Buildable(h) /\ h.a = <<>> /\ h.b \in {<<>>, <<N>>} /\ h.c \in {<<>>, <<N>>}},
       c \in Contexts :
        /\ c.local # "none" \/ c.handled \/ c.anonymous => h.cSupers = <<>> /\ h.cAt # "closed" /\ h.bAt # "closed"
        /\ Ask([q |-> "identifier", h |-> [h EXCEPT !.imports = c.imports], c |-> c])

CodeAround(c) ==
    <<[kind |-> "block",
       binds |-> IF c.local = "none" THEN <<>> ELSE <<[name |-> "n", id |-> 1, before |-> c.local = "above"]>>],
      [kind |-> "type", binds |-> <<>>]>>

\* "Cannot resolve symbol" is said only of a name with no declaration in
\* scope: not of a local, a catch parameter or a static import, not of a
\* field of any of the classes around it or above those, not in the code of an
\* anonymous class, and while one of the classes above is missing only if a
\* closed file extends that class, as with members.
IdentifierFlagsSound ==
    Is("identifier") =>
        LET h == query.h
            c == query.c
        IN CheckUnresolvedIdentifier(Hierarchy(h), 1, 2, CodeAround(c),
                                     IF c.handled THEN {"n"} ELSE {}, c.anonymous, "n") =>
             /\ c.local # "above" /\ ~c.handled /\ ~c.anonymous
             /\ c.imports \in {<<>>, <<Import("static", <<"p", "Q", "z">>)>>}
             /\ \A t \in {"A", "I"} : <<"n">> \notin MemberNamesOf(h, t)
             /\ (\E t \in {"A", "I"} : Missing(h, t)) => MissingBehindClosed(h)

-----------------------------------------------------------------------------
(* Chains.  a.A, in a file that sees a.T under the name T, extends b.B, whose
   file sees b.T under that name; each T has a field of its own type name.   *)

FieldOf(name, type) == Member("field", <<name>>, {"public"}, type, <<>>)
TFile(pkg, next) ==
    File("T", <<pkg>>, <<>>,
         <<Decl("T", 0, "class", <<>>, <<FieldOf("up", next), Member("method", <<"get">>, {"public"}, Named("T"), <<>>)>>)>>)

ChainWorld(c) ==
    LET docs == <<File("A", <<"a">>, <<Import("single", <<"b", "B">>)>>,
                       <<Decl("A", 0, "class", Above("B"), <<FieldOf("own", Named("T"))>>)>>),
                  File("B", <<"b">>, c.imports,
                       <<Decl("B", 0, "class", <<>>, <<FieldOf("f", c.type),
                                                     Member("method", <<"make">>, {"public"}, c.type, <<>>)>>)>>),
                  TFile("a", Named("String")), TFile("b", Node("array", <<>>, <<Named("T")>>))>>
    IN [docs |-> docs, open |-> {1} \cup c.open, lib |-> Base]

This == Expr("this", "", NoType, <<>>)
Get(e, name) == Expr("field", name, NoType, <<e>>)
Call(e, name) == Expr("call", name, NoType, <<e>>)
Heads == {Get(This, "own"), Get(This, "f"), Call(This, "make"), Expr("call", "make", NoType, <<>>),
          Get(Expr("cast", "", Named("B"), <<This>>), "f"), Call(Expr("new", "", Named("B"), <<>>), "make"),
          Get(Expr("super", "", NoType, <<>>), "f"), Expr("name", "v", NoType, <<>>)}
Chains == Heads \cup {Get(e, "up") : e \in Heads} \cup {Call(e, "get") : e \in Heads}
            \cup {Get(Call(e, "get"), "up") : e \in Heads}
            \cup {Expr("index", "", NoType, <<Get(e, "up")>>) : e \in Heads}

AskChains ==
    \E type \in {Named("T"), Named("String"), Node("array", <<>>, <<Named("T")>>)},
       imports \in {<<>>, <<Import("single", <<"a", "T">>)>>}, open \in SUBSET {2, 3, 4}, e \in Chains :
        Ask([q |-> "chain", c |-> [type |-> type, imports |-> imports, open |-> open], e |-> e])

\* The type of a chain by the rules of the language: each declaration read in
\* its own file.  A value type is "a.T", "b.T", "String", an array of one, "A",
\* "B", or "none".
ArrayOf(t) == IF t = "a.T" THEN "a.T[]" ELSE IF t = "b.T" THEN "b.T[]" ELSE "none"
ElementOf(t) == IF t = "a.T[]" THEN "a.T" ELSE IF t = "b.T[]" THEN "b.T" ELSE "none"
InB(c) ==
    LET t == IF c.imports = <<>> THEN "b.T" ELSE "a.T"
    IN CASE c.type = Named("T") -> t [] c.type = Named("String") -> "String" [] OTHER -> ArrayOf(t)
RECURSIVE TypeOf(_, _)
TypeOf(c, e) ==
    LET of == TypeOf(c, e.args[1])
    IN CASE e.k = "field" /\ e.name = "own" -> "a.T"
         [] e.name \in {"f", "make", "v"} -> InB(c)
         [] e.k = "field" /\ e.name = "up" ->
                (CASE of = "a.T" -> "String" [] of = "b.T" -> "b.T[]" [] OTHER -> "none")
         [] e.k = "call" /\ e.name = "get" -> (IF of \in {"a.T", "b.T"} THEN of ELSE "none")
         [] e.k = "index" -> ElementOf(of)

Shown(w, t) ==
    LET BinaryOf(u) == IF u.k = "in" THEN BinaryIdentity(w.docs[u.d[1]], u.d[2]) ELSE u.b
        Of(b) == CASE b = StringClass -> "String" [] b.path = <<"T">> -> (IF b.pkg = <<"a">> THEN "a.T" ELSE "b.T") [] OTHER -> "none"
    IN CASE t.k \in {"in", "ext"} -> Of(BinaryOf(t))
         [] t.k = "array" -> ArrayOf(Of(t.args[1].b))
         [] OTHER -> "none"

\* v is a local `var` whose initializer is new B().make().
Locals == <<[name |-> "v", each |-> FALSE, type |-> VarType,
             init |-> Call(Expr("new", "", Named("B"), <<>>), "make")]>>

\* The type given to an expression is the type Java gives it: a field or a
\* result is read with the imports of the file that declares it, whichever
\* file asks and whichever of the files are open.
ChainsExact ==
    Is("chain") =>
        LET w == ChainWorld(query.c)
        IN Shown(w, ResolveExpressionType(w, 1, 1, Locals, query.e)) = TypeOf(query.c, query.e)

-----------------------------------------------------------------------------
(* Statements.                                                               *)

Simple(k) == Stmt(k, "", <<>>, FALSE)
BreakOut == Stmt("break", "L", <<>>, FALSE)
Leaves == {Simple("expr"), Simple("return"), Simple("break"), BreakOut}
BlockOf(kids) == Stmt("block", "", kids, FALSE)
BlocksOf(ss) == {BlockOf(kids) : kids \in {<<>>} \cup {<<s>> : s \in ss} \cup {<<s, t>> : s \in ss, t \in ss}}
SmallBlocks(ss) == {BlockOf(<<s>>) : s \in ss} \cup {BlockOf(<<>>)}

Around(ss) ==
    {Stmt(k, "", <<s>>, FALSE) : k \in {"if", "while", "while true"}, s \in ss}
      \cup {Stmt("if else", "", <<s, t>>, FALSE) : s \in ss, t \in ss}
      \cup {Stmt("labeled", "L", <<s>>, FALSE) : s \in ss}
      \cup {Stmt("try", "", <<b, c>>, fin) : b \in SmallBlocks(ss), c \in SmallBlocks(ss), fin \in BOOLEAN}
      \cup {Stmt("try", "", <<b, c, f>>, TRUE) :
              b \in SmallBlocks(Leaves), c \in SmallBlocks(Leaves), f \in SmallBlocks(ss)}

Level1 == Leaves \cup BlocksOf(Leaves) \cup Around(Leaves)
Level2 == Level1 \cup BlocksOf(Leaves \cup Around({Simple("expr"), BreakOut, Simple("return")}))
            \cup Around({Simple("expr"), Simple("return")} \cup SmallBlocks({BreakOut, Simple("return")})
                          \cup {Stmt("labeled", "L", <<BreakOut>>, FALSE), Stmt("while true", "", <<Simple("break")>>, FALSE)})

AskStatements ==
    \/ \E s \in Level2 : Ask([q |-> "statements", block |-> BlockOf(<<s, Simple("expr")>>)])
    \/ \E s \in Leaves, t \in Level1 : Ask([q |-> "statements", block |-> BlockOf(<<s, t, Simple("expr")>>)])

\* Java's reachability: whether a statement can complete normally, and the
\* break statements in it that leave it for something around it.
RECURSIVE Escapes(_)
Escapes(s) ==
    LET inner == UNION {Escapes(s.kids[n]) : n \in DOMAIN s.kids}
    IN CASE s.k = "break" -> {s.label}
         [] s.k \in {"while", "while true"} -> inner \ {""}
         [] s.k = "labeled" -> inner \ {s.label}
         [] OTHER -> inner
RECURSIVE Completes(_)
Completes(s) ==
    CASE s.k \in {"return", "break"} -> FALSE
      [] s.k = "block" -> \A n \in DOMAIN s.kids : Completes(s.kids[n])
      [] s.k = "if else" -> Completes(s.kids[1]) \/ Completes(s.kids[2])
      [] s.k = "while true" -> "" \in Escapes(s.kids[1])
      [] s.k = "labeled" -> Completes(s.kids[1]) \/ s.label \in Escapes(s.kids[1])
      [] s.k = "try" -> LET tried == IF s.fin THEN Front(s.kids) ELSE s.kids
                        IN /\ \E n \in DOMAIN tried : Completes(tried[n])
                           /\ s.fin => Completes(Last(s.kids))
      [] OTHER -> TRUE

\* "Unreachable statement" is said only of a statement behind one that Java
\* says cannot complete normally: a break that leaves a loop or a labelled
\* block, a catch or a finally block never makes reachable code look dead.
UnreachableSound ==
    Is("statements") =>
        LET n == CheckUnreachable(query.block)
        IN n # 0 => \E m \in 1 .. n - 1 : ~Completes(query.block.kids[m])

-----------------------------------------------------------------------------
(* Unused declarations: a class with a private field x or none, and a method,
   with a parameter x or none, whose body declares and uses x in blocks,
   lambdas and anonymous classes.                                            *)

Leaf(k, name) == Tree(k, name, {}, <<>>)
Items0 == {Leaf("local", "x"), Leaf("use", "x"), Leaf("member", "x"), Leaf("call", "m"), Leaf("use", "y")}
Body(kids) == Tree("block", "", {}, kids)
XField(mods) == Tree("field", "x", mods, <<>>)
Items1 ==
    {Body(kids) : kids \in {<<i>> : i \in Items0} \cup {<<i, k>> : i \in Items0, k \in Items0}}
      \cup {Tree("lambda", "", {}, ps \o <<Body(<<i>>)>>) : ps \in {<<>>, <<Leaf("param", "x")>>}, i \in Items0}
      \cup {Tree("class", "", {}, fs \o <<Tree("method", "k", {"public"}, <<Body(<<i>>)>>)>>) :
              fs \in {<<>>, <<XField({"private"})>>}, i \in Items0}

AskUnused ==
    \E field \in {<<>>, <<XField({"private"})>>, <<XField({"private", "annotated"})>>},
       ps \in {<<>>, <<Leaf("param", "x")>>}, mods \in {{"private"}, {"public"}, {"public", "static"}},
       first \in Items0 \cup Items1, rest \in {<<>>} \cup {<<i>> : i \in Items0} :
        Ask([q |-> "unused",
             root |-> Tree("class", "A", {}, field \o <<Tree("method", "m", mods, ps \o <<Body(<<first>> \o rest)>>)>>)])

\* The declarations a name can mean, from the inside out: a local above it in
\* a block around it, a parameter, a field.  `this.x` means a field, a call a
\* method, whichever class has one.
Means(root, q) ==
    LET use == NodeAt(root, q)
        At(n) == SubSeq(q, 1, n)
        Here(n) ==
            LET outer == NodeAt(root, At(n))
            IN {At(n) \o <<k>> : k \in {k \in DOMAIN outer.kids :
                  /\ outer.kids[k].name = use.name
                  /\ \/ outer.k = "block" /\ outer.kids[k].k = "local" /\ k < q[n + 1]
                     \/ outer.kids[k].k \in {"param", "field"}}}
        levels == {n \in 0 .. Len(q) - 1 : Here(n) # {}}
    IN CASE use.k = "use" -> IF levels = {} THEN {} ELSE Here(Max(levels))
         [] use.k = "member" -> {p \in Paths(root) : NodeAt(root, p).k = "field" /\ NodeAt(root, p).name = use.name}
         [] use.k = "call" -> {p \in Paths(root) : NodeAt(root, p).k = "method" /\ NodeAt(root, p).name = use.name}
         [] OTHER -> {}

\* A local, parameter, private field or private method is called unused only
\* when no name in the file means it, however deep the use sits.
UnusedSound ==
    Is("unused") =>
        LET root == query.root
        IN \A p \in Paths(root) :
             UnusedLocal(root, p) \/ UnusedPrivate(root, p) \/ UnusedParameter(root, p) =>
                 \A q \in Paths(root) : p \notin Means(root, q)

-----------------------------------------------------------------------------
(* The link of an "incompatible types" flag to the variable's declaration.   *)

Plain(scopes) == \A n \in DOMAIN scopes : scopes[n].kind \in {"block", "params", "type"}

\* In code of blocks, methods and classes the link leads to the declaration
\* that the assigned name refers to, or is left out; the link of `this.x`
\* never leads to a local or to the field of a class further out.
LinksTrue ==
    Is("binding") /\ Plain(query.scopes) =>
        /\ LhsDeclaration(query.scopes, "x", FALSE) \in {0, Referred(query.scopes)}
        /\ LhsDeclaration(query.scopes, "x", TRUE) = IF query.scopes[4].binds = <<>> THEN 0 ELSE 4

-----------------------------------------------------------------------------
(* Return statements, with the nodes around them from the inside out; every
   callable around has its own result, void or not.                          *)

AskReturns ==
    \E kinds \in UNION {[1 .. n -> {"block", "method", "lambda", "ctor", "class"}] : n \in 1 .. 4},
       void \in BOOLEAN, value \in BOOLEAN, fits \in {"yes", "no", "unknown"} :
        Ask([q |-> "return", kinds |-> kinds, void |-> void, value |-> value, fits |-> fits])

Callables == {"method", "lambda", "ctor"}

\* A return statement is flagged only for the method it returns from: one in
\* a lambda or a constructor inside a method is left alone, and a value that
\* is not proved unfit is too.
ReturnFlagsSound ==
    Is("return") /\ CheckReturn(query.kinds, FALSE, query.void, query.value, query.fits) =>
        \E n \in DOMAIN query.kinds :
            /\ query.kinds[n] = "method"
            /\ \A k \in 1 .. n - 1 : query.kinds[k] \notin Callables
            /\ query.void # query.value => ~query.void /\ query.fits = "no"

-----------------------------------------------------------------------------
(* Passes over a whole file, for its structure and its meaning.              *)

Sprig(k, how) == Part(k, "", <<>>, how, <<>>)
ParamAs(name, text, type) == Part("param", name, <<>>, [text |-> text, type |-> type], <<>>)
CodeOf(kids) == Part("block", "", <<>>, FALSE, kids)
CallableAs(k, name, mods, params, rest) ==
    Part(k, name, mods, [unused |-> FALSE, params |-> <<>>], <<Part("params", "", <<>>, "", params)>> \o rest)
FieldAs(mods, names) ==
    Part("field", "", mods, "unknown",
         [n \in DOMAIN names |-> Part("declarator", names[n], <<>>, [fits |-> "unknown", unused |-> FALSE], <<>>)])
TypeAs(k, name, mods, kids) == Part(k, name, mods, "", kids)
Program(kids) == Part("program", "", <<>>, "", kids)

AskFile(root, stem, expected, options) ==
    Ask([q |-> "file", root |-> root, stem |-> stem, expected |-> expected, options |-> options])

\* Several types, in the right file and package or not.
AskUnits ==
    \E packages \in UNION {[1 .. n -> {Part("package", p, <<>>, "", <<>>) : p \in {"a", "b"}}] : n \in 0 .. 2},
       types \in UNION {[1 .. n -> {TypeAs(k, name, mods, <<>>) : k \in {"class", "interface"}, name \in {"A", "B"},
                                                               mods \in {<<>>, <<"public">>}}] : n \in 0 .. 2},
       stem \in {"", "A"}, expected \in {{}, {""}, {"a"}} :
        AskFile(Program(packages \o types), stem, expected, {})

\* One type with two members; a method may hold an anonymous class with one.
Inner == CallableAs("method", "n", <<"abstract">>, <<>>, <<CodeOf(<<>>)>>)
Bodies == {<<>>, <<CodeOf(<<>>)>>,
           <<CodeOf(<<TypeAs("anonymous", "", <<>>, <<CallableAs("method", "n", <<>>, <<>>, <<CodeOf(<<>>)>>)>>)>>)>>,
           <<CodeOf(<<TypeAs("anonymous", "", <<>>, <<Inner>>)>>)>>}
ParamLists == {<<>>, <<ParamAs("i", "int", "int")>>, <<ParamAs("i", "int", "int[]")>>,
               <<ParamAs("i", "int", "int"), ParamAs("i", "int", "int")>>,
               <<ParamAs("i", "int", "int"), Part("spread", "", <<>>, [text |-> "int", type |-> "int..."], <<>>)>>}
FileMembers ==
    {FieldAs(<<>>, names) : names \in {<<"x">>, <<"x", "y">>, <<"y", "y">>}}
      \cup {CallableAs("method", "m", mods, params, body) :
              mods \in {<<>>, <<"abstract">>, <<"default">>}, params \in ParamLists, body \in Bodies}
      \cup {CallableAs("ctor", "A", <<>>, params, <<CodeOf(<<>>)>>) : params \in ParamLists}
\* The fields of an interface are a kind of their own.
MemberAs(k, m) == IF k # "class" /\ m.k = "field" THEN [m EXCEPT !.k = "constant"] ELSE m

AskTwoMembers ==
    \E k \in {"class", "interface", "annotation"}, f \in FileMembers,
       g \in {g \in FileMembers : g.mods = <<>> /\ \A n \in DOMAIN g.kids : g.kids[n].k = "block" => g.kids[n].kids = <<>>} :
        AskFile(Program(<<TypeAs(k, "A", <<>>, <<MemberAs(k, f), MemberAs(k, g)>>)>>), "", {}, {})

AskModifiers ==
    \E k \in {"class", "interface", "enum", "method", "field"},
       mods \in UNION {[1 .. n -> {"abstract", "final", "private", "sealed", "non-sealed", "@"}] : n \in 0 .. 3} :
        AskFile(Program(<<CASE k = "method" -> TypeAs("class", "A", <<>>, <<CallableAs(k, "m", mods, <<>>, <<>>)>>)
                            [] k = "field" -> TypeAs("class", "A", <<>>, <<FieldAs(mods, <<"x">>)>>)
                            [] OTHER -> TypeAs(k, "A", mods, <<>>)>>), "", {}, {})

\* A method with two statements, and the checks that are switched on.
Declared(k, fits) ==
    {Part(k, "", <<>>, known, [n \in DOMAIN fits |-> Part("declarator", "x", <<>>, [fits |-> fits[n], unused |-> u], <<>>)]) :
       known \in {"known", "unknown"}, u \in BOOLEAN}
Expressions ==
    {Sprig("identifier", TRUE), Sprig("access", TRUE)} \cup {Sprig("creation", r) : r \in {"selected", "unknown", "none", "abstract"}}
      \cup {Sprig("invocation", [object |-> o, missing |-> m, call |-> r]) :
              o \in BOOLEAN, m \in BOOLEAN, r \in {"selected", "unknown", "none"}}
Statements ==
    {Part("statement", "", <<>>, "", <<e>>) : e \in Expressions}
      \cup {Part("statement", "", <<>>, "", <<Part("assignment", "", <<>>, [op |-> op, fits |-> fits], <<e>>)>>) :
              op \in {"=", "+="}, fits \in {"no", "unknown"}, e \in {Sprig("identifier", TRUE), Sprig("access", FALSE)}}
      \cup Declared("local", <<"no", "no">>) \cup {Sprig("return", TRUE)}

AskMeaning ==
    \E s \in Statements, t \in Statements, f \in {FieldAs(<<>>, <<"x">>)} \cup Declared("field", <<"no">>), dead \in BOOLEAN,
       options \in SUBSET {"unresolved members", "unused"} :
        /\ f.how = "known" => s.k # "statement"
        /\ t.k = "statement" => t.kids[1].k \in {"identifier", "assignment"}
        /\ AskFile(Program(<<TypeAs("class", "A", <<>>,
                                 <<f, Part("method", "m", <<>>, [unused |-> dead, params |-> <<1>>],
                                           <<Part("params", "", <<>>, "", <<ParamAs("i", "int", "int")>>),
                                             Part("block", "", <<>>, dead, <<s, t>>)>>)>>)>>), "", {}, options)

\* Java's rules of structure.  The class a member is of is the innermost one
\* around it, with a name or without.
RECURSIVE MemberOf(_, _)
MemberOf(root, p) ==
    IF NodeAt(root, Front(p)).k \in TypeKinds \cup {"anonymous"} THEN NodeAt(root, Front(p)).k ELSE MemberOf(root, Front(p))
Twice(root, p, Same(_, _)) ==
    \E n \in 1 .. Last(p) - 1 : NodeAt(root, Front(p) \o <<n>>).k = NodeAt(root, p).k
                                 /\ Same(NodeAt(root, Front(p) \o <<n>>), NodeAt(root, p))
TypesOf(m) == [n \in DOMAIN m.kids[1].kids |-> m.kids[1].kids[n].how.type]
Brackets(m) == \E n \in DOMAIN m.kids[1].kids : m.kids[1].kids[n].how.type = "int[]"
SameMethod(m, n) == m.name = n.name /\ (TypesOf(m) = TypesOf(n) \/ Brackets(m) # Brackets(n))
Clash(t) == CASE t.k = "class" -> {<<"abstract", "final">>, <<"sealed", "non-sealed">>}
              [] t.k = "interface" -> {<<"sealed", "non-sealed">>}
              [] t.k = "method" -> {<<"abstract", "final">>, <<"abstract", "private">>}
              [] OTHER -> {}

UnitErrors(root, stem, expected) ==
    LET types == {n \in DOMAIN root.kids : root.kids[n].k \in TypeKinds}
        packages == DOMAIN root.kids \ types
        Misplaced(e) == IF packages = {} THEN types # {} /\ e # "" ELSE Cardinality(packages) = 1 /\ root.kids[1].name # e
    IN {Flag("file", <<n>>) : n \in {n \in types : stem # "" /\ "public" \in ToSet(root.kids[n].mods) /\ root.kids[n].name # stem}}
         \cup {Flag("class", <<n>>) : n \in {n \in types : \E m \in types : m < n /\ root.kids[m].name = root.kids[n].name}}
         \cup {Flag("package", <<>>) : e \in {e \in expected : Misplaced(e)}}
WordErrors(root) ==
    UNION {LET words == SelectSeq(NodeAt(root, p).mods, LAMBDA w : w # "@")
           IN {Flag("repeated modifier", p \o <<-n>>) : n \in {n \in DOMAIN words : words[n] \in {words[m] : m \in 1 .. n - 1}}}
                \cup {Flag(c[2], p) : c \in {c \in Clash(NodeAt(root, p)) : {c[1], c[2]} \subseteq ToSet(words)}} :
             p \in {p \in Paths(root) : NodeAt(root, p).k \in TypeKinds \cup {"method", "ctor", "field", "constant"}}}
NameErrors(root) ==
    LET At(k) == {p \in Paths(root) : NodeAt(root, p).k = k}
        InFields == {p \in At("declarator") : NodeAt(root, Front(p)).k \in {"field", "constant"}}
        Declarator(p) == {q \in InFields : Front(Front(q)) = Front(Front(p)) /\ NodeAt(root, q).name = NodeAt(root, p).name}
        Before(q, p) == q[Len(q) - 1] < p[Len(p) - 1] \/ (q[Len(q) - 1] = p[Len(p) - 1] /\ Last(q) < Last(p))
    IN {Flag("member", p) : p \in {p \in InFields : \E q \in Declarator(p) : Before(q, p)}}
         \cup {Flag("parameter", p) : p \in {p \in At("param") : Twice(root, p, LAMBDA m, n : m.name = n.name)}}
BodyErrors(root) ==
    {Flag("body", p) : p \in {p \in Paths(root) :
        LET m == NodeAt(root, p)
        IN /\ m.k = "method" /\ Len(m.kids) = 2
           /\ IF MemberOf(root, p) = "interface" THEN ToSet(m.mods) \cap {"default", "static", "private"} = {}
              ELSE "abstract" \in ToSet(m.mods)}}
MethodErrors(root) ==
    {Flag("member", p) : p \in {p \in Paths(root) : NodeAt(root, p).k = "method" /\ Twice(root, p, SameMethod)}}

\* What is said of the structure of a file is an error in Java, and said once;
\* and while the list is not full, no wrong file, package, modifier, body or
\* name of a field or a parameter is passed over.  A method with the brackets
\* of an array behind a parameter's name is compared without them.
StructureFlagsExact ==
    Is("file") =>
        LET root == query.root
            said == StructuralDiagnostics(root, query.stem, query.expected)
            found == UnitErrors(root, query.stem, query.expected) \cup WordErrors(root) \cup NameErrors(root) \cup BodyErrors(root)
        IN /\ ToSet(said) \subseteq found \cup MethodErrors(root)
           /\ Cardinality(ToSet(said)) = Len(said) /\ Len(said) <= MAX_DIAGNOSTICS
           /\ Len(said) < MAX_DIAGNOSTICS => found \subseteq ToSet(said)

RECURSIVE Damaged(_, _)
Damaged(t, p) == IF p = <<>> THEN [t EXCEPT !.kids = Append(@, Sprig("ERROR", ""))]
                 ELSE [t EXCEPT !.kids[p[1]] = Damaged(@, Tail(p))]

\* Wherever a file is half typed, the damage is reported once, and otherwise
\* the passes only fall silent: what they say of the damaged file they would
\* say of the intact one, and but for members, which are looked up anywhere,
\* they say nothing of a node with the damage inside, nor of a value or a
\* call with the damage beside it.
DamageOnlySilences ==
    Is("file") =>
        LET root == query.root
            shape == StructuralDiagnostics(root, query.stem, query.expected)
            sense == SemanticDiagnostics(root, query.options)
            Whole(f, t) == /\ ~HasError(NodeAt(t, IF f.rule = "repeated modifier" THEN Front(f.at) ELSE f.at))
                           /\ f.rule \in {"assignment", "call"} => ~HasError(NodeAt(t, Front(f.at)))
        IN \A p \in {p \in Paths(root) : Len(p) < 6} :
             LET hurt == Damaged(root, p)
                 hurtShape == ToSet(StructuralDiagnostics(hurt, query.stem, query.expected))
                 hurtSense == ToSet(SemanticDiagnostics(hurt, query.options))
             IN /\ SyntaxDiagnostics(hurt) = <<Flag("syntax", p \o <<Len(NodeAt(root, p).kids) + 1>>)>>
                /\ Len(shape) < MAX_DIAGNOSTICS => hurtShape \subseteq ToSet(shape)
                /\ Len(sense) < MAX_DIAGNOSTICS => hurtSense \subseteq ToSet(sense)
                /\ \A f \in hurtShape : f.rule = "package" \/ Whole(f, hurt)
                /\ \A f \in hurtSense : f.rule = "member" \/ Whole(f, hurt)

\* However much is wrong, the list keeps its bound, no node is flagged twice
\* by the rules on calls and members, and a check that is switched off only
\* takes its own flags away.
PassesBounded ==
    Is("file") =>
        LET sense == SemanticDiagnostics(query.root, query.options)
        IN /\ Len(sense) <= MAX_DIAGNOSTICS
           /\ \A m, n \in DOMAIN sense : {sense[m].rule, sense[n].rule} \subseteq {"member", "call"} /\ sense[m].at = sense[n].at => m = n
           /\ Len(sense) < MAX_DIAGNOSTICS =>
                \A fewer \in SUBSET query.options :
                    LET off == {f \in ToSet(sense) :
                                  \/ "unresolved members" \notin fewer /\ f.rule \in {"member", "call", "identifier"}
                                  \/ "unused" \notin fewer /\ f.rule = "unused"}
                    IN ToSet(SemanticDiagnostics(query.root, fewer)) = ToSet(sense) \ off

-----------------------------------------------------------------------------
(* What the run checks, by the part of the engine it is about; the conjuncts
   are stated one by one above.                                              *)

\* A name means the declaration Java says it means, in an open document and in
\* a closed file alike; a class built from source has the constructors and
\* supertypes of its text or says it does not know them; and an edit that
\* changes what other files see changes the fingerprint (model.rs,
\* resolve.rs, srcclass.rs).
DeclarationsExact == [][Answer =>
    /\ TypeNamesExact /\ ClosedNamesExact /\ BindingsSound /\ OpenClosedAgree
    /\ ConstructorsAllThere /\ HierarchyHonest /\ FingerprintSound]_vars

\* A member is found where Java finds it, the overriding one first, along a
\* chain of calls too, and no member is lost on the way through open, closed and
\* library classes (resolve.rs, srcclass.rs).
MembersExact == [][Answer =>
    /\ NothingLost /\ OverrideFoundFirst /\ ChainsExact /\ LinksTrue]_vars

\* What is flagged is wrong: an unknown member or name (a missing class behind
\* a closed file and Lombok's members in an open one apart), a statement that
\* cannot be reached, a declaration nobody uses, a return that does not fit, a
\* file that is put together wrongly; and the passes over a file stay within
\* their bound and say no more of a damaged one (diagnostics.rs and
\* structural.rs of the syntax crate).
ReportsSound == [][Answer =>
    /\ MemberFlagsSound /\ OfferedNotFlagged /\ IdentifierFlagsSound /\ UnreachableSound /\ UnusedSound
    /\ ReturnFlagsSound /\ StructureFlagsExact /\ DamageOnlySilences /\ PassesBounded]_vars

-----------------------------------------------------------------------------
Init == query = Idle
Asking == \/ AskTypeNames \/ AskBindings \/ AskHierarchies \/ AskClasses \/ AskEdits \/ AskLombokEdits
          \/ AskIdentifiers \/ AskChains \/ AskStatements \/ AskReturns \/ AskUnused \/ AskUnits \/ AskTwoMembers \/ AskModifiers \/ AskMeaning

\* The questions about hierarchies alone.
HierarchyNext == (query = Idle /\ AskHierarchies) \/ Answer
HierarchySpec == Init /\ [][HierarchyNext]_vars
=================================================================================
