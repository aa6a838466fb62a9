------------------------------ MODULE MCTypes ------------------------------
(***************************************************************************)
(* The type engine over a small program, and the algorithms MCToolchain    *)
(* asks about: a query is asked, and it is answered as the properties at   *)
(* the end of the module say.                                              *)
(***************************************************************************)
EXTENDS JavaRules, MCToolchain

Param(owner, ix, bounds) == [owner |-> owner, ix |-> ix, bounds |-> bounds]
Facts(kind, params, supers) ==
    [ObjectFacts EXCEPT !.kind = kind, !.abstract = kind = "interface", !.params = params, !.supers = supers, !.ctors = TRUE]
Method(name, ps, result) ==
    [name |-> name, kind |-> "method", static |-> FALSE, abstract |-> FALSE, access |-> "public", known |-> TRUE,
     header |-> TRUE, params |-> ps, result |-> result, tparams |-> <<>>, varargs |-> FALSE, declaring |-> ""]
Abstract(m) == [m EXCEPT !.abstract = TRUE]

Dog == Class("Dog")
Animal == Class("Animal")
List(t) == Named("List", <<t>>)
Collection(t) == Named("Collection", <<t>>)

\* Animal, Cat and the collections come from jars, the others from sources.
Program ==
    [facts |->
        ("Object" :> [Facts("class", <<>>, <<>>) EXCEPT !.members = <<Method("hashCode", <<>>, Prim("int"))>>])
     @@ ("Serializable" :> Facts("interface", <<>>, <<>>))
     @@ ("Cloneable" :> Facts("interface", <<>>, <<>>))
     @@ ("Number" :> Facts("class", <<>>, <<Object, Class("Serializable")>>))
     @@ [b \in {BoxFqn[p] : p \in PrimitiveType \ {"boolean", "char"}} |-> Facts("class", <<>>, <<Class("Number")>>)]
     @@ [b \in {"Boolean", "Character"} |-> Facts("class", <<>>, <<Object, Class("Serializable")>>)]
     @@ ("Animal" :> Facts("class", <<>>, <<Object>>))
     @@ ("Cat" :> Facts("class", <<>>, <<Animal>>))
     @@ ("Dog" :> Facts("class", <<>>, <<Animal, Class("Cloneable")>>))
     @@ ("Iterable" :> Facts("interface", <<Param("Iterable", 1, <<>>)>>, <<>>))
     @@ ("Collection" :> Facts("interface", <<Param("Collection", 1, <<>>)>>, <<Named("Iterable", <<Var("Collection", 1)>>)>>))
     @@ ("List" :> Facts("interface", <<Param("List", 1, <<>>)>>, <<Collection(Var("List", 1))>>))
     @@ ("DogList" :> Facts("class", <<>>, <<Object, List(Dog)>>))
     @@ ("Pair" :> [Facts("class", <<Param("Pair", 1, <<>>), Param("Pair", 2, <<Animal>>)>>,
                         <<Object, Named("Iterable", <<Var("Pair", 2)>>)>>)
                    EXCEPT !.members = <<Method("second", <<>>, Var("Pair", 2))>>])
     @@ ("DogPair" :> Facts("class", <<>>, <<Named("Pair", <<Object, Dog>>)>>))
     @@ ("Runnable" :> [Facts("interface", <<>>, <<>>) EXCEPT !.members = <<Abstract(Method("run", <<>>, Void))>>])
     @@ ("Callable" :> [Facts("interface", <<Param("Callable", 1, <<>>)>>, <<>>)
                        EXCEPT !.members = <<Abstract(Method("call", <<>>, Var("Callable", 1))), Abstract(Method("hashCode", <<>>, Prim("int")))>>])
     @@ ("Tester" :> [Facts("interface", <<Param("Tester", 1, <<>>)>>, <<>>)
                      EXCEPT !.members = <<Abstract(Method("test", <<Var("Tester", 1)>>, Prim("boolean")))>>])
     @@ ("DogTester" :> [Facts("interface", <<>>, <<Named("Tester", <<Dog>>)>>)
                         EXCEPT !.members = <<Abstract(Method("test", <<Dog>>, Prim("boolean")))>>])
     @@ ("Quiet" :> [Facts("interface", <<>>, <<Class("Runnable")>>) EXCEPT !.members = <<Method("run", <<>>, Void)>>])
     @@ ("Loud" :> Facts("interface", <<>>, <<Class("Runnable"), Class("Quiet")>>))
     @@ ("TwoWays" :> Facts("interface", <<>>, <<Class("Runnable"), Named("Callable", <<Dog>>)>>)),
     nest |-> [c \in {"Vault", "Vault$Door", "Den", "Main"} |-> IF c = "Vault$Door" THEN "Vault" ELSE c],
     pkg |-> [c \in {"Vault", "Vault$Door", "Den", "Main"} |-> IF c = "Den" THEN "zoo" ELSE "app"],
     project |-> {"Dog", "DogList", "Pair", "DogPair", "DogTester", "Quiet", "Loud"},
     universe |-> {Object, Animal, Class("Cat"), Dog, Class("Integer"), Class("DogList"), List(Dog)}]

\* What a request sees when some classes cannot be resolved: a source that
\* names one has an unknown type there.
RECURSIVE Blank(_, _)
Blank(t, hidden) ==
    IF t.k = "named" /\ t.id \in hidden THEN Unknown
    ELSE [t EXCEPT !.args = [i \in DOMAIN t.args |-> Blank(t.args[i], hidden)]]
BlankAll(ts, hidden) == [i \in DOMAIN ts |-> Blank(ts[i], hidden)]
BlankFacts(f, hidden) ==
    LET supers == BlankAll(f.supers, hidden)
    IN  [f EXCEPT !.supers = supers, !.complete = ~\E i \in DOMAIN supers : ContainsUnknown(supers[i]),
                  !.params = [i \in DOMAIN f.params |-> [f.params[i] EXCEPT !.bounds = BlankAll(@, hidden)]],
                  !.members = [i \in DOMAIN f.members |->
                                 [f.members[i] EXCEPT !.params = BlankAll(@, hidden), !.result = Blank(@, hidden)]]]
Seen(w, hidden) ==
    [w EXCEPT !.facts = [c \in DOMAIN w.facts \ hidden |->
                            IF c \in w.project THEN BlankFacts(w.facts[c], hidden) ELSE w.facts[c]],
              !.project = @ \ hidden]
Hidings == {{}} \cup {{c} : c \in {"Object", "Number", "Animal", "Dog", "Collection", "Iterable", "List", "Runnable", "Pair"}}

Arguments1 == {Dog, Animal, Object, Extends(Animal), Extends(Dog), Super(Dog), Super(Animal), Wild, Unknown}
Types ==
    {Class(c) : c \in {"Object", "Serializable", "Number", "Integer", "Byte", "Animal", "Cat", "Dog", "DogList", "List", "Pair"}}
    \cup {Prim(p) : p \in {"boolean", "byte", "short", "char", "int", "long", "float", "double"}}
    \cup {Null, Void, Unknown, ArrayOf(Dog), ArrayOf(Animal), ArrayOf(Prim("int")), ArrayOf(Prim("long")), Var("Pair", 1), Var("Pair", 2)}
    \cup {List(t) : t \in Arguments1} \cup {Collection(t) : t \in Arguments1}
    \cup {Named("Pair", <<Object, Dog>>), Named("Iterable", <<Dog>>), Named("Iterable", <<Extends(Animal)>>)}
AskAssign == \E h \in Hidings, a, e \in Types : Ask([q |-> "assign", h |-> h, a |-> a, e |-> e])

\* A class of methods f, picked from these, called with values.
Varargs(m) == [m EXCEPT !.varargs = TRUE]
Pool == <<Method("f", <<>>, Void), Method("f", <<Prim("int")>>, Void), Method("f", <<Prim("long")>>, Void),
          Method("f", <<Prim("byte")>>, Void), Method("f", <<Class("Integer")>>, Void), Method("f", <<Class("Number")>>, Void),
          Method("f", <<Object>>, Void), Method("f", <<Animal>>, Void), Method("f", <<Dog>>, Void),
          Method("f", <<Animal, Object>>, Void), Method("f", <<Object, Dog>>, Void),
          Varargs(Method("f", <<ArrayOf(Prim("int"))>>, Void)), Varargs(Method("f", <<ArrayOf(Object)>>, Void)),
          Varargs(Method("f", <<Animal, ArrayOf(Object)>>, Void))>>
Chosen(S) == LET order == SelectSeq([i \in DOMAIN Pool |-> i], LAMBDA i : i \in S) IN [i \in DOMAIN order |-> Pool[order[i]]]
ArgTypes == {Prim("int"), Prim("char"), Class("Integer"), Dog, Animal, Null}
ArgLists == {<<>>} \cup {<<a>> : a \in ArgTypes} \cup {<<a, b>> : a, b \in ArgTypes}
Overloaded(ms) == [Program EXCEPT !.facts = ("C" :> [Facts("class", <<>>, <<Object>>) EXCEPT !.members = ms]) @@ @, !.project = @ \cup {"C"}]
Values(ts) == [i \in DOMAIN ts |-> Value(ts[i])]
Call(recv, name, args) ==
    [new |-> FALSE, type |-> None, anonymous |-> FALSE, qualified |-> FALSE, within |-> <<>>, pkg |-> "app", args |-> args,
     diamond |-> FALSE, target |-> None, declared |-> None, recv |-> recv, name |-> name, static |-> FALSE]
AskCall ==
    \E h \in {{}, {"Animal"}, {"Dog"}, {"Number"}}, S \in UNION {kSubset(k, DOMAIN Pool) : k \in 1 .. 3}, ts \in ArgLists :
        Ask([q |-> "call", h |-> h, S |-> S, ts |-> ts])

\* Interfaces as the targets of lambdas.
Targets == {Class(c) : c \in {"Runnable", "DogTester", "TwoWays", "Quiet", "Loud", "Animal", "Callable"}}
           \cup {Named("Callable", <<t>>) : t \in {Dog, Extends(Animal), Wild}}
           \cup {Named("Tester", <<t>>) : t \in {Dog, Animal, Super(Dog)}} \cup {List(Dog)}
AskDescriptor == \E h \in Hidings, t \in Targets : Ask([q |-> "descriptor", h |-> h, t |-> t])

\* Lambda bodies: an expression, or a block of statements one level deep.
Stmt(k, body) == [k |-> k, t |-> None, body |-> body]
Leaf == {Stmt(k, <<>>) : k \in {"return", "returnValue", "throw", "work"}}
Nested == Leaf \cup {Stmt(k, <<s>>) : k \in {"if", "lambda", "class", "while", "forever", "block"}, s \in Leaf}
               \cup {Stmt(k, <<Stmt("break", <<>>)>>) : k \in {"while", "forever"}}
Branching == {Stmt(k, <<s, r>>) : k \in {"ifElse", "tryCatch"}, s, r \in Leaf}
             \cup {Stmt(k, <<s>>) : k \in {"synchronized", "doForever"}, s \in Leaf \cup {Stmt("break", <<>>)}}
Bodies == {Stmt("block", <<>>)} \cup {Stmt("block", <<s>>) : s \in Nested} \cup {Stmt("block", <<s, r>>) : s, r \in Nested}
          \cup UNION {{Stmt("block", <<s>>), Stmt("block", <<Stmt("work", <<>>), s>>)} : s \in Branching}
          \cup {[Stmt("call", <<>>) EXCEPT !.t = t] : t \in {Void, Dog, None}}
          \cup {Stmt(k, <<>>) : k \in {"new", "assign", "update", "value"}}
Lambdas(b) == {[params |-> ps, body |-> b] : ps \in IF Len(b.body) = 2 THEN {<<>>} ELSE {<<>>, <<None>>, <<Dog>>, <<Animal>>}}
AskLambda ==
    \E b \in Bodies, t \in Targets, h \in {{}, {"Dog"}, {"Runnable"}} :
        \E l \in Lambdas(b) : Ask([q |-> "lambda", l |-> l, t |-> t, h |-> h])

\* Uses of a class through its supertypes.
Receivers == {Named("Pair", <<Object, Dog>>), Named("Pair", <<Dog, Animal>>), Class("Pair"), Class("DogPair"), Class("DogList"), Dog,
              List(Dog), Class("List"), Collection(Extends(Animal)), ArrayOf(Dog), Prim("int")}
AskThrough == \E h \in Hidings, t \in Receivers : Ask([q |-> "through", h |-> h, t |-> t])

\* A receiver K whose methods f are declared, inherited and overridden.
Declares(ps, result) == [i \in DOMAIN ps |-> Method("f", <<ps[i]>>, Class(result))]
Family(k) ==
    [Program EXCEPT !.facts =
        ("K" :> [Facts("class", <<>>, k.supers) EXCEPT !.members = Declares(k.own, "K")])
     @@ ("Base" :> [Facts("class", <<Param("Base", 1, <<>>)>>, k.above) EXCEPT !.members = Declares(k.base, "Base")])
     @@ ("Root" :> [Facts("interface", <<>>, <<>>) EXCEPT !.members = Declares(k.root, "Root")])
     @@ @, !.project = @ \cup {"K"}]
Lists(S) == {<<>>} \cup {<<t>> : t \in S} \cup {<<t, r>> : t, r \in S}
AskInherit ==
    \E supers \in {<<Named("Base", <<Dog>>)>>, <<Named("Base", <<Dog>>), Class("Root")>>, <<Object, Class("Root")>>},
       above \in {<<Object>>, <<Object, Class("Root")>>}, h \in {{}, {"Root"}} :
        \E own \in Lists({Dog, Animal}), base \in Lists({Var("Base", 1), Object}), root \in Lists({Dog, Object}) :
            /\ \A l \in {own, base, root} : IsInjective(l)
            /\ Ask([q |-> "inherit", h |-> h, k |-> [supers |-> supers, above |-> above, own |-> own, base |-> base, root |-> root]])

\* A generic method <T> f(...) called with values.
Tv == Var("f", 1)
Generic(ps, bounds) == [Method("f", ps, Tv) EXCEPT !.tparams = <<Param("f", 1, bounds)>>]
GenericMethods == {Generic(ps, b) : ps \in {<<Tv>>, <<Tv, Tv>>, <<List(Tv)>>, <<Collection(Extends(Tv)), Tv>>, <<ArrayOf(Tv)>>, <<Collection(Super(Tv)), Tv>>},
                                    b \in {<<>>, <<Animal>>}}
                  \cup {Varargs(Generic(<<Tv, ArrayOf(Tv)>>, <<>>))}
GenericArgs == {Dog, Animal, Prim("int"), Class("DogList"), List(Dog), Collection(Animal), ArrayOf(Dog), Null}
AskGeneric ==
    \E h \in {{}, {"Dog"}, {"Animal"}, {"List"}}, m \in GenericMethods, ts \in Lists(GenericArgs) :
        Ask([q |-> "generic", h |-> h, m |-> m, ts |-> ts])

\* Method references to methods g of Dog and its constructors.
Static(m) == [m EXCEPT !.static = TRUE]
Ctor(ps, access, declaring) ==
    [Method("new", ps, Void) EXCEPT !.kind = "constructor", !.access = access, !.declaring = declaring]
ReferencePool == <<Method("g", <<>>, Prim("boolean")), Static(Method("g", <<Dog>>, Prim("boolean"))), Static(Method("g", <<Animal>>, Class("Boolean"))),
                   Static(Method("g", <<>>, Dog)), Static(Method("g", <<Prim("int")>>, Void)), Ctor(<<>>, "public", "Main")>>
Kennel(S) == LET order == SelectSeq([i \in DOMAIN ReferencePool |-> i], LAMBDA i : i \in S)
             IN  [Program EXCEPT !.facts["Dog"].members = [i \in DOMAIN order |-> ReferencePool[order[i]]]]
AskReference ==
    \E h \in {{}, {"Animal"}}, S \in SUBSET DOMAIN ReferencePool, t \in Targets, static \in BOOLEAN, name \in {"g", "new"} :
        Ask([q |-> "reference", h |-> h, S |-> S, t |-> t, ref |-> [recv |-> Dog, static |-> static, name |-> name]])

\* Classes to create: Box<T> is concrete, Shape abstract, Color an enum,
\* Main$Part an inner class, Vault and Den restrict their constructors.
Tb == Var("Box", 1)
Creatable(ctors) ==
    [Program EXCEPT !.facts =
        ("Box" :> [Facts("class", <<Param("Box", 1, <<>>)>>, <<Object>>) EXCEPT !.members = ctors])
     @@ ("Shape" :> [Facts("class", <<>>, <<Object>>) EXCEPT !.abstract = TRUE, !.members = <<Ctor(<<>>, "public", "Main")>>])
     @@ ("Color" :> [Facts("enum", <<>>, <<Object>>) EXCEPT !.members = <<Ctor(<<>>, "private", "Main")>>])
     @@ ("Main$Part" :> [Facts("class", <<>>, <<Object>>) EXCEPT !.static = FALSE, !.enclosing = "Main",
                                                                  !.members = <<Ctor(<<>>, "public", "Main")>>])
     @@ ("Vault" :> [Facts("class", <<>>, <<Object>>) EXCEPT !.members = <<Ctor(<<>>, "private", "Vault"), Ctor(<<Dog>>, "private", "Vault"),
                                                                             Ctor(<<Animal>>, "public", "Vault")>>])
     @@ ("Den" :> [Facts("class", <<>>, <<Object>>) EXCEPT !.members = <<Ctor(<<>>, "package", "Den"), Ctor(<<Dog>>, "protected", "Den")>>])
     @@ @]
New(type, args) == [Call(None, "", Values(args)) EXCEPT !.new = TRUE, !.type = type]
AskCreate ==
    \/ \E c \in {"Shape", "Color", "Main$Part", "Vault", "Den", "Runnable", "Missing"}, anonymous, qualified \in BOOLEAN,
          within \in {<<"Main">>, <<"Vault$Door", "Vault">>, <<"Den">>, <<>>}, ts \in {<<>>, <<Dog>>} :
          LET site == IF within = <<"Den">> THEN "zoo" ELSE "app"
          IN  Ask([q |-> "create", ctors |-> <<>>,
                   call |-> [New(Class(c), ts) EXCEPT !.anonymous = anonymous, !.qualified = qualified, !.within = within, !.pkg = site]])
    \/ \E ctors \in {<<Ctor(<<Tb>>, "public", "Main")>>, <<Ctor(<<Tb>>, "public", "Main"), Ctor(<<Animal>>, "public", "Main")>>,
                      <<Ctor(<<Tb, Tb>>, "public", "Main"), Ctor(<<Object, Tb>>, "public", "Main")>>, <<Ctor(<<>>, "public", "Main")>>},
          args \in {<<>>, <<Dog>>, <<Animal>>}, ts \in Lists({Dog, Animal}),
          target \in {None, Object, Class("Box"), Named("Box", <<Dog>>), Named("Box", <<Animal>>), List(Dog)} :
          Ask([q |-> "create", ctors |-> ctors,
               call |-> [New(Named("Box", args), ts) EXCEPT !.diamond = (args = <<>>), !.target = target, !.declared = target]])

\* A lambda as the argument of an overloaded method.
LambdaPool == <<Method("f", <<Class("Runnable")>>, Void), Method("f", <<Named("Callable", <<Dog>>)>>, Void),
                Method("f", <<Named("Tester", <<Dog>>)>>, Void), Method("f", <<Class("DogTester")>>, Void)>>
LambdaBodies == {Stmt("block", <<s>>) : s \in Leaf} \cup {[Stmt("call", <<>>) EXCEPT !.t = t] : t \in {Void, Dog}} \cup {Stmt("value", <<>>)}
AskArgument ==
    \E S \in SUBSET DOMAIN LambdaPool, b \in LambdaBodies, ps \in {<<>>, <<None>>, <<Dog>>} :
        Ask([q |-> "argument", S |-> S, l |-> [params |-> ps, body |-> b]])

Known(t) == ~ContainsUnknown(t)
\* Properties -----------------------------------------------------------------
\* assignable_refs and is_subtype (resolve.rs) never guess: whatever classes
\* cannot be resolved, "assignable" is said only of what Java accepts in the
\* whole program and "not assignable" only of what it rejects.
NeverGuesses ==
    query.q = "assign" =>
        LET said == AssignableRefs(Seen(Program, query.h), query.a, query.e)
            may == Converts(Program, query.a, query.e, TRUE)
        IN  Known(query.a) /\ Known(query.e) /\ query.e.k # "var" =>
                /\ said = "yes" => may
                /\ said = "no" => ~may /\ ~MayNarrow(query.a, query.e)

\* With every class resolvable the engine decides: it is silent only about
\* unknown types, type variables, raw uses, narrowed constants and wildcards
\* of opposite directions.
Decides ==
    query.q = "assign" /\ query.h = {} =>
        LET said == AssignableRefs(Program, query.a, query.e)
            Plain(t) == Known(t) /\ t.k # "var" /\ t # Class("List") /\ t # Class("Pair")
            Mixed == \E i \in DOMAIN query.a.args, j \in DOMAIN query.e.args :
                        query.a.args[i].k = "wild" /\ query.e.args[j].k = "wild" /\ query.a.args[i].id # query.e.args[j].id
        IN  Plain(query.a) /\ Plain(query.e) /\ ~Mixed /\ ~MayNarrow(query.a, query.e) => said # "unknown"

\* resolve_method_call: the method it selects is the one Java selects in the
\* whole program, and "no applicable method" is true there, whatever classes
\* cannot be resolved.
SelectionSound ==
    query.q = "call" =>
        LET w == Overloaded(Chosen(query.S))
            call == Call(Class("C"), "f", Values(query.ts))
            cs == MethodCandidates(w, Class("C"), "f", FALSE).cs
            said == ResolveMethodCall(Seen(w, query.h), call)
        IN  /\ said.k = "selected" => Preferred(w, cs, call.args) = {said.i}
            /\ said.k = "noApplicable" => FirstApplicable(w, cs, call.args) = {}
            /\ query.h = {} => said.k # "unknown"

\* functional_descriptor: the one method a lambda implements, found whatever
\* route the interface inherits it by; methods of Object and overridden
\* declarations do not count.  Nothing is said when a supertype is missing.
DescriptorExact ==
    query.q = "descriptor" =>
        LET t == GroundTargetType(query.t)
            d == FunctionalDescriptor(Seen(Program, query.h), query.t)
            Env(s) == TypeEnvironment(Program.facts[s.id].params, s.args)[2]
            Sig(s, m) == [name |-> m.name, params |-> SubstituteAll(m.params, Env(s)), result |-> Substitute(m.result, Env(s))]
            of(isAbstract) == UNION {{Sig(s, m) : m \in {m \in Range(Program.facts[s.id].members) : m.abstract = isAbstract}} :
                                        s \in Supertypes(Program, t)}
            open == {m \in of(TRUE) : \A c \in of(FALSE) : c.name # m.name \/ c.params # m.params}
            functional == Program.facts[t.id].kind = "interface" /\ Cardinality(open) = 1
        IN  /\ d # NoDescriptor => functional /\ \A m \in open : d = [params |-> m.params, result |-> m.result]
            /\ query.h = {} /\ functional => d # NoDescriptor

\* The statements a block runs one after the other, those of blocks in it too.
RECURSIVE Straight(_)
Straight(s) == IF s.k = "block" THEN UNION {Straight(s.body[i]) : i \in DOMAIN s.body} ELSE {s}

\* The body returns nowhere and never completes, but neither by a throw nor by
\* an endless while or for of its own: only because every branch of an if/else
\* or a try throws, or what it holds under synchronized or do does not complete.
OnlyByBranches(b) ==
    /\ b.k = "block" /\ Returns(b) = {} /\ ~Completes(b)
    /\ \A s \in Straight(b) : s.k \notin {"throw", "forever"}

\* A lambda that Java accepts for an interface is rejected by lambda_compatible
\* in one case only: the interface wants a value, and the body fits because it
\* never completes, but OnlyByBranches; lambda_block_completes_normally takes
\* every if, try, synchronized and do as completing.  A lambda is taken only if
\* the number and the types of its parameters fit.
LambdaVerdicts ==
    query.q = "lambda" =>
        LET d == FunctionalDescriptor(Program, query.t)
            ps == query.l.params
            fits == /\ Len(ps) = Len(d.params)
                    /\ \A i \in DOMAIN ps : ps[i] \in {None, d.params[i]}
                    /\ IF d.result = Void THEN VoidCompatible(query.l.body) ELSE ValueCompatible(query.l.body)
            said == LambdaCompatible(Seen(Program, query.h), query.l, query.t)
        IN  d # NoDescriptor =>
                /\ said = "no" /\ fits => d.result # Void /\ OnlyByBranches(query.l.body)
                /\ said = "yes" => Len(ps) = Len(d.params) /\ \A i \in DOMAIN ps : ps[i] \in {None, d.params[i]}

\* type_as_supertype, member_type_through and iterable_element_type: what a
\* value of a class gives through a supertype has the class's own type
\* arguments put in, along every route; nothing is said of what is missing.
ThroughSupertypes ==
    query.q = "through" =>
        LET w == Seen(Program, query.h)
            views(id) == {s \in IF query.t.k = "named" THEN Supertypes(Program, query.t) ELSE {} : s.id = id}
            second == MemberTypeThrough(w, query.t, "Pair", "second", "method")
            element == IterableElement(w, query.t)
        IN  query.t.id \notin query.h =>
            /\ second \notin {None, Unknown} => \E s \in views("Pair") : second = IF s.args = <<>> THEN Animal ELSE s.args[2]
            /\ element # None => query.t = ArrayOf(element) \/ \E s \in views("Iterable") : s.args = <<element>>
            /\ query.h = {} /\ (\E s \in views("Pair") : TRUE) => second # None
            /\ query.h = {} /\ (\E s \in views("Iterable") : s.args # <<>> /\ s.args[1].k # "wild") => element # None

\* method_candidates: every signature of the name in the hierarchy is there
\* once, and the receiver's own declaration stands for those it overrides;
\* a hierarchy with a gap gives nothing.
CandidatesExact ==
    query.q = "inherit" =>
        LET w == Family(query.k)
            found == MethodCandidates(Seen(w, query.h), Class("K"), "f", FALSE)
            Of(s) == {<<Substitute(m.params[1], ZipEnv(w.facts[s.id].params, s.args)), m.result.id>> :
                         m \in {m \in Range(w.facts[s.id].members) : m.name = "f"}}
            declared == UNION {Of(s) : s \in Supertypes(w, Class("K"))}
            given == [i \in DOMAIN found.cs |-> <<ParamsOf(found.cs[i])[1], found.cs[i].m.result.id>>]
        IN  /\ found.ok => /\ {d[1] : d \in declared} = {given[i][1] : i \in DOMAIN given}
                           /\ Range(given) \subseteq declared
                           /\ \A i, j \in DOMAIN given : given[i][1] = given[j][1] => i = j
                           /\ \A d \in declared : d[2] = "K" => d \in Range(given)
            /\ query.h = {} => found.ok

\* infer_method_type_arguments: a type argument is inferred only if every
\* argument that mentions the variable agrees on it, and the bound holds; a
\* call it makes applicable is one Java accepts with that type argument.
InferenceSound ==
    query.q = "generic" =>
        LET w == Overloaded(<<query.m>>)
            c == InferMethodTypeArguments(Seen(w, query.h), Candidate(query.m, <<>>, <<>>), Values(query.ts))
            said == ResolveMethodCall(Seen(w, query.h), Call(Class("C"), "f", Values(query.ts)))
        IN  /\ Len(c.env) <= 1
            /\ \A i \in DOMAIN c.env : \A b \in Range(query.m.tparams[1].bounds) : Converts(w, c.env[i].to, b, TRUE)
            /\ said.k = "selected" => FirstApplicable(w, <<c>>, Values(query.ts)) # {}
            /\ \A i, j \in DOMAIN query.ts \cap DOMAIN query.m.params :
                 query.m.params[i] = Tv /\ query.m.params[j] = Tv /\ c.env # <<>> /\ Null \notin Range(query.ts)
                    => query.ts[i] = query.ts[j]

\* method_reference_resolution, when it must prove its answer: the method it
\* names is the only one that fits the interface's method, with the first
\* parameter as the receiver where a type names an instance method.
ReferencesSound ==
    query.q = "reference" =>
        LET w == Kennel(query.S)
            d == FunctionalDescriptor(w, query.t)
            said == MethodReferenceResolution(Seen(w, query.h), query.ref, query.t, "proof")
            Applied(m, ts) == \E phase \in {"strict", "loose"} : Applies(w, Candidate(m, <<>>, <<>>), Values(ts), phase)
            Fits(m) == /\ m.name = query.ref.name
                       /\ IF m.kind = "constructor" \/ m.static = query.ref.static THEN Applied(m, d.params)
                          ELSE query.ref.static /\ d.params # <<>> /\ Subtype(w, d.params[1], Dog) /\ Applied(m, Tail(d.params))
            Gives(m) == IF m.kind = "constructor" THEN Dog ELSE m.result
            fitting == {m \in Range(w.facts["Dog"].members) : Fits(m)}
        IN  /\ said.ok => \E m \in fitting : /\ said.params = m.params /\ said.result = Gives(m)
                                             /\ d.result = Void \/ Converts(w, Gives(m), d.result, TRUE)
            /\ said.ok /\ Cardinality(fitting) > 1 => \A m \in fitting : m.params # <<>>

\* resolve_constructor_call: a class is reported as not instantiable only where
\* it is so; the constructor reported as not accessible is the one that fits
\* best of all the class has and is hidden from the call (it is selected before
\* its access is looked at, so there may be an accessible one that fits less
\* well, which Java would take); a created type has the type arguments of its
\* target or such as accept the constructor's arguments.
CreationSound ==
    query.q = "create" =>
        LET w == Creatable(query.ctors)
            call == query.call
            said == ResolveConstructorCall(w, call)
            f == w.facts[call.type.id]
            visible == {m \in Range(f.members) :
                           \/ m.access = "public"
                           \/ m.access = "private" /\ \E i \in DOMAIN call.within : w.nest[call.within[i]] = w.nest[m.declaring]
                           \/ m.access \in {"package", "protected"} /\ call.pkg = w.pkg[m.declaring]}
            env == ZipEnv(f.params, said.result.args)
            cs == ConstructorCandidates(f, call, ZipEnv(f.params, call.type.args))
        IN  IF call.type.id \notin DOMAIN w.facts THEN said.k = "unknown"
            ELSE /\ said.k = "abstract" <=> f.kind = "enum" \/ (~call.anonymous /\ f.abstract)
                 /\ said.k = "enclosing" => ~call.qualified /\ f.enclosing \notin Range(call.within) \cup {""}
                 /\ said.k = "inaccessible" => \E i \in DOMAIN cs : Preferred(w, cs, call.args) = {i} /\ cs[i].m \notin visible
                 /\ said.k = "selected" /\ f.kind = "class" => \E m \in visible : Applies(w, Candidate(m, env, <<>>), call.args, "strict")
                 /\ said.k = "selected" /\ call.diamond /\ call.target.id = "Box" /\ call.target.args # <<>> => said.result = call.target
                 /\ said.k = "selected" /\ ~call.diamond => said.result = call.type

\* expected_argument_type, target_type and the inferred type of a lambda's
\* parameter: they come from the overload Java selects for that lambda.
LambdaArguments ==
    query.q = "argument" =>
        LET order == SelectSeq([i \in DOMAIN LambdaPool |-> i], LAMBDA i : i \in query.S)
            w == Overloaded([i \in DOMAIN order |-> LambdaPool[order[i]]])
            call == Call(Class("C"), "f", <<Lambda(query.l)>>)
            path == <<[k |-> "paren", t |-> None, call |-> call, n |-> 0], [k |-> "argument", t |-> None, call |-> call, n |-> 1]>>
            D(i) == FunctionalDescriptor(w, LambdaPool[i].params[1])
            applicable == {i \in query.S : /\ Len(D(i).params) = Len(query.l.params)
                                           /\ \A n \in DOMAIN query.l.params : query.l.params[n] \in {None, D(i).params[n]}
                                           /\ IF D(i).result = Void THEN VoidCompatible(query.l.body) ELSE ValueCompatible(query.l.body)}
            Beats(i, j) == \/ Subtype(w, LambdaPool[i].params[1], LambdaPool[j].params[1])
                           \/ D(j).result = Void /\ D(i).result # Void
            best == {i \in applicable : \A j \in applicable : Beats(i, j)}
            target == TargetType(w, path)
        IN  /\ target # None => {target} = {LambdaPool[i].params[1] : i \in best}
            /\ query.l.params # <<>> => InferredLambdaParameter(w, path, 1) =
                                          IF target = None THEN None ELSE D(CHOOSE i \in best : TRUE).params[1]
            /\ best # {} => target # None

-----------------------------------------------------------------------------
(* What the run checks, by the subject of the query; the conjuncts are stated
   one by one above and in MCToolchain.                                      *)

\* What the debuggee sends and holds is read as it is: replies, values and
\* event sets to their last byte or not at all, commands as the protocol wants
\* them; frames, fields, lines and handles shown as they are there; and the
\* program started with a classpath that has what is run (the jdwp
\* module, session.rs, launch.rs).
DebuggeeRead == [][Answer =>
    /\ RepliesDecoded /\ SizesUsable /\ CommandsWellFormed /\ ValuesDecoded /\ EventsDecoded
    /\ TextTruncated /\ HandlesNeverReused /\ FramesWithinStack /\ FieldsInherited
    /\ LineHoldsIndex /\ PackageIsFirstWord /\ LaunchPlanSound]_vars

\* The classpath is that of the build files: the nearest version of each
\* artifact without the excluded ones, each version from the model in force,
\* from whichever cache has it, nothing lost without a note, and what is missing
\* (and only that) named for download (maven.rs, gradle.rs, resolve.rs).
ResolutionSound == [][Answer =>
    /\ NearestWins /\ NothingLostSilently /\ ExclusionsHold /\ EffectiveVersion
    /\ ParentInsideProject /\ EitherCache /\ VersionsAgree /\ OnlyMissingFetched]_vars

\* A class is read from the first archive that can give it, with every access
\* inside the file, its parts in step with its signature, and the index offers
\* the names that are there (zip.rs, class_info.rs, index.rs).
ArchivesSound == [][Answer =>
    /\ ZipEntriesSound /\ ReadsWithinFile /\ FirstUsableClass /\ PrefixBest /\ ChildrenExact
    /\ ClassFileAligned]_vars

\* Assignability is decided as Java decides it, through every supertype route,
\* and left open where a class is missing (is_assignable, type_as_supertype).
RelationsSound == [][Answer =>
    /\ NeverGuesses /\ Decides /\ ThroughSupertypes]_vars

\* The method or constructor named for a call is the one Java selects, from the
\* candidates Java considers, with type arguments it accepts
\* (resolve_method_call, resolve_constructor_call).
SelectionsSound == [][Answer =>
    /\ SelectionSound /\ CandidatesExact /\ InferenceSound /\ CreationSound]_vars

\* Lambdas and method references mean what their target type makes of them,
\* but for value lambdas whose every branch throws, as stated in LambdaVerdicts
\* (functional_descriptor, lambda_compatible, method_reference_resolution,
\* target_type).
LambdasSound == [][Answer =>
    /\ DescriptorExact /\ LambdaVerdicts /\ ReferencesSound /\ LambdaArguments]_vars

Next == \/ query = Idle /\ (\/ AskToolchain \/ AskDescriptor \/ AskArgument \/ AskLambda \/ AskThrough \/ AskInherit
                             \/ AskGeneric \/ AskReference \/ AskCreate \/ AskAssign \/ AskCall)
        \/ Answer
Spec == Init /\ [][Next]_vars
=============================================================================
