----------------------------- MODULE Overloads -----------------------------
(***************************************************************************)
(* Method and constructor applicability (crates/syntax/src/call.rs): the   *)
(* three phases of overload selection, lambdas and method references as    *)
(* arguments, inference of type arguments, constructors and the diamond.   *)
(*                                                                         *)
(* A member is [name, kind, static, abstract, access, known (it has        *)
(* metadata), header (its parameter list parsed), params, result, tparams, *)
(* varargs, declaring].  A candidate is [m, env, inferred].  An argument   *)
(* is a value of some type, a lambda [params, body] or a method reference  *)
(* [recv, static, name], name "new" being a constructor.                   *)
(***************************************************************************)
EXTENDS TypeRelations

Phases == <<"strict", "loose", "varargs">>
Candidate(m, env, inferred) == [m |-> m, env |-> env, inferred |-> inferred]
NoLambda == [params |-> <<>>, body |-> [k |-> "value", t |-> None, body |-> <<>>]]
NoReference == [recv |-> None, static |-> FALSE, name |-> ""]
Value(t) == [k |-> "value", t |-> t, lambda |-> NoLambda, ref |-> NoReference]
Lambda(l) == [k |-> "lambda", t |-> None, lambda |-> l, ref |-> NoReference]
ParamsOf(c) == SubstituteAll(c.m.params, c.env)

\* arguments: one unresolvable value makes the whole list unusable.
Arguments(as) == IF \E i \in DOMAIN as : as[i].k = "value" /\ as[i].t = None THEN <<FALSE, <<>>>> ELSE <<TRUE, as>>

-----------------------------------------------------------------------------
(***************************************************************************)
(* Functional interfaces                                                   *)
(***************************************************************************)
RECURSIVE GroundTargetType(_)
GroundTargetType(t) ==
    CASE t = Wild -> Object
      [] t.k = "wild" -> GroundTargetType(t.args[1])
      [] t.k \in {"named", "array"} -> [t EXCEPT !.args = [i \in DOMAIN t.args |-> GroundTargetType(t.args[i])]]
      [] OTHER -> t

RECURSIVE EraseToObject(_)
EraseToObject(t) ==
    CASE t.k = "var" -> Object
      [] t.k \in {"named", "array"} -> [t EXCEPT !.args = [i \in DOMAIN t.args |-> EraseToObject(t.args[i])]]
      [] OTHER -> t

\* the key two declarations of one method share
SignatureKey(ps) == [i \in DOMAIN ps |-> EraseToObject(Erase(ps[i]))]

IsObjectMethod(name, ps) ==
    \/ name \in {"hashCode", "toString"} /\ ps = <<>>
    \/ name = "equals" /\ ps = <<Object>>

NoDescriptor == [params |-> <<>>, result |-> None]

\* the methods functional_descriptor looks at
CountsAbstract(m, ps) == m.kind = "method" /\ ~m.static /\ m.access # "private" /\ ~IsObjectMethod(m.name, ps)

\* The walk over an interface and its supertypes, last supertype first: the
\* abstract methods whose signature was not met before.  "stop" when
\* something cannot be resolved.
RECURSIVE AbstractMethods(_, _, _, _, _)
AbstractMethods(w, stack, visited, seen, out) ==
    IF stack = <<>> THEN [ok |-> TRUE, out |-> out]
    ELSE LET t == Last(stack).t
             f == ClassFacts(w, t.id)
             env == TypeEnvironment(f.params, t.args)
             Ps(m) == [i \in DOMAIN m.params |-> GroundTargetType(Substitute(m.params[i], env[2]))]
             Key(m) == <<m.name, SignatureKey(Ps(m))>>
             counted == SelectSeq(f.members, LAMBDA m : CountsAbstract(m, Ps(m)))
             \* within one type the first declaration of a signature is kept
             fresh == SelectSeq([i \in DOMAIN counted |-> i],
                                LAMBDA i : Key(counted[i]) \notin seen /\ \A j \in 1 .. i - 1 : Key(counted[j]) # Key(counted[i]))
             abs == SelectSeq([i \in DOMAIN fresh |-> counted[fresh[i]]], LAMBDA m : m.abstract)
             more == [i \in DOMAIN f.supers |-> [t |-> Substitute(f.supers[i], env[2]), depth |-> Last(stack).depth + 1]]
         IN  CASE Last(stack).depth > 64 \/ t \in visited -> AbstractMethods(w, Front(stack), visited, seen, out)
               [] t.k # "named" \/ f = NoFacts -> [ok |-> FALSE, out |-> <<>>]
               [] ~f.complete \/ ~env[1] -> [ok |-> FALSE, out |-> <<>>]
               [] \E i \in DOMAIN f.members : f.members[i].kind = "method" /\ ~f.members[i].static
                                               /\ (~f.members[i].known \/ (~f.members[i].header /\ f.members[i].access # "private")) -> [ok |-> FALSE, out |-> <<>>]
               [] \E i \in DOMAIN abs : abs[i].tparams # <<>> -> [ok |-> FALSE, out |-> <<>>]
               [] OTHER -> AbstractMethods(w, Front(stack) \o more, visited \cup {t},
                                           seen \cup {Key(counted[i]) : i \in DOMAIN counted},
                                           out \o [i \in DOMAIN abs |->
                                                     [params |-> Ps(abs[i]),
                                                      result |-> GroundTargetType(Substitute(abs[i].result, env[2]))]])

\* functional_descriptor: exactly one abstract method
FunctionalDescriptor(w, target) ==
    LET t == GroundTargetType(target)
        found == AbstractMethods(w, <<[t |-> t, depth |-> 0]>>, {}, {}, <<>>)
    IN  IF t.k # "named" \/ ClassFacts(w, t.id).kind # "interface" THEN NoDescriptor
        ELSE IF found.ok /\ Len(found.out) = 1 THEN found.out[1] ELSE NoDescriptor

-----------------------------------------------------------------------------
(***************************************************************************)
(* Lambda bodies.  A statement is [k, body]; the kinds that hold others    *)
(* list them in body.                                                      *)
(***************************************************************************)
\* A mutant of LambdaReturns: the returns of a nested lambda are counted.
RECURSIVE LambdaReturnsNested(_, _)
LambdaReturnsNested(s, kind) == s.k = kind \/ \E i \in DOMAIN s.body : LambdaReturnsNested(s.body[i], kind)

\* collect_lambda_returns: not those of a nested lambda or class body
RECURSIVE LambdaReturns(_, _)
LambdaReturns(s, kind) ==
    s.k = kind \/ (s.k \notin {"lambda", "class"} /\ \E i \in DOMAIN s.body : LambdaReturns(s.body[i], kind))

\* lambda_block_completes_normally: anything not modelled completes
RECURSIVE LambdaCompletes(_)
LambdaCompletes(s) ==
    CASE s.k \in {"return", "returnValue", "throw", "forever"} -> FALSE
      [] s.k = "block" -> \A i \in DOMAIN s.body : LambdaCompletes(s.body[i])
      [] OTHER -> TRUE

\* compute_lambda_body_shape
LambdaBodyShape(l) ==
    LET b == l.body
        value == LambdaReturns(b, "returnValue")
        bare == LambdaReturns(b, "return")
    IN  CASE b.k = "call" -> IF b.t = Void THEN "void" ELSE "either"
          [] b.k \in {"new", "assign", "update"} -> "either"
          [] b.k # "block" -> "value"
          [] value /\ bare -> "unknown"
          [] value -> "value"
          [] bare -> "void"
          [] OTHER -> IF LambdaCompletes(b) THEN "void" ELSE "either"

\* lambda_compatible: arity, then the shape of the body, then the declared
\* parameter types, which must agree both ways.
LambdaCompatible(w, l, target) ==
    LET d == FunctionalDescriptor(w, target)
        shape == LambdaBodyShape(l)
        declared == {i \in DOMAIN l.params : l.params[i] # None}
    IN  CASE d = NoDescriptor -> "unknown"
          [] Len(l.params) # Len(d.params) -> "no"
          [] shape = "void" /\ d.result # Void -> "no"
          [] shape = "value" /\ d.result = Void -> "no"
          [] OTHER -> AllProved({IF l.params[i] = d.params[i] THEN "yes"
                                 ELSE AllProved({AssignableRefs(w, l.params[i], d.params[i]),
                                                 AssignableRefs(w, d.params[i], l.params[i])}) : i \in declared})
-----------------------------------------------------------------------------
(***************************************************************************)
(* Applicability                                                           *)
(***************************************************************************)
RECURSIVE SelectCandidate(_, _, _)
RECURSIVE MethodReferenceResolution(_, _, _, _)

\* A mutant of Convertible: the strict phase boxes.
ConvertibleBoxing(w, a, p, phase) ==
    IF a.k = "prim" /\ p.k = "prim" THEN Verdict(a = p \/ WidensTo(a.id, p.id)) ELSE AssignableRefs(w, a, p)

\* convertible: no constant narrows, and nothing boxes in the strict phase
Convertible(w, a, p, phase) ==
    CASE a.k = "prim" /\ p.k = "prim" -> Verdict(a = p \/ WidensTo(a.id, p.id))
      [] phase = "strict" /\ (a.k = "prim" \/ p.k = "prim") -> "no"
      [] OTHER -> AssignableRefs(w, a, p)

ArgumentCompatible(w, a, p, phase) ==
    CASE a.k = "value" -> Convertible(w, a.t, p, phase)
      [] a.k = "lambda" -> LambdaCompatible(w, a.lambda, p)
      [] OTHER -> IF MethodReferenceResolution(w, a.ref, p, "proof").ok THEN "yes" ELSE "unknown"

ArityExcluded(c, n) == c.m.header /\ (IF c.m.varargs THEN n + 1 < Len(c.m.params) ELSE n # Len(c.m.params))

\* applicable_in: one candidate in one phase
ApplicableIn(w, c, args, phase) ==
    LET ps == ParamsOf(c)
        fixed == Len(ps) - 1
    IN  CASE ~c.m.header -> "unknown"
          [] \E i \in DOMAIN ps : ContainsUnknown(ps[i]) -> IF ArityExcluded(c, Len(args)) THEN "no" ELSE "unknown"
          [] phase # "varargs" ->
                 IF Len(ps) # Len(args) THEN "no"
                 ELSE AllProved({ArgumentCompatible(w, args[i], ps[i], phase) : i \in DOMAIN args})
          [] ~c.m.varargs \/ Len(args) + 1 < Len(ps) -> "no"
          [] Last(ps).k # "array" -> "unknown"
          [] OTHER -> AllProved({ArgumentCompatible(w, args[i], IF i <= fixed THEN ps[i] ELSE Last(ps).args[1], "loose") :
                                     i \in DOMAIN args})

-----------------------------------------------------------------------------
(***************************************************************************)
(* The most specific candidate of cs[i], i \in S (a set of positions)      *)
(***************************************************************************)
Dominates(w, cs, i, j) ==
    AllProved({AssignableRefs(w, ParamsOf(cs[i])[n], ParamsOf(cs[j])[n]) : n \in DOMAIN cs[i].m.params}) = "yes"

\* subtyping_winner: 0 when no position, or more than one, dominates the
\* others; a difference of arity met while comparing ends the comparison.
SubtypingWinner(w, cs, S) ==
    LET Differs(i, j) == Len(cs[i].m.params) # Len(cs[j].m.params)
        Offends(i, j) == j # i /\ (Differs(i, j) \/ ~Dominates(w, cs, i, j))
        offenders(i) == {j \in S : Offends(i, j)}
        first(i) == CHOOSE j \in offenders(i) : \A k \in offenders(i) : j <= k
        best == {i \in S : offenders(i) = {}}
    IN  IF Cardinality(best) # 1 \/ \E i \in S \ best : Differs(i, first(i)) THEN 0
        ELSE CHOOSE i \in best : TRUE

\* narrow_by_lambda_result: for a lambda that can give a value, a descriptor
\* with a result is preferred to a void one; any unknown descriptor abstains.
NarrowByLambdaResult(w, cs, S, args) ==
    LET Result(i, n) == IF n \in DOMAIN cs[i].m.params THEN FunctionalDescriptor(w, ParamsOf(cs[i])[n]).result ELSE None
        Narrow(kept, n) ==
            LET value == {i \in kept : Result(i, n) \notin {None, Void}}
                void == {i \in kept : Result(i, n) = Void}
            IN  IF args[n].k = "lambda" /\ LambdaBodyShape(args[n].lambda) \in {"either", "value"}
                   /\ value # {} /\ value \cup void = kept
                THEN value ELSE kept
    IN  FoldLeft(Narrow, S, [n \in DOMAIN args |-> n])

\* narrow_by_inference_variables: an open variable is preferred to a
\* concrete type, position by position
NarrowByInferenceVariables(cs, S) ==
    LET arities == {Len(cs[i].m.params) : i \in S}
        Narrow(kept, n) ==
            LET open == {i \in kept : cs[i].m.params[n] \in Range(cs[i].inferred)}
            IN  IF open # {} THEN open ELSE kept
    IN  IF Cardinality(arities) # 1 THEN S
        ELSE FoldLeft(Narrow, S, [n \in 1 .. (CHOOSE a \in arities : TRUE) |-> n])

MostSpecific(w, cs, S, args) ==
    LET Decide(N) == IF Cardinality(N) = 1 THEN CHOOSE i \in N : TRUE ELSE SubtypingWinner(w, cs, N)
        byLambda == NarrowByLambdaResult(w, cs, S, args)
        byVariable == NarrowByInferenceVariables(cs, S)
    IN  CASE Decide(S) # 0 -> Decide(S)
          [] byLambda # S -> Decide(byLambda)
          [] byVariable # S -> Decide(byVariable)
          [] OTHER -> 0

-----------------------------------------------------------------------------
(***************************************************************************)
(* Selection: [k, i, phase], i the position of the selected candidate      *)
(***************************************************************************)
Selection(k, i, phase) == [k |-> k, i |-> i, phase |-> phase]

\* one turn of the loop over the phases, given what each candidate came to
PhaseSelection(w, cs, verdict, args, phase) ==
    LET yes == {i \in DOMAIN cs : verdict[i] = "yes"}
        best == MostSpecific(w, cs, yes, args)
    IN  CASE \E i \in DOMAIN cs : verdict[i] = "unknown" -> Selection("unknown", 0, phase)
          [] yes = {} -> Selection("next", 0, phase)
          [] best = 0 -> Selection("ambiguous", 0, phase)
          [] OTHER -> Selection("selected", best, phase)

\* the loop over the phases, given the verdicts of each phase
InPhases(w, cs, args, verdicts) ==
    FoldLeft(LAMBDA s, phase : IF s.k # "next" THEN s ELSE PhaseSelection(w, cs, verdicts[phase], args, phase),
             Selection("next", 0, "strict"), Phases)

\* select_candidate
SelectCandidate(w, cs, args) ==
    LET verdicts == [phase \in Range(Phases) |-> [i \in DOMAIN cs |-> ApplicableIn(w, cs[i], args, phase)]]
        s == InPhases(w, cs, args, verdicts)
    IN  IF cs = <<>> THEN Selection("unknown", 0, "strict")
        ELSE IF s.k = "next" THEN Selection("noApplicable", 0, "varargs") ELSE s

\* selected_parameter: the type the chosen candidate gives to an argument
SelectedParameter(c, phase, n) ==
    LET ps == ParamsOf(c)
    IN  CASE ~c.m.header -> None
          [] phase = "varargs" /\ n >= Len(ps) -> IF ps # <<>> /\ Last(ps).k = "array" THEN Last(ps).args[1] ELSE None
          [] OTHER -> IF n \in DOMAIN ps THEN ps[n] ELSE None
-----------------------------------------------------------------------------
(***************************************************************************)
(* The methods of a name a receiver has: its own, then those of its        *)
(* supertypes, the last supertype first; one signature is kept once.       *)
(***************************************************************************)
KeepsSignature(cs, m, env) ==
    \A i \in DOMAIN cs : SignatureKey(ParamsOf(cs[i])) # SignatureKey(SubstituteAll(m.params, env))

RECURSIVE CandidatesFrom(_, _, _, _, _)
CandidatesFrom(w, stack, visited, q, out) ==
    IF stack = <<>> THEN [ok |-> TRUE, cs |-> out]
    ELSE LET t == Last(stack).t
             f == ClassFacts(w, t.id)
             env == ZipEnv(f.params, t.args)
             named == SelectSeq(f.members, LAMBDA m : m.name = q.name /\ m.kind = "method")
             callable == SelectSeq(named, LAMBDA m : q.static => m.static)
             kept == FoldLeft(LAMBDA cs, m : IF KeepsSignature(cs, m, env)
                                             THEN Append(cs, Candidate(m, env, <<>>)) ELSE cs, out, callable)
             more == [i \in DOMAIN f.supers |-> [t |-> Substitute(f.supers[i], env), depth |-> Last(stack).depth + 1]]
         IN  CASE Last(stack).depth > 64 \/ t \in visited -> CandidatesFrom(w, Front(stack), visited, q, out)
               [] t.k # "named" -> [ok |-> FALSE, cs |-> <<>>]
               [] f = NoFacts \/ ~f.complete -> [ok |-> FALSE, cs |-> <<>>]
               [] \E i \in DOMAIN named : ~named[i].known -> [ok |-> FALSE, cs |-> <<>>]
               [] \E i \in DOMAIN callable : ~callable[i].header -> [ok |-> FALSE, cs |-> <<>>]
               [] kept = <<>> /\ t.id = "Object" /\ "Object" \notin DOMAIN w.facts -> [ok |-> FALSE, cs |-> <<>>]
               [] OTHER -> CandidatesFrom(w, Front(stack) \o more, visited \cup {t}, q, kept)
MethodCandidates(w, recv, name, static) ==
    CandidatesFrom(w, <<[t |-> recv, depth |-> 0]>>, {}, [name |-> name, static |-> static], <<>>)

-----------------------------------------------------------------------------
(***************************************************************************)
(* Method references                                                       *)
(***************************************************************************)
NoResolution == [ok |-> FALSE, params |-> <<>>, result |-> None]
ReferenceResult(w, actual, expected) ==
    CASE expected = Void -> "yes"
      [] actual = Void -> "no"
      [] expected.k \in {"var", "unknown"} -> "yes"
      [] OTHER -> Convertible(w, actual, expected, "loose")

\* the arguments a reference gives to a candidate: the first value of the
\* descriptor is the receiver when a type names an instance method.  "skip"
\* when the candidate is out, "unknown" when that cannot be told.
ReferenceArgs(w, r, d, c) ==
    LET vs == [i \in DOMAIN d.params |-> Value(d.params[i])]
        first == Convertible(w, d.params[1], r.recv, "strict")
    IN  CASE r.static = c.m.static -> [k |-> "args", as |-> vs]
          [] ~r.static \/ vs = <<>> -> [k |-> "skip", as |-> <<>>]
          [] OTHER -> [k |-> CASE first = "yes" -> "args" [] first = "no" -> "skip" [] OTHER -> "unknown",
                       as |-> Tail(vs)]

\* in display mode a type that is not known is read as the candidate's own
Relax(c, phase, as, mode) ==
    IF mode = "proof" THEN as
    ELSE [n \in DOMAIN as |-> IF ContainsUnknown(as[n].t) /\ SelectedParameter(c, phase, n) # None
                              THEN Value(SelectedParameter(c, phase, n)) ELSE as[n]]

ReferenceVerdict(w, r, d, c, phase, mode) ==
    LET given == ReferenceArgs(w, r, d, c)
        applies == ApplicableIn(w, c, Relax(c, phase, given.as, mode), phase)
    IN  CASE given.k = "skip" -> "no"
          [] given.k = "unknown" -> "unknown"
          [] applies # "yes" -> applies
          [] OTHER -> ReferenceResult(w, Substitute(c.m.result, c.env), d.result)

Constructors(f) == SelectSeq(f.members, LAMBDA m : m.kind = "constructor")

\* Type::new
ConstructorReference(w, r, d, mode) ==
    LET f == ClassFacts(w, r.recv.id)
        env == TypeEnvironment(f.params, r.recv.args)
        ctors == Constructors(f)
        cs == [i \in DOMAIN ctors |-> Candidate(ctors[i], env[2], <<>>)]
        s == SelectCandidate(w, cs, [i \in DOMAIN d.params |-> Value(d.params[i])])
        i == IF s.k = "selected" THEN s.i ELSE IF mode = "display" /\ Len(cs) = 1 THEN 1 ELSE 0
        fits == ReferenceResult(w, r.recv, d.result)
    IN  IF ~r.static \/ r.recv.k # "named" \/ f = NoFacts \/ ~f.ctors \/ ~env[1] \/ i = 0
           \/ fits = "no" \/ (fits = "unknown" /\ mode = "proof")
        THEN NoResolution
        ELSE [ok |-> TRUE, params |-> ParamsOf(cs[i]), result |-> r.recv]

\* method_reference_resolution
MethodReferenceResolution(w, r, target, mode) ==
    LET d == FunctionalDescriptor(w, target)
        found == MethodCandidates(w, r.recv, r.name, FALSE)
        verdicts == [phase \in Range(Phases) |->
                        [i \in DOMAIN found.cs |-> ReferenceVerdict(w, r, d, found.cs[i], phase, mode)]]
        s == InPhases(w, found.cs, <<>>, verdicts)
        c == found.cs[s.i]
    IN  CASE d = NoDescriptor \/ r.recv = None -> NoResolution
          [] r.name = "new" -> ConstructorReference(w, r, d, mode)
          [] ~found.ok \/ s.k # "selected" -> NoResolution
          [] OTHER -> [ok |-> TRUE, params |-> ParamsOf(c), result |-> Substitute(c.m.result, c.env)]

-----------------------------------------------------------------------------
(***************************************************************************)
(* Inference of a generic method's own type arguments                      *)
(***************************************************************************)
\* what one argument says: <<variable, type>> pairs, in order
RECURSIVE CollectInference(_, _, _, _)
CollectInference(w, open, formal, given) ==
    LET actual == IF given.k = "wild" /\ given # Wild THEN given.args[1] ELSE given
        view == TypeAsSupertype(w, actual, formal.id)
        Each(as, bs) == FlattenSeq([i \in DOMAIN as |-> CollectInference(w, open, as[i], bs[i])])
    IN  CASE given = Wild \/ given.k \in {"unknown", "null"} -> <<>>
          [] formal \in open -> <<[var |-> formal, to |-> IF actual.k = "prim" THEN Class(BoxFqn[actual.id]) ELSE actual]>>
          [] formal.k = "array" /\ actual.k = "array" -> Each(formal.args, actual.args)
          [] formal.k = "named" /\ actual.k = "named" /\ formal.id = actual.id ->
                 IF Len(formal.args) = Len(actual.args) THEN Each(formal.args, actual.args) ELSE <<>>
          [] formal.k = "named" /\ actual.k = "named" ->
                 IF view = None THEN <<>> ELSE CollectInference(w, open, formal, view)
          [] formal.k = "wild" /\ formal # Wild -> CollectInference(w, open, formal.args[1], actual)
          [] OTHER -> <<>>

\* the formal type an argument is matched with: the element of a varargs
\* parameter unless one array is passed for it
FormalOf(c, args, n) ==
    LET ps == c.m.params
        formal == IF n \in DOMAIN ps THEN ps[n] ELSE Last(ps)
        whole == Len(args) = Len(ps) /\ args[n].t.k = "array"
    IN  IF c.m.varargs /\ n >= Len(ps) /\ formal.k = "array" /\ ~whole THEN formal.args[1] ELSE formal

\* two different constraints on a variable leave it unbound
Agreed(said, v) ==
    /\ \E i \in DOMAIN said : said[i].var = v
    /\ \A i, j \in DOMAIN said : said[i].var = v /\ said[j].var = v => said[i].to = said[j].to

\* infer_method_type_arguments: a binding whose bound is not proved is dropped;
\* the variables are bound in the order their first constraint was met.
InferMethodTypeArguments(w, c, args) ==
    LET open == {Var(c.m.tparams[i].owner, c.m.tparams[i].ix) : i \in DOMAIN c.m.tparams}
        said == FlattenSeq([n \in DOMAIN args |->
                    IF args[n].k # "value" \/ c.m.params = <<>> THEN <<>>
                    ELSE CollectInference(w, open, Substitute(FormalOf(c, args, n), c.env), args[n].t)])
        firsts == SelectSeq([i \in DOMAIN said |-> i], LAMBDA i : \A j \in 1 .. i - 1 : said[j].var # said[i].var)
        Bounds(v) == c.m.tparams[v.ix].bounds
        Bind(env, i) ==
            IF Agreed(said, said[i].var)
               /\ \A b \in Range(Bounds(said[i].var)) : AssignableRefs(w, said[i].to, Substitute(b, env)) = "yes"
            THEN Append(env, said[i]) ELSE env
    IN  IF c.m.tparams = <<>> \/ ~c.m.header THEN c
        ELSE [c EXCEPT !.env = FoldLeft(Bind, c.env, firsts)]

-----------------------------------------------------------------------------
(***************************************************************************)
(* Method calls                                                            *)
(***************************************************************************)
\* method_call_inputs
MethodCallInputs(w, call) ==
    LET found == MethodCandidates(w, call.recv, call.name, call.static)
        args == Arguments(call.args)
    IN  [ok |-> call.recv # None /\ args[1] /\ found.ok,
         cs |-> [i \in DOMAIN found.cs |-> InferMethodTypeArguments(w, found.cs[i], call.args)]]

\* resolve_method_call
ResolveMethodCall(w, call) ==
    LET in == MethodCallInputs(w, call)
    IN  IF ~in.ok THEN Selection("unknown", 0, "strict") ELSE SelectCandidate(w, in.cs, call.args)

-----------------------------------------------------------------------------
(***************************************************************************)
(* Constructor calls.  A call is [type, anonymous, qualified, within (the  *)
(* binary names around it, innermost first), pkg, args, diamond, target    *)
(* (the type its position asks for), declared (that of the variable it     *)
(* initialises)].  w.nest and w.pkg give the top-level class and the       *)
(* package of a class name.                                                *)
(***************************************************************************)
ConstructorAccessible(w, m, call) ==
    CASE m.access = "public" -> "yes"
      [] m.access = "private" -> Verdict(call.within # <<>> /\ w.nest[call.within[1]] = w.nest[m.declaring])
      [] call.pkg = w.pkg[m.declaring] -> "yes"
      [] OTHER -> IF m.access = "protected" THEN "unknown" ELSE "no"

\* infer_env_from_args: a class parameter is bound by the first argument
\* passed for a parameter that is exactly that variable.
InferEnvFromArgs(params, m, args) ==
    LET Givers(v) == {n \in DOMAIN args \cap DOMAIN m.params : m.params[n] = v /\ args[n].k = "value"}
        given == SelectSeq(params, LAMBDA p : Givers(Var(p.owner, p.ix)) # {})
        First(v) == CHOOSE n \in Givers(v) : \A k \in Givers(v) : n <= k
    IN  IF ~m.header THEN <<>>
        ELSE [i \in DOMAIN given |-> [var |-> Var(given[i].owner, given[i].ix),
                                      to |-> args[First(Var(given[i].owner, given[i].ix))].t]]

\* diamond_env_from_target: only a target of this very class counts.
DiamondEnvFromTarget(id, params, target) ==
    IF target.k # "named" \/ target.id # id \/ target.args = <<>> \/ Len(target.args) # Len(params)
       \/ \E i \in DOMAIN target.args : target.args[i].k = "unknown"
    THEN <<FALSE, <<>>>> ELSE <<TRUE, ZipEnv(params, target.args)>>

Bound(env, v) ==
    LET hits == SelectSeq(env, LAMBDA b : b.var = v) IN IF hits = <<>> THEN Unknown ELSE Head(hits).to

\* infer_diamond: the arguments the selected constructor fixed, else those of
\* the declared variable, else a raw type
InferDiamond(f, id, c, declared) ==
    CASE f.params # <<>> /\ Len(c.env) = Len(f.params) ->
             Named(id, [i \in DOMAIN f.params |-> Bound(c.env, Var(f.params[i].owner, f.params[i].ix))])
      [] declared.k = "named" /\ declared.id = id /\ declared.args # <<>> -> declared
      [] OTHER -> Class(id)

\* why a class cannot be instantiated here, before its constructors are
\* looked at; "" when it can
InstantiationError(f, call) ==
    CASE f.kind \in {"interface", "annotation"} -> IF call.anonymous THEN "" ELSE "abstract"
      [] f.kind = "enum" -> "abstract"
      [] f.kind = "class" /\ f.abstract /\ ~call.anonymous -> "abstract"
      [] ~f.static /\ f.enclosing # "" /\ ~call.qualified /\ f.enclosing \notin Range(call.within) -> "enclosing"
      [] OTHER -> ""

\* the candidates of a constructor call
ConstructorCandidates(f, call, fixed) ==
    LET ctors == Constructors(f)
        fromTarget == DiamondEnvFromTarget(call.type.id, f.params, call.target)
        open == [i \in DOMAIN f.params |-> Var(f.params[i].owner, f.params[i].ix)]
        Env(m) == CASE ~call.diamond -> fixed
                    [] fromTarget[1] -> fromTarget[2]
                    [] OTHER -> InferEnvFromArgs(f.params, m, call.args)
    IN  [i \in DOMAIN ctors |-> Candidate(ctors[i], Env(ctors[i]), IF call.diamond THEN open ELSE <<>>)]

Created(k, result) == [k |-> k, result |-> result]

\* resolve_constructor_call
ResolveConstructorCall(w, call) ==
    LET f == ClassFacts(w, call.type.id)
        error == InstantiationError(f, call)
        cs == ConstructorCandidates(f, call, ZipEnv(f.params, call.type.args))
        s == SelectCandidate(w, cs, call.args)
        access == ConstructorAccessible(w, cs[s.i].m, call)
    IN  CASE call.type.k # "named" \/ f = NoFacts -> Created("unknown", None)
          [] error # "" -> Created(error, None)
          [] f.kind \in {"interface", "annotation"} -> Created("selected", call.type)
          [] ~f.ctors \/ ~Arguments(call.args)[1] -> Created("unknown", None)
          [] s.k # "selected" -> Created(s.k, None)
          [] access # "yes" -> Created(IF access = "no" THEN "inaccessible" ELSE "unknown", None)
          [] OTHER -> Created("selected", IF call.diamond THEN InferDiamond(f, call.type.id, cs[s.i], call.declared)
                                          ELSE call.type)

-----------------------------------------------------------------------------
(***************************************************************************)
(* What the position of an expression asks of it: a path of parents,       *)
(* innermost first, each [k, t, call, n] (the declared type, the call it   *)
(* is an argument of, and which one).                                      *)
(***************************************************************************)
\* expected_argument_type
ExpectedArgumentType(w, call, n) ==
    LET f == ClassFacts(w, call.type.id)
        env == TypeEnvironment(f.params, call.type.args)
        in == IF call.new THEN [ok |-> call.type.k = "named" /\ f # NoFacts /\ Arguments(call.args)[1] /\ env[1],
                                cs |-> ConstructorCandidates(f, [call EXCEPT !.target = None], env[2])]
              ELSE MethodCallInputs(w, call)
        s == SelectCandidate(w, in.cs, call.args)
    IN  IF ~in.ok \/ s.k # "selected" THEN None ELSE SelectedParameter(in.cs[s.i], s.phase, n)

\* target_type; a return inside a lambda is asked for the result of the
\* lambda's own descriptor.
RECURSIVE TargetType(_, _)
TargetType(w, path) ==
    IF path = <<>> THEN None
    ELSE LET p == Head(path)
             outer == TargetType(w, Tail(path))
         IN  CASE p.k = "argument" -> ExpectedArgumentType(w, p.call, p.n)
               [] p.k \in {"declarator", "assign", "cast", "returnMethod"} -> p.t
               [] p.k \in {"paren", "ternary"} -> outer
               [] p.k = "returnLambda" -> IF outer = None THEN None ELSE FunctionalDescriptor(w, outer).result
               [] OTHER -> None

\* inferred_lambda_parameter_type
InferredLambdaParameter(w, path, n) ==
    LET target == TargetType(w, path)
        d == FunctionalDescriptor(w, target)
    IN  IF target = None \/ n \notin DOMAIN d.params THEN None ELSE d.params[n]
=============================================================================
