----------------------------- MODULE JavaRules -----------------------------
(***************************************************************************)
(* What the Java language says of types, calls and lambda bodies, over a   *)
(* world in which every class is known: the reference the conservative     *)
(* engine of the server is compared with.  Type arguments are read by what *)
(* they admit among the types of w.universe, not by cases on their shape.  *)
(***************************************************************************)
EXTENDS Overloads

\* JLS 5.1.2: the closure of the steps from a primitive to the next larger
WideningSteps == {<<"byte", "short">>, <<"short", "int">>, <<"char", "int">>, <<"int", "long">>,
                  <<"long", "float">>, <<"float", "double">>}
RECURSIVE WidensBy(_, _, _)
WidensBy(a, e, n) == a = e \/ (n > 0 /\ \E s \in WideningSteps : s[1] = a /\ WidensBy(s[2], e, n - 1))
Widens(a, e) == WidensBy(a, e, 6)

\* every supertype of a use of a class
RECURSIVE Supertypes(_, _)
Supertypes(w, t) ==
    {t, Object} \cup UNION {Supertypes(w, s) : s \in Range(SupersAt(w.facts[t.id], t))}

RECURSIVE Subtype(_, _, _)
Admits(w, arg, x) ==
    CASE arg = Wild -> TRUE
      [] arg.k = "wild" /\ arg.id = "extends" -> Subtype(w, x, arg.args[1])
      [] arg.k = "wild" -> Subtype(w, arg.args[1], x)
      [] OTHER -> x = arg
ArgumentFits(w, a, e) ==
    CASE e.k # "wild" -> a = e
      [] a.k = "wild" -> \A x \in w.universe : Admits(w, a, x) => Admits(w, e, x)
      [] OTHER -> Admits(w, e, a)

\* a raw use fits every use of its class (unchecked conversion)
Subtype(w, a, e) ==
    CASE a.k = "array" /\ e.k = "array" ->
             IF a.args[1].k = "prim" \/ e.args[1].k = "prim" THEN a = e ELSE Subtype(w, a.args[1], e.args[1])
      [] a.k = "array" -> e.id \in {"Object", "Cloneable", "Serializable"}
      [] e.k = "array" -> FALSE
      [] OTHER -> \E s \in Supertypes(w, a) :
                     s.id = e.id /\ (s.args = <<>> \/ e.args = <<>>
                                     \/ \A i \in DOMAIN e.args : ArgumentFits(w, s.args[i], e.args[i]))

\* JLS 5.2 and 5.3 for values; a type variable stands for its bounds
RECURSIVE Converts(_, _, _, _)
Converts(w, a, e, boxing) ==
    CASE a.k = "var" -> \E b \in Range(VariableBounds(w, a)) : Converts(w, b, e, boxing)
      [] a.k = "null" -> e.k # "prim" /\ e.k # "void"
      [] a.k = "void" \/ e.k \in {"void", "null"} -> a = e
      [] a.k = "prim" /\ e.k = "prim" -> Widens(a.id, e.id)
      [] a.k = "prim" -> boxing /\ Subtype(w, Class(BoxFqn[a.id]), e)
      [] e.k = "prim" -> boxing /\ a.k = "named" /\ \E p \in FromBoxFqn(a.id) : Widens(p, e.id)
      [] OTHER -> Subtype(w, a, e)

\* a constant of the int family may also be assigned to a smaller type
MayNarrow(a, e) ==
    LET target == IF e.k = "named" THEN FromBoxFqn(e.id) ELSE {e.id}
    IN  a.k = "prim" /\ a.id \in {"byte", "short", "char", "int"} /\ target \cap {"byte", "short", "char"} # {}

-----------------------------------------------------------------------------
\* JLS 15.12.2 for values: the applicable candidates of the first phase that
\* has any, and those at least as specific as all of them
Applies(w, c, args, phase) ==
    LET ps == ParamsOf(c)
        Element(n) == IF n < Len(ps) THEN ps[n] ELSE Last(ps).args[1]
    IN  IF phase = "varargs"
        THEN c.m.varargs /\ Len(args) + 1 >= Len(ps) /\ \A n \in DOMAIN args : Converts(w, args[n].t, Element(n), TRUE)
        ELSE Len(args) = Len(ps) /\ \A n \in DOMAIN args : Converts(w, args[n].t, ps[n], phase = "loose")
FirstApplicable(w, cs, args) ==
    LET In(phase) == {i \in DOMAIN cs : Applies(w, cs[i], args, phase)}
    IN  FoldLeft(LAMBDA S, phase : IF S # {} THEN S ELSE In(phase), {}, Phases)
Preferred(w, cs, args) ==
    LET S == FirstApplicable(w, cs, args)
        byVarargs == \A i \in S : ~Applies(w, cs[i], args, "loose")
        At(i, n) == LET ps == ParamsOf(cs[i])
                    IN  IF byVarargs /\ n >= Len(ps) THEN Last(ps).args[1] ELSE ps[n]
        depth == IF byVarargs THEN Len(args) + 1 ELSE Len(args)
    IN  {i \in S : \A j \in S : \A n \in 1 .. depth : Converts(w, At(i, n), At(j, n), FALSE)}

-----------------------------------------------------------------------------
\* JLS 14.22 and 15.27.2: whether a statement can complete normally, whether
\* it can be left by a break, and what a lambda body can be used for
RECURSIVE Breaks(_)
Breaks(s) ==
    s.k = "break" \/ (s.k \notin {"lambda", "class", "forever", "doForever", "while"} /\ \E i \in DOMAIN s.body : Breaks(s.body[i]))
RECURSIVE Completes(_)
Completes(s) ==
    CASE s.k \in {"return", "returnValue", "throw", "break"} -> FALSE
      [] s.k \in {"forever", "doForever"} -> \E i \in DOMAIN s.body : Breaks(s.body[i])
      [] s.k \in {"block", "synchronized"} -> \A i \in DOMAIN s.body : Completes(s.body[i])
      [] s.k \in {"ifElse", "tryCatch"} -> \E i \in DOMAIN s.body : Completes(s.body[i])
      [] OTHER -> TRUE
RECURSIVE Returns(_)
Returns(s) ==
    CASE s.k \in {"return", "returnValue"} -> {s.k}
      [] s.k \in {"lambda", "class"} -> {}
      [] OTHER -> UNION {Returns(s.body[i]) : i \in DOMAIN s.body}
VoidCompatible(b) ==
    IF b.k = "block" THEN "returnValue" \notin Returns(b) ELSE b.k \in {"call", "new", "assign", "update"}
ValueCompatible(b) ==
    IF b.k = "block" THEN "return" \notin Returns(b) /\ ~Completes(b) ELSE ~(b.k = "call" /\ b.t = Void)
=============================================================================
