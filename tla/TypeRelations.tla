--------------------------- MODULE TypeRelations ---------------------------
(***************************************************************************)
(* Structured Java types (crates/types/src/lib.rs) and the three-valued    *)
(* assignability engine over them (crates/syntax/src/resolve.rs).          *)
(*                                                                         *)
(* A type is a record of one shape whatever its kind: k the kind, id the   *)
(* class, primitive, owner of a variable or side of a wildcard, ix the     *)
(* index of a variable, args the arguments, element or bound.              *)
(* A world w is what one request can see of the program:                   *)
(*   w.facts    the class metadata by binary name (absent: unresolvable);  *)
(*   w.project  the names that the open documents declare.                 *)
(* An answer is "yes", "no", or "unknown" (Option<bool> in the source).    *)
(***************************************************************************)
EXTENDS Integers, Sequences, FiniteSets, SequencesExt, Functions

T(k, id, ix, args) == [k |-> k, id |-> id, ix |-> ix, args |-> args]
Named(id, args) == T("named", id, 0, args)
Class(id) == Named(id, <<>>)
Prim(p) == T("prim", p, 0, <<>>)
ArrayOf(e) == T("array", "", 0, <<e>>)
Var(owner, ix) == T("var", owner, ix, <<>>)
Wild == T("wild", "any", 0, <<>>)
Extends(t) == T("wild", "extends", 0, <<t>>)
Super(t) == T("wild", "super", 0, <<t>>)
Null == T("null", "", 0, <<>>)
Void == T("void", "", 0, <<>>)
Unknown == T("unknown", "", 0, <<>>)
None == T("none", "", 0, <<>>)
Object == Class("Object")

PrimitiveType == {"boolean", "byte", "short", "int", "long", "char", "float", "double"}
BoxFqn == [boolean |-> "Boolean", byte |-> "Byte", short |-> "Short", int |-> "Integer",
           long |-> "Long", char |-> "Character", float |-> "Float", double |-> "Double"]
FromBoxFqn(id) == {p \in PrimitiveType : BoxFqn[p] = id}

\* PrimitiveType::widens_to, identity excluded
WidensTo(from, to) ==
    to \in CASE from = "byte" -> {"short", "int", "long", "float", "double"}
             [] from \in {"short", "char"} -> {"int", "long", "float", "double"}
             [] from = "int" -> {"long", "float", "double"}
             [] from = "long" -> {"float", "double"}
             [] from = "float" -> {"double"}
             [] OTHER -> {}

IsReference(t) == t.k \in {"named", "array", "var", "null"}

RECURSIVE ContainsUnknown(_)
ContainsUnknown(t) == t.k = "unknown" \/ \E i \in DOMAIN t.args : ContainsUnknown(t.args[i])

\* The first binding of a variable wins; an unbound variable stays.
RECURSIVE Substitute(_, _)
Substitute(t, env) ==
    LET bound == SelectSeq(env, LAMBDA b : b.var = t)
    IN  CASE t.k = "var" /\ bound # <<>> -> Head(bound).to
          [] t.k \in {"named", "array", "wild"} ->
                 [t EXCEPT !.args = [i \in DOMAIN t.args |-> Substitute(t.args[i], env)]]
          [] OTHER -> t

SubstituteAll(ts, env) == [i \in DOMAIN ts |-> Substitute(ts[i], env)]

\* erase: the outermost arguments go, at every level of an array
RECURSIVE Erase(_)
Erase(t) == CASE t.k = "named" -> Class(t.id)
              [] t.k = "array" -> ArrayOf(Erase(t.args[1]))
              [] OTHER -> t

RECURSIVE HasTypeVariable(_)
HasTypeVariable(t) == t.k = "var" \/ \E i \in DOMAIN t.args : HasTypeVariable(t.args[i])

-----------------------------------------------------------------------------
(***************************************************************************)
(* Verdicts                                                                *)
(***************************************************************************)
Verdict(b) == IF b THEN "yes" ELSE "no"
AnyProved(vs) == IF "yes" \in vs THEN "yes" ELSE IF "unknown" \in vs THEN "unknown" ELSE "no"
AllProved(vs) == IF "no" \in vs THEN "no" ELSE IF "unknown" \in vs THEN "unknown" ELSE "yes"

-----------------------------------------------------------------------------
(***************************************************************************)
(* Class facts                                                             *)
(***************************************************************************)
ObjectFacts == [kind |-> "class", abstract |-> FALSE, static |-> TRUE, enclosing |-> "",
                params |-> <<>>, supers |-> <<>>, complete |-> TRUE, ctors |-> FALSE, members |-> <<>>]
NoFacts == [ObjectFacts EXCEPT !.kind = "none"]

\* compute_class_facts: Object is known even with no JDK on the classpath.
ClassFacts(w, id) ==
    CASE id \in DOMAIN w.facts -> w.facts[id]
      [] id = "Object" -> ObjectFacts
      [] OTHER -> NoFacts
Resolvable(w, id) == ClassFacts(w, id) # NoFacts

\* the substitution of a class at its arguments; zip stops at the shorter list
ZipEnv(params, args) ==
    [i \in 1 .. (IF Len(params) < Len(args) THEN Len(params) ELSE Len(args)) |->
        [var |-> Var(params[i].owner, params[i].ix), to |-> args[i]]]

\* type_environment: a raw use binds every variable to its erased first bound.
\* <<FALSE, _>> when the arity does not fit.
TypeEnvironment(params, args) ==
    CASE Len(params) = Len(args) -> <<TRUE, ZipEnv(params, args)>>
      [] args # <<>> -> <<FALSE, <<>>>>
      [] OTHER -> <<TRUE, [i \in DOMAIN params |->
                             [var |-> Var(params[i].owner, params[i].ix),
                              to |-> IF params[i].bounds = <<>> THEN Object ELSE Erase(params[i].bounds[1])]]>>

\* variable_bounds: only the variables of a class are looked up.
VariableBounds(w, v) ==
    LET f == ClassFacts(w, v.id)
    IN  IF f = NoFacts \/ v.ix \notin DOMAIN f.params THEN <<Unknown>>
        ELSE IF f.params[v.ix].bounds = <<>> THEN <<Object>> ELSE f.params[v.ix].bounds

-----------------------------------------------------------------------------
(***************************************************************************)
(* Assignability                                                           *)
(***************************************************************************)
MAX_SUBTYPE_DEPTH == 64

\* constant_narrowing: a constant of the int family may fit a smaller type.
ConstantNarrowing(a, e) ==
    IF a \in {"byte", "short", "char", "int"} /\ e \in {"byte", "short", "char"} THEN "unknown" ELSE "no"

RECURSIVE AssignableRefs(_, _, _)

\* one position of type_args_contain
ArgContains(w, a, e) ==
    CASE e = Wild -> "yes"
      [] a.k \in {"unknown", "var"} \/ e.k \in {"unknown", "var"} -> "unknown"
      [] a.k = "wild" /\ a.id # "super" /\ e.id = "extends" /\ e.k = "wild" ->
             AssignableRefs(w, IF a = Wild THEN Object ELSE a.args[1], e.args[1])
      [] a.k = "wild" /\ a.id = "super" /\ e.k = "wild" /\ e.id = "super" ->
             AssignableRefs(w, e.args[1], a.args[1])
      [] a.k = "wild" /\ e.k = "wild" -> "unknown"
      [] e.k = "wild" /\ e.id = "extends" -> AssignableRefs(w, a, e.args[1])
      [] e.k = "wild" -> AssignableRefs(w, e.args[1], a)
      [] a.k = "wild" -> "no"
      [] OTHER -> Verdict(a = e)

TypeArgsContain(w, as, es) ==
    CASE es = <<>> -> "yes"
      [] Len(as) # Len(es) -> "unknown"
      [] OTHER -> AllProved({ArgContains(w, as[i], es[i]) : i \in DOMAIN es})

\* the direct supertypes of a use of a class: substituted, or erased when raw
SupersAt(f, t) ==
    [i \in DOMAIN f.supers |->
        IF t.args = <<>> /\ f.params # <<>> THEN Erase(f.supers[i])
        ELSE Substitute(f.supers[i], ZipEnv(f.params, t.args))]

\* A mutant of IsSubtype: an unresolvable supertype counts as unrelated.
RECURSIVE IsSubtypeClosed(_, _, _, _, _)
IsSubtypeClosed(w, t, target, depth, seen) ==
    LET f == ClassFacts(w, t.id)
        above == {IsSubtypeClosed(w, SupersAt(f, t)[i], target, depth + 1, seen \cup {t}) : i \in DOMAIN f.supers}
    IN  CASE t.k # "named" \/ depth > MAX_SUBTYPE_DEPTH \/ t \in seen -> "no"
          [] t.id = target.id -> TypeArgsContain(w, t.args, target.args)
          [] target.id = "Object" -> "yes"
          [] OTHER -> AnyProved(above)

\* is_subtype: `seen` holds the current path only; "no" needs every path to
\* be complete.
RECURSIVE IsSubtype(_, _, _, _, _)
IsSubtype(w, t, target, depth, seen) ==
    LET f == ClassFacts(w, t.id)
        above == {IsSubtype(w, SupersAt(f, t)[i], target, depth + 1, seen \cup {t}) : i \in DOMAIN f.supers}
    IN  CASE t.k # "named" \/ depth > MAX_SUBTYPE_DEPTH \/ t \in seen -> "unknown"
          [] t.id = target.id -> TypeArgsContain(w, t.args, target.args)
          [] target.id = "Object" -> "yes"
          [] depth = 0 /\ ~Resolvable(w, target.id) -> "unknown"
          [] f = NoFacts -> "unknown"
          [] OTHER -> AnyProved(above \cup (IF f.complete THEN {} ELSE {"unknown"}))

\* assignable_refs, arm by arm
AssignableRefs(w, a, e) ==
    CASE a.k = "unknown" \/ e.k = "unknown" -> "unknown"
      [] a.k = "null" -> Verdict(IsReference(e))
      [] e.k = "null" -> "no"
      [] a.k = "void" \/ e.k = "void" -> Verdict(a = e)
      [] a.k = "var" -> AnyProved({AssignableRefs(w, b, e) : b \in Range(VariableBounds(w, a))})
      [] e.k = "var" -> "unknown"
      [] a.k = "wild" -> AssignableRefs(w, IF a.id = "extends" THEN a.args[1] ELSE Object, e)
      [] e.k = "wild" -> "unknown"
      [] a.k = "prim" /\ e.k = "prim" ->
             IF a = e \/ WidensTo(a.id, e.id) THEN "yes" ELSE ConstantNarrowing(a.id, e.id)
      [] a.k = "prim" /\ e.k = "named" ->
             CASE e.id \in w.project -> "no"
               [] FromBoxFqn(e.id) = {a.id} -> "yes"
               [] FromBoxFqn(e.id) # {} -> ConstantNarrowing(a.id, CHOOSE p \in FromBoxFqn(e.id) : TRUE)
               [] OTHER -> AssignableRefs(w, Class(BoxFqn[a.id]), e)
      [] a.k = "named" /\ e.k = "prim" ->
             Verdict(\E p \in FromBoxFqn(a.id) : p = e.id \/ WidensTo(p, e.id))
      [] a.k = "prim" \/ e.k = "prim" -> "no"
      [] a.k = "array" /\ e.k = "array" ->
             IF a.args[1].k = "prim" \/ e.args[1].k = "prim" THEN Verdict(a = e)
             ELSE AssignableRefs(w, a.args[1], e.args[1])
      [] a.k = "array" -> Verdict(e.k = "named" /\ e.id \in {"Object", "Cloneable", "Serializable"})
      [] e.k = "array" -> "no"
      [] OTHER -> IsSubtype(w, a, e, 0, {})

\* type_as_supertype: the first view of t as the target, the last of several
\* supertypes being looked at first; None when there is none.  The walk of
\* the source is a stack with the set of visited uses.
RECURSIVE AsSupertype(_, _, _, _)
AsSupertype(w, stack, visited, target) ==
    IF stack = <<>> THEN None
    ELSE LET t == Last(stack).t
             rest == Front(stack)
             f == ClassFacts(w, t.id)
             more == [i \in DOMAIN f.supers |-> [t |-> Substitute(f.supers[i], ZipEnv(f.params, t.args)),
                                                 depth |-> Last(stack).depth + 1]]
         IN  CASE Last(stack).depth > 64 \/ t \in visited -> AsSupertype(w, rest, visited, target)
               [] t.k # "named" -> AsSupertype(w, rest, visited \cup {t}, target)
               [] t.id = target -> t
               [] ~f.complete \/ f = NoFacts -> AsSupertype(w, rest, visited \cup {t}, target)
               [] OTHER -> AsSupertype(w, rest \o more, visited \cup {t}, target)
TypeAsSupertype(w, t, target) == AsSupertype(w, <<[t |-> t, depth |-> 0]>>, {}, target)

\* iterable_argument: the T of the first Iterable<T> above t; an incomplete
\* hierarchy or a raw use gives None.  (`seen` is kept across siblings, which
\* changes nothing: a use that gave None gives None again.)
RECURSIVE IterableArgument(_, _, _)
IterableArgument(w, t, seen) ==
    LET f == ClassFacts(w, t.id)
        found == SelectSeq([i \in DOMAIN f.supers |->
                              IterableArgument(w, Substitute(f.supers[i], ZipEnv(f.params, t.args)), seen \cup {t})],
                           LAMBDA x : x # None)
    IN  CASE t.k # "named" \/ t \in seen \/ Cardinality(seen) > MAX_SUBTYPE_DEPTH -> None
          [] t.id \in {"Iterable", "Collection"} -> IF t.args = <<>> THEN None ELSE t.args[1]
          [] ~f.complete \/ f = NoFacts \/ (t.args = <<>> /\ f.params # <<>>) -> None
          [] OTHER -> IF found = <<>> THEN None ELSE Head(found)

\* iterable_element_type: what a loop over a value of type t binds
IterableElement(w, t) ==
    LET elem == IterableArgument(w, t, {})
    IN  CASE t.k = "array" -> t.args[1]
          [] t.k # "named" -> None
          [] t.id \notin w.project -> IF t.args = <<>> \/ t.args[1].k \in {"wild", "unknown"} THEN None ELSE t.args[1]
          [] OTHER -> IF elem.k \in {"named", "array"} /\ ~ContainsUnknown(elem) THEN elem ELSE None

\* member_type_through: the declared type of a member of `declaring` as seen
\* through a receiver; None when there is nothing to substitute or a variable
\* stays open.
MemberTypeThrough(w, recv, declaring, name, kind) ==
    LET f == ClassFacts(w, declaring)
        found == SelectSeq(f.members, LAMBDA m : m.name = name /\ m.kind = kind)
        view == TypeAsSupertype(w, recv, declaring)
        env == TypeEnvironment(f.params, view.args)
        seen == Substitute(Head(found).result, env[2])
    IN  IF found = <<>> \/ ~Head(found).known \/ ~HasTypeVariable(Head(found).result) THEN None
        ELSE IF view = None \/ ~env[1] \/ HasTypeVariable(seen) THEN None ELSE seen
=============================================================================
