------------------------------ MODULE NameScopes ------------------------------
(***************************************************************************)
(* What a name in a Java file means to the analyser: crates/syntax/src     *)
(* imports.rs, model.rs (TypeTable), resolve.rs (named_resolver, bindings).*)
(*                                                                         *)
(* A world w is the documents of the project (w.docs), the ones open in    *)
(* the editor (w.open), and the classes of the classpath by binary name    *)
(* (w.lib).  A dotted path is a sequence of segments; a binary name is the *)
(* package and the `$`-joined type path.  A document has its file name,    *)
(* package, import declarations and type declarations, each inside another *)
(* one (outer, 0 for none) directly or in a code block (local).  A place   *)
(* in a file is a document and the declaration around it; a declaration is *)
(* named by its two indices.                                               *)
(***************************************************************************)
EXTENDS Integers, Sequences, SequencesExt, FiniteSets, FiniteSetsExt

Nothing == <<0, 0>>                     \* the None of the declaration lookups
NoName == [pkg |-> <<>>, path |-> <<>>] \* the None of the binary names

MAX_SUPER_DEPTH == 64
ImportAttempts == 8

JavaLang == <<"java", "lang">>

\* The binary name a dotted path spells when its last k dots become `$`.
Split(path, k) ==
    [pkg |-> SubSeq(path, 1, Len(path) - 1 - k),
     path |-> SubSeq(path, Len(path) - k, Len(path))]

Nested(b, simple) == [b EXCEPT !.path = Append(@, simple)]

\* Replaces trailing dots by `$` until the candidate exists; eight attempts.
ImportPathToBinary(path, existing) ==
    LET hits == {k \in 0 .. Min({ImportAttempts, Len(path)}) - 1 : Split(path, k) \in existing}
    IN IF hits = {} THEN NoName ELSE Split(path, Min(hits))

(***************************************************************************)
(* imports.rs: the single-type import of a simple name (the last one       *)
(* written wins, static imports bind no type), the on-demand packages, and *)
(* the candidates of a simple name in resolution order.                    *)
(***************************************************************************)
SingleImport(doc, simple) ==
    LET at == {n \in DOMAIN doc.imports :
                 doc.imports[n].kind = "single" /\ Last(doc.imports[n].path) = simple}
    IN IF at = {} THEN <<>> ELSE doc.imports[Max(at)].path

Wildcards(doc) ==
    LET on == SelectSeq(doc.imports, LAMBDA m : m.kind = "wildcard")
    IN [n \in DOMAIN on |-> on[n].path]

InPackage(pkg, simple) == [pkg |-> pkg, path |-> <<simple>>]

OnDemand(doc, simple) ==
    LET pkgs == Append(Wildcards(doc), JavaLang)
    IN [n \in DOMAIN pkgs |-> InPackage(pkgs[n], simple)]

Candidates(doc, simple) ==
    LET single == SingleImport(doc, simple)
    IN (IF single = <<>> THEN <<>> ELSE <<Split(single, 0)>>)
         \o <<InPackage(doc.package, simple)>> \o OnDemand(doc, simple)

(***************************************************************************)
(* model.rs: the declarations around a place, innermost first; the binary  *)
(* identity of a declaration (none when a code block lies between it and   *)
(* the file); and the table of the declarations of the open documents.     *)
(***************************************************************************)
Enclosing(doc, j) ==
    LET up[k \in 0 .. Len(doc.decls)] ==
          IF k = 0 THEN <<>> ELSE <<k>> \o up[doc.decls[k].outer]
    IN up[j]

BinaryIdentity(doc, j) ==
    LET chain == Enclosing(doc, j)
    IN IF \E n \in DOMAIN chain : doc.decls[chain[n]].local
       THEN NoName
       ELSE [pkg |-> doc.package,
             path |-> [n \in DOMAIN chain |-> doc.decls[chain[Len(chain) - n + 1]].name]]

Decls(w) == UNION {{i} \X DOMAIN w.docs[i].decls : i \in w.open}

DeclOf(w, d) == w.docs[d[1]].decls[d[2]]

ByBinary(w, b) ==
    {d \in Decls(w) : b # NoName /\ BinaryIdentity(w.docs[d[1]], d[2]) = b}

TableNames(w) == {BinaryIdentity(w.docs[d[1]], d[2]) : d \in Decls(w)} \ {NoName}

\* The declaration of a binary name; none when it is absent or declared twice.
GetNamed(w, b) ==
    IF Cardinality(ByBinary(w, b)) = 1 THEN CHOOSE d \in ByBinary(w, b) : TRUE ELSE Nothing

(***************************************************************************)
(* The server's symbol source (project_symbols.rs): a top-level type of an *)
(* open document, else the one file of the index with that package and     *)
(* file name, and behind the project the classpath.                        *)
(***************************************************************************)
Top(b) == [b EXCEPT !.path = <<@[1]>>]

DocOf(w, b) ==
    LET overlay == {i \in w.open : \E j \in DOMAIN w.docs[i].decls :
                      w.docs[i].decls[j].outer = 0 /\ BinaryIdentity(w.docs[i], j) = Top(b)}
        files == {i \in DOMAIN w.docs : InPackage(w.docs[i].package, w.docs[i].file) = Top(b)}
    IN IF overlay # {} THEN Min(overlay)
       ELSE IF Cardinality(files) = 1 THEN Min(files) ELSE 0

\* Whether a class is there to read; a nested name of the project needs only
\* its outer type to pass for existing.
Known(w, b) ==
    b \in DOMAIN w.lib \/ (DocOf(w, b) # 0 /\ \E j \in DOMAIN w.docs[DocOf(w, b)].decls :
                                                BinaryIdentity(w.docs[DocOf(w, b)], j) = b)

Exists(w, b) == b \in DOMAIN w.lib \/ DocOf(w, b) # 0

(***************************************************************************)
(* TypeTable::resolve_type_name_at: the enclosing declarations and their   *)
(* member types, then for qualified text the declared name it spells, else *)
(* the single import, the package, and the on-demand packages.             *)
(***************************************************************************)
LexicalAt(w, i, k, simple) ==
    LET b == BinaryIdentity(w.docs[i], k)
    IN IF w.docs[i].decls[k].name = simple THEN <<i, k>>
       ELSE IF b = NoName THEN Nothing ELSE GetNamed(w, Nested(b, simple))

Lexical(w, i, j, simple) ==
    LET chain == Enclosing(w.docs[i], j)
        hits == {n \in DOMAIN chain : LexicalAt(w, i, chain[n], simple) # Nothing}
    IN IF hits = {} THEN Nothing ELSE LexicalAt(w, i, chain[Min(hits)], simple)

Qualified(w, path) ==
    LET hits == {k \in 0 .. Min({ImportAttempts, Len(path)}) - 1 :
                   GetNamed(w, Split(path, k)) # Nothing}
    IN IF hits = {} THEN Nothing ELSE GetNamed(w, Split(path, Min(hits)))

ByImports(w, i, simple) ==
    LET doc == w.docs[i]
        single == SingleImport(doc, simple)
        same == InPackage(doc.package, simple)
        hits == SelectSeq(OnDemand(doc, simple), LAMBDA c : c \in TableNames(w))
    IN IF single # <<>> THEN GetNamed(w, ImportPathToBinary(single, TableNames(w)))
       ELSE IF same \in TableNames(w) THEN GetNamed(w, same)
       ELSE IF Len(hits) = 1 THEN GetNamed(w, hits[1])
       ELSE Nothing

ResolveTypeName(w, i, j, name) ==
    LET lexical == IF j = 0 THEN Nothing ELSE Lexical(w, i, j, Last(name))
    IN IF Len(name) > 1 THEN Qualified(w, name)
       ELSE IF lexical # Nothing THEN lexical ELSE ByImports(w, i, name[1])

(***************************************************************************)
(* resolve.rs named_resolver: the table first (a local class has no binary *)
(* name to give), then exactly the qualified text or the first candidate   *)
(* that the symbol source knows.                                           *)
(***************************************************************************)
ResolveSimpleToFqn(w, i, simple) ==
    LET known == SelectSeq(Candidates(w.docs[i], simple), LAMBDA c : Known(w, c))
    IN IF known = <<>> THEN NoName ELSE known[1]

NamedResolver(w, i, j, name) ==
    LET d == ResolveTypeName(w, i, j, name)
    IN IF d # Nothing THEN BinaryIdentity(w.docs[d[1]], d[2])
       ELSE IF Len(name) > 1
       THEN IF Known(w, Split(name, 0)) THEN Split(name, 0) ELSE NoName
       ELSE ResolveSimpleToFqn(w, i, name[1])

\* Type variables in scope at a place, innermost last, so that the last wins;
\* those of a local class are not there, it has no owner name.
VarsInScope(doc, j) ==
    LET chain == Enclosing(doc, j)
        owned == SelectSeq(chain, LAMBDA k : BinaryIdentity(doc, k) # NoName)
    IN FlattenSeq([n \in DOMAIN owned |->
         LET k == owned[Len(owned) - n + 1]
         IN [m \in DOMAIN doc.decls[k].params |->
               [name |-> doc.decls[k].params[m], owner |-> BinaryIdentity(doc, k)]]])

TypeVariable(vars, simple) ==
    LET at == {n \in DOMAIN vars : vars[n].name = simple}
    IN IF at = {} THEN NoName ELSE vars[Max(at)].owner

(***************************************************************************)
(* model.rs source_supers: a supertype name is read through the imports of *)
(* the file that declares the type, whoever asks.                          *)
(***************************************************************************)
SourceSupers(w, d) ==
    LET names == DeclOf(w, d).supers
        found == [n \in DOMAIN names |-> ResolveTypeName(w, d[1], d[2], names[n])]
    IN SelectSeq(found, LAMBDA s : s # Nothing)

(***************************************************************************)
(* resolve.rs collect_bindings.  A place in code is the list of the scopes *)
(* around it, innermost first: a block with its local declarations, each   *)
(* before the cursor or not; a for header; a switch rule or a condition    *)
(* with its pattern variables; a method, constructor or lambda with its    *)
(* parameters; a type declaration.  The fields, own and inherited, of the  *)
(* innermost type come after all of them.                                  *)
(***************************************************************************)
ScopeBindings(scope) ==
    CASE scope.kind = "block" -> SelectSeq(scope.binds, LAMBDA b : b.before)
      [] scope.kind \in {"for", "foreach", "switch", "condition", "params", "lambda"} -> scope.binds
      [] OTHER -> <<>>

CollectBindings(scopes) ==
    LET types == {n \in DOMAIN scopes : scopes[n].kind = "type"}
        fields == IF types = {} THEN <<>> ELSE scopes[Min(types)].binds
    IN FlattenSeq([n \in DOMAIN scopes |-> ScopeBindings(scopes[n])]) \o fields

\* The declaration that a name read at the place refers to, 0 for none.
LookupBinding(scopes, name) ==
    LET bs == CollectBindings(scopes)
        at == {n \in DOMAIN bs : bs[n].name = name}
    IN IF at = {} THEN 0 ELSE bs[Min(at)].id
===============================================================================
