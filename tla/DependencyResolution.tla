------------------------ MODULE DependencyResolution ------------------------
(***************************************************************************)
(* The static resolution of a project's dependencies: effective poms and   *)
(* the transitive walk (crates/classpath/src/resolve.rs), the two local    *)
(* caches it looks in (maven.rs, gradle.rs) and what Gradle build files    *)
(* declare.                                                                *)
(*                                                                         *)
(* group:artifact is a number, a version a number; a text is nothing, a    *)
(* literal or a reference to a property, properties having numbers beyond  *)
(* those of versions.  A world w holds                                     *)
(*   stores  the caches, in the order they are asked: functions from       *)
(*           <<artifact, version>> to [jar, pom];                          *)
(*   files   the poms of the workspace, by path;                           *)
(*   root    the directory of the project.                                 *)
(* A pom has the fields parent, rel (the relative path of the parent),     *)
(* props, version, managed, deps and modules.                              *)
(***************************************************************************)
EXTENDS Integers, Sequences, FiniteSets, SequencesExt, FiniteSetsExt

CONSTANTS MAX_DEPTH, MAX_NODES

Nothing == [k |-> "none", v |-> 0]
Lit(v) == [k |-> "lit", v |-> v]
Ref(p) == [k |-> "ref", v |-> p]
Empty == [x \in {} |-> Nothing]
NoPom == [none |-> TRUE]
PROJECT_VERSION == 101
PARENT_VERSION == 102
NoPath == <<"none">>
NoParent == <<0, 0>>

Indices(n) == [i \in 1 .. n |-> i]
Overlay(f, g) == [x \in DOMAIN f \cup DOMAIN g |-> IF x \in DOMAIN f THEN f[x] ELSE g[x]]

-----------------------------------------------------------------------------
(***************************************************************************)
(* Where poms and jars are                                                 *)
(***************************************************************************)
\* MavenLocator, GradleLocator, FallbackLocator: each file is looked for in
\* every store, in order.
Locate(w, coord, file) ==
    \E i \in DOMAIN w.stores :
        coord \in DOMAIN w.stores[i]
        /\ (IF file = "jar" THEN w.stores[i][coord].jar ELSE w.stores[i][coord].pom # NoPom)

CachedPom(w, coord) ==
    IF ~Locate(w, coord, "pom") THEN NoPom
    ELSE Head(SelectSeq(w.stores, LAMBDA s : coord \in DOMAIN s /\ s[coord].pom # NoPom))[coord].pom

\* lexical_normalize: "." and ".." resolved, nothing above the top
LexicalNormalize(path) ==
    FoldLeft(LAMBDA out, c : CASE out = NoPath -> NoPath
                               [] c = "." -> out
                               [] c = ".." -> IF out = <<>> THEN NoPath ELSE Front(out)
                               [] OTHER -> Append(out, c), <<>>, path)

\* project_local_parent
ProjectLocalParent(w, at, rel) ==
    LET candidate == LexicalNormalize(Front(at) \o rel)
    IN  IF candidate # NoPath /\ IsPrefix(w.root, candidate) /\ candidate \in DOMAIN w.files
        THEN candidate ELSE NoPath

-----------------------------------------------------------------------------
(***************************************************************************)
(* The effective pom                                                       *)
(***************************************************************************)
\* substitute: at most five passes over the properties.  Each pass replaces
\* at least one link of a chain of references.
SubstituteProperties(text, props) ==
    FoldLeft(LAMBDA t, i : IF t.k = "ref" /\ t.v \in DOMAIN props THEN props[t.v] ELSE t, text, Indices(5))

\* The first entry for an artifact stays.
FirstWins(m, key, value) == IF key \in DOMAIN m THEN m ELSE Overlay(m, [x \in {key} |-> value])

\* The coordinates of a managed entry
CoordinatesOf(e, props) == <<e.ga, SubstituteProperties(e.version, props).v>>

\* dependencyManagement of a pom itself, with what each imported BOM manages
OwnManaged(pom, props, boms) ==
    FoldLeft(LAMBDA m, e :
                 IF e.scope = "import" THEN Overlay(m, boms[CoordinatesOf(e, props)])
                 ELSE FirstWins(m, e.ga, [version |-> SubstituteProperties(e.version, props), scope |-> e.scope]),
             Empty, pom.managed)

\* A declared dependency, its version and scope completed from the managed ones
Declared(dep, props, managed) ==
    LET version == SubstituteProperties(dep.version, props)
        m == IF dep.ga \in DOMAIN managed THEN managed[dep.ga] ELSE [version |-> Nothing, scope |-> "none"]
        scope == IF dep.scope # "none" THEN dep.scope ELSE m.scope
    IN  [dep EXCEPT !.version = IF version.k = "lit" THEN version ELSE m.version,
                    !.scope = IF scope = "none" THEN "compile" ELSE scope]

\* The parent's dependencies that the pom does not declare itself, then its own
Inherited(parentDeps, own) ==
    SelectSeq(parentDeps, LAMBDA d : \A i \in DOMAIN own : own[i].ga # d.ga) \o own

NoEffective == [ok |-> FALSE, props |-> Empty, version |-> Nothing, managed |-> Empty, deps |-> <<>>,
                modules |-> <<>>, degraded |-> {}]

\* parse_effective_pom_raw of the pom at a path of the workspace, or (at =
\* NoPath) of a cached one: its parent's, then its own properties, managed
\* versions, dependencies and modules.
RECURSIVE Effective(_, _, _, _)
Effective(w, pom, at, depth) ==
    IF depth > MAX_DEPTH \/ pom = NoPom THEN NoEffective
    ELSE
    LET hasParent == pom.parent # NoParent
        local == IF at = NoPath THEN NoPath ELSE ProjectLocalParent(w, at, pom.rel)
        parent == IF ~hasParent THEN NoEffective
                  ELSE IF local # NoPath THEN Effective(w, w.files[local], local, depth + 1)
                  ELSE Effective(w, CachedPom(w, pom.parent), NoPath, depth + 1)
        ownProps == Overlay(pom.props, parent.props)
        parentVersion == IF parent.ok THEN parent.version ELSE IF hasParent THEN Lit(pom.parent[2]) ELSE Nothing
        ownVersion == SubstituteProperties(pom.version, ownProps)
        version == IF ownVersion # Nothing THEN ownVersion ELSE parentVersion
        builtins == IF parentVersion = Nothing THEN [x \in {PROJECT_VERSION} |-> version]
                    ELSE [x \in {PROJECT_VERSION, PARENT_VERSION} |->
                             IF x = PROJECT_VERSION THEN version ELSE parentVersion]
        props == Overlay(builtins, ownProps)
        imports == SelectSeq(pom.managed, LAMBDA e : e.scope = "import")
        boms == [coord \in {CoordinatesOf(e, props) : e \in Range(imports)} |->
                    Effective(w, CachedPom(w, coord), NoPath, depth + 1).managed]
        managed == Overlay(OwnManaged(pom, props, boms), parent.managed)
        own == [i \in DOMAIN pom.deps |-> Declared(pom.deps[i], props, managed)]
    IN  [ok |-> TRUE, props |-> props, version |-> version, managed |-> managed,
         deps |-> Inherited(parent.deps, own), modules |-> pom.modules,
         degraded |-> parent.degraded
                      \cup (IF hasParent /\ ~parent.ok THEN {[why |-> "parent", coord |-> pom.parent]} ELSE {})]

-----------------------------------------------------------------------------
(***************************************************************************)
(* The transitive walk                                                     *)
(***************************************************************************)
Seed(ga, v, excl) == [ga |-> ga, v |-> v, excl |-> excl]
Coord(s) == <<s.ga, s.v>>
Degraded(why, ga, version) == [why |-> why, coord |-> <<ga, version.v>>]

\* record_classifier_skip, record_unresolved_version: why a dependency is not
\* followed
Declined(dep) ==
    IF dep.classifier THEN {Degraded("classifier", dep.ga, dep.version)}
    ELSE IF dep.version = Nothing THEN {Degraded("version", dep.ga, dep.version)} ELSE {}

\* root_seeds: dependencies of every scope, in order
RootSeeds(deps) ==
    LET taken == SelectSeq(deps, LAMBDA d : Declined(d) = {})
    IN  [seeds |-> [i \in DOMAIN taken |-> Seed(taken[i].ga, taken[i].version.v, taken[i].exclusions)],
         degraded |-> UNION {Declined(deps[i]) : i \in DOMAIN deps}]

\* A mutant of Follows: only the dependency's own exclusions count.
FollowsOwnExclusions(seed, dep) ==
    dep.scope \in {"compile", "runtime"} /\ ~dep.optional /\ dep.ga \notin dep.exclusions

\* The edges a node's pom contributes.
Follows(seed, dep) ==
    dep.scope \in {"compile", "runtime"} /\ ~dep.optional /\ dep.ga \notin seed.excl

\* The children of a node that was taken.
Children(seed, deps) ==
    LET followed == SelectSeq(deps, LAMBDA d : Follows(seed, d))
        taken == SelectSeq(followed, LAMBDA d : Declined(d) = {})
    IN  [seeds |-> [i \in DOMAIN taken |-> Seed(taken[i].ga, taken[i].version.v, seed.excl \cup taken[i].exclusions)],
         degraded |-> UNION {Declined(followed[i]) : i \in DOMAIN followed}]

\* A node: its jar, then its pom and what that asks for.
Visit(w, seed, depth) ==
    LET missing == [jar |-> FALSE, seeds |-> <<>>, degraded |-> {[why |-> "missing", coord |-> Coord(seed)]}]
        e == Effective(w, CachedPom(w, Coord(seed)), NoPath, 0)
        c == Children(seed, e.deps)
    IN  CASE depth > MAX_DEPTH -> [missing EXCEPT !.degraded = {[why |-> "depth", coord |-> Coord(seed)]}]
          [] depth <= MAX_DEPTH /\ ~Locate(w, Coord(seed), "jar") -> missing
          [] OTHER -> IF ~e.ok THEN [missing EXCEPT !.jar = TRUE]
                      ELSE [jar |-> TRUE, seeds |-> c.seeds, degraded |-> e.degraded \cup c.degraded]

Push(queue, seeds, depth) == queue \o [i \in DOMAIN seeds |-> [seed |-> seeds[i], depth |-> depth + 1]]

\* resolve_transitive: breadth first, the first visit of an artifact wins
RECURSIVE Walk(_, _)
Walk(w, s) ==
    IF s.queue = <<>> THEN s
    ELSE LET node == Head(s.queue)
             v == Visit(w, node.seed, node.depth)
         IN  IF node.seed.ga \in s.visited THEN Walk(w, [s EXCEPT !.queue = Tail(@)])
             ELSE IF s.budget = 0 THEN [s EXCEPT !.queue = <<>>, !.degraded = @ \cup {[why |-> "nodes", coord |-> NoParent]}]
             ELSE Walk(w, [queue |-> Push(Tail(s.queue), v.seeds, node.depth),
                           visited |-> s.visited \cup {node.seed.ga}, budget |-> s.budget - 1,
                           jars |-> IF v.jar THEN Append(s.jars, Coord(node.seed)) ELSE s.jars,
                           degraded |-> s.degraded \cup v.degraded])

ResolveTransitive(w, seeds) ==
    Walk(w, [queue |-> [i \in DOMAIN seeds |-> [seed |-> seeds[i], depth |-> 0]], visited |-> {},
             budget |-> MAX_NODES, jars |-> <<>>, degraded |-> {}])

\* resolve_maven_like_project: the root's and its modules' dependencies
ResolveMaven(w) ==
    LET at(dir) == Append(dir, "pom")
        pomAt(dir) == IF at(dir) \in DOMAIN w.files THEN w.files[at(dir)] ELSE NoPom
        top == Effective(w, pomAt(w.root), at(w.root), 0)
        inside == SelectSeq(top.modules, LAMBDA m : m \notin {"", "..", "/"})
        effs == <<top>> \o [i \in DOMAIN inside |->
                               Effective(w, pomAt(Append(w.root, inside[i])), at(Append(w.root, inside[i])), 0)]
        roots == [i \in DOMAIN effs |-> RootSeeds(effs[i].deps)]
        r == ResolveTransitive(w, FlattenSeq([i \in DOMAIN roots |-> roots[i].seeds]))
    IN  IF ~top.ok THEN [jars |-> <<>>, degraded |-> {}]
        ELSE [jars |-> r.jars,
              degraded |-> r.degraded \cup UNION {effs[i].degraded \cup roots[i].degraded : i \in DOMAIN effs}
                           \cup {[why |-> "module", coord |-> NoParent] : i \in {j \in DOMAIN effs : ~effs[j].ok}}]

-----------------------------------------------------------------------------
(***************************************************************************)
(* Gradle: string literals of the build files                              *)
(***************************************************************************)
\* scrape_coords: a literal of three plain parts with a digit or a wildcard in
\* the version
ScrapeCoords(literals) ==
    LET coords == SelectSeq(literals, LAMBDA l : ~l.interpolated /\ l.parts = 3 /\ ~l.spaced /\ l.digit)
    IN  {<<c.ga, c.v, c.dynamic>> : c \in Range(coords)}

\* gradle::resolve_project: sorted and without duplicates; dynamic versions
\* are recorded, the others resolved.
ResolveGradle(w, literals) ==
    LET coords == SetToSortSeq(ScrapeCoords(literals), LAMBDA a, b : a[1] < b[1] \/ (a[1] = b[1] /\ a[2] < b[2]))
        pinned == SelectSeq(coords, LAMBDA c : ~c[3])
        r == ResolveTransitive(w, [i \in DOMAIN pinned |-> Seed(pinned[i][1], pinned[i][2], {})])
    IN  [jars |-> r.jars,
         degraded |-> r.degraded \cup {[why |-> "dynamic", coord |-> <<c[1], c[2]>>] :
                                           c \in {d \in Range(coords) : d[3]}}]

-----------------------------------------------------------------------------
(***************************************************************************)
(* The Java release a project asks for: texts of numbers between dots      *)
(***************************************************************************)
\* parse_release_level
ReleaseLevel(text) ==
    CASE Len(text) = 1 -> text[1]
      [] Len(text) = 2 /\ text[1] = 1 -> text[2]
      [] OTHER -> 0

\* jdk.rs parse_feature_version: what the release file of a JDK says
FeatureVersion(text) ==
    IF text = <<>> THEN 0 ELSE IF text[1] # 1 THEN text[1] ELSE IF Len(text) > 1 THEN text[2] ELSE 0

\* gradle.rs version_token
VersionToken(text) ==
    IF text = <<>> THEN 0 ELSE IF text[1] = 1 /\ Len(text) > 1 THEN text[2] ELSE text[1]

\* release_from_props: the first of maven.compiler.release, maven.compiler.source
\* and java.version that says a level
ReleaseKeys == <<103, 104, 105>>
ReleaseFromProps(props) ==
    LET level(key) == LET t == SubstituteProperties(props[key], props) IN IF t.k = "lit" THEN ReleaseLevel(t.v) ELSE 0
        set == SelectSeq(ReleaseKeys, LAMBDA k : k \in DOMAIN props /\ level(k) # 0)
    IN  IF set = <<>> THEN 0 ELSE level(Head(set))

\* best_jdk: JAVA_HOME if it is usable, else the candidate of the greatest
\* version, the first of equals.  A JDK is [jmods, release, path].
RankedVersion(jdk) == IF FeatureVersion(jdk.release) # 0 THEN FeatureVersion(jdk.release) ELSE jdk.path
BestJdk(home, candidates) ==
    LET usable == SelectSeq(candidates, LAMBDA c : c.jmods)
        best == Max({RankedVersion(c) : c \in Range(usable)})
    IN  IF home # <<>> /\ home[1].jmods THEN home[1]
        ELSE IF usable = <<>> THEN [jmods |-> FALSE, release |-> <<>>, path |-> 0]
        ELSE Head(SelectSeq(usable, LAMBDA c : RankedVersion(c) = best))

=============================================================================
