----------------------------- MODULE MCToolchain -----------------------------
(***************************************************************************)
(* The algorithms of the debug adapter and of the classpath over bounded   *)
(* inputs: a query is asked, and answered.  What must hold of an answer is *)
(* stated below; MCTypes asks these queries in one run with those about    *)
(* the type engine, and checks the answers.                                *)
(***************************************************************************)
EXTENDS JdwpCodec, DebugInspection, DependencyResolution, ClassArchives

VARIABLE query
vars == <<query>>

MCSizes == [field |-> 1, method |-> 2, object |-> 3, type |-> 4, frame |-> 5]
MCHeap == (1 :> [kind |-> "object", cls |-> "A", len |-> 0]) @@ (2 :> [kind |-> "array", cls |-> "A", len |-> 3])
          @@ (3 :> [kind |-> "string", cls |-> "B", len |-> 0])
MCSupers == [A |-> "B", B |-> "C", C |-> "none"]
MCField(n, st, v) == [name |-> n, static |-> st, value |-> v]
MCFieldsOf == [A |-> <<MCField("x", FALSE, 2), MCField("S", TRUE, 1)>>,
               B |-> <<MCField("detailMessage", FALSE, 3)>>, C |-> <<MCField("y", FALSE, 1)>>]
MCStacks == (1 :> 2) @@ (2 :> 0)
MCFrameThis == <<1, 0>>
MCSlots == <<<<[from |-> 0, length |-> 3, value |-> 2], [from |-> 3, length |-> 2, value |-> 1]>>, <<>>>>
MCCodeIndex == <<3, 0>>

Idle == [q |-> "idle"]
Init == query = Idle
Ask(q) == query = Idle /\ query' = q
Answer == query # Idle /\ query' = Idle

AskReply == \E name \in DOMAIN Protocol, n \in 0 .. 2, len \in 0 .. 3, cut \in 0 .. 1 :
    Ask([q |-> "reply", name |-> name, n |-> n, len |-> len, cut |-> cut])
AskValues == \E t \in {86, 73, 68, 115, 91}, n \in 0 .. 2, cut \in 0 .. 1 :
    Ask([q |-> "values", t |-> t, n |-> n, cut |-> cut])
AskSizes == \E sizes \in [1 .. 5 -> {0, 1, 8, 9}], cut \in 0 .. 1 :
    Ask([q |-> "sizes", sizes |-> sizes, cut |-> cut])
AskEvents == \E k \in DOMAIN SentEvents, n \in 0 .. 3, len \in 0 .. 3, cut \in 0 .. 1 :
    Ask([q |-> "events", k |-> k, n |-> n, len |-> len, cut |-> cut])
AskText == \E len \in 0 .. 4, cut \in 0 .. 1 : Ask([q |-> "text", len |-> len, cut |-> cut])
Requests == [op : {"stackTrace", "scopes", "variables"}, arg : 1 .. 4] \cup {[op |-> "stop", arg |-> 0]}
AskInspect == \E a, b, c \in Requests :
    Ask([q |-> "inspect", rs |-> <<[op |-> "threads", arg |-> 0], a, b, c>>])
AskFrames == \E total, start, levels \in 0 .. 4 :
    Ask([q |-> "frames", total |-> total, start |-> start, levels |-> levels])
AskObject == \E o \in DOMAIN Heap : Heap[o].kind = "object" /\ Ask([q |-> "object", o |-> o])
AskLine == \E a, b, c \in 0 .. 3, index \in 0 .. 4 :
    Ask([q |-> "line", index |-> index,
         table |-> <<[at |-> a, line |-> 1], [at |-> b, line |-> 2], [at |-> c, line |-> 3]>>])
AskPackage == \E text \in UNION {[1 .. n -> Symbols] : n \in 0 .. 4} : Ask([q |-> "package", text |-> text])
AskLaunch == \E w \in [explicit : BOOLEAN, root : BOOLEAN, outputs : BOOLEAN, tests : BOOLEAN,
                       testOutputs : BOOLEAN, override : {"unset", "has", "lacks"}, javaHome : {"has", "lacks"}, best : {"lacks"}, sources : BOOLEAN, mkdir : BOOLEAN,
                       argfile : BOOLEAN, spawned : BOOLEAN, exit : {"success", "failure", "timeout"}] :
    Ask([q |-> "launch", w |-> w])

\* Repositories of three artifacts.
Dep(ga, version) == [ga |-> ga, version |-> version, scope |-> "none", optional |-> FALSE,
                     classifier |-> FALSE, exclusions |-> {}]
Pom(deps) == [parent |-> NoParent, rel |-> <<"..", "pom">>, props |-> Empty, version |-> Lit(1),
              managed |-> <<>>, deps |-> deps, modules |-> <<>>]
Excluding(dep, gas) == [dep EXCEPT !.exclusions = gas]
Managed(ga, version, scope) == [ga |-> ga, version |-> version, scope |-> scope]
DepLists == {<<>>, <<Dep(2, Lit(1))>>, <<Dep(3, Lit(2))>>, <<Dep(3, Lit(1)), Dep(2, Lit(2))>>,
             <<Excluding(Dep(2, Lit(1)), {3})>>, <<[Dep(3, Lit(1)) EXCEPT !.optional = TRUE]>>,
             <<[Dep(2, Lit(1)) EXCEPT !.scope = "test"]>>, <<[Dep(2, Lit(1)) EXCEPT !.classifier = TRUE]>>}
RootLists == {<<Dep(1, Lit(1))>>, <<Excluding(Dep(1, Lit(1)), {3})>>, <<Dep(1, Lit(1)), Dep(3, Lit(1))>>,
              <<Excluding(Dep(1, Lit(1)), {3}), Dep(2, Lit(1))>>, <<Dep(2, Nothing), Dep(1, Lit(1))>>}
Store(poms, nojar, nopom) ==
    [c \in (1 .. 3) \X (1 .. 2) |->
        [jar |-> c \notin nojar, pom |-> IF c \in nopom THEN NoPom ELSE Pom(IF c \in DOMAIN poms THEN poms[c] ELSE <<>>)]]
World(stores, files) == [stores |-> stores, files |-> files, root |-> <<"w", "p">>]
AtRoot == <<"w", "p", "pom">>
AskResolve == \E a, b \in DepLists, c \in {<<>>, <<Dep(1, Lit(2))>>, <<Dep(2, Lit(2))>>}, r \in RootLists,
                 lost \in {{}, {<<2, 1>>}} :
    Ask([q |-> "resolve", root |-> r,
         w |-> World(<<Store((<<1, 1>> :> a) @@ (<<2, 1>> :> b) @@ (<<3, 1>> :> c), lost, {})>>, AtRoot :> Pom(r))])
Manage == UNION {[1 .. n -> {Managed(2, Lit(1), "none"), Managed(2, Ref(100), "test"), Managed(3, Lit(1), "import")}] :
                     n \in 0 .. 2}
AskEffective == \E own, par \in Manage, dep \in {Nothing, Lit(2), Ref(100), Ref(PARENT_VERSION), Ref(103)},
                   prop \in BOOLEAN, redeclared \in BOOLEAN, cached \in BOOLEAN :
    LET parent == [Pom(<<Dep(2, Lit(1)), Dep(3, Ref(PROJECT_VERSION))>>)
                      EXCEPT !.managed = par, !.props = 100 :> Ref(99) @@ 99 :> Lit(2)]
        child == [Pom(IF redeclared THEN <<Dep(2, dep)>> ELSE <<Dep(1, dep)>>)
                      EXCEPT !.managed = own, !.parent = <<1, 1>>, !.version = Nothing,
                             !.props = IF prop THEN 100 :> Lit(1) ELSE Empty]
        bom == [Pom(<<>>) EXCEPT !.managed = <<Managed(1, Lit(2), "none"), Managed(2, Lit(2), "provided")>>]
        store == [Store(Empty, {}, {}) EXCEPT ![<<1, 1>>].pom = IF cached THEN parent ELSE NoPom, ![<<3, 1>>].pom = bom]
    IN  Ask([q |-> "effective", own |-> own, par |-> par, dep |-> dep, prop |-> prop, redeclared |-> redeclared,
             cached |-> cached, child |-> child, w |-> World(<<store>>, AtRoot :> child)])
AskLocal == \E rel \in UNION {[1 .. n -> {"..", ".", "p", "m", "pom"}] : n \in 1 .. 4} :
    Ask([q |-> "local", rel |-> rel])
Literal(v) == [ga |-> 1, v |-> v, parts |-> 3, interpolated |-> FALSE, spaced |-> FALSE, digit |-> TRUE, dynamic |-> FALSE]
\* `1.+`, whose version has a digit or a plus, and `latest.release`, whose
\* version has neither.
Ranged == [Literal(2) EXCEPT !.dynamic = TRUE]
Newest == [Literal(3) EXCEPT !.dynamic = TRUE, !.digit = FALSE]
AskGradle == \E l \in SUBSET {Literal(1), Literal(2), Ranged, Newest, [Literal(1) EXCEPT !.interpolated = TRUE]},
                nojar, nopom \in SUBSET {<<1, 1>>}, nojar2, nopom2 \in SUBSET {<<1, 1>>} :
    Ask([q |-> "gradle", literals |-> SetToSeq(l),
         w |-> World(<<Store(<<1, 1>> :> <<Dep(2, Lit(1))>>, nojar, nopom),
                       Store(<<1, 1>> :> <<Dep(2, Lit(2))>>, nojar2, nopom2)>>, Empty)])
Texts == UNION {[1 .. n -> {1, 8, 17}] : n \in 1 .. 3}
AskRelease == \E a, b \in Texts, c \in {0} \cup {103, 105}, jmods, unreadable \in BOOLEAN :
    Ask([q |-> "release", props |-> 103 :> (IF c = 0 THEN Lit(a) ELSE Ref(c)) @@ 105 :> Lit(b),
         jdks |-> <<[jmods |-> TRUE, release |-> a, path |-> 2],
                    [jmods |-> jmods, release |-> IF unreadable THEN <<>> ELSE b, path |-> 9]>>])

\* Archives.
Record(name, at) == [sig |-> TRUE, utf8 |-> TRUE, name |-> name, safe |-> TRUE, nlen |-> 1, rest |-> 0,
                     method |-> "store", comp |-> 1, uncomp |-> 1, zip64 |-> FALSE, at |-> at]
Records == {Record("a", 0), Record("a", 1), [Record("b", 1) EXCEPT !.rest = 1], [Record("b", 0) EXCEPT !.uncomp = 3],
            [Record("b", 0) EXCEPT !.zip64 = TRUE], [Record("b", 0) EXCEPT !.safe = FALSE],
            [Record("b", 0) EXCEPT !.sig = FALSE]}
ZipFile(len, eocds, records) == [len |-> len, eocds |-> eocds, records |-> records,
                                 locals |-> (0 :> [sig |-> TRUE, skip |-> 1, inflates |-> 3]) @@ (1 :> [sig |-> TRUE, skip |-> 0, inflates |-> 2])]
End(pos, size, offset) == [pos |-> pos, size |-> size, offset |-> offset, zip64 |-> FALSE]
AskZip == \E len \in {3, 10, 13}, size \in {0, 5, 6, 8, 9}, offset \in {0, 3}, two \in BOOLEAN,
             records \in UNION {[1 .. n -> Records] : n \in 0 .. 3} :
    Ask([q |-> "zip", size |-> size, offset |-> offset,
         file |-> ZipFile(len, {End(len - 3, size, offset)} \cup (IF two THEN {End(len - 4, 0, 0)} ELSE {}), records)])
AskEntry == \E len \in 1 .. 5, at \in 0 .. 2, comp, uncomp \in 0 .. 2, method \in {"store", "deflate", "other"} :
    Ask([q |-> "entry", file |-> ZipFile(len, {}, <<>>),
         entry |-> [Record("a", at) EXCEPT !.comp = comp, !.uncomp = uncomp, !.method = method]])
ArchiveKinds == {[opens |-> o, classes |-> c] : o \in BOOLEAN, c \in {"A" :> "good", "A" :> "broken", "B" :> "good"}}
AskClass == \E a, b, c \in ArchiveKinds, f, g \in {"A", "B"} : Ask([q |-> "class", jdk |-> <<a>>, maven |-> <<b>>, gradle |-> <<c>>, asked |-> <<f, g, f>>])
AskDegraded == \E why \in {"missing", "depth", "dynamic", "classifier", "version", "parent", "module", "nodes"} :
    Ask([q |-> "degraded", why |-> why])
TypeNames == {<<4>>, <<7, DOT, 4, 6, 6>>, <<6, DOT, 4>>, <<6, DOT, 4, 7>>, <<6, DOT, 7, DOT, 5>>, <<7, DOT, 6>>, <<6, DOT, 4, DOLLAR, 5>>,
              <<6, DOT, 4, DOLLAR, DIGIT>>, <<6, DOLLAR, DOT, 4>>, <<6, 7, DOT, 6, 6>>, <<6, DOT, 7, DOT, 6, DOT, 4>>}
AskIndex == \E names \in SUBSET TypeNames, jdk \in BOOLEAN, limit \in 0 .. 2 : Cardinality(names) <= 4 /\
    Ask([q |-> "index", ix |-> BuildIndex(SetToSeq({[fqn |-> n, jdk |-> jdk] : n \in names}), {<<6, DOT, 7>>}),
         names |-> names, jdk |-> jdk, limit |-> limit])
ClassFile(super, ifaces, sig, flags, inner, nested, members) ==
    [super |-> super, ifaces |-> ifaces, sigSupers |-> sig, flags |-> flags, inner |-> inner, nested |-> nested,
     members |-> members]
MemberOf(kind, name, flags, params, sig) == [kind |-> kind, name |-> name, flags |-> flags, params |-> params, sigParams |-> sig]
AskClassFile == \E super \in {"none", "java.lang.Record", "S"}, ifaces \in 0 .. 2, sig \in -1 .. 3,
                   inner \in {"absent", "static", "inner"}, nested \in BOOLEAN, kind \in {"field", "method"},
                   name \in {"m", "<init>", "<clinit>"},
                   flags \in SUBSET {"public", "private", "protected", "synthetic", "bridge"}, params \in 0 .. 1 :
    /\ kind = "field" => name = "m" /\ "bridge" \notin flags
    /\ inner # "absent" => nested /\ ifaces = 0
    /\ Ask([q |-> "classfile", cf |-> ClassFile(super, ifaces, sig, {}, inner, nested,
                                              <<MemberOf(kind, name, flags, params, sig)>>)])

AskToolchain ==
    \/ AskResolve \/ AskEffective \/ AskLocal \/ AskGradle \/ AskRelease \/ AskZip \/ AskEntry \/ AskClass
    \/ AskDegraded \/ AskIndex \/ AskClassFile \/ AskReply \/ AskValues \/ AskSizes \/ AskEvents \/ AskText
    \/ AskInspect \/ AskFrames \/ AskObject \/ AskLine \/ AskPackage \/ AskLaunch

-----------------------------------------------------------------------------
Cut(bytes, n) == SubSeq(bytes, 1, Len(bytes) - n)
FieldValues(fields) ==
    FlattenSeq([i \in DOMAIN fields |->
        CASE fields[i].kind = "string" -> <<[j \in 1 .. fields[i].v |-> 7]>>
          [] fields[i].kind = "value" -> <<<<76>>, Tail(Sent(<<fields[i]>>))>>
          [] OTHER -> <<Sent(<<fields[i]>>)>>])
Strings(kinds) == \E i \in DOMAIN kinds : kinds[i] = "string"
SampleFields(kinds, len) ==
    [i \in DOMAIN kinds |-> Field(kinds[i], IF kinds[i] = "string" THEN len ELSE i)]

\* A complete payload decodes to the values that were sent and to its very
\* end, a truncated one to an error, whatever the id sizes; a structural string
\* beyond the cap is an error (Reader and the replies of Vm).
RepliesDecoded ==
    query.q = "reply" =>
        LET sent == Protocol[query.name]
            head == SampleFields(sent.head, query.len)
            group == SampleFields(sent.each, query.len)
            groups == IF sent.each = <<>> THEN <<>> ELSE Repeat(group, query.n)
            bytes == Sent(head) \o (IF sent.each = <<>> THEN <<>> ELSE <<0, 0, 0, query.n>>) \o Sent(groups)
            tooLong == query.len > MAX_STRING_LEN
                       /\ (Strings(sent.head) \/ (Strings(sent.each) /\ query.n > 0))
            r == ReadReply(Cut(bytes, query.cut), Commands[query.name])
        IN  /\ r.ok <=> (query.cut = 0 \/ bytes = <<>>) /\ ~tooLong
            /\ r.ok => r.out = FieldValues(head \o groups) /\ r.pos = Len(bytes)

\* The id sizes every later decoding uses are taken only if all are usable
\* (parse_id_sizes).
SizesUsable ==
    query.q = "sizes" =>
        LET bytes == Sent([i \in 1 .. 5 |-> Field("u32", query.sizes[i])])
            r == ReadIdSizes(Cut(bytes, query.cut))
        IN  r.ok <=> query.cut = 0 /\ Range(query.sizes) \subseteq {1, 8}

\* What a command writes is what the protocol says the debuggee reads, to the
\* last byte (Writer, the commands of Vm).
CommandsWellFormed ==
    query.q = "reply" =>
        LET spec == Protocol[query.name]
            bytes == WriteCommand(Commands[query.name], query.n, query.len)
            r == ReadReply(bytes, [head |-> spec.asks, each |-> spec.list])
        IN  query.len <= MAX_STRING_LEN => r.ok /\ r.pos = Len(bytes)

\* Values decode by their tag: tagged ones in frames and objects, and array
\* regions, whose primitive elements carry no tag (tagged_value, array_values).
ValuesDecoded ==
    query.q = "values" =>
        LET body == IF query.t = 86 THEN <<>> ELSE Tail(SentValue(query.t))
            count == <<0, 0, 0, query.n>>
            tagged == count \o Sent(Repeat(SentValue(query.t), query.n))
            region == <<query.t>> \o count
                      \o Sent(Repeat(IF query.t \in {115, 91} THEN SentValue(query.t) ELSE body, query.n))
            r == ReadReply(Cut(tagged, query.cut), Commands.stack_values)
            a == ReadRegion(Cut(region, query.cut))
        IN  /\ r.ok <=> query.cut = 0
            /\ r.ok => r.pos = Len(tagged)
            /\ a.ok <=> query.cut = 0
            /\ a.ok => a.pos = Len(region)

\* An event set decodes completely or not at all, and not at all beyond the
\* number of events allowed (parse_composite).
EventsDecoded ==
    query.q = "events" =>
        LET event == <<Field("u8", query.k), Field("u32", 3)>> \o SampleFields(SentEvents[query.k], query.len)
            bytes == <<2, 0, 0, 0, query.n>> \o Sent(Repeat(event, query.n))
            tooLong == query.len > MAX_STRING_LEN /\ Strings(SentEvents[query.k]) /\ query.n > 0
            r == ReadComposite(Cut(bytes, query.cut))
        IN  /\ r.ok <=> query.cut = 0 /\ ~tooLong /\ query.n <= MAX_EVENTS_PER_COMPOSITE
            /\ r.ok => r.out = <<<<2>>>> \o FieldValues(Repeat(event, query.n)) /\ r.pos = Len(bytes)

\* A value string is cut at the cap, and the reader ends after it (value_string).
TextTruncated ==
    query.q = "text" =>
        LET r == ReadReply(Cut(Sent(<<Field("string", query.len)>>), query.cut), Commands.string_value)
        IN  /\ r.ok <=> query.cut = 0
            /\ r.ok => r.pos = 4 + query.len
                       /\ Len(r.out[1]) = (IF query.len > MAX_STRING_LEN THEN MAX_STRING_LEN ELSE query.len)

\* No handle is given out twice in a session, and those that resolve are
\* exactly the ones given since the last stop: one of an earlier stop is
\* refused and never taken for another frame or value (new_handle,
\* invalidate_handles).
HandlesNeverReused ==
    query.q = "inspect" =>
        LET t == Trace(query.rs)
            live(k) == DOMAIN t[k].frames \cup DOMAIN t[k].varrefs
            stopped(i, k) == \E j \in i + 1 .. k : query.rs[j - 1].op = "stop"
        IN  \A i, k \in DOMAIN t : i < k =>
                /\ Range(t[i].given) \cap Range(t[k].given) = {}
                /\ IF stopped(i, k) THEN Range(t[i].given) \cap live(k) = {} ELSE Range(t[i].given) \subseteq live(k)

\* Stack frames are asked for within the stack (the debuggee refuses more),
\* and all that exist and were asked for are shown (stack_trace).
FramesWithinStack ==
    query.q = "frames" =>
        LET n == FrameRange(query.total, query.start, query.levels)
            shown == IF n = -1 THEN query.total - query.start ELSE n
            wanted == {f \in query.start + 1 .. query.total :
                           query.levels = 0 \/ f <= query.start + query.levels}
        IN  /\ n > 0 => query.start + n <= query.total
            /\ shown = Cardinality(wanted)

\* An object shows the instance fields of its class and of every superclass
\* within the cap (object_children).
FieldsInherited ==
    query.q = "object" =>
        /\ {f.name : f \in Range(ObjectChildren(query.o))} = {"x", "detailMessage", "y"}
        /\ DetailMessage(query.o) = 3

\* The line of an index is the one whose range of code holds it, for tables in
\* any order (line_for_index).
LineHoldsIndex ==
    query.q = "line" =>
        LET entries == Range(query.table)
            covering == {e \in entries : e.at <= query.index
                           /\ ~\E f \in entries : e.at < f.at /\ f.at <= query.index}
            l == LineForIndex(query.table, query.index)
        IN  IF covering = {} THEN l = 0 ELSE l = Max({e.line : e \in covering})

\* The lexer of reference: a mode per character.
Lex(text) ==
    LET step(acc, i) ==
            LET c == text[i]
                n == IF i < Len(text) THEN text[i + 1] ELSE "end"
            IN  CASE acc.skip > 0 -> [acc EXCEPT !.skip = @ - 1]
                  [] acc.mode = "line" -> IF c = "n" THEN [acc EXCEPT !.mode = "code"] ELSE acc
                  [] acc.mode = "block" -> IF c = "*" /\ n = "/" THEN [acc EXCEPT !.mode = "code", !.skip = 1] ELSE acc
                  [] acc.mode = "quote" -> IF c = "q" THEN [acc EXCEPT !.mode = "code"] ELSE acc
                  [] OTHER -> CASE c = "/" /\ n = "/" -> [acc EXCEPT !.mode = "line"]
                                [] c = "/" /\ n = "*" -> [acc EXCEPT !.mode = "block", !.skip = 1]
                                [] c = "q" -> [acc EXCEPT !.mode = "quote"]
                                [] OTHER -> [acc EXCEPT !.code = Append(@, i)]
    IN  FoldLeft(step, [mode |-> "code", skip |-> 0, code |-> <<>>], [i \in DOMAIN text |-> i]).code

\* The word the scanner starts from is the first one a Java lexer sees
\* outside comments and literals, and a declaration there is taken
\* (scan_package, fqcn_for_source).
PackageIsFirstWord ==
    query.q = "package" =>
        LET words == {i \in Range(Lex(query.text)) : query.text[i] \in Word}
            first == IF words = {} THEN 0 ELSE Min(words)
        IN  /\ FirstWord(query.text, 1) = first
            /\ DeclaresPackage(query.text) => query.text[first] = "P"
            /\ first > 0 /\ SubSeq(query.text, first, Len(query.text)) = <<"P", " ", "w", ";">> => DeclaresPackage(query.text)

\* A launch that succeeds has the tests on its classpath when tests are run,
\* the launcher's jar before everything else, and owns its scratch directory;
\* one that fails leaves none (assemble_classpath).
LaunchPlanSound ==
    query.q = "launch" =>
        LET p == AssembleClasspath(query.w)
        IN  /\ p.ok => Head(p.path) = "additional"
            /\ p.ok /\ query.w.tests => Range(p.path) \cap {"explicit", "testOutputs", "scratch"} # {}
            /\ p.scratch => query.w.override # "lacks" /\ (query.w.override = "unset" => query.w.javaHome = "has")
            /\ p.scratch <=> p.ok /\ "scratch" \in Range(p.path)

\* The levels of the dependency graph: the artifacts first met at a depth, in
\* the order of the nodes that ask for them.
RECURSIVE Levels(_, _, _)
Levels(w, level, won) ==
    LET fresh == FoldLeft(LAMBDA acc, s : IF s.ga \in won \cup {t.ga : t \in Range(acc)} THEN acc ELSE Append(acc, s),
                          <<>>, level)
        next == FlattenSeq([i \in DOMAIN fresh |-> Visit(w, fresh[i], 0).seeds])
    IN  IF fresh = <<>> THEN <<>>
        ELSE fresh \o Levels(w, next, won \cup {s.ga : s \in Range(fresh)})

\* Of an artifact the version nearest to the root is taken, the first declared
\* of equals, and no other; what is taken and has a jar is on the classpath.
\* A cycle of dependencies ends (resolve_transitive).
NearestWins ==
    query.q = "resolve" =>
        LET seeds == RootSeeds(query.root).seeds
            chosen == Levels(query.w, seeds, {})
            with == SelectSeq(chosen, LAMBDA s : Locate(query.w, Coord(s), "jar"))
        IN  ResolveMaven(query.w).jars = [i \in DOMAIN with |-> Coord(with[i])]

\* No dependency is lost in silence: what a taken artifact asks for, is
\* neither optional nor for tests nor excluded on the way, is taken in some
\* version, or recorded as missing or declined (resolve_transitive,
\* record_classifier_skip, record_unresolved_version).
NothingLostSilently ==
    query.q = "resolve" =>
        LET r == ResolveMaven(query.w)
            known == {c[1] : c \in Range(r.jars)} \cup {d.coord[1] : d \in r.degraded}
            taken == Range(Levels(query.w, RootSeeds(query.root).seeds, {}))
        IN  /\ \A i \in DOMAIN query.root : query.root[i].ga \in known
            /\ \A s \in taken : Coord(s) \in Range(r.jars) =>
                   \A d \in Range(CachedPom(query.w, Coord(s)).deps) :
                       d.scope = "none" /\ ~d.optional /\ d.ga \notin s.excl => d.ga \in known

\* What every dependency of the project excludes is not on the classpath, at
\* whatever depth it is asked for (the exclusions of resolve_transitive).
ExclusionsHold ==
    query.q = "resolve" =>
        \A ga \in 1 .. 3 :
            (\A i \in DOMAIN query.root : query.root[i].ga # ga /\ ga \in query.root[i].exclusions)
            => \A c \in Range(ResolveMaven(query.w).jars) : c[1] # ga

\* A dependency without a version of its own has the one of the first
\* management entry, of the pom itself (imported ones in their place) or else
\* of its parents; its own literal version always wins; a dependency declared
\* again replaces the inherited one (parse_effective_pom_raw_from_doc).
EffectiveVersion ==
    query.q = "effective" =>
        LET e == Effective(query.w, query.child, AtRoot, 0)
            ga == IF query.redeclared THEN 2 ELSE 1
            p == IF query.prop THEN Lit(1) ELSE IF query.cached THEN Lit(2) ELSE Ref(100)
            literal == CASE query.dep = Ref(100) -> p
                         [] query.dep = Ref(PARENT_VERSION) -> Lit(1)
                         [] OTHER -> query.dep
            says(m, pp) == CASE m.scope = "import" -> {Lit(2)}
                             [] m.ga = ga -> {IF m.version = Ref(100) THEN pp ELSE m.version}
                             [] OTHER -> {}
            list == [i \in DOMAIN query.own |-> says(query.own[i], p)]
                    \o (IF query.cached THEN [i \in DOMAIN query.par |-> says(query.par[i], Lit(2))] ELSE <<>>)
            managed == SelectSeq(list, LAMBDA x : x # {})
            expected == IF literal.k = "lit" THEN literal
                        ELSE IF managed = <<>> THEN Nothing ELSE CHOOSE v \in Head(managed) : TRUE
            own == SelectSeq(e.deps, LAMBDA d : d.ga = ga)
        IN  /\ Len(own) = 1 /\ own[1].version = expected
            /\ {d.ga : d \in Range(e.deps)} = {ga} \cup (IF query.cached THEN {2, 3} ELSE {})
            /\ (e.degraded = {}) = query.cached

\* The parent pom a project pom names by a path is inside the project
\* (project_local_parent, lexical_normalize).
ParentInsideProject ==
    query.q = "local" =>
        LET files == [f \in {<<"w", "p", "pom">>, <<"w", "pom">>, <<"pom">>, <<"w", "p", "m", "pom">>, <<"w", "p">>} |-> NoPom]
            w == World(<<>>, files)
            found == ProjectLocalParent(w, <<"w", "p", "m", "pom">>, query.rel)
            ups == Cardinality({i \in DOMAIN query.rel : query.rel[i] = ".."})
        IN  /\ found # NoPath => found[1] = "w" /\ found[2] = "p"
            /\ query.rel = <<"..", "pom">> => found = AtRoot
            /\ ups = 0 /\ found # NoPath => found = <<"w", "p", "m", "pom">>

\* A Gradle coordinate is complete when each of its files is in one of the two
\* caches, the pom perhaps in the one and the jar in the other
\* (FallbackLocator asks the second cache file by file); the lowest of two
\* pinned versions is taken.  A dynamic version is reported exactly if it has
\* a digit or a plus: scrape_coords takes the others, `latest.release` among
\* them, for no coordinates at all and leaves them out unreported.
EitherCache ==
    query.q = "gradle" =>
        LET r == ResolveGradle(query.w, query.literals)
            usable == {l \in Range(query.literals) : ~l.interpolated}
            pinned == {l.v : l \in {x \in usable : ~x.dynamic}}
            in(i, f) == IF f = "jar" THEN query.w.stores[i][<<1, 1>>].jar ELSE query.w.stores[i][<<1, 1>>].pom # NoPom
            complete == (in(1, "jar") \/ in(2, "jar")) /\ (in(1, "pom") \/ in(2, "pom"))
        IN  /\ {d.coord : d \in {d \in r.degraded : d.why = "dynamic"}} = {<<l.ga, l.v>> : l \in {x \in usable : x.dynamic /\ x.digit}}
            /\ 1 \in pinned => (complete <=> <<1, 1>> \in Range(r.jars) /\ r.degraded \subseteq {[why |-> "dynamic", coord |-> <<1, 2>>]})
            /\ 1 \in pinned /\ complete =>
                   Range(r.jars) = {<<1, 1>>, <<2, IF in(1, "pom") THEN 1 ELSE 2>>}

\* The three readers of a Java version agree wherever they all read one, and
\* the JDK with the greatest version is used (parse_release_level,
\* parse_feature_version, version_token, best_jdk).
VersionsAgree ==
    query.q = "release" =>
        LET a == query.jdks[1].release
            b == query.props[105].v
            best == BestJdk(<<>>, query.jdks)
        IN  /\ ReleaseLevel(a) # 0 /\ a # <<1>> => ReleaseLevel(a) = FeatureVersion(a) /\ ReleaseLevel(a) = VersionToken(a)
            /\ ReleaseFromProps(query.props) =
                   (IF query.props[103].k = "lit" /\ ReleaseLevel(a) # 0 THEN ReleaseLevel(a) ELSE ReleaseLevel(b))
            /\ \A j \in Range(query.jdks) : j.jmods => RankedVersion(j) <= RankedVersion(best)

\* Where the n-th record of a directory begins.
RecordAt(records, n) == SumFunction([i \in 1 .. n - 1 |-> HEADER_LEN + records[i].nlen + records[i].rest])

\* The entries of an archive are those of the directory the last end record
\* declares, up to the first record that is not one or leaves it; of a name the
\* last counts; none is unsafe or oversized; a directory that is not in the
\* file, or has too many records, is refused (ZipArchive::open).
ZipEntriesSound ==
    query.q = "zip" =>
        LET rs == query.file.records
            fits(i) == rs[i].sig /\ RecordAt(rs, i) + HEADER_LEN + rs[i].nlen <= query.size
            listed == {i \in DOMAIN rs : \A j \in 1 .. i : fits(j)}
            kept == {i \in listed : rs[i].safe /\ ~rs[i].zip64 /\ rs[i].uncomp <= MAX_UNCOMPRESSED}
            z == OpenZip(query.file, 0)
        IN  /\ z.ok => query.offset + query.size <= query.file.len /\ Cardinality(listed) <= MAX_CD_ENTRIES
            /\ z.ok => z.entries = {rs[i] : i \in {k \in kept : ~\E l \in kept : l > k /\ rs[l].name = rs[k].name}}
            /\ query.offset + query.size <= query.file.len /\ Len(rs) <= MAX_CD_ENTRIES
               /\ query.size <= MAX_CENTRAL_DIRECTORY_SIZE => z.ok

\* Reading an entry reads only what is in the file and yields at most the cap,
\* whatever the data inflates to; a stored entry is as long as the directory
\* declares, a deflated one need not be (ZipArchive::read, read_at).
ReadsWithinFile ==
    query.q = "entry" =>
        LET r == ReadEntry(query.file, 0, query.entry)
        IN  /\ \A x \in r.reads : x[1] + x[2] <= query.file.len
            /\ r.ok => r.size <= MAX_UNCOMPRESSED /\ (query.entry.method = "store" => r.size = query.entry.uncomp)

\* A type is found in the first archive where it is readable, the JDK before
\* the jars, and asking again gives the same answer (Classpath::class, load).
FirstUsableClass ==
    query.q = "class" =>
        LET as == BuildClasspath(query.jdk, query.maven, query.gradle).archives
            run == FoldLeft(LAMBDA s, f : LET r == ClassOf(as, s.cache, f)
                                          IN  [cache |-> r.cache, answers |-> Append(s.answers, r.answer)],
                            [cache |-> [f \in {} |-> 0], answers |-> <<>>], query.asked)
            usable(i, f) == f \in DOMAIN as[i].classes /\ as[i].classes[f] = "good"
        IN  \A k \in DOMAIN query.asked :
                /\ run.answers[k] # 0 => usable(run.answers[k], query.asked[k])
                /\ \A i \in DOMAIN as : usable(i, query.asked[k]) => run.answers[k] \in 1 .. i

\* Of what could not be resolved exactly the coordinates that are only missing
\* from the caches are offered for download (parse_degraded_entry).
OnlyMissingFetched == query.q = "degraded" => (Fetchable(FormatDegraded(query.why)) <=> query.why = "missing")

\* A search answers the best of all types whose simple name begins with the
\* prefix in any case, and says whether there were more (types_with_prefix).
PrefixBest ==
    query.q = "index" => \A prefix \in {<<4>>, <<6>>, <<7>>, <<6, 7>>, <<5>>} :
        LET r == TypesWithPrefix(query.ix, prefix, query.limit)
            offered == {n \in query.names : Offerable(n, query.jdk, {<<6, DOT, 7>>})}
            match == {n \in offered : IsPrefix(Lower(prefix), Lower(SimpleOf(n)))}
        IN  /\ Len(r.hits) = Least(query.limit, Cardinality(match)) /\ Range(r.hits) \subseteq match
            /\ \A h \in Range(r.hits), n \in match \ Range(r.hits) : Len(SimpleOf(h)) <= Len(SimpleOf(n))
            /\ query.limit > 0 => (r.truncated <=> Cardinality(match) > query.limit)

\* A package lists its types and the next segments of all packages below it
\* that hold types, those in between included.  A segment s is listed twice
\* exactly if there is a sibling that goes on after s with a `$`, which sorts
\* before the dot, so that it comes between s and the packages below s; all
\* others are listed once (package_children drops adjacent repetitions only).
ChildrenExact ==
    query.q = "index" => \A package \in {<<>>, <<6>>, <<6, DOT, 7>>, <<7>>} :
        LET offered == {n \in query.names : Offerable(n, query.jdk, {<<6, DOT, 7>>})}
            below == {n \in offered : IsPrefix(package, n) /\ (package # <<>> => n[Len(package) + 1] = DOT)}
            rest(n) == IF package = <<>> THEN n ELSE SubSeq(n, Len(package) + 2, Len(n))
            deeper == {n \in below : LastAt(rest(n), DOT) # 0}
            first(n) == SubSeq(rest(n), 1, FirstAt(rest(n), DOT) - 1)
            segments == {first(n) : n \in deeper}
            between(s) == /\ \E t \in segments : IsPrefix(Append(s, DOLLAR), t)
                          /\ \E n \in deeper : first(n) = s /\ FirstAt(rest(n), DOT) # LastAt(rest(n), DOT)
            r == PackageChildren(query.ix, package)
        IN  /\ Range(r.packages) = segments
            /\ \A s \in segments : Cardinality({i \in DOMAIN r.packages : r.packages[i] = s}) = IF between(s) THEN 2 ELSE 1
            /\ r.types = {n \in below : LastAt(rest(n), DOT) = 0}

\* What is read from a class file is aligned with it: type arguments are those
\* of a signature only if it names as many supertypes, and parameters as many
\* as the descriptor; no method that a check could need is left out, and none
\* that is not public or protected is offered (class_info::parse).
ClassFileAligned ==
    query.q = "classfile" =>
        LET c == ClassParse(query.cf)
            m == query.cf.members[1]
            made == m.flags \cap {"synthetic", "bridge"} # {} \/ m.name = "<clinit>"
            open == m.flags \cap {"public", "protected"} # {}
        IN  /\ c.superArgs.n = c.supers /\ (c.superArgs.generic => query.cf.sigSupers = c.supers)
            /\ \A x \in Range(c.members) : x.params.n = x.of.params /\ (x.params.generic => x.of.sigParams = x.of.params)
            /\ c.members # <<>> <=> ~made /\ (m.kind = "field" => open)
            /\ \A x \in Range(c.members) : x.hidden <=> ~open
            /\ query.cf.nested /\ ~c.static => c.kind = "class" \/ query.cf.inner = "inner"

=============================================================================
