---------------------------- MODULE ClassArchives ----------------------------
(***************************************************************************)
(* Reading types from archives (crates/classpath/src): the ZIP reader of   *)
(* zip.rs, the lookup and the messages of lib.rs, the index of type names  *)
(* of index.rs and the class file summary of class_info.rs.                *)
(***************************************************************************)
EXTENDS Integers, Sequences, FiniteSets, SequencesExt, FiniteSetsExt

CONSTANTS
    EOCD_LEN, MAX_COMMENT,          \* 22 and 65535
    HEADER_LEN, LOCAL_LEN,          \* 46 and 30
    MAX_CENTRAL_DIRECTORY_SIZE, MAX_CD_ENTRIES, MAX_UNCOMPRESSED

Least(a, b) == IF a < b THEN a ELSE b

-----------------------------------------------------------------------------
(***************************************************************************)
(* ZIP.  A file has a length, end records [pos, size, offset, zip64], a    *)
(* directory: records [sig, utf8, name, safe, nlen, rest, method, comp,    *)
(* uncomp, zip64, at], and local headers, by their position: [sig, skip,   *)
(* inflates].  "reads" are the ranges of the file that were asked for.     *)
(***************************************************************************)

\* read_at: nothing is read, or allocated, beyond the end of the file
ReadAt(file, pos, len) == pos + len <= file.len

\* find_eocd: the last end record within the tail
FindEocd(file) ==
    LET from == file.len - Least(file.len, EOCD_LEN + MAX_COMMENT)
        found == {e \in file.eocds : from <= e.pos /\ e.pos + EOCD_LEN <= file.len}
    IN  {e \in found : \A f \in found : f.pos <= e.pos}

\* What parse_central_directory leaves out: zip64, oversized, unsafe names.
Indexable(r) == r.utf8 /\ ~r.zip64 /\ r.uncomp <= MAX_UNCOMPRESSED /\ r.comp <= MAX_UNCOMPRESSED /\ r.safe

\* parse_central_directory: records up to the first one that is not one or
\* does not fit; too many reject the archive.
ParseDirectory(records, size) ==
    LET step(s, r) ==
            CASE s.done -> s
              [] s.p + HEADER_LEN > size \/ ~r.sig -> [s EXCEPT !.done = TRUE]
              [] s.count = MAX_CD_ENTRIES -> [s EXCEPT !.done = TRUE, !.ok = FALSE]
              [] s.p + HEADER_LEN + r.nlen > size -> [s EXCEPT !.done = TRUE, !.count = @ + 1]
              [] OTHER -> [s EXCEPT !.p = @ + HEADER_LEN + r.nlen + r.rest, !.count = @ + 1,
                                    !.entries = IF Indexable(r) THEN {e \in @ : e.name # r.name} \cup {r} ELSE @]
        end == FoldLeft(step, [done |-> FALSE, ok |-> TRUE, p |-> 0, count |-> 0, entries |-> {}], records)
    IN  [ok |-> end.ok, entries |-> IF end.ok THEN end.entries ELSE {}]

\* ZipArchive::open
OpenZip(file, base) ==
    LET no == [ok |-> FALSE, entries |-> {}]
        e == CHOOSE e \in FindEocd(file) : TRUE
    IN  IF FindEocd(file) = {} THEN no
        ELSE IF e.zip64 \/ e.size > MAX_CENTRAL_DIRECTORY_SIZE THEN no
        ELSE IF ~ReadAt(file, base + e.offset, e.size) THEN no
        ELSE ParseDirectory(file.records, e.size)

\* ZipArchive::read: the local header says where the data is
ReadEntry(file, base, entry) ==
    LET at == base + entry.at
        data == at + LOCAL_LEN + file.locals[at].skip
        no == [ok |-> FALSE, size |-> 0, reads |-> {}]
    IN  IF ~ReadAt(file, at, LOCAL_LEN) \/ at \notin DOMAIN file.locals THEN no
        ELSE IF ~file.locals[at].sig \/ ~ReadAt(file, data, entry.comp) THEN no
        ELSE CASE entry.method = "store" ->
                      [ok |-> entry.comp = entry.uncomp, size |-> entry.comp, reads |-> {<<data, entry.comp>>}]
               [] entry.method = "deflate" ->
                      [ok |-> file.locals[at].inflates <= MAX_UNCOMPRESSED, size |-> file.locals[at].inflates,
                       reads |-> {<<data, entry.comp>>}]
               [] OTHER -> no

-----------------------------------------------------------------------------
(***************************************************************************)
(* Lookup: archives and source archives in order.  A class is "good",      *)
(* "broken" (it does not parse) or not there.                              *)
(***************************************************************************)
\* A mutant of LoadClass: the first archive that has the name decides.
LoadClassFirst(archives, fqn) ==
    LET having == {i \in DOMAIN archives : fqn \in DOMAIN archives[i].classes}
    IN  IF having = {} \/ archives[Min(having)].classes[fqn] # "good" THEN 0 ELSE Min(having)

\* Classpath::load: the first archive with a class of that name that parses
LoadClass(archives, fqn) ==
    LET good == {i \in DOMAIN archives :
                     fqn \in DOMAIN archives[i].classes /\ archives[i].classes[fqn] = "good"}
    IN  IF good = {} THEN 0 ELSE Min(good)

\* Classpath::class: the answer is kept, a miss too.
ClassOf(archives, cache, fqn) ==
    IF fqn \in DOMAIN cache THEN [answer |-> cache[fqn], cache |-> cache]
    ELSE [answer |-> LoadClass(archives, fqn),
          cache |-> [f \in DOMAIN cache \cup {fqn} |-> IF f = fqn THEN LoadClass(archives, fqn) ELSE cache[f]]]

\* from_jdk_and_project, add_jar: the JDK's archives, the jars Maven and then
\* Gradle resolved, each that opens; the jars are the entries for javac too.
BuildClasspath(jdk, maven, gradle) ==
    LET jars == SelectSeq(maven \o gradle, LAMBDA j : j.opens)
    IN  [archives |-> SelectSeq(jdk, LAMBDA j : j.opens) \o jars, entries |-> jars]

-----------------------------------------------------------------------------
(***************************************************************************)
(* Degraded entries are texts: words, blanks, colons and parentheses       *)
(***************************************************************************)
Joined(words) == [i \in 1 .. 2 * Len(words) - 1 |-> IF i % 2 = 1 THEN words[(i + 1) \div 2] ELSE ":"]

\* The messages of resolve.rs and gradle.rs: coord_str and the reasons
FormatDegraded(why) ==
    CASE why = "missing" -> Joined(<<"g", "a", "v">>)
      [] why = "depth" -> Joined(<<"g", "a", "v">>) \o <<" ", "(", "max", " ", "depth", " ", "exceeded", ")">>
      [] why = "dynamic" -> Joined(<<"g", "a", "v">>) \o <<" ", "(", "dynamic", ")">>
      [] why = "classifier" -> Joined(<<"g", "a", "v">>) \o <<" ", "(", "classifier", " ", "c", ")">>
      [] why = "version" -> Joined(<<"g", "a">>) \o <<" ", "(", "unresolved", " ", "version", ")">>
      [] why = "parent" -> <<"child", ":", " ", "parent", " ">> \o Joined(<<"g", "a", "v">>) \o <<" ", "unreadable">>
      [] why = "module" -> <<"module", " ", "m", " ", "(", "pom", " ", "unreadable", ")">>
      [] why = "nodes" -> <<"truncated", ":", " ", "limit", " ", "(", "2000", ")", " ", "exceeded">>

\* parse_degraded_entry: a coordinate of plain segments, with a reason or not
ParseDegraded(text) ==
    LET closed == text # <<>> /\ Last(text) = ")"
        opens == {i \in 1 .. Len(text) - 1 : text[i] = " " /\ text[i + 1] = "("}
        base == IF closed /\ opens # {} THEN SubSeq(text, 1, Max(opens) - 1) ELSE text
        colons == Cardinality({i \in DOMAIN base : base[i] = ":"})
        plain == Len(base) = 2 * colons + 1 /\ \A i \in DOMAIN base : base[i] # " " /\ (base[i] = ":" <=> i % 2 = 0)
    IN  [ok |-> (closed => opens # {}) /\ plain /\ (colons = 2 \/ (colons = 1 /\ closed)),
         reason |-> closed, version |-> colons = 2]

\* missing_dependencies and DegradedCoordinate::is_fetchable
Fetchable(text) == LET d == ParseDegraded(text) IN d.ok /\ ~d.reason /\ d.version

-----------------------------------------------------------------------------
(***************************************************************************)
(* The index of type names.  A name is a sequence of characters, numbered  *)
(* in the order of their codes: "$", ".", a digit, two upper case letters, *)
(* the same in lower case.                                                 *)
(***************************************************************************)
DOLLAR == 1
DOT == 2
DIGIT == 3
Lower(s) == [i \in DOMAIN s |-> IF s[i] \in {4, 5} THEN s[i] + 2 ELSE s[i]]
LexLess(a, b) ==
    \/ IsStrictPrefix(a, b)
    \/ \E i \in 1 .. Least(Len(a), Len(b)) : a[i] < b[i] /\ SubSeq(a, 1, i - 1) = SubSeq(b, 1, i - 1)

LastAt(s, c) == IF \E i \in DOMAIN s : s[i] = c THEN Max({i \in DOMAIN s : s[i] = c}) ELSE 0
FirstAt(s, c) == IF \E i \in DOMAIN s : s[i] = c THEN Min({i \in DOMAIN s : s[i] = c}) ELSE Len(s) + 1

\* split_internal
PackageOf(fqn) == IF LastAt(fqn, DOT) = 0 THEN <<>> ELSE SubSeq(fqn, 1, LastAt(fqn, DOT) - 1)
LastSegment(fqn) == SubSeq(fqn, LastAt(fqn, DOT) + 1, Len(fqn))
SimpleOf(fqn) == LET l == LastSegment(fqn) IN SubSeq(l, LastAt(l, DOLLAR) + 1, Len(l))

\* offerable: no synthetic, anonymous or local class; of the JDK, no hidden
\* namespace.
Offerable(fqn, fromJdk, hidden) ==
    LET l == LastSegment(fqn)
        pkg == PackageOf(fqn)
    IN  /\ ~\E i \in 1 .. Len(l) - 1 : l[i] = DOLLAR /\ l[i + 1] = DOLLAR
        /\ SimpleOf(fqn) # <<>> /\ SimpleOf(fqn)[1] # DIGIT
        /\ fromJdk => ~\E ns \in hidden : pkg = ns \/ IsPrefix(Append(ns, DOT), pkg)

Ancestors(pkg) == {SubSeq(pkg, 1, i) : i \in {j \in 1 .. Len(pkg) : j = Len(pkg) \/ pkg[j + 1] = DOT}}

\* TypeIndex::build: [name, jdk] pairs, the first of a name wins
BuildIndex(names, hidden) ==
    LET offered == {n.fqn : n \in {m \in Range(names) : Offerable(m.fqn, m.jdk, hidden)}}
    IN  [entries |-> SetToSortSeq(offered, LAMBDA a, b :
                         LexLess(Lower(SimpleOf(a)), Lower(SimpleOf(b)))
                         \/ (Lower(SimpleOf(a)) = Lower(SimpleOf(b)) /\ LexLess(a, b))),
         packages |-> SetToSortSeq(UNION {Ancestors(PackageOf(f)) : f \in offered}, LexLess)]

\* Best first: the shortest simple name, then by name
Better(a, b) ==
    LET s == SimpleOf(a)
        t == SimpleOf(b)
    IN  Len(s) < Len(t) \/ (Len(s) = Len(t) /\ (LexLess(s, t) \/ (s = t /\ LexLess(a, b))))

\* types_with_prefix: a range of the sorted entries, best first, cut
TypesWithPrefix(ix, prefix, limit) ==
    LET needle == Lower(prefix)
        low(i) == Lower(SimpleOf(ix.entries[i]))
        start == Min({i \in DOMAIN ix.entries : ~LexLess(low(i), needle)} \cup {Len(ix.entries) + 1})
        end == Min({i \in start .. Len(ix.entries) : ~IsPrefix(needle, low(i))} \cup {Len(ix.entries) + 1})
        hits == {ix.entries[i] : i \in start .. end - 1}
        best == SetToSortSeq(hits, Better)
    IN  IF prefix = <<>> \/ limit = 0 THEN [hits |-> <<>>, truncated |-> FALSE]
        ELSE [hits |-> SubSeq(best, 1, Least(limit, Len(best))), truncated |-> Len(best) > limit]

\* package_children: the packages from the prefix on, each segment unless it is
\* the one before; the types of the package itself
PackageChildren(ix, package) ==
    LET prefix == IF package = <<>> THEN <<>> ELSE Append(package, DOT)
        from == SelectSeq(ix.packages, LAMBDA p : ~LexLess(p, prefix))
        stop == Min({i \in DOMAIN from : ~IsPrefix(prefix, from[i])} \cup {Len(from) + 1})
        segment(p) == LET rest == SubSeq(p, Len(prefix) + 1, Len(p)) IN SubSeq(rest, 1, FirstAt(rest, DOT) - 1)
    IN  [packages |-> FoldLeft(LAMBDA acc, p : IF acc # <<>> /\ Last(acc) = segment(p) THEN acc
                                               ELSE Append(acc, segment(p)), <<>>, SubSeq(from, 1, stop - 1)),
         types |-> {f \in Range(ix.entries) : PackageOf(f) = package}]

-----------------------------------------------------------------------------
(***************************************************************************)
(* A class file: its supertypes, the number its generic signature names    *)
(* (or -1 without one or if it does not parse), its fields and methods     *)
(* with their flags, and of methods the number of parameters in the        *)
(* descriptor and in the signature.                                        *)
(***************************************************************************)
AccessOf(flags) ==
    CASE "public" \in flags -> "public" [] "public" \notin flags /\ "protected" \in flags -> "protected"
      [] flags \cap {"public", "protected"} = {} /\ "private" \in flags -> "private" [] OTHER -> "package"

\* field_visible, method_visible
Visible(flags) == flags \cap {"public", "protected"} # {} /\ "synthetic" \notin flags /\ "bridge" \notin flags

\* The signature's list if its length fits, else the erased one
Aligned(signature, count) == [generic |-> signature = count, n |-> count]

ClassKind(cf) ==
    CASE "annotation" \in cf.flags -> "annotation"
      [] "annotation" \notin cf.flags /\ "interface" \in cf.flags -> "interface"
      [] cf.flags \cap {"annotation", "interface"} = {} /\ "enum" \in cf.flags -> "enum"
      [] OTHER -> IF cf.super = "java.lang.Record" THEN "record" ELSE "class"

\* is_static: the InnerClasses entry of the class, else what is known without
IsStatic(cf) ==
    IF cf.inner # "absent" THEN cf.inner = "static"
    ELSE ~cf.nested \/ ClassKind(cf) \in {"interface", "enum", "record", "annotation"}

\* The fields that are visible; the methods that are not made by the compiler
Members(cf) ==
    SelectSeq(cf.members, LAMBDA m :
        IF m.kind = "field" THEN Visible(m.flags)
        ELSE m.flags \cap {"synthetic", "bridge"} = {} /\ m.name # "<clinit>")

\* class_info::parse
ClassParse(cf) ==
    LET count == (IF cf.super = "none" THEN 0 ELSE 1) + cf.ifaces
        kept == Members(cf)
    IN  [kind |-> ClassKind(cf), supers |-> count, superArgs |-> Aligned(cf.sigSupers, count),
         static |-> IsStatic(cf),
         members |-> [i \in DOMAIN kept |->
             [of |-> kept[i], access |-> AccessOf(kept[i].flags),
              hidden |-> kept[i].kind # "field" /\ ~Visible(kept[i].flags),
              params |-> Aligned(kept[i].sigParams, kept[i].params),
              kind |-> IF kept[i].name = "<init>" THEN "constructor" ELSE kept[i].kind]]]

=============================================================================
