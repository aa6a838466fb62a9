--------------------------- MODULE DebugInspection ---------------------------
(***************************************************************************)
(* What the DAP session shows of a stopped debuggee                        *)
(* (crates/debug/src/dap/session.rs: stackTrace, scopes, variables,        *)
(* exceptionInfo), where it finds the source, and what a launch puts on    *)
(* the classpath (crates/debug/src/launch.rs), as operators.               *)
(*                                                                         *)
(* A store holds the session's handles; a request maps a store to a store  *)
(* with a reply.  The debuggee's heap is external.                         *)
(***************************************************************************)
EXTENDS Integers, Sequences, FiniteSets, SequencesExt, FiniteSetsExt

CONSTANTS
    Heap,               \* object id -> [kind, cls, len]; kind "object", "array", "string"
    Supers,             \* class -> its superclass, or "none"
    FieldsOf,           \* class -> sequence of [name, static, value]
    Stacks,             \* thread -> number of frames
    FrameThis,          \* the "this" of every frame, 0 in a static one
    Slots,              \* of every frame: sequence of [from, length, value]
    CodeIndex,          \* of every frame
    SUPER_CHAIN_CAP, ARRAY_CHILD_CAP

Lesser(a, b) == IF a < b THEN a ELSE b

NewStore == [frames |-> <<>>, varrefs |-> <<>>, next |-> 1, threads |-> <<>>, reply |-> "ok",
             given |-> <<>>, asked |-> 0]

\* invalidate_handles
Invalidate(s) == [s EXCEPT !.frames = <<>>, !.varrefs = <<>>, !.reply = "ok", !.given = <<>>]

\* new_handle, for a frame and for a varref
WithFrame(s, f) ==
    [s EXCEPT !.frames = (s.next :> f) @@ @, !.next = @ + 1, !.given = Append(@, s.next)]
WithRef(s, ref) ==
    [s EXCEPT !.varrefs = (s.next :> ref) @@ @, !.next = @ + 1, !.given = Append(@, s.next)]

Failed(s) == [s EXCEPT !.reply = "error", !.given = <<>>]

\* threads, dap_thread_id: a number per thread, kept.
Threads(s) ==
    LET known == Range(s.threads)
        fresh == SetToSortSeq(DOMAIN Stacks \ known, <)
    IN  [s EXCEPT !.threads = @ \o fresh, !.reply = "ok", !.given = <<>>]

\* stack_trace: how many frames to ask for, 0 for an empty answer without
\* asking, -1 for all the rest.
FrameRange(total, start, levels) ==
    LET available == IF total > start THEN total - start ELSE 0
    IN  IF available = 0 THEN 0 ELSE IF levels = 0 THEN -1 ELSE Lesser(levels, available)

\* stack_trace of the thread with number id
StackTrace(s, id, start, levels) ==
    IF id \notin DOMAIN s.threads THEN Failed(s)
    ELSE LET total == Stacks[s.threads[id]]
             n == FrameRange(total, start, levels)
             shown == IF n = -1 THEN total - start ELSE n
         IN  FoldLeft(LAMBDA acc, i : WithFrame(acc, [thread |-> s.threads[id], frame |-> start + i]),
                      [s EXCEPT !.reply = "ok", !.given = <<>>, !.asked = IF n = 0 THEN 0 ELSE start + shown],
                      [i \in 1 .. shown |-> i])

\* scopes
Scopes(s, h) ==
    IF h \notin DOMAIN s.frames THEN Failed(s)
    ELSE WithRef([s EXCEPT !.reply = "ok", !.given = <<>>], [kind |-> "locals", of |-> s.frames[h].frame])

\* render_value: an array or an object gets a handle, anything else none.
RenderValue(s, v) ==
    IF v \notin DOMAIN Heap \/ Heap[v].kind = "string" THEN s
    ELSE WithRef(s, [kind |-> Heap[v].kind, of |-> v])

\* local_variables: "this", then the slots live at the frame's index
LiveValues(f) ==
    (IF FrameThis[f] = 0 THEN <<>> ELSE <<FrameThis[f]>>)
    \o LET live == SelectSeq(Slots[f], LAMBDA x : x.from <= CodeIndex[f] /\ CodeIndex[f] < x.from + x.length)
       IN  [i \in DOMAIN live |-> live[i].value]

\* The classes object_children and exception_info walk: up the superclasses,
\* at most the cap.
Chain(cls) ==
    FoldLeft(LAMBDA acc, i : IF acc = <<>> \/ Last(acc) = "none" \/ Supers[Last(acc)] = "none" THEN acc
                             ELSE Append(acc, Supers[Last(acc)]),
             <<cls>>, [i \in 1 .. SUPER_CHAIN_CAP - 1 |-> i])

\* object_children: the instance fields of these classes
ObjectChildren(o) ==
    SelectSeq(FlattenSeq([i \in DOMAIN Chain(Heap[o].cls) |-> FieldsOf[Chain(Heap[o].cls)[i]]]),
              LAMBDA f : ~f.static)

\* array_children: how many elements are shown, and whether a rest is named
ArrayChildren(o) ==
    [shown |-> Lesser(Heap[o].len, ARRAY_CHILD_CAP),
     rest |-> Heap[o].len - Lesser(Heap[o].len, ARRAY_CHILD_CAP)]

\* variables
Variables(s, h) ==
    IF h \notin DOMAIN s.varrefs THEN Failed(s)
    ELSE LET ref == s.varrefs[h]
             values == CASE ref.kind = "locals" -> LiveValues(ref.of)
                         [] ref.kind = "object" ->
                              [i \in DOMAIN ObjectChildren(ref.of) |-> ObjectChildren(ref.of)[i].value]
                         [] ref.kind = "array" -> [i \in 1 .. ArrayChildren(ref.of).shown |-> 0]
         IN  FoldLeft(RenderValue, [s EXCEPT !.reply = "ok", !.given = <<>>], values)

\* exception_info: the message is the first field of that name up the chain
DetailMessage(o) ==
    LET has == SelectSeq(Chain(Heap[o].cls),
                         LAMBDA c : \E i \in DOMAIN FieldsOf[c] : FieldsOf[c][i].name = "detailMessage")
    IN  IF has = <<>> THEN 0
        ELSE LET f == CHOOSE f \in Range(FieldsOf[Head(has)]) : f.name = "detailMessage"
             IN  IF f.value \in DOMAIN Heap /\ Heap[f.value].kind = "string" THEN f.value ELSE 0

\* One request, by name.
Apply(s, r) ==
    CASE r.op = "threads" -> Threads(s)
      [] r.op = "stackTrace" -> StackTrace(s, r.arg, 0, 2)
      [] r.op = "scopes" -> Scopes(s, r.arg)
      [] r.op = "variables" -> Variables(s, r.arg)
      [] r.op = "stop" -> Invalidate(s)

\* The stores of a sequence of requests, the first one included.
Trace(rs) == FoldLeft(LAMBDA acc, r : Append(acc, Apply(Last(acc), r)), <<NewStore>>, rs)

-----------------------------------------------------------------------------
(***************************************************************************)
(* Lines and source files                                                  *)
(***************************************************************************)
\* line_for_index: the entry with the greatest index that is not past it
LineForIndex(table, index) ==
    LET before == SelectSeq(table, LAMBDA e : e.at <= index)
        best == Max({e.at : e \in Range(before)})
    IN  IF before = <<>> THEN 0 ELSE Last(SelectSeq(before, LAMBDA e : e.at = best)).line

\* scan_package works on characters; of these: a slash, a star, a newline, a
\* quote, a semicolon, a blank, "P" for the word package and "w" for a letter.
Symbols == {"/", "*", "n", "q", ";", " ", "P", "w"}
Word == {"P", "w"}

\* The position after the comment, literal or character at i
Until(text, i, stop(_)) ==
    LET hits == {j \in i .. Len(text) : stop(j)}
    IN  IF hits # {} THEN Min(hits) ELSE Max({i, Len(text) + 1})

Skip(text, i) ==
    LET at(j) == IF j <= Len(text) THEN text[j] ELSE "end"
        endLine(j) == text[j] = "n"
        endBlock(j) == j = Len(text) \/ (text[j] = "*" /\ at(j + 1) = "/")
        endQuote(j) == text[j] = "q"
    IN  CASE text[i] = "/" /\ at(i + 1) = "/" -> Until(text, i, endLine)
          [] text[i] = "/" /\ at(i + 1) = "*" -> Lesser(Until(text, i + 2, endBlock) + 2, Len(text) + 1)
          [] text[i] = "q" -> Until(text, i + 1, endQuote) + 1
          [] OTHER -> i + 1

\* scan_package: where the first word outside comments and literals begins
RECURSIVE FirstWord(_, _)
FirstWord(text, i) ==
    IF i > Len(text) THEN 0 ELSE IF text[i] \in Word THEN i ELSE FirstWord(text, Skip(text, i))

\* scan_package, fqcn_for_source: is a package declared?
DeclaresPackage(text) ==
    LET i == FirstWord(text, 1)
        notWord(j) == text[j] \notin Word
        end == Until(text, i, notWord)
        semicolon(j) == text[j] = ";"
        semi == Until(text, end, semicolon)
    IN  /\ i # 0 /\ SubSeq(text, i, end - 1) = <<"P">>
        /\ semi <= Len(text) /\ \E j \in end .. semi - 1 : text[j] \in Word

-----------------------------------------------------------------------------
(***************************************************************************)
(* The classpath of a launch                                               *)
(***************************************************************************)
\* locate_jdk_exe: the override alone if there is one, else JAVA_HOME if it has
\* the program, else the best JDK found
LocateJdkExe(override, javaHome, best) ==
    IF override # "unset" THEN IF override = "has" THEN "override" ELSE "none"
    ELSE IF javaHome = "has" THEN "java_home" ELSE IF best = "has" THEN "best" ELSE "none"

\* run_javac: the argument file, the classpath, the child, its exit in time
RunJavac(w) == w.argfile /\ w.spawned /\ w.exit = "success"

\* assemble_classpath: explicit entries, else build outputs (with the test
\* outputs if tests are run), else a compilation into a scratch directory.
AssembleClasspath(w) ==
    LET failed == [ok |-> FALSE, path |-> <<>>, scratch |-> FALSE]
    IN  CASE w.explicit -> [ok |-> TRUE, path |-> <<"additional", "explicit">>, scratch |-> FALSE]
          [] ~w.explicit /\ ~w.root -> failed
          [] ~w.explicit /\ w.root /\ w.outputs /\ (w.tests => w.testOutputs) ->
                 [ok |-> TRUE, scratch |-> FALSE,
                  path |-> <<"additional", "outputs">> \o (IF w.tests THEN <<"testOutputs">> ELSE <<>>)
                           \o <<"jars">>]
          [] OTHER -> IF LocateJdkExe(w.override, w.javaHome, w.best) # "none" /\ w.sources /\ w.mkdir /\ RunJavac(w)
                      THEN [ok |-> TRUE, path |-> <<"additional", "scratch", "jars">>, scratch |-> TRUE]
                      ELSE failed

=============================================================================
