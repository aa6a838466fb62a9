------------------------------ MODULE JdwpCodec ------------------------------
(***************************************************************************)
(* The JDWP payload codec (crates/debug/src/jdwp/codec.rs) and the typed   *)
(* commands over it (struct Vm of jdwp/mod.rs).  A payload is a sequence   *)
(* of bytes; ids have the sizes the debuggee reported.  A decoder is the   *)
(* list of the kinds it reads: a head, then, if "each" is not empty, a     *)
(* count and that many groups (a count beyond the payload's length fails   *)
(* in the group that runs out of bytes, and here at once).                 *)
(***************************************************************************)
EXTENDS Integers, Sequences, FiniteSets, SequencesExt

CONSTANTS
    IdSizes,                    \* field, method, object, type, frame
    MAX_STRING_LEN,
    MAX_EVENTS_PER_COMPOSITE

Ids == {"field", "method", "object", "type", "frame"}
Width(kind) ==
    CASE kind = "u8" -> 1 [] kind = "u16" -> 2 [] kind = "u32" -> 4 [] kind = "u64" -> 8
      [] OTHER -> IdSizes[kind]


\* A number; what does not fit the last byte is just large.
Large == 1000
Num(bytes) == IF \A i \in 1 .. Len(bytes) - 1 : bytes[i] = 0 THEN Last(bytes) ELSE Large

-----------------------------------------------------------------------------
(***************************************************************************)
(* Reader: a state is the position, what was read, and whether it failed   *)
(***************************************************************************)
Start == [pos |-> 0, out |-> <<>>, ok |-> TRUE]

\* Reader::take, and what is built on it: u8 to u64, id
Take(buf, r, n) ==
    IF ~r.ok \/ Len(buf) - r.pos < n THEN [r EXCEPT !.ok = FALSE]
    ELSE [r EXCEPT !.pos = @ + n, !.out = Append(@, SubSeq(buf, r.pos + 1, r.pos + n))]

\* The last value read, dropped from the output: a length, a tag, a count.
Peeked(r) == IF r.out = <<>> \/ Last(r.out) = <<>> THEN 0 ELSE Num(Last(r.out))
Dropped(r) == [r EXCEPT !.out = Front(@)]

\* Reader::string: rejected beyond the cap.
ReadString(buf, r) ==
    LET l == Take(buf, r, 4)
    IN  IF ~l.ok \/ Peeked(l) > MAX_STRING_LEN THEN [l EXCEPT !.ok = FALSE]
        ELSE Take(buf, Dropped(l), Peeked(l))

\* Reader::value_string: truncated at the cap, the rest skipped.
ReadText(buf, r) ==
    LET l == Take(buf, r, 4)
        keep == IF Peeked(l) > MAX_STRING_LEN THEN MAX_STRING_LEN ELSE Peeked(l)
        kept == Take(buf, Dropped(l), keep)
    IN  IF ~l.ok THEN l
        ELSE IF Peeked(l) > keep /\ kept.ok THEN Dropped(Take(buf, kept, Peeked(l) - keep))
        ELSE kept

\* The tags of commands.rs, by what follows them.
ObjectFamily == {76, 115, 91, 116, 103, 108, 99}
Tags ==
    [t \in ObjectFamily |-> "object"] @@ (86 :> "void") @@ (90 :> "u8") @@ (66 :> "u8")
    @@ (67 :> "u16") @@ (83 :> "u16") @@ (73 :> "u32") @@ (74 :> "u64") @@ (70 :> "u32")
    @@ (68 :> "u64")

\* Reader::untagged_value
ReadUntagged(buf, r, t) ==
    IF ~r.ok \/ t \notin DOMAIN Tags THEN [r EXCEPT !.ok = FALSE]
    ELSE IF Tags[t] = "void" THEN r ELSE Take(buf, r, Width(Tags[t]))

\* Reader::tagged_value
ReadTagged(buf, r) == LET t == Take(buf, r, 1) IN ReadUntagged(buf, t, Peeked(t))

Read(buf, r, kind) ==
    CASE kind = "string" -> ReadString(buf, r)
      [] kind = "text" -> ReadText(buf, r)
      [] kind = "value" -> ReadTagged(buf, r)
      [] OTHER -> Take(buf, r, Width(kind))

ReadAll(buf, r, kinds) == FoldLeft(LAMBDA s, k : Read(buf, s, k), r, kinds)

\* Reader::location
Loc == <<"u8", "type", "method", "u64">>

-----------------------------------------------------------------------------
(***************************************************************************)
(* Decoders of events and replies                                          *)
(***************************************************************************)
\* parse_composite, after the kind and the request of an event
EventKinds ==
    (90 :> <<"object">>) @@ (1 :> <<"object">> \o Loc) @@ (2 :> <<"object">> \o Loc)
    @@ (4 :> <<"object">> \o Loc \o <<"u8", "object">> \o Loc)
    @@ (8 :> <<"object", "u8", "type", "string", "u32">>) @@ (99 :> <<>>)

ReadEvent(buf, r) ==
    LET k == Take(buf, r, 1)
        id == Take(buf, k, 4)
    IN  IF ~id.ok \/ Peeked(k) \notin DOMAIN EventKinds THEN [id EXCEPT !.ok = FALSE]
        ELSE ReadAll(buf, id, EventKinds[Peeked(k)])

\* A command: the arguments written (and a counted list of them), then the
\* reply as it is read.
Cmd(asks, list, head, each) == [asks |-> asks, list |-> list, head |-> head, each |-> each]
One(asks, k) == Cmd(asks, <<>>, <<k>>, <<>>)
Many(asks, ks) == Cmd(asks, <<>>, <<>>, ks)
NoReply(asks) == Cmd(asks, <<>>, <<>>, <<>>)

\* Vm: resume to classes_by_signature
VmCommands ==
    [resume |-> NoReply(<<>>), suspend |-> NoReply(<<>>), exit |-> NoReply(<<"u32">>), dispose |-> NoReply(<<>>),
     all_threads |-> Many(<<>>, <<"object">>),
     all_classes |-> Many(<<>>, <<"u8", "type", "string", "u32">>),
     classes_by_signature |-> Many(<<"string">>, <<"u8", "type", "u32">>)]

\* Vm: type_signature to variable_table; MethodEntry, FieldEntry, VariableSlot
TypeCommands ==
    [type_signature |-> One(<<"type">>, "string"), source_file |-> One(<<"type">>, "string"),
     methods |-> Many(<<"type">>, <<"method", "string", "string", "u32">>),
     fields |-> Many(<<"type">>, <<"field", "string", "string", "u32">>),
     superclass |-> One(<<"type">>, "type"),
     line_table |-> Cmd(<<"type", "method">>, <<>>, <<"u64", "u64">>, <<"u64", "u32">>),
     variable_table |-> Cmd(<<"type", "method">>, <<>>, <<"u32">>,
                            <<"u64", "string", "string", "u32", "u32">>)]

\* Vm: thread_name to this_object
ThreadCommands ==
    [thread_name |-> One(<<"object">>, "string"), frame_count |-> One(<<"object">>, "u32"),
     frames |-> Many(<<"object", "u32", "u32">>, <<"frame">> \o Loc),
     stack_values |-> Cmd(<<"object", "frame">>, <<"u32", "u8">>, <<>>, <<"value">>),
     this_object |-> One(<<"object", "frame">>, "value")]

\* Vm: object_type to array_values (see ReadRegion for the reply of the last)
ObjectCommands ==
    [object_type |-> Cmd(<<"object">>, <<>>, <<"u8", "type">>, <<>>),
     object_values |-> Cmd(<<"object">>, <<"field">>, <<>>, <<"value">>),
     string_value |-> One(<<"object">>, "text"), array_length |-> One(<<"object">>, "u32"),
     array_values |-> NoReply(<<"object", "u32", "u32">>)]

\* Vm: event_request_set with each Modifier, event_request_clear
RequestCommands ==
    LET set(mod) == Cmd(<<"u8", "u8">>, <<"u8">> \o mod, <<"u32">>, <<>>)
    IN  [set_count |-> set(<<"u32">>), set_class_match |-> set(<<"string">>),
         set_location_only |-> set(Loc), set_exception_only |-> set(<<"type", "u8", "u8">>),
         set_step |-> set(<<"object", "u32", "u32">>), clear |-> NoReply(<<"u8", "u32">>)]

Commands == VmCommands @@ TypeCommands @@ ThreadCommands @@ ObjectCommands @@ RequestCommands

\* Writer: the bytes of a command's arguments, for lists of n; every string
\* has the length len.
Written(kinds, len) ==
    FlattenSeq([i \in DOMAIN kinds |->
        IF kinds[i] = "string" THEN <<0, 0, 0, len>> \o [j \in 1 .. len |-> 7]
        ELSE [j \in 1 .. Width(kinds[i]) |-> IF j = Width(kinds[i]) THEN 1 ELSE 0]])
WriteCommand(c, n, len) ==
    Written(c.asks, len) \o (IF c.list = <<>> THEN <<>>
                             ELSE <<0, 0, 0, n>> \o FlattenSeq([i \in 1 .. n |-> Written(c.list, len)]))

\* parse_id_sizes, IdSizes::valid: five numbers, in 1..8 each
ReadIdSizes(buf) ==
    LET r == ReadAll(buf, Start, <<"u32", "u32", "u32", "u32", "u32">>)
    IN  [r EXCEPT !.ok = @ /\ \A i \in DOMAIN r.out : Num(r.out[i]) \in 1 .. 8]

\* The groups of a reply: as many as the count says.
ReadEach(buf, r, n, Group(_, _)) ==
    FoldLeft(LAMBDA s, i : IF s.ok THEN Group(buf, s) ELSE s, r,
             [i \in 1 .. (IF r.ok /\ n <= Len(buf) THEN n ELSE 0) |-> i])

ReadReply(buf, reply) ==
    LET h == ReadAll(buf, Start, reply.head)
        c == Take(buf, h, 4)
        group(b, s) == ReadAll(b, s, reply.each)
    IN  IF reply.each = <<>> THEN h
        ELSE IF ~c.ok \/ Peeked(c) > Len(buf) THEN [c EXCEPT !.ok = FALSE]
        ELSE ReadEach(buf, Dropped(c), Peeked(c), group)

\* Vm::array_values: primitive elements come without a tag.
ReadRegion(buf) ==
    LET t == Take(buf, Start, 1)
        c == Take(buf, t, 4)
        tagged(b, s) == ReadTagged(b, s)
        bare(b, s) == ReadUntagged(b, s, Peeked(t))
    IN  IF ~c.ok \/ Peeked(c) > Len(buf) THEN [c EXCEPT !.ok = FALSE]
        ELSE IF Peeked(t) \in ObjectFamily THEN ReadEach(buf, Dropped(c), Peeked(c), tagged)
        ELSE ReadEach(buf, Dropped(c), Peeked(c), bare)

\* A mutant of ReadComposite: the count is not bounded.
ReadCompositeUnbounded(buf) ==
    LET p == Take(buf, Start, 1)
        c == Take(buf, p, 4)
    IN  IF ~c.ok \/ Peeked(c) > Len(buf) THEN [c EXCEPT !.ok = FALSE]
        ELSE ReadEach(buf, Dropped(c), Peeked(c), ReadEvent)

\* parse_composite
ReadComposite(buf) ==
    LET p == Take(buf, Start, 1)
        c == Take(buf, p, 4)
    IN  IF ~c.ok \/ Peeked(c) > MAX_EVENTS_PER_COMPOSITE THEN [c EXCEPT !.ok = FALSE]
        ELSE ReadEach(buf, Dropped(c), Peeked(c), ReadEvent)

-----------------------------------------------------------------------------
(***************************************************************************)
(* What a debuggee sends, by the JDWP specification: fields with their     *)
(* kinds, a string as its length, a value by its tag.                      *)
(***************************************************************************)
Sent(fields) ==
    FlattenSeq([i \in DOMAIN fields |->
        CASE fields[i].kind = "string" ->
                 <<0, 0, 0, fields[i].v>> \o [j \in 1 .. fields[i].v |-> 7]
          [] fields[i].kind = "value" -> <<76>> \o [j \in 1 .. IdSizes.object |-> 0]
          [] OTHER -> [j \in 1 .. Width(fields[i].kind) - 1 |-> 0] \o <<fields[i].v>>])

Field(kind, v) == [kind |-> kind, v |-> v]
Fields(kinds, v) == [i \in DOMAIN kinds |-> Field(kinds[i], v)]

SentLocation == <<"u8", "type", "method", "u64">>
SentValue(t) ==
    <<Field("u8", t)>> \o
    (CASE t = 86 -> <<>> [] t = 73 -> <<Field("u32", 5)>> [] t = 68 -> <<Field("u64", 5)>>
       [] OTHER -> <<Field("object", 5)>>)

\* What the debuggee reads of a command, and what it answers: the head, and
\* a group of a counted list.
Protocol ==
    LET p(asks, list, head, each) == [asks |-> asks, list |-> list, head |-> head, each |-> each]
        set(mod) == p(<<"u8", "u8">>, <<"u8">> \o mod, <<"u32">>, <<>>)
    IN  [exit |-> p(<<"u32">>, <<>>, <<>>, <<>>),
         all_threads |-> p(<<>>, <<>>, <<>>, <<"object">>),
         all_classes |-> p(<<>>, <<>>, <<>>, <<"u8", "type", "string", "u32">>),
         classes_by_signature |-> p(<<"string">>, <<>>, <<>>, <<"u8", "type", "u32">>),
         source_file |-> p(<<"type">>, <<>>, <<"string">>, <<>>),
         methods |-> p(<<"type">>, <<>>, <<>>, <<"method", "string", "string", "u32">>),
         fields |-> p(<<"type">>, <<>>, <<>>, <<"field", "string", "string", "u32">>),
         superclass |-> p(<<"type">>, <<>>, <<"type">>, <<>>),
         line_table |-> p(<<"type", "method">>, <<>>, <<"u64", "u64">>, <<"u64", "u32">>),
         variable_table |-> p(<<"type", "method">>, <<>>, <<"u32">>,
                              <<"u64", "string", "string", "u32", "u32">>),
         frames |-> p(<<"object", "u32", "u32">>, <<>>, <<>>, <<"frame">> \o SentLocation),
         stack_values |-> p(<<"object", "frame">>, <<"u32", "u8">>, <<>>, <<"value">>),
         object_type |-> p(<<"object">>, <<>>, <<"u8", "type">>, <<>>),
         object_values |-> p(<<"object">>, <<"field">>, <<>>, <<"value">>),
         set_class_match |-> set(<<"string">>), set_location_only |-> set(SentLocation),
         set_exception_only |-> set(<<"type", "u8", "u8">>), set_step |-> set(<<"object", "u32", "u32">>),
         clear |-> p(<<"u8", "u32">>, <<>>, <<>>, <<>>)]

SentEvents ==
    (90 :> <<"object">>) @@ (1 :> <<"object">> \o SentLocation)
    @@ (2 :> <<"object">> \o SentLocation)
    @@ (4 :> <<"object">> \o SentLocation \o <<"u8", "object">> \o SentLocation)
    @@ (8 :> <<"object", "u8", "type", "string", "u32">>) @@ (99 :> <<>>)

Repeat(s, n) == FlattenSeq([i \in 1 .. n |-> s])

=============================================================================
