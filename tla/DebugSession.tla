----------------------------- MODULE DebugSession -----------------------------
(***************************************************************************)
(* Execution control in the DAP session of the debug adapter               *)
(* (crates/debug/src/dap/session.rs): one loop that takes client requests  *)
(* and JDWP event sets in whatever order they arrive, and keeps the        *)
(* breakpoints, the count of suspensions and the handles.  How a session   *)
(* ends is the subject of DebugTermination.                                *)
(*                                                                         *)
(* The debuggee (a JVM) is external.  Its event requests are identified by *)
(* what they ask for.  A suspension stops all threads; a second thread may *)
(* report an event it had met before the first report suspended it.        *)
(***************************************************************************)
EXTENDS Integers, Sequences, FiniteSets, FiniteSetsExt

CONSTANTS
    Classes,        \* the classes of one source file
    MainClass,      \* the one with main, or a value outside Classes
    CodeLines,      \* the lines a class has code for
    Lines,          \* lines a breakpoint may be requested on
    MaxDepth,       \* bound on the suspensions the client asks for
    MaxQueue,       \* bound on the event sets in flight
    MaxSteps,       \* bound on the step requests outstanding
    MaxSets         \* bound on the setBreakpoints requests

ASSUME LinesAssumption == Lines \subseteq Nat
ASSUME CodeAssumption == CodeLines \in [Classes -> SUBSET Nat]
ASSUME BoundAssumption == {MaxDepth, MaxQueue} \subseteq Nat \ {0} /\ {MaxSteps, MaxSets} \subseteq Nat

VARIABLES
    phase,          \* "new", "ready" to be configured, "configured"
    mode,           \* Session::launch_mode, "none" before launch or attach
    suspend_depth, vm_start_pending,
    bps,            \* FileBps::bps: per line absent, unverified, or its request
    sets,           \* setBreakpoints requests so far; the first registers the file
    entry,          \* Session::entry: "none", "wanted", "prepare", "armed"
    step_requests,  \* Session::step_request_ids
    last_exception, \* is there a recorded exception?
    handles,        \* frames and varrefs: "none", of the "current" stop, of a "past" one
    busy,           \* the setBreakpoints request in progress
    told,           \* what the client was told last: "running" or "stopped"
    eager,          \* was a resume requested by a client that was not told "stopped"?
    \* the debuggee
    susp,           \* its suspend count
    burst,          \* may another thread still report, though suspended?
    loaded, reqs,
    queue           \* event sets on their way to the session

control == <<suspend_depth, vm_start_pending, told, eager>>
breaks == <<bps, sets, busy>>
stops == <<entry, step_requests, last_exception>>
debuggee == <<susp, burst, loaded, reqs, queue>>
vars == <<phase, mode, control, breaks, stops, handles, debuggee>>

Prepare(who) == [kind |-> "prepare", who |-> who]
Break(who, c, l) == [kind |-> "break", who |-> who, cls |-> c, at |-> l]
Step(n) == [kind |-> "step", n |-> n]
Exception == [kind |-> "exception"]
EntryLine == -1     \* the owner of the entry breakpoint, for a requested line
Requests ==
    {Prepare(w) : w \in {"entry", "file"}} \cup {Step(n) : n \in 1 .. MaxSteps} \cup {Exception}
    \cup {Break(w, c, l) : w \in Lines \cup {EntryLine}, c \in Classes,
                           l \in UNION {CodeLines[c] : c \in Classes}}
Absent == [kind |-> "absent"]
Unverified == [kind |-> "unverified"]

NotBusy == [op |-> "none", want |-> {}, todo |-> {}]
Idle == busy.op = "none"
Connected == Idle /\ phase \in {"ready", "configured"}
Running == Idle /\ phase = "configured"

TypeOK ==
    /\ phase \in {"new", "ready", "configured"} /\ mode \in {"none", "launch", "attach"}
    /\ suspend_depth \in 0 .. MaxDepth + MaxQueue + 1
    /\ {vm_start_pending, last_exception, eager, burst} \subseteq BOOLEAN
    /\ \A l \in Lines : bps[l] \in {Absent, Unverified}
                              \cup UNION {{Break(l, c, x) : x \in CodeLines[c]} : c \in Classes}
    /\ sets \in 0 .. MaxSets
    /\ entry \in {"none", "wanted", "prepare", "armed"} /\ step_requests \subseteq 1 .. MaxSteps
    /\ handles \in {"none", "current", "past"} /\ told \in {"running", "stopped"}
    /\ busy.op \in {"none", "merge", "classes", "bind"}
    /\ busy.want \subseteq Lines /\ busy.todo \subseteq Classes
    /\ susp \in Nat /\ loaded \subseteq Classes /\ reqs \subseteq Requests

Init ==
    /\ phase = "new" /\ mode = "none" /\ suspend_depth = 0 /\ vm_start_pending = FALSE
    /\ bps = [l \in Lines |-> Absent] /\ sets = 0 /\ busy = NotBusy
    /\ entry = "none" /\ step_requests = {} /\ last_exception = FALSE
    /\ handles = "none" /\ told = "running" /\ eager = FALSE
    /\ susp = 0 /\ burst = FALSE /\ loaded = {} /\ reqs = {} /\ queue = <<>>

-----------------------------------------------------------------------------
(***************************************************************************)
(* What the handlers are made of                                           *)
(***************************************************************************)
\* n resume commands: the debuggee ignores those beyond its count.
ResumeBy(n) ==
    /\ susp' = IF susp > n THEN susp - n ELSE 0
    /\ burst' = (burst /\ susp > n)

\* Handles outlive the stop they belong to if nobody has dropped them.
Outlived(h) == IF h = "current" /\ susp' = 0 THEN "past" ELSE h

\* A mutant of Target: the breakpoint is set on the line as requested.
TargetAsRequested(c, l) == IF \E x \in CodeLines[c] : x >= l THEN {l} ELSE {}

\* bind_lines_in_class, the choice: the exact line, else the next one with code
\* in this class.
Target(c, l) ==
    LET later == {x \in CodeLines[c] : x > l}
    IN  IF l \in CodeLines[c] THEN {l} ELSE IF later = {} THEN {} ELSE {Min(later)}

\* A mutant of Bound: lines that are bound are bound again.
BoundAgain(b, c) ==
    [l \in Lines |-> IF b[l] # Absent /\ Target(c, l) # {}
                     THEN Break(l, c, Max(Target(c, l))) ELSE b[l]]

\* bind_lines_in_class: every unverified line with a target in c is bound.
Bound(b, c) ==
    [l \in Lines |-> IF b[l] = Unverified /\ Target(c, l) # {}
                     THEN Break(l, c, Max(Target(c, l))) ELSE b[l]]

Armed(b) == {b[l] : l \in {k \in Lines : b[k] \notin {Absent, Unverified}}}

-----------------------------------------------------------------------------
(***************************************************************************)
(* Requests that start and configure the session                           *)
(***************************************************************************)
\* launch, once the child listens and the handshake and IDSizes are through:
\* the debuggee waits, suspended, at its start.
Launch(stop_on_entry) ==
    /\ Idle /\ phase = "new"
    /\ phase' = "ready" /\ mode' = "launch"
    /\ entry' = IF stop_on_entry THEN "wanted" ELSE "none"
    /\ susp' = 1 /\ queue' = <<<<[e |-> "start"]>>>>
    /\ UNCHANGED <<control, breaks, step_requests, last_exception, handles, burst, loaded, reqs>>

\* attach: the debuggee runs, with classes loaded, or it was started with
\* suspend=y and reports its start on connect.
Attach(held, classes) ==
    /\ Idle /\ phase = "new"
    /\ phase' = "ready" /\ mode' = "attach"
    /\ loaded' = IF held THEN {} ELSE classes
    /\ susp' = IF held THEN 1 ELSE 0
    /\ queue' = IF held THEN <<<<[e |-> "start"]>>>> ELSE <<>>
    /\ UNCHANGED <<control, breaks, stops, handles, burst, reqs>>

\* configurationDone: the entry's CLASS_PREPARE, then the resume that releases
\* the start of a launched or a held debuggee.
ConfigurationDone ==
    /\ Idle /\ phase = "ready"
    /\ phase' = "configured"
    /\ entry' = IF entry = "wanted" THEN "prepare" ELSE entry
    /\ reqs' = IF entry = "wanted" THEN reqs \cup {Prepare("entry")} ELSE reqs
    /\ IF mode = "launch" \/ vm_start_pending
       THEN vm_start_pending' = FALSE /\ ResumeBy(1) /\ handles' = Outlived(handles)
       ELSE UNCHANGED <<vm_start_pending, susp, burst, handles>>
    /\ UNCHANGED <<mode, suspend_depth, step_requests, last_exception, told, eager, breaks,
                   loaded, queue>>

-----------------------------------------------------------------------------
(***************************************************************************)
(* setBreakpoints, one step per command whose reply it awaits              *)
(***************************************************************************)
\* The first request for the file registers its CLASS_PREPARE requests.
SetBreakpoints(want) ==
    /\ Connected /\ sets < MaxSets
    /\ sets' = sets + 1
    /\ reqs' = IF sets > 0 THEN reqs ELSE reqs \cup {Prepare("file")}
    /\ busy' = [op |-> "merge", want |-> want, todo |-> {}]
    /\ UNCHANGED <<phase, mode, control, bps, stops, handles, susp, burst, loaded, queue>>

\* Removed lines are dropped and their requests cleared, new ones added.
MergeLines ==
    /\ busy.op = "merge"
    /\ bps' = [l \in Lines |-> IF l \notin busy.want THEN Absent
                               ELSE IF bps[l] = Absent THEN Unverified ELSE bps[l]]
    /\ reqs' = reqs \ {bps[l] : l \in Lines \ busy.want}
    /\ busy' = [busy EXCEPT !.op = "classes"]
    /\ UNCHANGED <<phase, mode, control, sets, stops, handles, susp, burst, loaded, queue>>

\* A mutant of AllClasses: loaded classes are left to their CLASS_PREPARE.
AllClassesSkipped ==
    /\ busy.op = "classes"
    /\ busy' = [busy EXCEPT !.op = "bind"]
    /\ UNCHANGED <<phase, mode, control, bps, sets, stops, handles, debuggee>>

\* The classes loaded now are the ones to bind in.
AllClasses ==
    /\ busy.op = "classes"
    /\ busy' = [busy EXCEPT !.op = "bind", !.todo = loaded]
    /\ UNCHANGED <<phase, mode, control, bps, sets, stops, handles, debuggee>>

\* The lines are bound in one of them.
BindLoaded(c) ==
    /\ busy.op = "bind" /\ c \in busy.todo
    /\ busy' = [busy EXCEPT !.todo = @ \ {c}]
    /\ bps' = Bound(bps, c) /\ reqs' = reqs \cup (Armed(bps') \ Armed(bps))
    /\ UNCHANGED <<phase, mode, control, sets, stops, handles, susp, burst, loaded, queue>>

\* The response is sent.
SetBreakpointsDone ==
    /\ busy.op = "bind" /\ busy.todo = {}
    /\ busy' = NotBusy
    /\ UNCHANGED <<phase, mode, control, bps, sets, stops, handles, debuggee>>

\* setExceptionBreakpoints: the old request is cleared, a new one set.
SetExceptionBreakpoints(on) ==
    /\ Connected
    /\ reqs' = (reqs \ {Exception}) \cup (IF on THEN {Exception} ELSE {})
    /\ UNCHANGED <<phase, mode, control, breaks, stops, handles, susp, burst, loaded, queue>>

-----------------------------------------------------------------------------
(***************************************************************************)
(* Events                                                                  *)
(***************************************************************************)
\* arm_entry_breakpoint: the first line of main's class, hit once.
EntryBreaks(c) ==
    IF c = MainClass /\ CodeLines[c] # {} THEN {Break(EntryLine, c, Min(CodeLines[c]))} ELSE {}

Stops == {"break", "step", "exception"}

\* on_stop: the handles are dropped, the client is told.
OnStop == told' = "stopped" /\ handles' = "none"

\* A mutant of Suspend: no set is resumed at once.
SuspendKeepsPrepared(start, stop) ==
    /\ suspend_depth' = IF start THEN suspend_depth ELSE suspend_depth + 1
    /\ UNCHANGED <<susp, burst>>

\* handle_event_set, the accounting: every request is made with SUSPEND_ALL;
\* a set other than the start is counted, and resumed at once unless one of
\* its events is a stop.
Suspend(start, stop) ==
    /\ suspend_depth' = IF stop THEN suspend_depth + 1 ELSE suspend_depth
    /\ IF start \/ stop THEN UNCHANGED <<susp, burst>> ELSE ResumeBy(1)

\* handle_event_set
HandleSet ==
    /\ Idle /\ queue # <<>>
    /\ LET evs == {Head(queue)[i] : i \in DOMAIN Head(queue)}
           prepared(who) == {v.cls : v \in {x \in evs : x.e = "prepare" /\ x.who = who}}
           start == \E v \in evs : v.e = "start"
           stop == \E v \in evs : v.e \in Stops
           stepped == {v.n : v \in {x \in evs : x.e = "step"}}
           arm == UNION {EntryBreaks(c) : c \in prepared("entry")}
       IN  /\ queue' = Tail(queue)
           /\ vm_start_pending' = (vm_start_pending \/ start)
           /\ Suspend(start, stop)
           /\ entry' = CASE entry = "prepare" /\ prepared("entry") # {} ->
                              IF arm # {} THEN "armed" ELSE "none"
                         [] entry = "armed" /\ (\E v \in evs : v.e = "break" /\ v.who = EntryLine) ->
                              "none"
                         [] OTHER -> entry
           /\ bps' = IF prepared("file") = {} THEN bps
                     ELSE Bound(bps, CHOOSE c \in prepared("file") : TRUE)
           /\ reqs' = (IF prepared("entry") = {} THEN reqs ELSE reqs \ {Prepare("entry")})
                      \cup arm \cup (Armed(bps') \ Armed(bps))
           /\ step_requests' = step_requests \ stepped
           /\ last_exception' = (last_exception \/ \E v \in evs : v.e = "exception")
           /\ IF stop THEN OnStop ELSE told' = told /\ handles' = Outlived(handles)
    /\ UNCHANGED <<phase, mode, eager, sets, busy, loaded>>

-----------------------------------------------------------------------------
(***************************************************************************)
(* Execution control and inspection                                        *)
(***************************************************************************)
\* continue_all: the handles and exceptions are dropped, and every counted
\* suspension resumed, at least one.
ContinueAll ==
    /\ handles' = "none" /\ last_exception' = FALSE
    /\ eager' = (eager \/ told # "stopped")
    /\ ResumeBy(Max({suspend_depth, 1}))
    /\ suspend_depth' = 0
    /\ told' = "running"

Continue ==
    /\ Running
    /\ ContinueAll
    /\ UNCHANGED <<phase, mode, vm_start_pending, breaks, entry, step_requests, loaded, reqs,
                   queue>>

\* next, stepIn and stepOut: a step request, then continue.
StepRequest(n) ==
    /\ Running /\ n \notin step_requests
    /\ reqs' = reqs \cup {Step(n)}
    /\ step_requests' = step_requests \cup {n}
    /\ ContinueAll
    /\ UNCHANGED <<phase, mode, vm_start_pending, breaks, entry, loaded, queue>>

\* A mutant of Pause: the suspension is not counted.
PauseUncounted ==
    /\ Running /\ suspend_depth < MaxDepth
    /\ susp' = susp + 1
    /\ OnStop
    /\ UNCHANGED <<phase, mode, suspend_depth, vm_start_pending, eager, breaks, stops, burst,
                   loaded, reqs, queue>>

\* pause: a suspension of the session's own.
Pause ==
    /\ Running /\ suspend_depth < MaxDepth
    /\ susp' = susp + 1 /\ suspend_depth' = suspend_depth + 1
    /\ OnStop
    /\ UNCHANGED <<phase, mode, vm_start_pending, eager, breaks, stops, burst, loaded, reqs,
                   queue>>

\* stackTrace, scopes, variables: handles for frames and values, which only a
\* suspended debuggee gives.
Inspect ==
    /\ Running /\ susp > 0
    /\ handles' = IF handles = "past" THEN "past" ELSE "current"
    /\ UNCHANGED <<phase, mode, control, breaks, stops, debuggee>>

-----------------------------------------------------------------------------
(***************************************************************************)
(* The debuggee                                                            *)
(***************************************************************************)
CanReport == phase # "new" /\ Len(queue) < MaxQueue /\ (susp = 0 \/ burst)

Report(evs) ==
    /\ queue' = Append(queue, evs)
    /\ susp' = susp + 1 /\ burst' = (susp = 0)

\* A class is loaded, and every CLASS_PREPARE request it matches reported.
LoadClass(c) ==
    /\ CanReport /\ c \notin loaded
    /\ loaded' = loaded \cup {c}
    /\ LET entries == IF Prepare("entry") \in reqs /\ c = MainClass
                      THEN <<[e |-> "prepare", who |-> "entry", cls |-> c]>> ELSE <<>>
           files == IF Prepare("file") \in reqs
                    THEN <<[e |-> "prepare", who |-> "file", cls |-> c]>> ELSE <<>>
       IN  IF entries \o files = <<>> THEN susp = 0 /\ UNCHANGED <<susp, burst, queue>>
           ELSE Report(entries \o files)
    /\ UNCHANGED <<phase, mode, control, breaks, stops, handles, reqs>>

\* A thread reaches a line, and every breakpoint there is reported; the entry
\* breakpoint expires.
ReachLine(c, l) ==
    /\ CanReport /\ c \in loaded
    /\ LET hit == {r \in reqs : r.kind = "break" /\ r.cls = c /\ r.at = l}
           owners == {r.who : r \in hit}
       IN  /\ hit # {}
           /\ Report(<<[e |-> "break", who |-> Min(owners)]>>
                     \o (IF Cardinality(owners) = 1 THEN <<>>
                         ELSE <<[e |-> "break", who |-> Max(owners)]>>))
           /\ reqs' = reqs \ {r \in hit : r.who = EntryLine}
    /\ UNCHANGED <<phase, mode, control, breaks, stops, handles, loaded>>

\* A step completes; the request expires.
StepCompletes(n) ==
    /\ CanReport /\ Step(n) \in reqs
    /\ Report(<<[e |-> "step", n |-> n]>>)
    /\ reqs' = reqs \ {Step(n)}
    /\ UNCHANGED <<phase, mode, control, breaks, stops, handles, loaded>>

Throw ==
    /\ CanReport /\ Exception \in reqs
    /\ Report(<<[e |-> "exception"]>>)
    /\ UNCHANGED <<phase, mode, control, breaks, stops, handles, loaded, reqs>>

-----------------------------------------------------------------------------
Next ==
    \/ \E s \in BOOLEAN : Launch(s)
    \/ \E h \in BOOLEAN, cs \in SUBSET Classes : Attach(h, cs)
    \/ ConfigurationDone
    \/ \E want \in SUBSET Lines : SetBreakpoints(want)
    \/ MergeLines \/ AllClasses \/ (\E c \in Classes : BindLoaded(c)) \/ SetBreakpointsDone
    \/ \E on \in BOOLEAN : SetExceptionBreakpoints(on)
    \/ HandleSet
    \/ Continue \/ (\E n \in 1 .. MaxSteps : StepRequest(n)) \/ Pause \/ Inspect
    \/ (\E c \in Classes : LoadClass(c))
    \/ (\E c \in Classes : \E l \in CodeLines[c] : ReachLine(c, l))
    \/ (\E n \in 1 .. MaxSteps : StepCompletes(n)) \/ Throw

Spec == Init /\ [][Next]_vars

-----------------------------------------------------------------------------
(***************************************************************************)
(* Properties                                                              *)
(***************************************************************************)
StartQueued == \E i \in DOMAIN queue : queue[i][1].e = "start"
Undelivered == Cardinality({i \in DOMAIN queue : queue[i][1].e # "start"})

\* suspend_depth counts the suspensions the session has been told of, no more
\* and no fewer, while events are under way, classes are prepared and pauses
\* cross stops (handle_event_set, continue_all, pause), as long as the client
\* resumes only what it was told is stopped.  One more is held until
\* configurationDone, or by an attached debuggee whose start came late.
SuspensionsCounted ==
    ~eager => \/ susp = suspend_depth + Undelivered
              \/ susp = suspend_depth + Undelivered + 1
                 /\ \/ phase = "ready"
                    \/ mode = "attach" /\ (vm_start_pending \/ StartQueued)

\* Told "stopped", the client may inspect: the debuggee is suspended, and no
\* handle stems from an earlier stop (on_stop, continue_all).
StoppedIsInspectable ==
    told = "stopped" /\ ~eager => susp > 0 /\ handles # "past"

\* The debuggee never waits for a resume nobody will ask for: when it is
\* suspended and all is delivered, the client was told, or the session is yet
\* to be configured, or an attached debuggee's start came after that.
SuspensionsAreKnown ==
    queue = <<>> /\ susp > 0 /\ ~eager =>
        told = "stopped" \/ phase = "ready" \/ (mode = "attach" /\ vm_start_pending)

\* Between two requests the debuggee holds exactly the line breakpoints the
\* session believes to be verified, each once, however class loading and
\* setBreakpoints interleave.
BreakpointsArmed ==
    Idle => {r \in reqs : r.kind = "break" /\ r.who \in Lines} = Armed(bps)

\* A requested line is verified once a class with code at or after it is
\* loaded and its CLASS_PREPARE delivered: no class slips between the
\* registration of that request and the list of loaded classes.  It is bound in
\* the first such class only; later ones find it verified.
LoadedLinesBound ==
    Idle => \A l \in Lines, c \in loaded :
        bps[l] = Unverified /\ Target(c, l) # {} =>
            \E i \in DOMAIN queue : \E k \in DOMAIN queue[i] :
                queue[i][k].e = "prepare" /\ queue[i][k].cls = c

\* The steps the session waits for are the ones the debuggee still owes: its
\* requests, or their reports under way.
StepsOwed ==
    step_requests = {n \in 1 .. MaxSteps :
        \/ Step(n) \in reqs
        \/ \E i \in DOMAIN queue : queue[i][1].e = "step" /\ queue[i][1].n = n}

\* An exception is on record only while the client may ask for it.
ExceptionsAreOfThisStop == last_exception /\ ~eager => told = "stopped"

\* What the client is told of stops is true, and all of it: the last message
\* says whether the debuggee is suspended, and frames, values and exceptions
\* are of that stop (on_stop, continue_all, handle_event_set).
StopsAreTold == StoppedIsInspectable /\ SuspensionsAreKnown /\ ExceptionsAreOfThisStop

\* The debuggee has the requests the session believes it has, between two
\* requests of the client: verified breakpoints and outstanding steps
\* (setBreakpoints, bind_lines_in_class, the step requests).
RequestsAgree == BreakpointsArmed /\ StepsOwed

=============================================================================
