---------------------------- MODULE JavacScheduler ----------------------------
(***************************************************************************)
(* The extension's automatic javac check: saved files are batched, at most *)
(* one batch runs at a time, starts are spaced, and nothing is started     *)
(* while a buffer is dirty.  editors/vscode/src/javacScheduler.ts and its  *)
(* wiring in extension.ts.                                                 *)
(*                                                                         *)
(* Time is relative: how long ago the batch began, how long ago the last   *)
(* run started, how long until the timer is due.  The two ages stop        *)
(* counting at the interval they are compared with.                        *)
(***************************************************************************)
EXTENDS Integers

CONSTANTS
    Files,        \* Java files the user edits and saves
    Debounce,     \* AUTO_CHECK_DEBOUNCE_MS, in ticks
    Floor         \* AUTO_CHECK_MIN_INTERVAL_MS, in ticks

ASSUME ConstantsAssumption == Debounce \in Nat /\ Floor \in Nat

NoTimer == -1     \* timer is undefined
NoBatch == -1     \* pendingSince is +Infinity

VARIABLES
    q,            \* the scheduler's variables
    setting,      \* javacBackgroundCheckEnabled(): "on" or "off"
    client,       \* the language client; "down" is undefined
    dirty,        \* file-backed Java buffers with unsaved edits
    owed,         \* files saved and neither checked nor dropped on purpose
    undone        \* was the last dirty buffer undone, and nothing poked since?

vars == <<q, setting, client, dirty, owed, undone>>

\* A run in flight.  It is current while its token is the scheduler's, and
\* attached while its client generation is the extension's.
Run == [token : {"current", "past"}, client : {"same", "old"}, uris : SUBSET Files]

QueueType ==
    [pending : SUBSET Files, timer : Int, running : {"no", "yes"},
     age : Int, rest : Int, inflight : SUBSET Run, disposed : {"no", "yes"}]

\* The later of two deadlines, and the earlier.
Later(a, b) == IF a >= b THEN a ELSE b
Sooner(a, b) == IF a <= b THEN a ELSE b

\* Every variable has its type; ages and timer stay within the intervals, and
\* the batch has a beginning exactly while it has files.
TypeOK ==
    /\ q \in QueueType
    /\ q.timer \in NoTimer .. Later(Debounce, Floor)
    /\ q.age \in NoBatch .. Debounce
    /\ q.rest \in 0 .. Floor
    /\ q.pending = {} <=> q.age = NoBatch
    /\ setting \in {"on", "off"}
    /\ client \in {"up", "stopping", "down"}
    /\ dirty \in SUBSET Files
    /\ owed \in SUBSET Files
    /\ undone \in {"no", "yes"}

Init ==
    /\ q = [pending |-> {}, timer |-> NoTimer, running |-> "no", age |-> NoBatch,
            rest |-> Floor, inflight |-> {}, disposed |-> "no"]
    /\ setting \in {"on", "off"}
    /\ client = "up"
    /\ dirty = {}
    /\ owed = {}
    /\ undone = "no"

-----------------------------------------------------------------------------
(***************************************************************************)
(* The scheduler's functions, on its variables                             *)
(***************************************************************************)
\* deps.enabled() and deps.blocked(), in the order fire asks for them.
Gate(on, c, buffers) ==
    IF on = "off" \/ c = "down" THEN "disabled"
    ELSE IF buffers # {} THEN "blocked" ELSE "open"

\* ++runToken: whatever is in flight is history.
Detached(runs) == {[r EXCEPT !.token = "past"] : r \in runs}

Emptied(k) == [k EXCEPT !.pending = {}, !.age = NoBatch]

Started(k) ==
    [k EXCEPT
        !.pending = {}, !.age = NoBatch, !.running = "yes", !.rest = 0,
        !.inflight = Detached(@) \cup
                     {[token |-> "current", client |-> "same", uris |-> k.pending]}]

Fire(k, gate) ==
    LET due == [k EXCEPT !.timer = NoTimer]
    IN  IF k.disposed = "yes" THEN due
        ELSE IF gate = "disabled" THEN Emptied(due)
        ELSE IF gate = "blocked" \/ k.pending = {} THEN due
        ELSE Started(due)

\* A mutant of Wait: the spacing of the runs is forgotten.
WaitDebounceOnly(k) == Debounce - k.age

Wait(k) == Later(Debounce - k.age, Floor - k.rest)

Arm(k, gate) ==
    IF k.disposed = "yes" \/ k.timer # NoTimer \/ k.running = "yes" \/ k.pending = {}
    THEN k
    ELSE IF Wait(k) <= 0 THEN Fire(k, gate) ELSE [k EXCEPT !.timer = Wait(k)]

Enqueue(k, f) ==
    [k EXCEPT !.age = IF k.pending = {} THEN 0 ELSE @, !.pending = @ \cup {f}]

CancelPending(k) == [k EXCEPT !.timer = NoTimer, !.pending = {}, !.age = NoBatch]

Reset(k) ==
    [CancelPending(k) EXCEPT !.running = "no", !.rest = Floor,
                             !.inflight = Detached(@)]

\* Mutants of Settled: a busy run's files are not queued again; the flag is not
\* cleared.
SettledForgetsBusy(k, r, outcome) ==
    [k EXCEPT !.running = "no", !.inflight = @ \ {r}]

SettledStaysRunning(k, r, outcome) == [k EXCEPT !.inflight = @ \ {r}]

\* The settle callbacks of a current run, before arm: a busy run's files are
\* queued again with the debounce window already over.
Settled(k, r, outcome) ==
    IF outcome = "busy"
    THEN [k EXCEPT !.running = "no", !.inflight = @ \ {r},
                   !.pending = @ \cup r.uris, !.age = Debounce]
    ELSE [k EXCEPT !.running = "no", !.inflight = @ \ {r}]

-----------------------------------------------------------------------------
(***************************************************************************)
(* The editor                                                              *)
(***************************************************************************)
Edit(f) ==
    /\ f \notin dirty
    /\ dirty' = dirty \cup {f}
    /\ UNCHANGED <<q, setting, client, owed, undone>>

\* onDidSaveTextDocument: enqueue, or poke when the setting is off.
Save(f) ==
    /\ f \in dirty
    /\ dirty' = dirty \ {f}
    /\ \/ /\ setting = "on" /\ q.disposed = "no"
          /\ q' = Arm(Enqueue(q, f), Gate(setting, client, dirty'))
          /\ owed' = IF client = "down" THEN owed ELSE owed \cup {f}
       \/ /\ setting = "off" \/ q.disposed = "yes"
          /\ q' = Arm(q, Gate(setting, client, dirty'))
          /\ UNCHANGED owed
    /\ undone' = "no"
    /\ UNCHANGED <<setting, client>>

\* onDidCloseTextDocument of a buffer whose edits are discarded: poke.
Close(f) ==
    /\ f \in dirty
    /\ dirty' = dirty \ {f}
    /\ q' = Arm(q, Gate(setting, client, dirty'))
    /\ undone' = "no"
    /\ UNCHANGED <<setting, client, owed>>

\* Undo, or revert: the buffer is clean and no event is listened to.
Undo(f) ==
    /\ f \in dirty
    /\ dirty' = dirty \ {f}
    /\ undone' = IF dirty' = {} THEN "yes" ELSE undone
    /\ UNCHANGED <<q, setting, client, owed>>

\* The other pokes: a clean buffer closed, another language's file saved, the
\* classpath rebuilt.
Poke ==
    /\ q' = Arm(q, Gate(setting, client, dirty))
    /\ undone' = "no"
    /\ UNCHANGED <<setting, client, dirty, owed>>

\* onDidChangeConfiguration: cancelPending, or poke; a trust grant pokes too.
SwitchOff ==
    /\ setting = "on"
    /\ setting' = "off"
    /\ q' = CancelPending(q)
    /\ owed' = {}
    /\ UNCHANGED <<client, dirty, undone>>

SwitchOn ==
    /\ setting = "off"
    /\ setting' = "on"
    /\ q' = Arm(q, Gate("on", client, dirty))
    /\ undone' = "no"
    /\ UNCHANGED <<client, dirty, owed>>

\* restart: reset, then the client is stopped and another one started, one
\* restart at a time; start gives up when there is no server binary.
Restart ==
    /\ client # "stopping"
    /\ client' = "stopping"
    /\ q' = Reset(q)
    /\ owed' = {}
    /\ UNCHANGED <<setting, dirty, undone>>

Restarted ==
    /\ client = "stopping"
    /\ q' = [q EXCEPT !.inflight = {[r EXCEPT !.client = "old"] : r \in @}]
    /\ \/ client' = "up" /\ UNCHANGED owed
       \/ client' = "down" /\ owed' = {}
    /\ UNCHANGED <<setting, dirty, undone>>

\* deactivate
Dispose ==
    /\ q.disposed = "no"
    /\ q' = [CancelPending(q) EXCEPT !.disposed = "yes"]
    /\ owed' = {}
    /\ UNCHANGED <<setting, client, dirty, undone>>

-----------------------------------------------------------------------------
(***************************************************************************)
(* Time and the runs                                                       *)
(***************************************************************************)
Tick ==
    /\ q.timer > 0 \/ q.age \in 0 .. Debounce - 1 \/ q.rest < Floor
    /\ q' = [q EXCEPT !.timer = IF @ > 0 THEN @ - 1 ELSE @,
                      !.age = IF @ = NoBatch THEN @ ELSE Sooner(@ + 1, Debounce),
                      !.rest = Sooner(@ + 1, Floor)]
    /\ UNCHANGED <<setting, client, dirty, owed, undone>>

TimerFires ==
    /\ q.timer = 0
    /\ q' = Fire(q, Gate(setting, client, dirty))
    /\ UNCHANGED <<setting, client, dirty, owed, undone>>

\* runBackgroundCheck settles: "completed" whatever came of it, "busy" when
\* the server was running another check or its result was stale.
Settle(r, outcome) ==
    /\ \/ /\ r.token = "current"
          /\ q' = Arm(Settled(q, r, outcome), Gate(setting, client, dirty))
          /\ owed' = IF outcome = "busy" THEN owed ELSE owed \ (r.uris \ q.pending)
       \/ /\ r.token = "past"
          /\ q' = [q EXCEPT !.inflight = @ \ {r}]
          /\ UNCHANGED owed
    /\ UNCHANGED <<setting, client, dirty, undone>>

Completes == \E r \in q.inflight : Settle(r, "completed")

\* A client that is stopping rejects the request, and an answer to an old
\* client counts as completed.
IsBusy == client = "up" /\ \E r \in q.inflight : r.client = "same" /\ Settle(r, "busy")

Next ==
    \/ \E f \in Files : Edit(f) \/ Save(f) \/ Close(f) \/ Undo(f)
    \/ Poke \/ SwitchOff \/ SwitchOn \/ Restart \/ Restarted \/ Dispose
    \/ Tick \/ TimerFires
    \/ Completes \/ IsBusy

Spec == Init /\ [][Next]_vars

(***************************************************************************)
(* Fairness: time passes, due timers fire, runs settle, and the server is  *)
(* not busy every time.                                                    *)
(***************************************************************************)
FairSpec ==
    /\ Spec
    /\ WF_vars(Tick) /\ WF_vars(TimerFires)
    /\ SF_vars(Completes)

-----------------------------------------------------------------------------
(***************************************************************************)
(* Properties                                                              *)
(***************************************************************************)
Current == {r \in q.inflight : r.token = "current"}

\* The running flag and the token agree: it is set exactly while there is a
\* current run, and there is never a second one, whatever restarts detached.
OneRun ==
    /\ q.running = "yes" <=> Current # {}
    /\ \A r, s \in Current : r = s

\* A save is never lost: until a run that includes it has completed, a saved
\* file is queued or in the current run, through busy answers and saves that
\* arrive while a run is in flight.
NoLostSave == \A f \in owed : f \in q.pending \/ \E r \in Current : f \in r.uris

\* A queue is never stranded: files wait without a run or a timer only while a
\* buffer is dirty, so that the save or close that cleans it re-arms, or when
\* the last dirty buffer was undone.
NotStranded ==
    q.pending # {} /\ q.running = "no" /\ q.disposed = "no"
        => q.timer # NoTimer \/ dirty # {} \/ undone = "yes"

\* Runs are spaced start to start: one that starts finds the floor elapsed,
\* unless a restart forgot it.
FloorKept ==
    [][q'.running = "yes" /\ (q.running = "no" \/ q'.rest < q.rest)
           => q.rest = Floor]_vars

\* A save stays due until it is checked: the file is queued or in the run, and
\* the queue has something that will start it (enqueue, arm, fire).
SavesStayDue == NoLostSave /\ NotStranded

\* The client's checks are serial and spaced, through restarts, busy answers
\* and timers that elapse late (fire, reset).
OneRunAtATime == []OneRun /\ FloorKept

\* A check runs after Java files are saved: if the buffers are clean again and
\* again, other than by undoing, and a file is left alone, it does not stay
\* unchecked.
SavedIsChecked ==
    []<>(dirty = {} /\ undone = "no")
        => \A f \in Files : <>[](f \notin dirty) => <>[](f \notin owed)

=============================================================================
