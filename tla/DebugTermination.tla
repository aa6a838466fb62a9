--------------------------- MODULE DebugTermination ---------------------------
(***************************************************************************)
(* How a debug session starts and ends (crates/debug/src/dap/session.rs):  *)
(* the launched child and the task that owns it, the JDWP connection and   *)
(* its pump, terminate with its deadline, disconnect, the end of stdin and *)
(* cleanup.  All of them talk to the session through one bounded FIFO of   *)
(* Inbound messages, which the loop of run_stdio_adapter handles in order. *)
(*                                                                         *)
(* A handler that sends a JDWP command awaits the reply with no deadline   *)
(* (only terminate sets one), and the loop handles nothing meanwhile.  The *)
(* debuggee is external: it may stop, send data that does not decode, die  *)
(* announced or not, ignore the command to exit, or answer no longer.      *)
(***************************************************************************)
EXTENDS Integers, Sequences

CONSTANTS
    InboxCap,       \* capacity of the channel of Inbound messages
    MaxRequests,    \* bound on the client's requests of a running session
    MaxLaunches,    \* bound on the launches that get as far as a classpath
    MaxEvents       \* bound on the event sets of the debuggee

ASSUME InboxAssumption ==
    /\ InboxCap \in Nat \ {0}
    /\ MaxRequests \in Nat /\ MaxLaunches \in Nat /\ MaxEvents \in Nat

VARIABLES
    life,           \* "live", "cleanup", "exited"
    awaiting,       \* the handler whose JDWP reply the loop awaits, or "none"
    launch_mode,    \* "none" before launch or attach
    vm,             \* Session::vm is set
    terminated_sent, child_alive,
    child_kill,     \* the kill channel: "none", "held", "fired"
    child_task,     \* child_wait_task: "none", "waiting", "killing", "reporting", "reaped"
    scratch_dir,    \* the launch whose directory Session::scratch_dir names, 0 for None
    timers,         \* terminate's timers that have not elapsed
    inbox,          \* the channel of Inbound messages
    stdin,          \* "open", "closed"
    requests, launches, events,
    dirs,           \* the launches whose scratch directory exists
    jvm,            \* the debuggee: "none", "run", "dead"
    deaf,           \* it answers no more
    link            \* what it has sent and the pump not forwarded

client == <<stdin, requests>>
child == <<child_alive, child_kill, child_task>>
scratch == <<scratch_dir, launches, dirs>>
process == <<jvm, deaf, link, events>>
endVars == <<life, awaiting, launch_mode, vm, terminated_sent, child, scratch, timers, inbox, client, process>>

Events == {"stop", "junk", "death", "closed"}
ClientRequests == {"launch", "attach", "inspect", "terminate", "disconnect", "dispose", "eof"}
Messages == ClientRequests \cup Events \cup {"exit", "deadline"}
Awaits == {"none", "launch", "attach", "command", "dispose"}

\* Type correctness, with the channel within its bound.
EndTypeOK ==
    /\ life \in {"live", "cleanup", "exited"} /\ awaiting \in Awaits
    /\ launch_mode \in {"none", "launch", "attach"}
    /\ vm \in BOOLEAN /\ terminated_sent \in BOOLEAN /\ child_alive \in BOOLEAN
    /\ child_kill \in {"none", "held", "fired"}
    /\ child_task \in {"none", "waiting", "killing", "reporting", "reaped"}
    /\ launches \in Nat /\ scratch_dir \in Nat /\ dirs \subseteq Nat /\ timers \in Nat
    /\ inbox \in Seq(Messages) /\ Len(inbox) <= InboxCap /\ stdin \in {"open", "closed"}
    /\ requests \in 0 .. MaxRequests /\ events \in 0 .. MaxEvents
    /\ jvm \in {"none", "run", "dead"} /\ deaf \in BOOLEAN /\ link \in Seq(Events)

EndInit ==
    /\ life = "live" /\ awaiting = "none" /\ launch_mode = "none"
    /\ vm = FALSE /\ terminated_sent = FALSE
    /\ child_alive = FALSE /\ child_kill = "none" /\ child_task = "none"
    /\ scratch_dir = 0 /\ launches = 0 /\ dirs = {}
    /\ timers = 0 /\ inbox = <<>> /\ stdin = "open" /\ requests = 0 /\ events = 0
    /\ jvm = "none" /\ deaf = FALSE /\ link = <<>>

\* mpsc send: it waits for room.
Post(message) == Len(inbox) < InboxCap /\ inbox' = Append(inbox, message)

-----------------------------------------------------------------------------
(***************************************************************************)
(* The senders                                                             *)
(***************************************************************************)
\* The client starts, again if that failed, asks things of the debuggee, may
\* ask to terminate, and ends with a disconnect or by closing stdin; a request
\* reader forwards it all.
Request(r) ==
    /\ stdin = "open" /\ life # "exited"
    /\ r \in {"launch", "attach"} =>
          launch_mode = "none" /\ awaiting = "none" /\ inbox = <<>> /\ launches < MaxLaunches
    /\ r \in {"inspect", "terminate"} => requests < MaxRequests
    /\ Post(r)
    /\ requests' = IF r \in {"inspect", "terminate"} THEN requests + 1 ELSE requests
    /\ stdin' = IF r \in {"disconnect", "dispose", "eof"} THEN "closed" ELSE stdin
    /\ UNCHANGED <<life, awaiting, launch_mode, vm, terminated_sent, child, scratch, timers, process>>

\* start_vm's pump: event sets, and "closed" after the last.
PumpForward ==
    /\ life # "exited" /\ launch_mode # "none" /\ link # <<>>
    /\ Post(Head(link)) /\ link' = Tail(link)
    /\ UNCHANGED <<life, awaiting, launch_mode, vm, terminated_sent, child, scratch, timers, client, jvm, deaf,
                   events>>

\* child_wait_task: the child has exited, or the kill channel has fired and the
\* child is sent the signal, and waited for.
ChildWait ==
    /\ life # "exited"
    /\ \/ child_task \in {"waiting", "killing"} /\ jvm = "dead" /\ child_task' = "reporting"
       \/ child_task = "waiting" /\ child_kill = "fired" /\ child_task' = "killing"
    /\ UNCHANGED <<life, awaiting, launch_mode, vm, terminated_sent, child_alive, child_kill, scratch, timers,
                   inbox, client, process>>

\* It reports the exit, then that it has reaped the child.
ChildReport ==
    /\ child_task = "reporting" /\ life # "exited"
    /\ Post("exit") /\ child_task' = "reaped"
    /\ UNCHANGED <<life, awaiting, launch_mode, vm, terminated_sent, child_alive, child_kill, scratch, timers,
                   client, process>>

\* A timer of terminate elapses.
TimerElapses ==
    /\ life # "exited" /\ timers > 0 /\ timers' = timers - 1
    /\ Post("deadline")
    /\ UNCHANGED <<life, awaiting, launch_mode, vm, terminated_sent, child, scratch, client, process>>

-----------------------------------------------------------------------------
(***************************************************************************)
(* The loop: Session::handle of the oldest message                         *)
(***************************************************************************)
Take(message) ==
    /\ life = "live" /\ awaiting = "none"
    /\ inbox # <<>> /\ Head(inbox) = message /\ inbox' = Tail(inbox)

\* launch, up to the spawned child, the connection, its handshake and IDSizes.
\* The plan may have compiled into a scratch directory; the field is assigned
\* whatever it held.
StartLaunch(compiled) ==
    /\ Take("launch")
    /\ launches' = launches + 1
    /\ scratch_dir' = IF compiled THEN launches' ELSE 0
    /\ dirs' = IF compiled THEN dirs \cup {launches'} ELSE dirs
    /\ awaiting' = "launch" /\ jvm' = "run"
    /\ UNCHANGED <<life, launch_mode, vm, terminated_sent, child, timers, client, deaf, link, events>>

\* attach, up to the same point
StartAttach ==
    /\ Take("attach")
    /\ awaiting' = "attach" /\ jvm' = "run"
    /\ UNCHANGED <<life, launch_mode, vm, terminated_sent, child, scratch, timers, client, deaf, link, events>>

\* Bad arguments, no JDK, no classpath, nobody listening: nothing is changed.
Refuse ==
    /\ \E r \in {"launch", "attach"} : Take(r)
    /\ UNCHANGED <<life, awaiting, launch_mode, vm, terminated_sent, child, scratch, timers, client, process>>

\* The debuggee answers, or the connection has ended and fails the command.
Replied == jvm = "dead" \/ ~deaf

\* The rest of launch and attach: start_vm has the connection.
StartVm ==
    /\ awaiting \in {"launch", "attach"} /\ awaiting' = "none"
    /\ jvm = "run" /\ ~deaf
    /\ launch_mode' = awaiting /\ vm' = TRUE
    /\ IF awaiting = "launch"
       THEN child_alive' = TRUE /\ child_kill' = "held" /\ child_task' = "waiting"
       ELSE UNCHANGED child
    /\ UNCHANGED <<life, terminated_sent, scratch, timers, inbox, client, process>>

\* It has not: no child, no listen address in time, no connection, a handshake
\* that fails.  The child is killed; the scratch directory stays.
ConnectFails ==
    /\ awaiting \in {"launch", "attach"} /\ awaiting' = "none"
    /\ jvm' = "none" /\ deaf' = FALSE /\ link' = <<>>
    /\ UNCHANGED <<life, launch_mode, vm, terminated_sent, child, scratch, timers, inbox, client, events>>

\* The kill channel fires, if it is still held.
Fired == IF child_kill = "held" THEN "fired" ELSE child_kill

\* terminate, the backstop: a launched child gets a deadline.
Backstop == timers' = IF launch_mode = "launch" /\ child_alive THEN timers + 1 ELSE timers

\* terminate: the debuggee accepts Exit, or does not in time and is killed.
Terminate ==
    /\ Take("terminate")
    /\ child_kill' \in {Fired} \cup (IF vm /\ jvm = "run" /\ ~deaf THEN {child_kill} ELSE {})
    /\ Backstop
    /\ UNCHANGED <<life, awaiting, launch_mode, vm, terminated_sent, child_alive, child_task, scratch, client,
                   process>>

\* A mutant of Cleanup: the kill channel is left alone.
CleanupWithoutKill == life' = "cleanup" /\ child_kill' = child_kill

\* cleanup: the kill channel fires, if it has not in terminate.
Cleanup == life' = "cleanup" /\ child_kill' = Fired

\* disconnect with terminateDebuggee: terminate, whose kill cleanup repeats;
\* then the loop ends.
Disconnect ==
    /\ Take("disconnect")
    /\ Backstop
    /\ Cleanup
    /\ UNCHANGED <<awaiting, launch_mode, vm, terminated_sent, child_alive, child_task, scratch, client, process>>

\* disconnect without: dispose of the connection, if there is one.
Dispose ==
    /\ Take("dispose")
    /\ vm' = FALSE
    /\ IF vm THEN awaiting' = "dispose" /\ UNCHANGED <<life, child_kill>> ELSE Cleanup /\ awaiting' = "none"
    /\ UNCHANGED <<launch_mode, terminated_sent, child_alive, child_task, scratch, timers, client, process>>

\* dispose returns, and the loop ends.
Disposed ==
    /\ awaiting = "dispose" /\ Replied /\ awaiting' = "none"
    /\ Cleanup
    /\ UNCHANGED <<launch_mode, vm, terminated_sent, child_alive, child_task, scratch, timers, inbox, client,
                   process>>

\* Inbound::StdinClosed
StdinClosed ==
    /\ Take("eof")
    /\ Cleanup
    /\ UNCHANGED <<awaiting, launch_mode, vm, terminated_sent, child_alive, child_task, scratch, timers,
                   client, process>>

\* A request about the debuggee, or an event set with a stop or a class: JDWP
\* commands follow, if there is a VM.
Command ==
    /\ Take("inspect") \/ Take("stop")
    /\ awaiting' \in {"none"} \cup (IF vm THEN {"command"} ELSE {})
    /\ UNCHANGED <<life, launch_mode, vm, terminated_sent, child, scratch, timers, client, process>>

\* The last of them returns.
Commanded ==
    /\ awaiting = "command" /\ Replied /\ awaiting' = "none"
    /\ UNCHANGED <<life, launch_mode, vm, terminated_sent, child, scratch, timers, inbox, client, process>>

\* Inbound::JdwpEvent: the death and data that does not decode end the session
\* for the client.
JdwpEvent(event) ==
    /\ Take(event)
    /\ terminated_sent' = (terminated_sent \/ vm)
    /\ UNCHANGED <<life, awaiting, launch_mode, vm, child, scratch, timers, client, process>>

\* Inbound::JdwpClosed
JdwpClosed ==
    /\ Take("closed")
    /\ vm' = FALSE /\ terminated_sent' = TRUE
    /\ UNCHANGED <<life, awaiting, launch_mode, child, scratch, timers, client, process>>

\* Inbound::ChildExit
ChildExit ==
    /\ Take("exit")
    /\ child_alive' = FALSE /\ child_kill' = "none" /\ terminated_sent' = TRUE
    /\ UNCHANGED <<life, awaiting, launch_mode, vm, child_task, scratch, timers, client, process>>

\* A mutant of KillDeadline: only a child that is gone is killed.
KillDeadlineInverted ==
    /\ Take("deadline")
    /\ child_kill' = IF child_alive THEN child_kill ELSE Fired
    /\ UNCHANGED <<life, awaiting, launch_mode, vm, terminated_sent, child_alive, child_task, scratch, timers,
                   client, process>>

\* Inbound::KillDeadline
KillDeadline ==
    /\ Take("deadline")
    /\ child_kill' = IF child_alive THEN Fired ELSE child_kill
    /\ UNCHANGED <<life, awaiting, launch_mode, vm, terminated_sent, child_alive, child_task, scratch, timers,
                   client, process>>

\* A mutant of Exit: the wait for the child has no deadline.
ExitWaits ==
    /\ life = "cleanup" /\ life' = "exited"
    /\ child_task \in {"none", "reaped"}
    /\ scratch_dir' = 0 /\ dirs' = dirs \ {scratch_dir}
    /\ UNCHANGED <<awaiting, launch_mode, vm, terminated_sent, child, launches, timers, inbox, client, process>>

\* The end of cleanup: the child is reaped, or EXIT_GRACE is over whatever its
\* task has come to; the scratch directory the field names is removed.
Exit ==
    /\ life = "cleanup" /\ life' = "exited"
    /\ scratch_dir' = 0 /\ dirs' = dirs \ {scratch_dir}
    /\ UNCHANGED <<awaiting, launch_mode, vm, terminated_sent, child, launches, timers, inbox, client, process>>

-----------------------------------------------------------------------------
(***************************************************************************)
(* The debuggee                                                            *)
(***************************************************************************)
Emit(event) ==
    /\ jvm = "run" /\ events < MaxEvents
    /\ link' = Append(link, event) /\ events' = events + 1
    /\ UNCHANGED <<life, awaiting, launch_mode, vm, terminated_sent, child, scratch, timers, inbox, client,
                   jvm, deaf>>

\* It answers nothing from now on: it hangs, or is stopped from outside.
Freeze ==
    /\ jvm = "run" /\ ~deaf /\ deaf' = TRUE
    /\ UNCHANGED <<life, awaiting, launch_mode, vm, terminated_sent, child, scratch, timers, inbox, client,
                   jvm, link, events>>

\* It ends, by itself, by Exit or by a signal, announcing its death or not; the
\* connection ends with it.
Die(announced) ==
    /\ jvm = "run" /\ jvm' = "dead"
    /\ link' = link \o (IF announced THEN <<"death">> ELSE <<>>) \o <<"closed">>
    /\ UNCHANGED <<life, awaiting, launch_mode, vm, terminated_sent, child, scratch, timers, inbox, client,
                   deaf, events>>

-----------------------------------------------------------------------------
Handle ==
    \/ (\E c \in BOOLEAN : StartLaunch(c)) \/ StartAttach \/ Refuse
    \/ Terminate \/ Disconnect \/ Dispose \/ StdinClosed
    \/ Command \/ (\E e \in {"junk", "death"} : JdwpEvent(e)) \/ JdwpClosed \/ ChildExit
    \/ KillDeadline

\* A handler that awaited the debuggee goes on.
Resume == StartVm \/ Disposed \/ Commanded

EndNext ==
    \/ \E r \in ClientRequests : Request(r)
    \/ PumpForward \/ ChildWait \/ ChildReport \/ TimerElapses
    \/ Handle \/ Resume \/ ConnectFails \/ Exit
    \/ \E e \in {"stop", "junk"} : Emit(e)
    \/ Freeze
    \/ \E a \in BOOLEAN : Die(a)

EndSpec == EndInit /\ [][EndNext]_endVars

\* The loop handles what has arrived and goes on with what was answered, the
\* tasks and timers run, and the child dies of the signal.  Nothing else is
\* owed, neither by the client nor by the debuggee.
FairSpec ==
    /\ EndSpec
    /\ WF_endVars(Handle) /\ WF_endVars(Resume) /\ WF_endVars(jvm = "dead" /\ ConnectFails)
    /\ WF_endVars(Exit) /\ WF_endVars(PumpForward)
    /\ WF_endVars(ChildWait) /\ WF_endVars(ChildReport) /\ WF_endVars(TimerElapses)
    /\ WF_endVars(child_task = "killing" /\ Die(FALSE))

-----------------------------------------------------------------------------
(***************************************************************************)
(* Properties                                                              *)
(***************************************************************************)
\* When the adapter has exited, a launched debuggee is dead, or was to be
\* killed and EXIT_GRACE ran out on the task that kills it; and the scratch
\* directory of the last launch is gone.  Only the directory of a launch that
\* failed and was repeated can stay: the field that named it was overwritten
\* (cleanup, launch).
NothingLeftBehind ==
    life = "exited" =>
        /\ launch_mode = "launch" =>
              jvm = "dead" \/ (child_kill = "fired" /\ child_task \in {"waiting", "killing"})
        /\ launches \notin dirs

\* A handler awaits a debuggee that will never answer, and the loop with it.
Stuck == awaiting # "none" /\ deaf /\ jvm = "run"

\* A launched debuggee that was asked to terminate dies, even if it accepts
\* Exit and never follows it (terminate's backstop), unless the loop is stuck
\* in a command that has no deadline, or the adapter exits before its task has
\* killed it.
TerminateTakesEffect ==
    [](timers > 0 => <>(jvm = "dead" \/ []Stuck \/ (life = "exited" /\ child_task = "waiting")))

\* When the debuggee of a session is gone the client is told, unless it left
\* before.
EndIsReported == launch_mode # "none" /\ jvm = "dead" ~> terminated_sent \/ life # "live"

\* The adapter exits when the client leaves, with the channel full or not and
\* the child reaped or not (disconnect, cleanup).  Only an unanswered command
\* keeps it, for as long as the debuggee lives.
AdapterExits == [](stdin = "closed" => <>(life = "exited" \/ []Stuck))

\* A session ends for whoever is left: the debuggee's end reaches the client,
\* and the client's end the adapter.
SessionEnds == EndIsReported /\ AdapterExits

=============================================================================
