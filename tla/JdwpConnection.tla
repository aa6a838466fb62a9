---------------------------- MODULE JdwpConnection ----------------------------
(***************************************************************************)
(* The debug adapter's connection to the debuggee (crates/debug/src/jdwp): *)
(* commands register in a pending map and wait; one reader task hands      *)
(* replies to their waiters and events to a bounded channel, from which a  *)
(* pump moves them into the session's bounded inbox (dap/session.rs).      *)
(*                                                                         *)
(* The session is one loop: while it awaits a reply it takes nothing from  *)
(* the inbox.  Only terminate gives up on a reply, after a timeout.  The   *)
(* debuggee is external: it answers in any order, and sends events, late   *)
(* or malformed packets, and the end of the stream when it likes.          *)
(***************************************************************************)
EXTENDS Naturals, Sequences, FiniteSets

CONSTANTS
    MaxCommands,    \* bound on the commands issued
    EventCap,       \* capacity of the event channel, 64 in the code
    InboxCap,       \* capacity of the session's inbox, 256 in the code
    MaxInFlight,    \* bound on the events sent and not yet taken by the session
    MaxEvents,      \* bound on the events sent
    MaxOutput       \* bound on the output chunks of the debuggee

ASSUME CapAssumption ==
    /\ MaxCommands \in Nat /\ MaxInFlight \in Nat /\ MaxEvents \in Nat /\ MaxOutput \in Nat
    /\ EventCap \in Nat \ {0} /\ InboxCap \in Nat \ {0}

Ids == 1 .. MaxCommands
Results == {"none", "reply", "code", "io", "closed"}

VARIABLES
    next_id,    \* JdwpClient::next_id
    pending,    \* JdwpClient::pending: the waiting ids, while the map is there
    map,        \* "open", or "taken" by the teardown
    call,       \* where the session's call of command is
    result,     \* what each command returned
    asked,      \* commands the debuggee has received and not answered
    wire,       \* packets on their way to the reader
    link,       \* "up", or "down" once the socket is closed
    reader,     \* the reader task: "read", "send" an event, "break", "gone"
    events,     \* number of payloads in the event channel
    pump,       \* the forwarder of start_vm: "recv", "send", "end", "gone"
    inbox,      \* the session's channel of Inbound messages
    sent,       \* events sent so far
    output      \* output chunks sent so far

vars == <<next_id, pending, map, call, result, asked, wire, link, reader, events,
          pump, inbox, sent, output>>
session == <<next_id, pending, map, call, result>>
debuggee == <<asked, link, sent, output>>

Packets == [kind : {"reply", "error"}, id : Ids] \cup [kind : {"event", "other", "bad"}, id : {0}]
Messages == {"event", "closed", "output"}

\* Type correctness of the connection, with both channels within their bounds.
TypeOK ==
    /\ next_id \in 1 .. MaxCommands + 1
    /\ pending \subseteq Ids
    /\ map \in {"open", "taken"}
    /\ call \in {"idle", "registered", "waiting"}
    /\ result \in [Ids -> Results]
    /\ asked \subseteq Ids
    /\ wire \in Seq(Packets)
    /\ link \in {"up", "down"}
    /\ reader \in {"read", "send", "break", "gone"}
    /\ events \in 0 .. EventCap
    /\ pump \in {"recv", "send", "end", "gone"}
    /\ inbox \in Seq(Messages) /\ Len(inbox) <= InboxCap
    /\ sent \in Nat /\ output \in Nat

\* connect: past the handshake, the map empty and both tasks running.
Init ==
    /\ next_id = 1 /\ pending = {} /\ map = "open" /\ call = "idle"
    /\ result = [i \in Ids |-> "none"]
    /\ asked = {} /\ wire = <<>> /\ link = "up"
    /\ reader = "read" /\ events = 0 /\ pump = "recv" /\ inbox = <<>>
    /\ sent = 0 /\ output = 0

Current == next_id - 1
-----------------------------------------------------------------------------
(***************************************************************************)
(* command                                                                 *)
(***************************************************************************)
\* A mutant of Register: a call enters the map it found, taken or not.
RegisterBlindly ==
    /\ call = "idle" /\ next_id <= MaxCommands
    /\ next_id' = next_id + 1
    /\ pending' = pending \cup {next_id} /\ call' = "registered" /\ result' = result
    /\ UNCHANGED <<map, asked, wire, link, reader, events, pump, inbox, sent, output>>

\* The call takes an id and registers its waiter, unless the map was taken.
Register ==
    /\ call = "idle" /\ next_id <= MaxCommands
    /\ next_id' = next_id + 1
    /\ \/ /\ map = "open"
          /\ pending' = pending \cup {next_id} /\ call' = "registered"
          /\ result' = result
       \/ /\ map = "taken"
          /\ result' = [result EXCEPT ![next_id] = "closed"]
          /\ UNCHANGED <<pending, call>>
    /\ UNCHANGED <<map, asked, wire, link, reader, events, pump, inbox, sent, output>>

\* The packet is written; a write to a dead peer may still succeed.
Write ==
    /\ call = "registered"
    /\ call' = "waiting"
    /\ asked' = IF link = "up" THEN asked \cup {Current} ELSE asked
    /\ UNCHANGED <<next_id, pending, map, result, wire, link, reader, events, pump, inbox,
                   sent, output>>

\* The write fails; the call removes its own entry.
WriteFails ==
    /\ call = "registered" /\ link = "down"
    /\ pending' = pending \ {Current}
    /\ result' = [result EXCEPT ![Current] = "io"]
    /\ call' = "idle"
    /\ UNCHANGED <<next_id, map, asked, wire, link, reader, events, pump, inbox, sent, output>>

\* The result is there, and the call returns it.
Return ==
    /\ call = "waiting" /\ result[Current] # "none"
    /\ call' = "idle"
    /\ UNCHANGED <<next_id, pending, map, result, debuggee, wire, reader, events, pump, inbox>>

\* terminate's timeout drops the call; its entry stays in the map, and whatever
\* the reader sends to it goes nowhere.
GiveUp ==
    /\ call = "waiting" /\ result[Current] = "none"
    /\ call' = "idle"
    /\ UNCHANGED <<next_id, pending, map, result, debuggee, wire, reader, events, pump, inbox>>

-----------------------------------------------------------------------------
(***************************************************************************)
(* The debuggee                                                            *)
(***************************************************************************)
\* It answers a command, with data or an error code.
Answer(i, k) ==
    /\ link = "up" /\ i \in asked
    /\ asked' = asked \ {i}
    /\ wire' = Append(wire, [kind |-> k, id |-> i])
    /\ UNCHANGED <<session, link, reader, events, pump, inbox, sent, output>>

\* Events sent and not yet in the session's inbox or taken from it.
Forwarding == Cardinality({k \in DOMAIN wire : wire[k].kind = "event"}) + events
              + (IF reader = "send" THEN 1 ELSE 0) + (IF pump = "send" THEN 1 ELSE 0)

\* It reports an event; at most MaxInFlight are outstanding, one for each
\* thread that reports before the first report has suspended them all.
SendEvent ==
    /\ link = "up" /\ sent < MaxEvents /\ Forwarding < MaxInFlight
    /\ sent' = sent + 1
    /\ wire' = Append(wire, [kind |-> "event", id |-> 0])
    /\ UNCHANGED <<session, asked, link, reader, events, pump, inbox, output>>

\* It sends a packet that is no reply and no event, or one whose length is out
\* of bounds.
SendOther(k) ==
    /\ link = "up" /\ sent < MaxEvents
    /\ sent' = sent + 1
    /\ wire' = Append(wire, [kind |-> k, id |-> 0])
    /\ UNCHANGED <<session, asked, link, reader, events, pump, inbox, output>>

\* The socket closes; a prefix of what was under way still arrives.
CloseLink ==
    /\ link = "up" /\ link' = "down"
    /\ \E n \in 0 .. Len(wire) : wire' = SubSeq(wire, 1, n)
    /\ UNCHANGED <<session, asked, reader, events, pump, inbox, sent, output>>

\* forward_stream puts a chunk of its output into the inbox.
ForwardOutput ==
    /\ output < MaxOutput /\ Len(inbox) < InboxCap
    /\ output' = output + 1
    /\ inbox' = Append(inbox, "output")
    /\ UNCHANGED <<session, asked, link, sent, wire, reader, events, pump>>

-----------------------------------------------------------------------------
(***************************************************************************)
(* reader_task                                                             *)
(***************************************************************************)
\* A mutant of ReadReply: the reply goes to whichever command waits.
ReadReplyAny ==
    /\ reader = "read" /\ wire # <<>> /\ Head(wire).kind \in {"reply", "error"}
    /\ wire' = Tail(wire)
    /\ pending' = {}
    /\ result' = [i \in Ids |-> IF i \in pending THEN "reply" ELSE result[i]]
    /\ UNCHANGED <<next_id, map, call, debuggee, reader, events, pump, inbox>>

\* A reply goes to the waiter of its id, if there is one.
ReadReply ==
    /\ reader = "read" /\ wire # <<>> /\ Head(wire).kind \in {"reply", "error"}
    /\ wire' = Tail(wire)
    /\ LET p == Head(wire) IN
       IF p.id \in pending
       THEN /\ pending' = pending \ {p.id}
            /\ result' = [result EXCEPT ![p.id] = IF p.kind = "reply" THEN "reply" ELSE "code"]
       ELSE UNCHANGED <<pending, result>>
    /\ UNCHANGED <<next_id, map, call, debuggee, reader, events, pump, inbox>>

\* The reader holds an event for the channel ...
ReadEvent ==
    /\ reader = "read" /\ wire # <<>> /\ Head(wire).kind = "event"
    /\ wire' = Tail(wire)
    /\ reader' = "send"
    /\ UNCHANGED <<session, debuggee, events, pump, inbox>>

\* A mutant of PutEvent: one place of the channel is never used.
PutEventEarlyFull ==
    /\ reader = "send" /\ events + 1 < EventCap
    /\ events' = events + 1
    /\ reader' = "read"
    /\ UNCHANGED <<session, debuggee, wire, pump, inbox>>

\* ... and puts it there once there is room.
PutEvent ==
    /\ reader = "send" /\ events < EventCap
    /\ events' = events + 1
    /\ reader' = "read"
    /\ UNCHANGED <<session, debuggee, wire, pump, inbox>>

\* Any other command is ignored.
ReadOther ==
    /\ reader = "read" /\ wire # <<>> /\ Head(wire).kind = "other"
    /\ wire' = Tail(wire)
    /\ UNCHANGED <<session, debuggee, reader, events, pump, inbox>>

\* The loop ends: end of stream, or a length out of bounds.
ReadFails ==
    /\ reader = "read"
    /\ \/ wire = <<>> /\ link = "down"
       \/ wire # <<>> /\ Head(wire).kind = "bad"
    /\ reader' = "break"
    /\ UNCHANGED <<session, debuggee, wire, events, pump, inbox>>

\* The map is taken, every waiter in it failed and the event sender dropped;
\* the session still holds the other half of the socket.
Teardown ==
    /\ reader = "break"
    /\ map' = "taken" /\ pending' = {}
    /\ result' = [i \in Ids |-> IF i \in pending THEN "closed" ELSE result[i]]
    /\ reader' = "gone"
    /\ UNCHANGED <<next_id, call, debuggee, wire, events, pump, inbox>>

-----------------------------------------------------------------------------
(***************************************************************************)
(* The pump of start_vm, and the session's loop                            *)
(***************************************************************************)
\* A mutant of PumpRecv: it stops at the end of the channel's senders, not of
\* its payloads.
PumpRecvStops ==
    /\ pump = "recv"
    /\ \/ events > 0 /\ reader # "gone" /\ events' = events - 1 /\ pump' = "send"
       \/ reader = "gone" /\ pump' = "end" /\ events' = events
    /\ UNCHANGED <<session, debuggee, wire, reader, inbox>>

\* recv: a payload, or the end once the sender is gone and the channel empty.
PumpRecv ==
    /\ pump = "recv"
    /\ \/ events > 0 /\ events' = events - 1 /\ pump' = "send"
       \/ events = 0 /\ reader = "gone" /\ pump' = "end" /\ events' = events
    /\ UNCHANGED <<session, debuggee, wire, reader, inbox>>

\* The payload, or at the end JdwpClosed, enters the inbox when there is room.
PumpSend ==
    /\ pump \in {"send", "end"} /\ Len(inbox) < InboxCap
    /\ inbox' = Append(inbox, IF pump = "send" THEN "event" ELSE "closed")
    /\ pump' = IF pump = "send" THEN "recv" ELSE "gone"
    /\ UNCHANGED <<session, debuggee, wire, reader, events>>

\* The session takes its next message when it awaits nothing.
Take ==
    /\ call = "idle" /\ inbox # <<>>
    /\ inbox' = Tail(inbox)
    /\ UNCHANGED <<session, debuggee, wire, reader, events, pump>>

-----------------------------------------------------------------------------
ReadStep == ReadReply \/ ReadEvent \/ PutEvent \/ ReadOther \/ ReadFails \/ Teardown
PumpStep == PumpRecv \/ PumpSend
Answers == \E i \in Ids, k \in {"reply", "error"} : Answer(i, k)

Next ==
    \/ Register \/ Write \/ WriteFails \/ Return \/ GiveUp
    \/ Answers \/ SendEvent \/ CloseLink \/ ForwardOutput
    \/ \E k \in {"other", "bad"} : SendOther(k)
    \/ ReadStep \/ PumpStep \/ Take

Spec == Init /\ [][Next]_vars

\* Tasks are scheduled, the session goes on, and the debuggee answers what it
\* has received as long as the connection is up (external).
FairSpec ==
    /\ Spec
    /\ WF_vars(ReadStep) /\ WF_vars(PumpStep) /\ WF_vars(Take)
    /\ WF_vars(Write) /\ WF_vars(Return)
    /\ \A i \in Ids : WF_vars(\E k \in {"reply", "error"} : Answer(i, k))

-----------------------------------------------------------------------------
(***************************************************************************)
(* Properties                                                              *)
(***************************************************************************)
\* Whatever the order of teardown, registration and replies, a call that waits
\* without a result is in the pending map of a reader that has yet to tear
\* down (jdwp/mod.rs, command and reader_task): no waiter is forgotten.
NoForgottenWaiter ==
    call \in {"registered", "waiting"} /\ result[Current] = "none" =>
        Current \in pending /\ map = "open" /\ reader # "gone"

\* A command succeeds only with the reply to itself: what the debuggee still
\* owes, or still has on the wire, nobody has been given.
RepliesMatch ==
    \A i \in Ids : result[i] \in {"reply", "code"} =>
        i \notin asked /\ i \notin pending /\ \A k \in DOMAIN wire : wire[k].id # i

\* The map holds no entry of a command that has returned, other than the ones
\* terminate gave up on (command removes its entry when the write fails).
EntriesAreWaiters ==
    \A i \in pending : result[i] = "none"

\* The pending map is exact: it holds every command that waits for a result
\* and none that has one (command, reader_task).
PendingIsExact == NoForgottenWaiter /\ EntriesAreWaiters

\* What a command came back with is settled: no late reply, failed write or
\* teardown changes the result of another command, or of one whose packet was
\* written.  Only a call torn down before its write returns the write's error
\* instead (command, reader_task).
ResultsAreFinal ==
    [][\A i \in Ids : result[i] # "none" /\ ~(call = "registered" /\ i = Current) =>
          result'[i] = result[i]]_vars

\* The end of the connection is the last message of the pump: no event enters
\* the inbox after JdwpClosed, and none is dropped before it.
ClosedComesLast ==
    \A k \in DOMAIN inbox : inbox[k] = "closed" =>
        /\ events = 0 /\ pump = "gone" /\ reader = "gone"
        /\ \A j \in k + 1 .. Len(inbox) : inbox[j] = "output"

\* As long as no more events are under way than the event channel and the pump
\* hold, every command that waits returns, even when the debuggee's output
\* keeps the inbox full: the reader is never stuck on an event in front of the
\* reply.
CallsReturn == call = "waiting" ~> call = "idle"

=============================================================================
