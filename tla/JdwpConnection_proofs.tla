------------------------- MODULE JdwpConnection_proofs -------------------------
(***************************************************************************)
(* Safety of the connection for any number of commands and any capacities. *)
(* MapInv says what the pending map holds at any moment, WireInv that a    *)
(* command has at most one answer and nobody else gets it, PumpInv what    *)
(* follows the end of the event channel.                                   *)
(***************************************************************************)
EXTENDS JdwpConnection, TLAPS

Waits == call \in {"registered", "waiting"}

\* The pending map against the calls: entries are of commands without a
\* result, and the map goes with the reader.
MapInv ==
    /\ Waits => next_id > 1
    /\ \A i \in Ids : i >= next_id => result[i] = "none"
    /\ \A i \in pending : i < next_id /\ result[i] = "none"
    /\ map = "open" <=> reader # "gone"
    /\ map = "taken" => pending = {}
    /\ Waits /\ result[Current] = "none" => Current \in pending

\* A command is unsent, asked, on the wire once, or answered.
WireInv ==
    /\ \A i \in asked : i < next_id
    /\ \A k \in 1 .. Len(wire) : wire[k].id < next_id /\ wire[k].id \notin asked
    /\ \A j, k \in 1 .. Len(wire) : wire[j].id = wire[k].id /\ wire[j].id # 0 => j = k
    /\ call = "registered" =>
         /\ Current \notin asked /\ result[Current] \notin {"reply", "code"}
         /\ \A k \in 1 .. Len(wire) : wire[k].id # Current
    /\ \A i \in Ids : result[i] \in {"reply", "code"} =>
         i \notin asked /\ \A k \in 1 .. Len(wire) : wire[k].id # i

\* After the end of the channel there is no event to come.
PumpInv ==
    /\ pump \in {"end", "gone"} => events = 0 /\ reader = "gone"
    /\ \A k \in 1 .. Len(inbox) : inbox[k] = "closed" =>
         pump = "gone" /\ \A j \in k + 1 .. Len(inbox) : inbox[j] = "output"

IInv == TypeOK /\ MapInv /\ WireInv /\ PumpInv

-----------------------------------------------------------------------------
(***************************************************************************)
(* Sequences: what the wire and the inbox hold after a step                *)
(***************************************************************************)
\* Appending keeps the old positions and adds one.
LEMMA AppendAt ==
    ASSUME NEW S, NEW s \in Seq(S), NEW e \in S
    PROVE  /\ Append(s, e) \in Seq(S) /\ Len(Append(s, e)) = Len(s) + 1
           /\ \A k \in 1 .. Len(s) : Append(s, e)[k] = s[k]
           /\ Append(s, e)[Len(s) + 1] = e
  OBVIOUS

\* What is left when the first one is taken.
LEMMA TailAt ==
    ASSUME NEW S, NEW s \in Seq(S), s # <<>>
    PROVE  /\ Tail(s) \in Seq(S) /\ Len(Tail(s)) = Len(s) - 1 /\ Len(s) \in Nat \ {0}
           /\ \A k \in 1 .. Len(s) - 1 : Tail(s)[k] = s[k + 1]
           /\ Head(s) = s[1] /\ Head(s) \in S
  OBVIOUS

\* What is left when the connection drops the rest.
LEMMA PrefixAt ==
    ASSUME NEW S, NEW s \in Seq(S), NEW n \in 0 .. Len(s)
    PROVE  /\ SubSeq(s, 1, n) \in Seq(S) /\ Len(SubSeq(s, 1, n)) = n
           /\ \A k \in 1 .. n : SubSeq(s, 1, n)[k] = s[k]
  OBVIOUS

\* The packets that are sent are packets.
LEMMA PacketsSent ==
    /\ \A i \in Ids, k \in {"reply", "error"} : [kind |-> k, id |-> i] \in Packets
    /\ \A k \in {"event", "other", "bad"} : [kind |-> k, id |-> 0] \in Packets
  BY DEF Packets

-----------------------------------------------------------------------------
(***************************************************************************)
(* Types                                                                   *)
(***************************************************************************)
\* Type correctness, by cases on the step; packets and messages need the
\* lemmas on sequences, and the id of a waiting call that it is one.
LEMMA TypeStep == TypeOK /\ MapInv /\ [Next]_vars => TypeOK'
  <1> SUFFICES ASSUME TypeOK, MapInv, [Next]_vars PROVE TypeOK'
    OBVIOUS
  <1> USE CapAssumption DEF TypeOK, Ids, session, debuggee
  <1>1. CASE Register
    <2>1. next_id' \in 1 .. MaxCommands + 1 /\ next_id \in Ids
      BY <1>1 DEF Register
    <2>2. pending' \subseteq Ids /\ call' \in {"idle", "registered", "waiting"}
      BY <1>1, <2>1 DEF Register
    <2>3. result' \in [Ids -> Results]
      BY <1>1, <2>1 DEF Register, Results
    <2>4. QED
      BY <1>1, <2>1, <2>2, <2>3 DEF Register
  <1>2. CASE Write
    BY <1>2 DEF Write, Current, MapInv, Waits
  <1>3. CASE WriteFails
    BY <1>3 DEF WriteFails, Current, Results, MapInv, Waits
  <1>4. CASE Return \/ GiveUp
    BY <1>4 DEF Return, GiveUp
  <1>5. CASE Answers
    <2>1. PICK i \in Ids, k \in {"reply", "error"} : Answer(i, k)
      BY <1>5 DEF Answers
    <2>2. QED
      BY <2>1, AppendAt, PacketsSent DEF Answer
  <1>6. CASE SendEvent
    BY <1>6, AppendAt, PacketsSent DEF SendEvent
  <1>7. CASE \E k \in {"other", "bad"} : SendOther(k)
    <2>1. PICK k \in {"other", "bad"} : SendOther(k)
      BY <1>7
    <2>2. QED
      BY <2>1, AppendAt, PacketsSent DEF SendOther
  <1>8. CASE CloseLink
    BY <1>8, PrefixAt DEF CloseLink
  <1>9. CASE ForwardOutput
    BY <1>9, AppendAt DEF ForwardOutput, Messages
  <1>10. CASE ReadReply
    <2>1. wire' \in Seq(Packets)
      BY <1>10, TailAt DEF ReadReply
    <2>2. pending' \subseteq Ids /\ result' \in [Ids -> Results]
      BY <1>10 DEF ReadReply, Results
    <2>3. QED
      BY <1>10, <2>1, <2>2 DEF ReadReply
  <1>11. CASE ReadEvent \/ ReadOther
    <2>1. wire' \in Seq(Packets)
      BY <1>11, TailAt DEF ReadEvent, ReadOther
    <2>2. CASE ReadEvent
      BY <2>1, <2>2 DEF ReadEvent
    <2>3. CASE ReadOther
      BY <2>1, <2>3 DEF ReadOther
    <2>4. QED
      BY <1>11, <2>2, <2>3
  <1>12. CASE PutEvent \/ ReadFails
    <2>1. events' \in 0 .. EventCap /\ reader' \in {"read", "send", "break", "gone"}
      BY <1>12 DEF PutEvent, ReadFails
    <2>2. QED
      BY <1>12, <2>1 DEF PutEvent, ReadFails
  <1>13. CASE Teardown
    BY <1>13 DEF Teardown, Results
  <1>14. CASE PumpRecv
    BY <1>14 DEF PumpRecv
  <1>15. CASE PumpSend
    BY <1>15, AppendAt DEF PumpSend, Messages
  <1>16. CASE Take
    BY <1>16, TailAt DEF Take
  <1>17. CASE UNCHANGED vars
    BY <1>17 DEF vars
  <1>18. QED
    BY <1>1, <1>2, <1>3, <1>4, <1>5, <1>6, <1>7, <1>8, <1>9, <1>10, <1>11, <1>12, <1>13, <1>14,
       <1>15, <1>16, <1>17 DEF Next, ReadStep, PumpStep

-----------------------------------------------------------------------------
(***************************************************************************)
(* The pending map                                                         *)
(***************************************************************************)
\* Registering enters the map or is refused by the teardown; whoever removes
\* an entry leaves a result in its place.
LEMMA MapStep == TypeOK /\ MapInv /\ [Next]_vars => MapInv'
  <1> SUFFICES ASSUME TypeOK, MapInv, [Next]_vars PROVE MapInv'
    OBVIOUS
  <1> USE CapAssumption DEF TypeOK, MapInv, Waits, Current, Ids, session
  <1>1. CASE Register
    <2>1. next_id \in Ids /\ next_id' = next_id + 1 /\ Current' = next_id /\ result[next_id] = "none"
      BY <1>1 DEF Register
    <2>2. map' = map /\ reader' = reader
      BY <1>1 DEF Register
    <2>3. CASE map = "open"
      <3>1. pending' = pending \cup {next_id} /\ result' = result
        BY <1>1, <2>3 DEF Register
      <3>2. QED
        BY <2>1, <2>2, <2>3, <3>1
    <2>4. CASE map = "taken"
      <3>1. pending' = {} /\ pending = {} /\ call' = "idle"
        BY <1>1, <2>4 DEF Register
      <3>2. result' = [result EXCEPT ![next_id] = "closed"]
        BY <1>1, <2>4 DEF Register
      <3>3. \A i \in Ids : i >= next_id + 1 => result'[i] = "none"
        BY <2>1, <3>2
      <3>4. QED
        BY <2>1, <2>2, <2>4, <3>1, <3>3
    <2>5. QED
      BY <2>3, <2>4
  <1>2. CASE Write
    BY <1>2 DEF Write
  <1>3. CASE WriteFails
    BY <1>3 DEF WriteFails
  <1>4. CASE Return \/ GiveUp
    BY <1>4 DEF Return, GiveUp
  <1>5. CASE ReadReply
    <2>1. UNCHANGED <<next_id, map, call, reader>>
      BY <1>5 DEF ReadReply
    <2>2. CASE Head(wire).id \in pending
      <3>1. /\ pending' = pending \ {Head(wire).id} /\ result'[Head(wire).id] # "none"
            /\ \A j \in Ids : j # Head(wire).id => result'[j] = result[j]
        BY <1>5, <2>2 DEF ReadReply
      <3>2. Waits => Current \in Ids
        OBVIOUS
      <3>3. map # "taken" /\ Head(wire).id < next_id
        BY <2>2
      <3>4. \A j \in pending' : j < next_id' /\ result'[j] = "none"
        BY <2>1, <3>1
      <3>5. \A j \in Ids : j >= next_id' => result'[j] = "none"
        BY <2>1, <3>1, <3>3
      <3>6. (Waits /\ result[Current] = "none" => Current \in pending)'
        BY <2>1, <3>1, <3>2
      <3>7. QED
        BY <2>1, <3>3, <3>4, <3>5, <3>6
    <2>3. CASE Head(wire).id \notin pending
      <3>1. UNCHANGED <<pending, result>>
        BY <1>5, <2>3 DEF ReadReply
      <3>2. QED
        BY <2>1, <3>1
    <2>4. QED
      BY <2>2, <2>3
  <1>6. CASE ReadEvent \/ PutEvent \/ ReadFails
    BY <1>6 DEF ReadEvent, PutEvent, ReadFails
  <1>7. CASE Teardown
    BY <1>7 DEF Teardown
  <1>8. CASE UNCHANGED <<session, reader>>
    BY <1>8
  <1>9. Answers \/ SendEvent \/ (\E k \in {"other", "bad"} : SendOther(k)) \/ CloseLink \/ ForwardOutput
        \/ ReadOther \/ PumpStep \/ Take \/ UNCHANGED vars => UNCHANGED <<session, reader>>
    BY DEF Answers, Answer, SendEvent, SendOther, CloseLink, ForwardOutput, ReadOther, PumpStep, PumpRecv,
           PumpSend, Take, vars
  <1>10. QED
    BY <1>1, <1>2, <1>3, <1>4, <1>5, <1>6, <1>7, <1>8, <1>9 DEF Next, ReadStep

-----------------------------------------------------------------------------
(***************************************************************************)
(* The wire                                                                *)
(***************************************************************************)
\* A command is asked once, answered once, and its answer is read once.
LEMMA WireStep == TypeOK /\ MapInv /\ WireInv /\ [Next]_vars => WireInv'
  <1> SUFFICES ASSUME TypeOK, MapInv, WireInv, [Next]_vars PROVE WireInv'
    OBVIOUS
  <1> USE CapAssumption DEF TypeOK, WireInv, Current, Ids, session, debuggee
  <1> wire \in Seq(Packets) /\ Len(wire) \in Nat
    OBVIOUS
  <1>0. \A p \in Packets : p.id \in Nat
    BY DEF Packets
  <1>1. CASE Register
    BY <1>0, <1>1 DEF Register, MapInv
  <1>2. CASE Write
    BY <1>2 DEF Write, MapInv, Waits
  <1>3. CASE WriteFails
    BY <1>3 DEF WriteFails, MapInv, Waits
  <1>4. CASE Return \/ GiveUp
    <2>1. call' = "idle" /\ UNCHANGED <<next_id, result, asked, wire>>
      BY <1>4 DEF Return, GiveUp
    <2>2. QED
      BY <2>1
  <1>5. CASE Answers
    <2>1. PICK i \in Ids, k \in {"reply", "error"} : Answer(i, k)
      BY <1>5 DEF Answers
    <2>2. /\ Len(wire') = Len(wire) + 1 /\ wire'[Len(wire) + 1].id = i
          /\ \A n \in 1 .. Len(wire) : wire'[n] = wire[n]
      BY <2>1, AppendAt, PacketsSent DEF Answer
    <2>3. QED
      BY <2>1, <2>2 DEF Answer
  <1>6. CASE SendEvent \/ \E k \in {"other", "bad"} : SendOther(k)
    <2>1. PICK p \in Packets : p.id = 0 /\ wire' = Append(wire, p)
      BY <1>6, PacketsSent DEF SendEvent, SendOther
    <2>2. /\ Len(wire') = Len(wire) + 1 /\ wire'[Len(wire) + 1].id = 0
          /\ \A n \in 1 .. Len(wire) : wire'[n] = wire[n]
      BY <2>1, AppendAt
    <2>3. UNCHANGED <<next_id, call, result, asked>>
      BY <1>6 DEF SendEvent, SendOther
    <2>4. 0 \notin asked /\ 0 < next_id /\ (call = "registered" => Current # 0)
      BY DEF MapInv, Waits
    <2>5. \A n \in 1 .. Len(wire') : n \in 1 .. Len(wire) \/ wire'[n].id = 0
      BY <2>2
    <2>6. \A j, n \in 1 .. Len(wire') : wire'[j].id = wire'[n].id /\ wire'[j].id # 0 => j = n
      BY <2>2, <2>5
    <2>7. \A n \in 1 .. Len(wire') : wire'[n].id < next_id' /\ wire'[n].id \notin asked'
      BY <2>2, <2>3, <2>4, <2>5
    <2>8. call' = "registered" => \A n \in 1 .. Len(wire') : wire'[n].id # Current'
      BY <2>2, <2>3, <2>4, <2>5
    <2>9. \A i \in Ids : result'[i] \in {"reply", "code"} => \A n \in 1 .. Len(wire') : wire'[n].id # i
      BY <2>2, <2>3, <2>5
    <2>10. QED
      BY <2>3, <2>6, <2>7, <2>8, <2>9
  <1>7. CASE CloseLink
    <2>1. PICK n \in 0 .. Len(wire) : wire' = SubSeq(wire, 1, n)
      BY <1>7 DEF CloseLink
    <2>2. Len(wire') = n /\ \A k \in 1 .. n : wire'[k] = wire[k]
      BY <2>1, PrefixAt
    <2>3. QED
      BY <1>7, <2>2 DEF CloseLink
  <1>8. CASE ReadReply \/ ReadEvent \/ ReadOther
    <2>1. wire # <<>> /\ wire' = Tail(wire) /\ UNCHANGED <<next_id, call, asked>>
      BY <1>8 DEF ReadReply, ReadEvent, ReadOther
    <2>2. /\ Len(wire) \in Nat \ {0} /\ Len(wire') = Len(wire) - 1
          /\ Head(wire) = wire[1] /\ Head(wire) \in Packets
          /\ \A k \in 1 .. Len(wire) - 1 : wire'[k] = wire[k + 1]
      BY <2>1, TailAt
    <2>3. \A j, k \in 1 .. Len(wire') : wire'[j].id = wire'[k].id /\ wire'[j].id # 0 => j = k
      <3>1. SUFFICES ASSUME NEW j \in 1 .. Len(wire'), NEW k \in 1 .. Len(wire'),
                            wire'[j].id = wire'[k].id, wire'[j].id # 0
                     PROVE  j = k
        OBVIOUS
      <3>2. j + 1 \in 1 .. Len(wire) /\ k + 1 \in 1 .. Len(wire) /\ wire'[j] = wire[j + 1] /\ wire'[k] = wire[k + 1]
        BY <2>2
      <3>3. j + 1 = k + 1
        BY <3>1, <3>2
      <3>4. QED
        BY <2>2, <3>3
    <2>4. CASE ReadEvent \/ ReadOther
      <3>1. UNCHANGED result
        BY <2>4 DEF ReadEvent, ReadOther
      <3>2. QED
        BY <2>1, <2>2, <2>3, <3>1
    <2>5. CASE ReadReply
      <3>1. Head(wire).id \in Ids
        BY <2>2, <2>5 DEF ReadReply, Packets
      <3>2. \A k \in 1 .. Len(wire') : wire'[k].id # Head(wire).id
        <4>1. SUFFICES ASSUME NEW k \in 1 .. Len(wire') PROVE wire'[k].id # Head(wire).id
          OBVIOUS
        <4>2. k + 1 \in 1 .. Len(wire) /\ 1 \in 1 .. Len(wire) /\ wire'[k] = wire[k + 1] /\ k + 1 # 1
          BY <2>2
        <4>3. QED
          BY <2>2, <3>1, <4>2
      <3>3. Head(wire).id \notin asked
        BY <2>2
      <3>4. \A i \in Ids : i # Head(wire).id => result'[i] = result[i]
        BY <2>5 DEF ReadReply
      <3>5. call = "registered" => Head(wire).id # Current
        BY <2>2
      <3>6. call = "registered" => Current \in Ids
        BY DEF MapInv, Waits
      <3>7. QED
        BY <2>1, <2>2, <3>2, <3>3, <3>4, <3>5, <3>6
    <2>6. QED
      BY <1>8, <2>4, <2>5
  <1>9. CASE Teardown
    <2>1. UNCHANGED <<next_id, call, asked, wire>>
      BY <1>9 DEF Teardown
    <2>2. \A i \in Ids : result'[i] \in {"reply", "code"} => result[i] = result'[i]
      BY <1>9 DEF Teardown
    <2>3. call = "registered" => Current \in Ids
      BY DEF MapInv, Waits
    <2>4. QED
      BY <2>1, <2>2, <2>3
  <1>10. CASE UNCHANGED <<session, asked, wire>>
    BY <1>10
  <1>11. ForwardOutput \/ PutEvent \/ ReadFails \/ PumpStep \/ Take \/ UNCHANGED vars
           => UNCHANGED <<session, asked, wire>>
    BY DEF ForwardOutput, PutEvent, ReadFails, PumpStep, PumpRecv, PumpSend, Take, vars
  <1>12. QED
    BY <1>1, <1>2, <1>3, <1>4, <1>5, <1>6, <1>7, <1>8, <1>9, <1>10, <1>11 DEF Next, ReadStep

-----------------------------------------------------------------------------
(***************************************************************************)
(* The pump                                                                *)
(***************************************************************************)
\* The pump ends only at an empty channel without a reader, and sends nothing
\* after the end.
LEMMA PumpsStep == TypeOK /\ PumpInv /\ [Next]_vars => PumpInv'
  <1> SUFFICES ASSUME TypeOK, PumpInv, [Next]_vars PROVE PumpInv'
    OBVIOUS
  <1> USE CapAssumption DEF TypeOK, PumpInv, session, debuggee
  <1>1. CASE ForwardOutput
    <2>1. /\ Len(inbox') = Len(inbox) + 1 /\ inbox'[Len(inbox) + 1] = "output"
          /\ \A k \in 1 .. Len(inbox) : inbox'[k] = inbox[k]
      BY <1>1, AppendAt DEF ForwardOutput, Messages
    <2>2. QED
      BY <1>1, <2>1 DEF ForwardOutput
  <1>2. CASE ReadEvent \/ PutEvent \/ ReadFails \/ Teardown
    BY <1>2 DEF ReadEvent, PutEvent, ReadFails, Teardown
  <1>3. CASE PumpRecv
    BY <1>3 DEF PumpRecv
  <1>4. CASE PumpSend
    <2>1. /\ Len(inbox') = Len(inbox) + 1
          /\ inbox'[Len(inbox) + 1] = IF pump = "send" THEN "event" ELSE "closed"
          /\ \A k \in 1 .. Len(inbox) : inbox'[k] = inbox[k] /\ inbox[k] # "closed"
      BY <1>4, AppendAt DEF PumpSend, Messages
    <2>2. QED
      BY <1>4, <2>1 DEF PumpSend
  <1>5. CASE Take
    <2>1. Len(inbox') = Len(inbox) - 1 /\ \A k \in 1 .. Len(inbox) - 1 : inbox'[k] = inbox[k + 1]
      BY <1>5, TailAt DEF Take
    <2>2. QED
      BY <1>5, <2>1 DEF Take
  <1>6. CASE UNCHANGED <<reader, events, pump, inbox>>
    BY <1>6
  <1>7. Register \/ Write \/ WriteFails \/ Return \/ GiveUp \/ Answers \/ SendEvent
        \/ (\E k \in {"other", "bad"} : SendOther(k)) \/ CloseLink \/ ReadReply \/ ReadOther \/ UNCHANGED vars
           => UNCHANGED <<reader, events, pump, inbox>>
    BY DEF Register, Write, WriteFails, Return, GiveUp, Answers, Answer, SendEvent, SendOther, CloseLink,
           ReadReply, ReadOther, vars
  <1>8. QED
    BY <1>1, <1>2, <1>3, <1>4, <1>5, <1>6, <1>7 DEF Next, ReadStep, PumpStep

-----------------------------------------------------------------------------
(***************************************************************************)
(* Theorems                                                                *)
(***************************************************************************)
\* The inductive invariant holds of the connection.
LEMMA Inductive == Spec => []IInv
  <1>1. Init => IInv
    BY CapAssumption DEF Init, IInv, TypeOK, MapInv, WireInv, PumpInv, Waits, Current, Ids, Results, Packets, Messages
  <1>2. IInv /\ [Next]_vars => IInv'
    BY TypeStep, MapStep, WireStep, PumpsStep DEF IInv
  <1>3. QED
    BY <1>1, <1>2, PTL DEF Spec

\* Type correctness for any number of commands and any capacities: neither
\* channel exceeds its bound (connect, start_vm).
THEOREM Typing == Spec => []TypeOK
  <1>1. IInv => TypeOK
    BY DEF IInv
  <1>2. QED
    BY <1>1, Inductive, PTL

\* However teardown, registration and replies interleave, a call without a
\* result is in the map of a reader that has yet to tear down (command,
\* reader_task).
THEOREM WaitersRemembered == Spec => []NoForgottenWaiter
  <1>1. IInv => NoForgottenWaiter
    BY CapAssumption DEF IInv, TypeOK, MapInv, Waits, Current, Ids, NoForgottenWaiter
  <1>2. QED
    BY <1>1, Inductive, PTL

\* A command returns only the debuggee's reply to itself, and that reply is
\* then nowhere else (reader_task).
THEOREM RepliesReachTheirCommand == Spec => []RepliesMatch
  <1>1. IInv => RepliesMatch
    BY DEF IInv, TypeOK, MapInv, WireInv, RepliesMatch
  <1>2. QED
    BY <1>1, Inductive, PTL

\* No entry of the map is of a command that has its result (command).
THEOREM NoStaleEntries == Spec => []EntriesAreWaiters
  <1>1. IInv => EntriesAreWaiters
    BY DEF IInv, MapInv, EntriesAreWaiters
  <1>2. QED
    BY <1>1, Inductive, PTL

\* JdwpClosed is the last message of the pump, and no event is left behind
\* when it is sent (start_vm).
THEOREM ClosedIsLast == Spec => []ClosedComesLast
  <1>1. IInv => ClosedComesLast
    BY DEF IInv, TypeOK, PumpInv, ClosedComesLast
  <1>2. QED
    BY <1>1, Inductive, PTL

\* The pending map holds the commands that wait and no other, whatever the
\* order of registration, replies and teardown (command, reader_task).
THEOREM PendingExact == Spec => []PendingIsExact
  <1>1. NoForgottenWaiter /\ EntriesAreWaiters => PendingIsExact
    BY DEF PendingIsExact
  <1>2. QED
    BY <1>1, WaitersRemembered, NoStaleEntries, PTL

\* A result is given once.  The reader gives results to entries of the map
\* only, which have none, and a new id has none either; what is left is the
\* write of the call itself (command, reader_task).
THEOREM ResultsStay == Spec => ResultsAreFinal
  <1> DEFINE Final == \A i \in Ids : result[i] # "none" /\ ~(call = "registered" /\ i = Current) =>
                        result'[i] = result[i]
  <1>1. TypeOK /\ MapInv /\ [Next]_vars => [Final]_vars
    <2> SUFFICES ASSUME TypeOK, MapInv, Next PROVE Final
      OBVIOUS
    <2>1. CASE Register
      <3>1. next_id \in Ids /\ next_id >= next_id
        BY <2>1, CapAssumption DEF Register, TypeOK, Ids
      <3>2. result[next_id] = "none"
        BY <3>1 DEF MapInv
      <3>3. result' = result \/ result' = [result EXCEPT ![next_id] = "closed"]
        BY <2>1 DEF Register
      <3>4. QED
        BY <3>1, <3>2, <3>3 DEF TypeOK
    <2>2. CASE WriteFails
      BY <2>2 DEF WriteFails, TypeOK
    <2>3. CASE ReadReply
      BY <2>3 DEF ReadReply, TypeOK, MapInv
    <2>4. CASE Teardown
      BY <2>4 DEF Teardown, MapInv
    <2>5. CASE UNCHANGED result
      BY <2>5
    <2>6. Register \/ WriteFails \/ ReadReply \/ Teardown \/ UNCHANGED result
      BY DEF Next, ReadStep, PumpStep, Answers, Write, Return, GiveUp, Answer, SendEvent, SendOther, CloseLink,
             ForwardOutput, ReadEvent, PutEvent, ReadOther, ReadFails, PumpRecv, PumpSend, Take, session
    <2>7. QED
      BY <2>1, <2>2, <2>3, <2>4, <2>5, <2>6
  <1>2. IInv => TypeOK /\ MapInv
    BY DEF IInv
  <1>3. QED
    BY <1>1, <1>2, Inductive, PTL DEF Spec, ResultsAreFinal

=============================================================================
