-------------------------- MODULE DebugAdapter_proofs --------------------------
(***************************************************************************)
(* That the session and the debuggee agree on breakpoints, steps, stops    *)
(* and the classes that are loaded, for any file, any lines and any number *)
(* of classes and requests; that an exception on record is of the stop the *)
(* client was told of; and, for any capacity of the inbox, that the        *)
(* adapter leaves nothing behind.  There the task that owns the child is   *)
(* the witness: it exists for every launched child, reports only a dead    *)
(* one, and until then the kill channel is held, or has fired, and fires   *)
(* in cleanup at the latest.                                               *)
(***************************************************************************)
EXTENDS DebugSession, DebugTermination, FiniteSetTheorems, WellFoundedInduction, TLAPS

\* Steps that name no prover are left to Zenon.
USE ZenonT(60)

\* A line is absent, unverified, or holds a request made for itself.
OwnRequest(b) ==
    \A l \in Lines : b[l] \in {Absent, Unverified} \/ (b[l].kind = "break" /\ b[l].who = l)

LineRequests(rs) == {r \in rs : r.kind = "break" /\ r.who \in Lines}

\* At every step, not only between requests, what is bound is armed.
ArmedInv == OwnRequest(bps) /\ LineRequests(reqs) = Armed(bps)

-----------------------------------------------------------------------------
(***************************************************************************)
(* Binding                                                                 *)
(***************************************************************************)
\* A request made for a line is neither of the two markers.
LEMMA BreakIsBreak ==
    \A w, c, l : /\ Break(w, c, l) \notin {Absent, Unverified}
                 /\ Break(w, c, l).kind = "break" /\ Break(w, c, l).who = w
  BY DEF Break, Absent, Unverified

\* Lines that hold a request keep it.
LEMMA BoundGrows ==
    ASSUME NEW b, NEW c, OwnRequest(b)
    PROVE  OwnRequest(Bound(b, c)) /\ Armed(b) \subseteq Armed(Bound(b, c))
  <1>1. \A l \in Lines : \/ Bound(b, c)[l] = b[l]
                         \/ b[l] = Unverified /\ \E x : Bound(b, c)[l] = Break(l, c, x)
    BY DEF Bound
  <1>2. OwnRequest(Bound(b, c))
    BY <1>1, BreakIsBreak, SMTT(60), Z3T(60) DEF OwnRequest
  <1>3. \A l \in Lines : b[l] \notin {Absent, Unverified} => Bound(b, c)[l] = b[l]
    BY <1>1
  <1>4. QED
    BY <1>2, <1>3 DEF Armed

\* What is armed is a request for a line of its own.
LEMMA ArmedAreBreaks ==
    ASSUME NEW b, OwnRequest(b)
    PROVE  LineRequests(Armed(b)) = Armed(b)
  BY DEF OwnRequest, LineRequests, Armed

\* Binding arms what it binds, and nothing else for a line.
LEMMA BindingArms ==
    ASSUME NEW b, NEW b2, NEW rs, NEW more,
           OwnRequest(b), OwnRequest(b2), Armed(b) \subseteq Armed(b2),
           LineRequests(rs) = Armed(b), LineRequests(more) = {}
    PROVE  LineRequests(rs \cup more \cup (Armed(b2) \ Armed(b))) = Armed(b2)
  <1>1. LineRequests(Armed(b2)) = Armed(b2)
    BY ArmedAreBreaks
  <1>2. QED
    BY <1>1 DEF LineRequests

\* The other requests of the session are not for a line; the entry breakpoint
\* is of no requested line.
LEMMA OtherRequests ==
    /\ \A w : Prepare(w).kind # "break"
    /\ \A n : Step(n).kind # "break"
    /\ Exception.kind # "break"
    /\ \A c : LineRequests(EntryBreaks(c)) = {}
  <1>1. EntryLine \notin Lines
    BY LinesAssumption, SMTT(60), Z3T(60) DEF EntryLine
  <1>2. \A c : LineRequests(EntryBreaks(c)) = {}
    BY <1>1, BreakIsBreak, SMTT(60), Z3T(60) DEF EntryBreaks, LineRequests
  <1>3. QED
    BY <1>2 DEF Prepare, Step, Exception

-----------------------------------------------------------------------------
(***************************************************************************)
(* The steps that touch breakpoints                                        *)
(***************************************************************************)
\* MergeLines drops a line and its request together.
LEMMA MergeKeeps == ArmedInv /\ MergeLines => ArmedInv'
  <1> SUFFICES ASSUME ArmedInv, MergeLines PROVE ArmedInv'
    OBVIOUS
  <1>1. \A l \in Lines : \/ l \notin busy.want /\ bps'[l] = Absent
                         \/ l \in busy.want /\ bps[l] = Absent /\ bps'[l] = Unverified
                         \/ l \in busy.want /\ bps'[l] = bps[l]
    BY DEF MergeLines
  <1>2. OwnRequest(bps')
    BY <1>1 DEF ArmedInv, OwnRequest
  <1>3. reqs' = reqs \ {bps[l] : l \in Lines \ busy.want}
    BY DEF MergeLines
  <1>4. ASSUME NEW r \in LineRequests(reqs') PROVE r \in Armed(bps')
    <2>1. r \in Armed(bps) /\ r \notin {bps[l] : l \in Lines \ busy.want}
      BY <1>3, <1>4 DEF ArmedInv, LineRequests
    <2>2. PICK l \in Lines : bps[l] = r /\ r \notin {Absent, Unverified}
      BY <2>1 DEF Armed
    <2>3. bps'[l] = r
      BY <1>1, <2>1, <2>2
    <2>4. QED
      BY <2>2, <2>3 DEF Armed
  <1>5. ASSUME NEW r \in Armed(bps') PROVE r \in LineRequests(reqs')
    <2>1. PICK l \in Lines : bps'[l] = r /\ r \notin {Absent, Unverified}
      BY <1>5 DEF Armed
    <2>2. l \in busy.want /\ bps[l] = r
      BY <1>1, <2>1
    <2>3. r \in LineRequests(reqs) /\ r.who = l
      BY <2>1, <2>2 DEF ArmedInv, Armed, OwnRequest
    <2>4. r \notin {bps[k] : k \in Lines \ busy.want}
      <3>1. ASSUME NEW k \in Lines \ busy.want, r = bps[k] PROVE FALSE
        BY <2>1, <2>2, <2>3, <3>1 DEF ArmedInv, OwnRequest
      <3>2. QED
        BY <3>1
    <2>5. QED
      BY <1>3, <2>3, <2>4 DEF LineRequests
  <1>6. QED
    BY <1>2, <1>4, <1>5 DEF ArmedInv

\* BindLoaded binds and arms the lines of one loaded class.
LEMMA BindKeeps == ASSUME NEW c, ArmedInv, BindLoaded(c) PROVE ArmedInv'
  <1>1. bps' = Bound(bps, c) /\ reqs' = reqs \cup {} \cup (Armed(bps') \ Armed(bps))
    BY DEF BindLoaded
  <1>2. OwnRequest(bps') /\ Armed(bps) \subseteq Armed(bps')
    BY <1>1, BoundGrows DEF ArmedInv
  <1>3. LineRequests({}) = {}
    BY DEF LineRequests
  <1>4. LineRequests(reqs \cup {} \cup (Armed(bps') \ Armed(bps))) = Armed(bps')
    BY <1>2, <1>3, BindingArms, SMTT(60), Z3T(60) DEF ArmedInv
  <1>5. QED
    BY <1>1, <1>2, <1>4 DEF ArmedInv

\* A prepared class binds the lines of the file and may arm the entry.
LEMMA HandleKeeps == ArmedInv /\ HandleSet => ArmedInv'
  <1> SUFFICES ASSUME ArmedInv, HandleSet PROVE ArmedInv'
    OBVIOUS
  <1> DEFINE evs == {Head(queue)[i] : i \in DOMAIN Head(queue)}
             prepared(who) == {v.cls : v \in {x \in evs : x.e = "prepare" /\ x.who = who}}
             P == prepared("entry")
             Q == prepared("file")
             kept == IF P = {} THEN reqs ELSE reqs \ {Prepare("entry")}
             arm == UNION {EntryBreaks(c) : c \in P}
  <1>1. /\ bps' = IF Q = {} THEN bps ELSE Bound(bps, CHOOSE c \in Q : TRUE)
        /\ reqs' = kept \cup arm \cup (Armed(bps') \ Armed(bps))
    BY DEF HandleSet
  <1> HIDE DEF P, Q
  <1>2. OwnRequest(bps') /\ Armed(bps) \subseteq Armed(bps')
    BY <1>1, BoundGrows DEF ArmedInv
  <1>3. LineRequests(arm) = {}
    BY OtherRequests DEF LineRequests
  <1>4. LineRequests(kept) = Armed(bps)
    BY OtherRequests DEF ArmedInv, LineRequests
  <1> HIDE DEF kept, arm
  <1>5. LineRequests(kept \cup arm \cup (Armed(bps') \ Armed(bps))) = Armed(bps')
    BY <1>2, <1>3, <1>4, BindingArms, SMTT(60), Z3T(60) DEF ArmedInv
  <1>6. QED
    BY <1>1, <1>2, <1>5 DEF ArmedInv

\* The other requests the session makes and clears, and the ones that expire
\* in the debuggee, are not for a line.
LEMMA OthersKeep ==
    ASSUME ArmedInv, bps' = bps,
           \A r : r \in reqs' \cup reqs /\ (r \notin reqs \/ r \notin reqs') =>
                    r.kind # "break" \/ r.who = EntryLine
    PROVE  ArmedInv'
  <1>1. EntryLine \notin Lines
    BY LinesAssumption, SMTT(60), Z3T(60) DEF EntryLine
  <1>2. LineRequests(reqs') = LineRequests(reqs)
    BY <1>1 DEF LineRequests
  <1>3. QED
    BY <1>2 DEF ArmedInv

-----------------------------------------------------------------------------
\* Every step keeps the session's breakpoints and the debuggee's the same.
LEMMA ArmedStep == ArmedInv /\ [Next]_vars => ArmedInv'
  <1> SUFFICES ASSUME ArmedInv, [Next]_vars PROVE ArmedInv'
    OBVIOUS
  <1> USE OthersKeep, OtherRequests DEF control, breaks, stops, debuggee
  <1>1. ASSUME NEW s \in BOOLEAN, Launch(s) PROVE ArmedInv'
    BY <1>1 DEF Launch
  <1>2. ASSUME NEW h \in BOOLEAN, NEW cs \in SUBSET Classes, Attach(h, cs) PROVE ArmedInv'
    BY <1>2 DEF Attach
  <1>3. CASE ConfigurationDone
    BY <1>3 DEF ConfigurationDone
  <1>4. ASSUME NEW want \in SUBSET Lines, SetBreakpoints(want) PROVE ArmedInv'
    BY <1>4 DEF SetBreakpoints
  <1>5. CASE AllClasses \/ SetBreakpointsDone
    BY <1>5 DEF AllClasses, SetBreakpointsDone
  <1>6. ASSUME NEW on \in BOOLEAN, SetExceptionBreakpoints(on) PROVE ArmedInv'
    BY <1>6 DEF SetExceptionBreakpoints
  <1>7. CASE Continue \/ Pause \/ Inspect
    BY <1>7 DEF Continue, Pause, Inspect
  <1>8. ASSUME NEW n \in 1 .. MaxSteps, StepRequest(n) \/ StepCompletes(n) PROVE ArmedInv'
    BY <1>8 DEF StepRequest, StepCompletes
  <1>9. ASSUME NEW c \in Classes, LoadClass(c) PROVE ArmedInv'
    BY <1>9 DEF LoadClass
  <1>10. ASSUME NEW c \in Classes, NEW l \in CodeLines[c], ReachLine(c, l) PROVE ArmedInv'
    BY <1>10 DEF ReachLine
  <1>11. CASE Throw
    BY <1>11 DEF Throw
  <1>12. CASE UNCHANGED vars
    BY <1>12 DEF vars
  <1>13. QED
    BY <1>1, <1>2, <1>3, <1>4, <1>5, <1>6, <1>7, <1>8, <1>9, <1>10, <1>11, <1>12,
       MergeKeeps, BindKeeps, HandleKeeps DEF Next

\* The breakpoints of the debuggee are the ones the session believes in.
LEMMA BreakpointsAgree == Spec => []ArmedInv
  <1>1. Init => ArmedInv
    BY DEF Init, ArmedInv, OwnRequest, LineRequests, Armed
  <1>2. QED
    BY <1>1, ArmedStep, PTL DEF Spec

-----------------------------------------------------------------------------
(***************************************************************************)
(* Steps: a request, then one report, then neither                         *)
(***************************************************************************)
Reported(i, n) == queue[i][1].e = "step" /\ queue[i][1].n = n

\* A step is reported alone, once, and after its request has expired.
StepInv ==
    /\ \E S : queue \in Seq(S)
    /\ phase = "new" => queue = <<>>
    /\ \A i \in 1 .. Len(queue) : 1 \in DOMAIN queue[i]
                                  /\ \A k \in DOMAIN queue[i] : queue[i][k].e = "step" => k = 1
    /\ \A n \in 1 .. MaxSteps, i \in 1 .. Len(queue) :
         Reported(i, n) => Step(n) \notin reqs /\ \A j \in 1 .. Len(queue) : Reported(j, n) => i = j
    /\ step_requests = {n \in 1 .. MaxSteps : Step(n) \in reqs \/ \E i \in 1 .. Len(queue) : Reported(i, n)}

\* Indices and counters.
LEMMA OneMoreIndex ==
    ASSUME NEW m \in Nat, NEW n, n = m + 1
    PROVE  1 .. m \subseteq 1 .. n /\ m + 1 \in 1 .. n
  BY SMTT(60), Z3T(60)

LEMMA CountOfIndices ==
    ASSUME NEW n \in Nat
    PROVE  Cardinality(1 .. n) = n
  <1>1. 1 \in Int /\ n \in Int
    BY SMTT(60), Z3T(60)
  <1>2. Cardinality(1 .. n) = IF 1 > n THEN 0 ELSE n - 1 + 1
    BY <1>1, FS_Interval
  <1>3. QED
    BY <1>2, SMTT(60), Z3T(60)

LEMMA SetsAreCounted ==
    ASSUME sets \in 0 .. MaxSets
    PROVE  sets \in Nat /\ (sets # 0 => sets > 0)
  BY BoundAssumption, SMTT(60), Z3T(60)

\* A queue with one more event set.
LEMMA Queued ==
    ASSUME NEW s, NEW S, s \in Seq(S), NEW e
    PROVE  /\ Append(s, e) \in Seq(S \cup {e}) /\ Len(Append(s, e)) = Len(s) + 1 /\ Len(s) \in Nat
           /\ \A k \in 1 .. Len(s) : Append(s, e)[k] = s[k]
           /\ Append(s, e)[Len(s) + 1] = e
  <1>1. s \in Seq(S \cup {e})
    BY SMTT(60), Z3T(60)
  <1>2. QED
    BY <1>1, SMTT(60), Z3T(60)

\* What is left when the first event set is taken.
LEMMA Dequeued ==
    ASSUME NEW s, NEW S, s \in Seq(S), s # <<>>
    PROVE  /\ Tail(s) \in Seq(S) /\ Len(Tail(s)) = Len(s) - 1 /\ Len(s) \in Nat \ {0}
           /\ \A k \in 1 .. Len(s) - 1 : Tail(s)[k] = s[k + 1]
           /\ Head(s) = s[1]
  BY SMTT(60), Z3T(60)

\* A report of anything but a step, and other requests, leave the steps alone.
LEMMA StepsAside ==
    ASSUME StepInv, step_requests' = step_requests, phase' = "new" => phase = "new" /\ queue' = queue,
           \A n \in 1 .. MaxSteps : Step(n) \in reqs' <=> Step(n) \in reqs,
           \/ queue' = queue
           \/ \E evs : queue' = Append(queue, evs) /\ 1 \in DOMAIN evs /\ \A k \in DOMAIN evs : evs[k].e # "step"
    PROVE  StepInv'
  <1>1. CASE queue' = queue
    BY <1>1, SMTT(60), Z3T(60) DEF StepInv, Reported
  <1>2. ASSUME NEW evs, queue' = Append(queue, evs), 1 \in DOMAIN evs, \A k \in DOMAIN evs : evs[k].e # "step"
        PROVE  StepInv'
    <2>1. PICK S : queue \in Seq(S)
      BY DEF StepInv
    <2>2. /\ queue' \in Seq(S \cup {evs}) /\ Len(queue') = Len(queue) + 1 /\ Len(queue) \in Nat
          /\ \A k \in 1 .. Len(queue) : queue'[k] = queue[k]
          /\ queue'[Len(queue) + 1] = evs
      BY <1>2, <2>1, Queued, SMTT(60), Z3T(60)
    <2>3. ASSUME NEW i \in 1 .. Len(queue'), NEW n, Reported(i, n)'
          PROVE  i \in 1 .. Len(queue) /\ Reported(i, n)
      BY <1>2, <2>2, <2>3, SMTT(60), Z3T(60) DEF Reported
    <2>4. \A i \in 1 .. Len(queue) : \A n : Reported(i, n)' <=> Reported(i, n)
      BY <2>2 DEF Reported
    <2>5. queue' # <<>>
      BY <2>2, SMTT(60), Z3T(60)
    <2>6. \A i \in 1 .. Len(queue') : 1 \in DOMAIN queue'[i]
                                      /\ \A k \in DOMAIN queue'[i] : queue'[i][k].e = "step" => k = 1
      BY <1>2, <2>2, SMTT(60), Z3T(60) DEF StepInv
    <2>7. \A n \in 1 .. MaxSteps : (\E i \in 1 .. Len(queue') : Reported(i, n)')
                                   <=> (\E i \in 1 .. Len(queue) : Reported(i, n))
      BY <2>2, <2>3, <2>4, SMTT(60), Z3T(60)
    <2>8. \A n \in 1 .. MaxSteps, i \in 1 .. Len(queue') :
            Reported(i, n)' => Step(n) \notin reqs' /\ \A j \in 1 .. Len(queue') : Reported(j, n)' => i = j
      BY <2>3 DEF StepInv
    <2>9. step_requests' = {n \in 1 .. MaxSteps : Step(n) \in reqs' \/ \E i \in 1 .. Len(queue') : Reported(i, n)'}
      BY <2>7 DEF StepInv
    <2>10. phase' # "new"
      BY <1>2, <2>1, <2>2, SMTT(60), Z3T(60)
    <2>11. QED
      BY <2>2, <2>6, <2>8, <2>9, <2>10 DEF StepInv
  <1>3. QED
    BY <1>1, <1>2

\* No other request is taken for that of a step.
LEMMA StepsAreDistinct ==
    /\ \A n, w : Step(n) # Prepare(w)
    /\ \A n : Step(n) # Exception
    /\ \A n, w, c, l : Step(n) # Break(w, c, l)
    /\ \A n, m : Step(n) = Step(m) => n = m
    /\ \A n : Step(n).kind = "step"
  BY DEF Step, Prepare, Exception, Break

\* The request of a step is made and recorded together.
LEMMA RequestKeepsSteps == ASSUME NEW n \in 1 .. MaxSteps, StepInv, StepRequest(n) PROVE StepInv'
  <1>1. /\ n \notin step_requests /\ reqs' = reqs \cup {Step(n)} /\ step_requests' = step_requests \cup {n}
        /\ queue' = queue /\ phase' = phase
    BY DEF StepRequest
  <1>2. \A m, i : Reported(i, m)' <=> Reported(i, m)
    BY <1>1 DEF Reported
  <1>3. \A i \in 1 .. Len(queue) : ~Reported(i, n)
    BY <1>1 DEF StepInv
  <1>4. \A m \in 1 .. MaxSteps : Step(m) \in reqs' <=> Step(m) \in reqs \/ m = n
    BY <1>1, StepsAreDistinct
  <1>5. \A m \in 1 .. MaxSteps, i \in 1 .. Len(queue) :
          Reported(i, m) => Step(m) \notin reqs' /\ \A j \in 1 .. Len(queue) : Reported(j, m) => i = j
    BY <1>3, <1>4, SMTT(60), Z3T(60) DEF StepInv
  <1>6. step_requests' = {m \in 1 .. MaxSteps : Step(m) \in reqs' \/ \E i \in 1 .. Len(queue) : Reported(i, m)}
    BY <1>1, <1>4 DEF StepInv
  <1>7. QED
    BY <1>1, <1>2, <1>5, <1>6 DEF StepInv

\* Its report takes the place of the request.
LEMMA ReportKeepsSteps == ASSUME NEW n \in 1 .. MaxSteps, StepInv, StepCompletes(n) PROVE StepInv'
  <1> DEFINE evs == <<[e |-> "step", n |-> n]>>
  <1>1. /\ Step(n) \in reqs /\ reqs' = reqs \ {Step(n)} /\ step_requests' = step_requests
        /\ queue' = Append(queue, evs) /\ phase' = phase /\ phase # "new"
    BY DEF StepCompletes, CanReport, Report, stops
  <1>2. DOMAIN evs = {1} /\ evs[1].e = "step" /\ evs[1].n = n
    BY SMTT(60), Z3T(60)
  <1> HIDE DEF evs
  <1>3. PICK S : queue \in Seq(S)
    BY DEF StepInv
  <1>4. /\ queue' \in Seq(S \cup {evs}) /\ Len(queue') = Len(queue) + 1 /\ Len(queue) \in Nat
        /\ \A k \in 1 .. Len(queue) : queue'[k] = queue[k]
        /\ queue'[Len(queue) + 1] = evs
    BY <1>1, <1>3, Queued, SMTT(60), Z3T(60)
  <1>5. \A i \in 1 .. Len(queue) : \A m : Reported(i, m)' <=> Reported(i, m)
    BY <1>4 DEF Reported
  <1>6. \A i, m : i = Len(queue) + 1 => (Reported(i, m)' <=> m = n)
    BY <1>2, <1>4 DEF Reported
  <1>7. \A i \in 1 .. Len(queue) : ~Reported(i, n)
    BY <1>1 DEF StepInv
  <1>8. \A m \in 1 .. MaxSteps : Step(m) \in reqs' <=> Step(m) \in reqs /\ m # n
    BY <1>1, StepsAreDistinct
  <1>9. \A i \in 1 .. Len(queue') : 1 \in DOMAIN queue'[i]
                                    /\ \A k \in DOMAIN queue'[i] : queue'[i][k].e = "step" => k = 1
    BY <1>2, <1>4, SMTT(60), Z3T(60) DEF StepInv
  <1>10. \A m \in 1 .. MaxSteps, i \in 1 .. Len(queue') :
           Reported(i, m)' => Step(m) \notin reqs' /\ \A j \in 1 .. Len(queue') : Reported(j, m)' => i = j
    <2>1. ASSUME NEW m \in 1 .. MaxSteps, NEW i \in 1 .. Len(queue'), NEW j \in 1 .. Len(queue'),
                 Reported(i, m)', Reported(j, m)'
          PROVE  i = j
      <3>1. CASE m = n
        BY <1>4, <1>5, <1>7, <2>1, <3>1, SMTT(60), Z3T(60)
      <3>2. CASE m # n
        <4>1. i \in 1 .. Len(queue) /\ j \in 1 .. Len(queue)
          BY <1>4, <1>6, <2>1, <3>2, SMTT(60), Z3T(60)
        <4>2. QED
          BY <1>5, <2>1, <4>1 DEF StepInv
      <3>3. QED
        BY <3>1, <3>2
    <2>2. ASSUME NEW m \in 1 .. MaxSteps, NEW i \in 1 .. Len(queue'), Reported(i, m)' PROVE Step(m) \notin reqs'
      <3>1. i \in 1 .. Len(queue) \/ m = n
        BY <1>4, <1>6, <2>2, SMTT(60), Z3T(60)
      <3>2. QED
        BY <1>5, <1>8, <2>2, <3>1 DEF StepInv
    <2>3. QED
      BY <2>1, <2>2
  <1>11. \A m \in 1 .. MaxSteps : (\E i \in 1 .. Len(queue') : Reported(i, m)')
                                  <=> m = n \/ \E i \in 1 .. Len(queue) : Reported(i, m)
    <2>1. ASSUME NEW m \in 1 .. MaxSteps, NEW i \in 1 .. Len(queue'), Reported(i, m)'
          PROVE  m = n \/ \E k \in 1 .. Len(queue) : Reported(k, m)
      BY <1>4, <1>5, <1>6, <2>1, SMTT(60), Z3T(60)
    <2>2. Len(queue) + 1 \in 1 .. Len(queue') /\ 1 .. Len(queue) \subseteq 1 .. Len(queue')
      BY <1>4, SMTT(60), Z3T(60)
    <2>3. QED
      BY <1>5, <1>6, <2>1, <2>2
  <1>12. step_requests' = {m \in 1 .. MaxSteps : Step(m) \in reqs' \/ \E i \in 1 .. Len(queue') : Reported(i, m)'}
    BY <1>1, <1>8, <1>11 DEF StepInv
  <1>13. QED
    BY <1>1, <1>4, <1>9, <1>10, <1>12 DEF StepInv

\* Handling the report ends the step.
LEMMA HandleKeepsSteps == ASSUME StepInv, ArmedInv, ArmedInv', HandleSet PROVE StepInv'
  <1> DEFINE evs == {Head(queue)[i] : i \in DOMAIN Head(queue)}
             stepped == {v.n : v \in {x \in evs : x.e = "step"}}
  <1>1. /\ queue # <<>> /\ queue' = Tail(queue) /\ step_requests' = step_requests \ stepped /\ phase' = phase
    BY DEF HandleSet
  <1>2. \A n : Step(n) \in reqs' <=> Step(n) \in reqs
    <2>1. PICK kept, arm : /\ reqs' = kept \cup arm \cup (Armed(bps') \ Armed(bps))
                           /\ kept = reqs \/ kept = reqs \ {Prepare("entry")}
                           /\ \A r \in arm : r.kind = "break"
      <3> DEFINE prepared(who) == {v.cls : v \in {x \in evs : x.e = "prepare" /\ x.who = who}}
                 P == prepared("entry")
                 kept == IF P = {} THEN reqs ELSE reqs \ {Prepare("entry")}
                 arm == UNION {EntryBreaks(c) : c \in P}
      <3>1. reqs' = kept \cup arm \cup (Armed(bps') \ Armed(bps))
        BY DEF HandleSet
      <3>2. \A c : \A r \in EntryBreaks(c) : r.kind = "break"
        BY BreakIsBreak, SMTT(60), Z3T(60) DEF EntryBreaks
      <3>3. \A r \in arm : r.kind = "break"
        BY <3>2
      <3>4. QED
        BY <3>1, <3>3
    <2>2. \A r \in Armed(bps') : r.kind = "break"
      BY DEF ArmedInv, LineRequests
    <2>3. QED
      BY <2>1, <2>2, StepsAreDistinct
  <1>3. PICK S : queue \in Seq(S)
    BY DEF StepInv
  <1>4. /\ queue' \in Seq(S) /\ Len(queue') = Len(queue) - 1 /\ Len(queue) \in Nat \ {0}
        /\ \A k \in 1 .. Len(queue) - 1 : queue'[k] = queue[k + 1]
        /\ Head(queue) = queue[1]
    BY <1>1, <1>3, Dequeued
  <1>5. stepped = {n \in stepped : Reported(1, n)} /\ \A n : Reported(1, n) => n \in stepped
    <2>1. 1 \in DOMAIN queue[1] /\ \A k \in DOMAIN queue[1] : queue[1][k].e = "step" => k = 1
      BY <1>4, SMTT(60), Z3T(60) DEF StepInv
    <2>2. QED
      BY <1>4, <2>1, SMTT(60), Z3T(60) DEF Reported
  <1> HIDE DEF stepped
  <1>6. \A i \in 1 .. Len(queue') : \A n : i + 1 \in 1 .. Len(queue) /\ (Reported(i, n)' <=> Reported(i + 1, n))
    BY <1>4, SMTT(60), Z3T(60) DEF Reported
  <1>7. \A i \in 1 .. Len(queue') : 1 \in DOMAIN queue'[i]
                                    /\ \A k \in DOMAIN queue'[i] : queue'[i][k].e = "step" => k = 1
    BY <1>4, <1>6 DEF StepInv
  <1>8. \A n \in 1 .. MaxSteps, i \in 1 .. Len(queue') :
          Reported(i, n)' => Step(n) \notin reqs' /\ \A j \in 1 .. Len(queue') : Reported(j, n)' => i = j
    <2>1. ASSUME NEW n \in 1 .. MaxSteps, NEW i \in 1 .. Len(queue'), NEW j \in 1 .. Len(queue'),
                 Reported(i, n)', Reported(j, n)'
          PROVE  i = j
      <3>1. i + 1 = j + 1
        BY <1>6, <2>1 DEF StepInv
      <3>2. QED
        BY <1>4, <3>1, SMTT(60), Z3T(60)
    <2>2. QED
      BY <1>2, <1>6, <2>1 DEF StepInv
  <1>9. \A n \in 1 .. MaxSteps : (\E i \in 1 .. Len(queue') : Reported(i, n)')
                                 <=> n \notin stepped /\ \E i \in 1 .. Len(queue) : Reported(i, n)
    <2>1. ASSUME NEW n \in 1 .. MaxSteps, NEW i \in 1 .. Len(queue'), Reported(i, n)' PROVE n \notin stepped
      <3>1. i + 1 \in 1 .. Len(queue) /\ Reported(i + 1, n) /\ 1 \in 1 .. Len(queue) /\ i + 1 # 1
        BY <1>4, <1>6, <2>1, SMTT(60), Z3T(60)
      <3>2. ~Reported(1, n)
        BY <3>1 DEF StepInv
      <3>3. QED
        BY <1>5, <3>2
    <2>2. ASSUME NEW n \in 1 .. MaxSteps, n \notin stepped, NEW i \in 1 .. Len(queue), Reported(i, n)
          PROVE  \E k \in 1 .. Len(queue') : Reported(k, n)'
      <3>1. i # 1
        BY <1>5, <2>2
      <3>2. i - 1 \in 1 .. Len(queue') /\ (i - 1) + 1 = i
        BY <1>4, <3>1, SMTT(60), Z3T(60)
      <3>3. Reported(i - 1, n)'
        BY <1>6, <2>2, <3>2
      <3>4. QED
        BY <3>2, <3>3
    <2>3. QED
      BY <1>6, <2>1, <2>2
  <1>10. \A n \in 1 .. MaxSteps : n \in stepped => Step(n) \notin reqs
    BY <1>4, <1>5, SMTT(60), Z3T(60) DEF StepInv
  <1>11. step_requests' = {n \in 1 .. MaxSteps : Step(n) \in reqs' \/ \E i \in 1 .. Len(queue') : Reported(i, n)'}
    BY <1>1, <1>2, <1>9, <1>10 DEF StepInv
  <1>12. phase' # "new"
    BY <1>1 DEF StepInv
  <1>13. QED
    BY <1>4, <1>7, <1>8, <1>11, <1>12 DEF StepInv

\* Every step keeps the session's steps and the debuggee's the same.
LEMMA StepsStep == StepInv /\ ArmedInv /\ ArmedInv' /\ [Next]_vars => StepInv'
  <1> SUFFICES ASSUME StepInv, ArmedInv, ArmedInv', [Next]_vars PROVE StepInv'
    OBVIOUS
  <1> USE StepsAside, StepsAreDistinct DEF control, breaks, stops, debuggee
  <1>1. ASSUME NEW s \in BOOLEAN, Launch(s) PROVE StepInv'
    <2>1. queue = <<>> /\ queue' = Append(queue, <<[e |-> "start"]>>)
      BY <1>1, SMTT(60), Z3T(60) DEF Launch, StepInv
    <2>2. QED
      BY <1>1, <2>1, SMTT(60), Z3T(60) DEF Launch
  <1>2. ASSUME NEW h \in BOOLEAN, NEW cs \in SUBSET Classes, Attach(h, cs) PROVE StepInv'
    <2>1. queue = <<>> /\ (queue' = queue \/ queue' = Append(queue, <<[e |-> "start"]>>))
      BY <1>2, SMTT(60), Z3T(60) DEF Attach, StepInv
    <2>2. QED
      BY <1>2, <2>1, SMTT(60), Z3T(60) DEF Attach
  <1>3. CASE ConfigurationDone
    BY <1>3 DEF ConfigurationDone
  <1>4. ASSUME NEW want \in SUBSET Lines, SetBreakpoints(want) PROVE StepInv'
    BY <1>4 DEF SetBreakpoints
  <1>5. CASE MergeLines
    <2>1. \A l \in Lines : \A n : bps[l] # Step(n)
      BY SMTT(60), Z3T(60) DEF ArmedInv, OwnRequest, Absent, Unverified
    <2>2. QED
      BY <1>5, <2>1 DEF MergeLines
  <1>6. CASE AllClasses \/ SetBreakpointsDone
    BY <1>6 DEF AllClasses, SetBreakpointsDone
  <1>7. ASSUME NEW c \in Classes, BindLoaded(c) PROVE StepInv'
    <2>1. \A r \in Armed(bps') : r.kind = "break"
      BY DEF ArmedInv, LineRequests
    <2>2. QED
      BY <1>7, <2>1 DEF BindLoaded
  <1>8. ASSUME NEW on \in BOOLEAN, SetExceptionBreakpoints(on) PROVE StepInv'
    BY <1>8 DEF SetExceptionBreakpoints
  <1>9. CASE HandleSet
    BY <1>9, HandleKeepsSteps
  <1>10. CASE Continue \/ Pause \/ Inspect
    BY <1>10 DEF Continue, Pause, Inspect
  <1>11. ASSUME NEW n \in 1 .. MaxSteps, StepRequest(n) \/ StepCompletes(n) PROVE StepInv'
    BY <1>11, RequestKeepsSteps, ReportKeepsSteps
  <1>12. ASSUME NEW c \in Classes, LoadClass(c) PROVE StepInv'
    <2> DEFINE entries == IF Prepare("entry") \in reqs /\ c = MainClass
                          THEN <<[e |-> "prepare", who |-> "entry", cls |-> c]>> ELSE <<>>
               files == IF Prepare("file") \in reqs
                        THEN <<[e |-> "prepare", who |-> "file", cls |-> c]>> ELSE <<>>
    <2>1. \/ queue' = queue
          \/ entries \o files # <<>> /\ queue' = Append(queue, entries \o files)
      BY <1>12 DEF LoadClass, Report
    <2>2. entries \o files # <<>> => /\ 1 \in DOMAIN (entries \o files)
                                     /\ \A k \in DOMAIN (entries \o files) : (entries \o files)[k].e # "step"
      BY SMTT(60), Z3T(60)
    <2> HIDE DEF entries, files
    <2>3. phase' # "new" /\ step_requests' = step_requests /\ reqs' = reqs
      BY <1>12 DEF LoadClass, CanReport
    <2>4. QED
      BY <2>1, <2>2, <2>3
  <1>13. ASSUME NEW c \in Classes, NEW l \in CodeLines[c], ReachLine(c, l) PROVE StepInv'
    <2> DEFINE hit == {r \in reqs : r.kind = "break" /\ r.cls = c /\ r.at = l}
               owners == {r.who : r \in hit}
               first == <<[e |-> "break", who |-> Min(owners)]>>
               second == IF Cardinality(owners) = 1 THEN <<>> ELSE <<[e |-> "break", who |-> Max(owners)]>>
    <2>1. queue' = Append(queue, first \o second) /\ reqs' = reqs \ {r \in hit : r.who = EntryLine}
      BY <1>13 DEF ReachLine, Report
    <2>2. \A n : Step(n) \in reqs' <=> Step(n) \in reqs
      BY <2>1
    <2>3. 1 \in DOMAIN (first \o second) /\ \A k \in DOMAIN (first \o second) : (first \o second)[k].e # "step"
      BY SMTT(60), Z3T(60)
    <2> HIDE DEF first, second
    <2>4. phase' # "new" /\ step_requests' = step_requests
      BY <1>13 DEF ReachLine, CanReport
    <2>5. QED
      BY <2>1, <2>2, <2>3, <2>4
  <1>14. CASE Throw
    <2> DEFINE thrown == <<[e |-> "exception"]>>
    <2>1. queue' = Append(queue, thrown)
      BY <1>14 DEF Throw, Report
    <2>2. 1 \in DOMAIN thrown /\ \A k \in DOMAIN thrown : thrown[k].e # "step"
      BY SMTT(60), Z3T(60)
    <2> HIDE DEF thrown
    <2>3. phase' # "new" /\ step_requests' = step_requests /\ reqs' = reqs
      BY <1>14 DEF Throw, CanReport
    <2>4. QED
      BY <2>1, <2>2, <2>3
  <1>15. CASE UNCHANGED vars
    BY <1>15 DEF vars
  <1>16. QED
    BY <1>1, <1>2, <1>3, <1>4, <1>5, <1>6, <1>7, <1>8, <1>9, <1>10, <1>11, <1>12, <1>13, <1>14, <1>15 DEF Next

\* The debuggee has exactly the line breakpoints and the steps the session
\* believes it has, however class loading, setBreakpoints, steps and their
\* reports interleave (bind_lines_in_class, handle_event_set).
THEOREM RequestsKnown == Spec => []RequestsAgree
  <1>1. Init => StepInv
    BY SMTT(60), Z3T(60) DEF Init, StepInv
  <1>2. ArmedInv /\ StepInv => RequestsAgree
    <2> SUFFICES ASSUME ArmedInv, StepInv PROVE RequestsAgree
      OBVIOUS
    <2>1. BreakpointsArmed
      BY DEF ArmedInv, LineRequests, BreakpointsArmed
    <2>2. DOMAIN queue = 1 .. Len(queue)
      BY SMTT(60), Z3T(60) DEF StepInv
    <2>3. StepsOwed
      BY <2>2 DEF StepInv, Reported, StepsOwed
    <2>4. QED
      BY <2>1, <2>3 DEF RequestsAgree
  <1>3. QED
    BY <1>1, <1>2, BreakpointsAgree, StepsStep, PTL DEF Spec

-----------------------------------------------------------------------------
\* An exception is recorded with the stop that reports it and dropped with the
\* resume that ends that stop.
ExceptionInv == last_exception = FALSE \/ told = "stopped"

\* An exception is on record only while the client may ask for it
\* (handle_event_set, continue_all).
THEOREM ExceptionsCurrent == Spec => []ExceptionsAreOfThisStop
  <1>1. Init => ExceptionInv
    BY DEF Init, ExceptionInv
  <1>2. ExceptionInv /\ [Next]_vars => ExceptionInv'
    <2> SUFFICES ASSUME ExceptionInv, [Next]_vars PROVE ExceptionInv'
      OBVIOUS
    <2> USE DEF ExceptionInv, control, stops
    <2>1. CASE HandleSet
      <3>1. PICK evs : /\ last_exception' = (last_exception \/ \E v \in evs : v.e = "exception")
                       /\ IF \E v \in evs : v.e \in Stops THEN OnStop ELSE told' = told
        BY <2>1 DEF HandleSet
      <3>2. CASE \E v \in evs : v.e = "exception"
        BY <3>1, <3>2 DEF Stops, OnStop
      <3>3. CASE ~ \E v \in evs : v.e = "exception"
        BY <3>1, <3>3 DEF OnStop
      <3>4. QED
        BY <3>2, <3>3
    <2>2. CASE Continue \/ \E n \in 1 .. MaxSteps : StepRequest(n)
      BY <2>2 DEF Continue, StepRequest, ContinueAll
    <2>3. CASE Pause
      BY <2>3 DEF Pause, OnStop
    <2>4. CASE UNCHANGED <<told, last_exception>>
      BY <2>4
    <2>5. QED
      BY <2>1, <2>2, <2>3, <2>4 DEF Next, vars, Launch, Attach, ConfigurationDone, SetBreakpoints, MergeLines,
         AllClasses, BindLoaded, SetBreakpointsDone, SetExceptionBreakpoints, Inspect, LoadClass, ReachLine,
         StepCompletes, Throw
  <1>3. ExceptionInv => ExceptionsAreOfThisStop
    BY DEF ExceptionInv, ExceptionsAreOfThisStop
  <1>4. QED
    BY <1>1, <1>2, <1>3, PTL DEF Spec

-----------------------------------------------------------------------------
(***************************************************************************)
(* The queue of event sets                                                 *)
(***************************************************************************)
\* An event set: not empty; the start comes alone; of one class at most.
EventSet(evs) ==
    /\ 1 \in DOMAIN evs
    /\ \A k \in DOMAIN evs : evs[k].e = "start" => \A j \in DOMAIN evs : evs[j].e = "start"
    /\ \A k \in DOMAIN evs : evs[k].e = "prepare" => evs[k].cls \in Classes
    /\ \A j, k \in DOMAIN evs : evs[j].e = "prepare" /\ evs[k].e = "prepare" => evs[j].cls = evs[k].cls

\* The start can only be the first of them all.
QueueInv ==
    /\ \E S : queue \in Seq(S)
    /\ \A i \in 1 .. Len(queue) : EventSet(queue[i]) /\ (i > 1 => queue[i][1].e # "start")
    /\ phase = "new" => queue = <<>>
    /\ Len(queue) <= MaxQueue

\* What a report, the start of the session and the loop make of the queue.
LEMMA QueueGrows ==
    ASSUME QueueInv, NEW evs, EventSet(evs), evs[1].e # "start", Len(queue) < MaxQueue,
           queue' = Append(queue, evs), phase' # "new"
    PROVE  QueueInv'
  <1>1. PICK S : queue \in Seq(S)
    BY DEF QueueInv
  <1>2. /\ queue' \in Seq(S \cup {evs}) /\ Len(queue') = Len(queue) + 1 /\ Len(queue) \in Nat
        /\ \A k \in 1 .. Len(queue) : queue'[k] = queue[k]
        /\ queue'[Len(queue) + 1] = evs
    BY <1>1, Queued, SMTT(60), Z3T(60)
  <1>3. \A i \in 1 .. Len(queue') : EventSet(queue'[i]) /\ (i > 1 => queue'[i][1].e # "start")
    BY <1>2, SMTT(60), Z3T(60) DEF QueueInv
  <1>4. Len(queue') <= MaxQueue
    BY <1>2, BoundAssumption, SMTT(60), Z3T(60)
  <1>5. QED
    BY <1>2, <1>3, <1>4 DEF QueueInv, EventSet

LEMMA QueueStarts ==
    ASSUME queue' = <<>> \/ queue' = <<<<[e |-> "start"]>>>>, phase' # "new"
    PROVE  QueueInv'
  <1>1. Len(queue') <= MaxQueue /\ \E S : queue' \in Seq(S)
    <2> DEFINE first == <<[e |-> "start"]>>
    <2> HIDE DEF first
    <2>1. <<first>> \in Seq({first}) /\ <<>> \in Seq({first}) /\ Len(<<first>>) = 1
      BY SMTT(60), Z3T(60)
    <2>2. queue' = <<>> \/ queue' = <<first>>
      BY DEF first
    <2>3. QED
      <3>1. queue' \in Seq({first})
        BY <2>1, <2>2
      <3>2. Len(queue') = 0 \/ Len(queue') = 1
        BY <2>1, <2>2, SMTT(60), Z3T(60)
      <3>3. MaxQueue \in Nat /\ MaxQueue >= 1
        BY BoundAssumption, SMTT(60), Z3T(60)
      <3>4. Len(queue') <= MaxQueue
        BY <3>2, <3>3, SMTT(60), Z3T(60)
      <3>5. \E S : queue' \in Seq(S)
        BY <3>1
      <3>6. QED
        BY <3>4, <3>5
  <1>2. QED
    BY <1>1, SMTT(60), Z3T(60) DEF QueueInv, EventSet

LEMMA QueueShrinks ==
    ASSUME QueueInv, queue # <<>>, queue' = Tail(queue), phase' = phase
    PROVE  QueueInv'
  <1>1. PICK S : queue \in Seq(S)
    BY DEF QueueInv
  <1>2. /\ queue' \in Seq(S) /\ Len(queue') = Len(queue) - 1 /\ Len(queue) \in Nat \ {0}
        /\ \A k \in 1 .. Len(queue) - 1 : queue'[k] = queue[k + 1]
    BY <1>1, Dequeued
  <1>3. \A i \in 1 .. Len(queue') : i + 1 \in 1 .. Len(queue) /\ i + 1 > 1 /\ queue'[i] = queue[i + 1]
    BY <1>2, SMTT(60), Z3T(60)
  <1>4. \A i \in 1 .. Len(queue') : EventSet(queue'[i]) /\ (i > 1 => queue'[i][1].e # "start")
    BY <1>3 DEF QueueInv
  <1>5. QED
    BY <1>2, <1>4, BoundAssumption, SMTT(60), Z3T(60) DEF QueueInv, EventSet

-----------------------------------------------------------------------------
\* The debuggee runs a class, a line, a step or into an exception.
DebuggeeStep ==
    \/ \E c \in Classes : LoadClass(c)
    \/ \E c \in Classes : \E l \in CodeLines[c] : ReachLine(c, l)
    \/ \E n \in 1 .. MaxSteps : StepCompletes(n)
    \/ Throw

\* All it does to the session is to send it an event set and wait.
LEMMA DebuggeeReports ==
    ASSUME DebuggeeStep
    PROVE  /\ CanReport /\ UNCHANGED <<phase, mode, control, breaks, stops, handles>>
           /\ \/ UNCHANGED <<queue, susp, burst>>
              \/ \E evs : EventSet(evs) /\ evs[1].e # "start" /\ Report(evs)
  <1>1. ASSUME NEW c \in Classes, LoadClass(c)
        PROVE  \/ UNCHANGED <<queue, susp, burst>>
               \/ \E evs : EventSet(evs) /\ evs[1].e # "start" /\ Report(evs)
    <2> DEFINE entries == IF Prepare("entry") \in reqs /\ c = MainClass
                          THEN <<[e |-> "prepare", who |-> "entry", cls |-> c]>> ELSE <<>>
               files == IF Prepare("file") \in reqs
                        THEN <<[e |-> "prepare", who |-> "file", cls |-> c]>> ELSE <<>>
    <2>1. \/ UNCHANGED <<queue, susp, burst>>
          \/ entries \o files # <<>> /\ Report(entries \o files)
      BY <1>1 DEF LoadClass
    <2>2. entries \o files # <<>> => EventSet(entries \o files) /\ (entries \o files)[1].e # "start"
      BY SMTT(60), Z3T(60) DEF EventSet
    <2> HIDE DEF entries, files
    <2>3. QED
      BY <2>1, <2>2
  <1>2. ASSUME NEW c \in Classes, NEW l \in CodeLines[c], ReachLine(c, l)
        PROVE  \E evs : EventSet(evs) /\ evs[1].e # "start" /\ Report(evs)
    <2> DEFINE owners == {r.who : r \in {q \in reqs : q.kind = "break" /\ q.cls = c /\ q.at = l}}
               first == <<[e |-> "break", who |-> Min(owners)]>>
               second == IF Cardinality(owners) = 1 THEN <<>> ELSE <<[e |-> "break", who |-> Max(owners)]>>
    <2>1. Report(first \o second)
      BY <1>2 DEF ReachLine
    <2>2. EventSet(first \o second) /\ (first \o second)[1].e # "start"
      BY SMTT(60), Z3T(60) DEF EventSet
    <2> HIDE DEF first, second
    <2>3. QED
      BY <2>1, <2>2
  <1>3. ASSUME NEW n \in 1 .. MaxSteps, StepCompletes(n)
        PROVE  \E evs : EventSet(evs) /\ evs[1].e # "start" /\ Report(evs)
    <2> DEFINE evs == <<[e |-> "step", n |-> n]>>
    <2>1. Report(evs)
      BY <1>3 DEF StepCompletes
    <2>2. EventSet(evs) /\ evs[1].e # "start"
      BY SMTT(60), Z3T(60) DEF EventSet
    <2> HIDE DEF evs
    <2>3. QED
      BY <2>1, <2>2
  <1>4. ASSUME Throw PROVE \E evs : EventSet(evs) /\ evs[1].e # "start" /\ Report(evs)
    <2> DEFINE evs == <<[e |-> "exception"]>>
    <2>1. Report(evs)
      BY <1>4 DEF Throw
    <2>2. EventSet(evs) /\ evs[1].e # "start"
      BY SMTT(60), Z3T(60) DEF EventSet
    <2> HIDE DEF evs
    <2>3. QED
      BY <2>1, <2>2
  <1>5. CanReport /\ UNCHANGED <<phase, mode, control, breaks, stops, handles>>
    BY DEF DebuggeeStep, LoadClass, ReachLine, StepCompletes, Throw, control, breaks, stops
  <1>6. \/ UNCHANGED <<queue, susp, burst>>
        \/ \E evs : EventSet(evs) /\ evs[1].e # "start" /\ Report(evs)
    <2>1. CASE \E c \in Classes : LoadClass(c)
      BY <1>1, <2>1
    <2>2. CASE \E c \in Classes : \E l \in CodeLines[c] : ReachLine(c, l)
      BY <1>2, <2>2
    <2>3. CASE \E n \in 1 .. MaxSteps : StepCompletes(n)
      BY <1>3, <2>3
    <2>4. QED
      BY <1>4, <2>1, <2>2, <2>3 DEF DebuggeeStep
  <1>7. QED
    BY <1>5, <1>6

\* A request of the client that leaves the queue alone.
SessionStep ==
    \/ ConfigurationDone
    \/ \E want \in SUBSET Lines : SetBreakpoints(want)
    \/ MergeLines \/ AllClasses \/ (\E c \in Classes : BindLoaded(c)) \/ SetBreakpointsDone
    \/ \E on \in BOOLEAN : SetExceptionBreakpoints(on)
    \/ Continue \/ (\E n \in 1 .. MaxSteps : StepRequest(n)) \/ Pause \/ Inspect

\* Every step keeps the shape of the queue.
LEMMA QueueStep == QueueInv /\ [Next]_vars => QueueInv'
  <1> SUFFICES ASSUME QueueInv, [Next]_vars PROVE QueueInv'
    OBVIOUS
  <1>1. ASSUME NEW s \in BOOLEAN, Launch(s) PROVE QueueInv'
    BY <1>1, QueueStarts DEF Launch
  <1>2. ASSUME NEW h \in BOOLEAN, NEW cs \in SUBSET Classes, Attach(h, cs) PROVE QueueInv'
    BY <1>2, QueueStarts DEF Attach
  <1>3. CASE SessionStep
    <2>1. queue' = queue /\ (phase' = "new" => phase = "new")
      BY <1>3 DEF SessionStep, ConfigurationDone, SetBreakpoints, MergeLines, AllClasses, BindLoaded,
            SetBreakpointsDone, SetExceptionBreakpoints, Continue, StepRequest, Pause, Inspect, debuggee
    <2>2. QED
      BY <2>1 DEF QueueInv
  <1>4. CASE HandleSet
    BY <1>4, QueueShrinks DEF HandleSet
  <1>5. CASE DebuggeeStep
    <2>1. CASE UNCHANGED queue
      BY <1>5, <2>1, DebuggeeReports DEF QueueInv
    <2>2. ASSUME NEW evs, EventSet(evs), evs[1].e # "start", Report(evs) PROVE QueueInv'
      BY <1>5, <2>2, DebuggeeReports, QueueGrows DEF Report, CanReport
    <2>3. QED
      BY <1>5, <2>1, <2>2, DebuggeeReports
  <1>6. CASE UNCHANGED vars
    BY <1>6 DEF vars, debuggee, QueueInv
  <1>7. QED
    BY <1>1, <1>2, <1>3, <1>4, <1>5, <1>6 DEF Next, SessionStep, DebuggeeStep

-----------------------------------------------------------------------------
(***************************************************************************)
(* The count of suspensions                                                *)
(***************************************************************************)
\* The start is under way; the event sets under way but for it; the one
\* suspension that is nobody's: a start that is yet to be released.
First == queue # <<>> /\ queue[1][1].e = "start"
Waiting == IF First THEN Len(queue) - 1 ELSE Len(queue)
StartHeld == (phase = "ready" /\ mode = "launch") \/ (mode = "attach" /\ (vm_start_pending \/ First))
Held == IF StartHeld THEN 1 ELSE 0

\* Every suspension is counted, under way, or that of the start.
CountInv ==
    /\ suspend_depth \in Nat /\ susp \in Nat /\ {vm_start_pending, eager} \subseteq BOOLEAN
    /\ told = "stopped" <=> suspend_depth > 0
    /\ phase = "new" => susp = 0 /\ suspend_depth = 0 /\ ~vm_start_pending
    /\ phase = "new" <=> mode = "none"
    /\ vm_start_pending => ~First
    /\ phase # "configured" => ~eager
    /\ mode \in {"none", "launch", "attach"}
    /\ ~eager => /\ susp = suspend_depth + Waiting + Held
                 /\ told = "stopped" => handles # "past"

\* What the queue holds besides the start.
LEMMA WaitingCounts == QueueInv => Waiting \in Nat /\ Waiting <= MaxQueue /\ Waiting = Undelivered /\ (First <=> StartQueued)
  <1> SUFFICES ASSUME QueueInv PROVE Waiting \in Nat /\ Waiting <= MaxQueue /\ Waiting = Undelivered /\ (First <=> StartQueued)
    OBVIOUS
  <1>1. PICK S : queue \in Seq(S)
    BY DEF QueueInv
  <1>2. Len(queue) \in Nat /\ DOMAIN queue = 1 .. Len(queue) /\ (queue = <<>> <=> Len(queue) = 0)
    BY <1>1, SMTT(60), Z3T(60)
  <1>3. \A i \in 1 .. Len(queue) : i > 1 => queue[i][1].e # "start"
    BY DEF QueueInv
  <1>4. First <=> StartQueued
    BY <1>2, <1>3, SMTT(60), Z3T(60) DEF First, StartQueued
  <1>5. Waiting \in Nat /\ Waiting <= MaxQueue
    BY <1>2, BoundAssumption, SMTT(60), Z3T(60) DEF QueueInv, Waiting, First
  <1>6. CASE First
    <2>1. {i \in DOMAIN queue : queue[i][1].e # "start"} = 2 .. Len(queue)
      BY <1>2, <1>3, <1>6, SMTT(60), Z3T(60) DEF First
    <2>2. Cardinality(2 .. Len(queue)) = Len(queue) - 1
      BY <1>2, <1>6, FS_Interval, SMTT(60), Z3T(60) DEF First
    <2>3. QED
      BY <1>4, <1>5, <1>6, <2>1, <2>2 DEF Waiting, Undelivered
  <1>7. CASE ~First
    <2>1. {i \in DOMAIN queue : queue[i][1].e # "start"} = 1 .. Len(queue)
      BY <1>2, <1>3, <1>7, SMTT(60), Z3T(60) DEF First
    <2>2. Cardinality(1 .. Len(queue)) = Len(queue)
      BY <1>2, CountOfIndices
    <2>3. QED
      BY <1>4, <1>5, <1>7, <2>1, <2>2 DEF Waiting, Undelivered
  <1>8. QED
    BY <1>6, <1>7

\* A report is one more; the set handled is one less, or was the start.
LEMMA WaitingGrows ==
    ASSUME QueueInv, NEW evs, EventSet(evs), evs[1].e # "start", queue' = Append(queue, evs)
    PROVE  Waiting' = Waiting + 1 /\ (First' <=> First)
  <1>1. PICK S : queue \in Seq(S)
    BY DEF QueueInv
  <1>2. /\ queue' \in Seq(S \cup {evs}) /\ Len(queue') = Len(queue) + 1 /\ Len(queue) \in Nat
        /\ \A k \in 1 .. Len(queue) : queue'[k] = queue[k]
        /\ queue'[Len(queue) + 1] = evs
    BY <1>1, Queued, SMTT(60), Z3T(60)
  <1>3. First' <=> First
    <2>1. CASE queue = <<>>
      BY <1>2, <2>1, SMTT(60), Z3T(60) DEF First
    <2>2. CASE queue # <<>>
      <3>1. 1 \in 1 .. Len(queue)
        BY <1>1, <2>2, SMTT(60), Z3T(60)
      <3>2. queue'[1] = queue[1] /\ queue' # <<>>
        BY <1>2, <3>1, SMTT(60), Z3T(60)
      <3>3. QED
        BY <2>2, <3>2 DEF First
    <2>3. QED
      BY <2>1, <2>2
  <1>4. QED
    BY <1>2, <1>3, SMTT(60), Z3T(60) DEF Waiting

LEMMA WaitingShrinks ==
    ASSUME QueueInv, queue # <<>>, queue' = Tail(queue)
    PROVE  ~First' /\ (First => Waiting' = Waiting) /\ (~First => Waiting' = Waiting - 1)
  <1>1. PICK S : queue \in Seq(S)
    BY DEF QueueInv
  <1>2. /\ queue' \in Seq(S) /\ Len(queue') = Len(queue) - 1 /\ Len(queue) \in Nat \ {0}
        /\ \A k \in 1 .. Len(queue) - 1 : queue'[k] = queue[k + 1]
    BY <1>1, Dequeued
  <1>3. ~First'
    <2> SUFFICES ASSUME queue' # <<>> PROVE queue'[1][1].e # "start"
      BY DEF First
    <2>1. 1 \in 1 .. Len(queue) - 1 /\ 2 \in 1 .. Len(queue)
      BY <1>2, SMTT(60), Z3T(60)
    <2>2. queue'[1] = queue[2]
      BY <1>2, <2>1, SMTT(60), Z3T(60)
    <2>3. QED
      BY <2>1, <2>2, SMTT(60), Z3T(60) DEF QueueInv
  <1>4. QED
    BY <1>2, <1>3 DEF Waiting

\* Max and Min as the session uses them: of one number, of two, of lines.
LEMMA MaxOfOne == \A x \in Int : Max({x}) = x
  <1> SUFFICES ASSUME NEW x \in Int PROVE Max({x}) = x
    OBVIOUS
  <1>1. \A y \in {x} : (\A z \in {x} : y >= z) => y = x
    OBVIOUS
  <1>2. QED
    BY <1>1, SMTT(60), Z3T(60) DEF Max

LEMMA MaxOfTwo == \A x \in Nat : Max({x, 1}) = IF x > 1 THEN x ELSE 1
  <1> SUFFICES ASSUME NEW x \in Nat PROVE Max({x, 1}) = IF x > 1 THEN x ELSE 1
    OBVIOUS
  <1> DEFINE m == IF x > 1 THEN x ELSE 1
  <1>1. m \in {x, 1} /\ \A z \in {x, 1} : m >= z
    BY SMTT(60), Z3T(60)
  <1>2. \A y \in {x, 1} : (\A z \in {x, 1} : y >= z) => y = m
    BY SMTT(60), Z3T(60)
  <1> HIDE DEF m
  <1>3. QED
    <2> DEFINE c == CHOOSE y \in {x, 1} : \A z \in {x, 1} : y >= z
    <2>1. c \in {x, 1} /\ \A z \in {x, 1} : c >= z
      BY <1>1
    <2>2. c = m
      BY <1>2, <2>1
    <2>3. QED
      BY <2>2 DEF Max, m

\* The session starts: nothing is counted, and the start is held.
LEMMA StartCounts ==
    ASSUME QueueInv, CountInv, (\E s \in BOOLEAN : Launch(s)) \/ \E h \in BOOLEAN, cs \in SUBSET Classes : Attach(h, cs)
    PROVE  CountInv'
  <1>1. ASSUME NEW s \in BOOLEAN, Launch(s) PROVE CountInv'
    <2> DEFINE start == <<[e |-> "start"]>>
    <2>1. queue' = <<start>> /\ start[1].e = "start"
      BY <1>1 DEF Launch
    <2> HIDE DEF start
    <2>2. First' /\ Waiting' = 0
      BY <2>1, SMTT(60), Z3T(60) DEF First, Waiting
    <2>3. susp' = 1 /\ phase' = "ready" /\ mode' = "launch" /\ phase = "new" /\ UNCHANGED <<control, handles>>
      BY <1>1 DEF Launch
    <2>4. Held' = 1
      BY <2>3 DEF StartHeld, Held
    <2>5. QED
      BY <2>2, <2>3, <2>4, SMTT(60), Z3T(60) DEF CountInv, control
  <1>2. ASSUME NEW h \in BOOLEAN, NEW cs \in SUBSET Classes, Attach(h, cs) PROVE CountInv'
    <2> DEFINE start == <<[e |-> "start"]>>
    <2>1. (IF h THEN queue' = <<start>> ELSE queue' = <<>>) /\ start[1].e = "start"
      BY <1>2 DEF Attach
    <2> HIDE DEF start
    <2>2. (First' <=> h) /\ Waiting' = 0
      BY <2>1, SMTT(60), Z3T(60) DEF First, Waiting
    <2>3. /\ susp' = (IF h THEN 1 ELSE 0) /\ phase' = "ready" /\ mode' = "attach" /\ phase = "new"
          /\ UNCHANGED <<control, handles>>
      BY <1>2 DEF Attach
    <2>4. ~vm_start_pending' /\ Held' = (IF h THEN 1 ELSE 0)
      BY <2>2, <2>3 DEF StartHeld, Held, CountInv, control
    <2>5. QED
      BY <2>2, <2>3, <2>4, SMTT(60), Z3T(60) DEF CountInv, control
  <1>3. QED
    BY <1>1, <1>2

\* configurationDone releases the start, if it is there.
LEMMA ConfigurationCounts == ASSUME QueueInv, CountInv, ConfigurationDone PROVE CountInv'
  <1>1. /\ phase = "ready" /\ phase' = "configured" /\ UNCHANGED <<mode, suspend_depth, told, eager, queue>>
        /\ IF mode = "launch" \/ vm_start_pending
           THEN vm_start_pending' = FALSE /\ ResumeBy(1) /\ handles' = Outlived(handles)
           ELSE UNCHANGED <<vm_start_pending, susp, burst, handles>>
    BY DEF ConfigurationDone
  <1>2. (First' <=> First) /\ Waiting' = Waiting /\ Waiting \in Nat
    BY <1>1, WaitingCounts DEF First, Waiting
  <1>3. CASE mode = "launch" \/ vm_start_pending
    <2>1. Held = 1 /\ Held' = 0 /\ vm_start_pending' = FALSE
      BY <1>1, <1>2, <1>3 DEF StartHeld, Held, CountInv
    <2>2. susp = suspend_depth + Waiting + 1 /\ susp' = suspend_depth + Waiting
      BY <1>1, <1>2, <1>3, <2>1, SMTT(60), Z3T(60) DEF CountInv, ResumeBy
    <2>3. told' = "stopped" => handles' # "past"
      BY <1>1, <1>2, <1>3, <2>2, SMTT(60), Z3T(60) DEF CountInv, Outlived
    <2>4. {vm_start_pending', eager'} \subseteq BOOLEAN
      BY <1>1, <2>1 DEF CountInv
    <2>5. suspend_depth' \in Nat /\ susp' \in Nat /\ susp' = suspend_depth' + Waiting' + Held'
      BY <1>1, <1>2, <2>1, <2>2, SMTT(60), Z3T(60) DEF CountInv
    <2>6. QED
      BY <1>1, <2>1, <2>3, <2>4, <2>5 DEF CountInv
  <1>4. CASE ~(mode = "launch" \/ vm_start_pending)
    <2>1. Held' = Held
      BY <1>1, <1>2, <1>4, SMTT(60), Z3T(60) DEF StartHeld, Held
    <2>2. QED
      BY <1>1, <1>2, <1>4, <2>1 DEF CountInv
  <1>5. QED
    BY <1>3, <1>4

\* A report suspends and is under way.
LEMMA ReportCounts == ASSUME QueueInv, CountInv, DebuggeeStep PROVE CountInv'
  <1>1. phase # "new" /\ UNCHANGED <<phase, mode, control, handles>>
    BY DebuggeeReports DEF CanReport
  <1>2. CASE UNCHANGED <<queue, susp>>
    <2>1. (First' <=> First) /\ Waiting' = Waiting /\ Held' = Held
      BY <1>1, <1>2 DEF First, Waiting, StartHeld, Held, control
    <2>2. QED
      BY <1>1, <1>2, <2>1 DEF CountInv, control
  <1>3. ASSUME NEW evs, EventSet(evs), evs[1].e # "start", Report(evs) PROVE CountInv'
    <2>1. Waiting' = Waiting + 1 /\ (First' <=> First) /\ Waiting \in Nat /\ susp' = susp + 1
      BY <1>3, WaitingGrows, WaitingCounts DEF Report
    <2>2. Held' = Held /\ Held \in Nat
      BY <1>1, <2>1 DEF StartHeld, Held, control
    <2>3. QED
      BY <1>1, <2>1, <2>2, SMTT(60), Z3T(60) DEF CountInv, control
  <1>4. QED
    BY <1>2, <1>3, DebuggeeReports

\* The set that is handled is the start, or none of its events is.
LEMMA HandledSet ==
    ASSUME QueueInv, HandleSet
    PROVE  \E start \in BOOLEAN, stop \in BOOLEAN :
             /\ Suspend(start, stop) /\ (start <=> First) /\ (start => ~stop)
             /\ queue # <<>> /\ queue' = Tail(queue) /\ UNCHANGED <<phase, mode, eager>>
             /\ vm_start_pending' = (vm_start_pending \/ start)
             /\ IF stop THEN OnStop ELSE told' = told /\ handles' = Outlived(handles)
  <1> DEFINE evs == {Head(queue)[i] : i \in DOMAIN Head(queue)}
             start == \E v \in evs : v.e = "start"
             stop == \E v \in evs : v.e \in Stops
  <1>1. /\ queue # <<>> /\ queue' = Tail(queue) /\ UNCHANGED <<phase, mode, eager>>
        /\ vm_start_pending' = (vm_start_pending \/ start)
        /\ Suspend(start, stop)
        /\ IF stop THEN OnStop ELSE told' = told /\ handles' = Outlived(handles)
    BY DEF HandleSet
  <1>2. (start <=> First) /\ (start => ~stop)
    <2>1. PICK S : queue \in Seq(S)
      BY DEF QueueInv
    <2>2. Head(queue) = queue[1] /\ EventSet(queue[1])
      BY <1>1, <2>1, SMTT(60), Z3T(60) DEF QueueInv
    <2>3. QED
      BY <1>1, <2>2 DEF First, EventSet, Stops
  <1>3. start \in BOOLEAN /\ stop \in BOOLEAN
    OBVIOUS
  <1> HIDE DEF start, stop
  <1>4. QED
    BY <1>1, <1>2, <1>3

\* A set that is handled is counted or resumed; the start is held on.
LEMMA HandleCounts == ASSUME QueueInv, CountInv, HandleSet PROVE CountInv'
  <1>1. PICK start \in BOOLEAN, stop \in BOOLEAN :
             /\ Suspend(start, stop) /\ (start <=> First) /\ (start => ~stop)
             /\ queue # <<>> /\ queue' = Tail(queue) /\ UNCHANGED <<phase, mode, eager>>
             /\ vm_start_pending' = (vm_start_pending \/ start)
             /\ IF stop THEN OnStop ELSE told' = told /\ handles' = Outlived(handles)
    BY HandledSet
  <1>2. /\ ~First' /\ (First => Waiting' = Waiting) /\ (~First => Waiting' = Waiting - 1)
        /\ Waiting \in Nat /\ Waiting' \in Nat
    <2>1. QueueInv'
      BY <1>1, QueueShrinks
    <2>2. Waiting' \in Nat
      BY <2>1, WaitingCounts, SMTT(60), Z3T(60)
         DEF QueueInv, Waiting, First, EventSet
    <2>3. QED
      BY <1>1, <2>2, WaitingShrinks, WaitingCounts
  <1>3. (start <=> First) /\ (start => ~stop)
    BY <1>1
  <1>4. phase # "new"
    BY <1>1 DEF QueueInv
  <1>5. Held' = Held /\ Held \in Nat
    BY <1>1, <1>2, <1>3 DEF StartHeld, Held
  <1>6. CASE start
    <2>1. /\ suspend_depth' = suspend_depth /\ susp' = susp /\ told' = told /\ vm_start_pending' = TRUE
          /\ handles' = Outlived(handles) /\ Waiting' = Waiting
      BY <1>1, <1>2, <1>3, <1>6 DEF Suspend
    <2>2. ~eager => (told' = "stopped" => handles' # "past")
      BY <1>2, <1>5, <2>1, SMTT(60), Z3T(60) DEF CountInv, Outlived
    <2>3. QED
      BY <1>1, <1>2, <1>4, <1>5, <2>1, <2>2 DEF CountInv
  <1>7. CASE stop
    <2>1. /\ suspend_depth' = suspend_depth + 1 /\ susp' = susp /\ told' = "stopped" /\ handles' = "none"
          /\ vm_start_pending' = vm_start_pending /\ Waiting' = Waiting - 1
      BY <1>1, <1>2, <1>3, <1>7 DEF Suspend, OnStop, CountInv
    <2>2. QED
      BY <1>1, <1>2, <1>4, <1>5, <2>1, SMTT(60), Z3T(60) DEF CountInv
  <1>8. CASE ~start /\ ~stop
    <2>1. /\ suspend_depth' = suspend_depth /\ susp' = (IF susp > 1 THEN susp - 1 ELSE 0) /\ told' = told
          /\ handles' = Outlived(handles) /\ vm_start_pending' = vm_start_pending
          /\ Waiting' = Waiting - 1
      BY <1>1, <1>2, <1>3, <1>8 DEF Suspend, ResumeBy, CountInv
    <2>2. ~eager => susp' = suspend_depth + Waiting' + Held
      BY <1>2, <1>5, <2>1, SMTT(60), Z3T(60) DEF CountInv
    <2>3. ~eager => (told' = "stopped" => handles' # "past")
      BY <1>2, <1>5, <2>1, <2>2, SMTT(60), Z3T(60) DEF CountInv, Outlived
    <2>4. QED
      BY <1>1, <1>2, <1>4, <1>5, <2>1, <2>2, <2>3, SMTT(60), Z3T(60) DEF CountInv
  <1>9. QED
    BY <1>6, <1>7, <1>8

\* A client that was told it is stopped resumes what was counted.
LEMMA ControlCounts ==
    ASSUME QueueInv, CountInv, Continue \/ (\E n \in 1 .. MaxSteps : StepRequest(n)) \/ Pause \/ Inspect
    PROVE  CountInv'
  <1>1. UNCHANGED <<phase, mode, vm_start_pending, queue>> /\ phase = "configured"
    BY DEF Continue, StepRequest, Pause, Inspect, Running, control, debuggee
  <1>2. (First' <=> First) /\ Waiting' = Waiting /\ Held' = Held /\ Waiting \in Nat /\ Held \in Nat
    BY <1>1, WaitingCounts DEF First, Waiting, StartHeld, Held
  <1>3. CASE ContinueAll
    <2>1. /\ suspend_depth' = 0 /\ told' = "running" /\ eager' = (eager \/ told # "stopped")
          /\ ResumeBy(Max({suspend_depth, 1}))
      BY <1>3 DEF ContinueAll
    <2>2. suspend_depth \in Nat /\ Max({suspend_depth, 1}) = IF suspend_depth > 1 THEN suspend_depth ELSE 1
      BY MaxOfTwo DEF CountInv
    <2>3. eager' \in BOOLEAN /\ (~eager' => ~eager /\ told = "stopped")
      BY <2>1 DEF CountInv
    <2>4. susp' = IF susp > Max({suspend_depth, 1}) THEN susp - Max({suspend_depth, 1}) ELSE 0
      BY <2>1 DEF ResumeBy
    <2>5. susp' \in Nat
      BY <2>2, <2>4, SMTT(60), Z3T(60) DEF CountInv
    <2>6. ~eager' => susp' = Waiting + Held
      BY <1>2, <2>2, <2>3, <2>4, SMTT(60), Z3T(60) DEF CountInv
    <2>7. QED
      BY <1>1, <1>2, <2>1, <2>3, <2>5, <2>6, SMTT(60), Z3T(60) DEF CountInv
  <1>4. CASE Pause
    BY <1>1, <1>2, <1>4, SMTT(60), Z3T(60) DEF CountInv, Pause, OnStop
  <1>5. CASE Inspect
    <2>1. UNCHANGED <<suspend_depth, told, eager, susp>> /\ (handles' = "past" => handles = "past")
      BY <1>5 DEF Inspect, control, debuggee
    <2>2. QED
      BY <1>1, <1>2, <2>1 DEF CountInv
  <1>6. QED
    BY <1>3, <1>4, <1>5 DEF Continue, StepRequest

\* The steps that leave the count, the queue and the handles alone.
LEMMA CountAside ==
    ASSUME CountInv, UNCHANGED <<phase, mode, control, handles, susp, queue>>
    PROVE  CountInv'
  <1>1. (First' <=> First) /\ Waiting' = Waiting /\ Held' = Held
    BY DEF First, Waiting, StartHeld, Held, control
  <1>2. QED
    BY <1>1 DEF CountInv, control

LEMMA CountStep == QueueInv /\ CountInv /\ [Next]_vars => CountInv'
  <1> SUFFICES ASSUME QueueInv, CountInv, [Next]_vars PROVE CountInv'
    OBVIOUS
  <1>1. CASE UNCHANGED <<phase, mode, control, handles, susp, queue>>
    BY <1>1, CountAside
  <1>2. QED
    BY <1>1, StartCounts, ConfigurationCounts, ReportCounts, HandleCounts, ControlCounts
       DEF Next, DebuggeeStep, vars, debuggee, SetBreakpoints, MergeLines, AllClasses, BindLoaded,
           SetBreakpointsDone, SetExceptionBreakpoints

\* Together they hold of every state.
LEMMA Counting == Spec => [](QueueInv /\ CountInv)
  <1>1. Init => QueueInv /\ CountInv
    <2> SUFFICES ASSUME Init PROVE QueueInv /\ CountInv
      OBVIOUS
    <2>1. queue \in Seq({}) /\ Len(queue) = 0 /\ ~First /\ Waiting = 0
      BY SMTT(60), Z3T(60) DEF Init, First, Waiting
    <2>2. QueueInv
      BY <2>1, BoundAssumption, SMTT(60), Z3T(60) DEF Init, QueueInv
    <2>3. Held = 0 /\ ~vm_start_pending /\ ~eager /\ {vm_start_pending, eager} \subseteq BOOLEAN
      BY DEF Init, Held, StartHeld
    <2>4. susp = 0 /\ suspend_depth = 0 /\ phase = "new" /\ mode = "none" /\ told = "running"
      BY DEF Init
    <2>5. CountInv
      BY <2>1, <2>3, <2>4, SMTT(60), Z3T(60) DEF CountInv
    <2>6. QED
      BY <2>2, <2>5
  <1>2. QED
    BY <1>1, QueueStep, CountStep, PTL DEF Spec

\* suspend_depth counts the suspensions the session was told of, whatever is
\* under way (handle_event_set, continue_all, pause).
THEOREM SuspensionsKnown == Spec => []SuspensionsCounted
  <1>1. QueueInv /\ CountInv => SuspensionsCounted
    <2> SUFFICES ASSUME QueueInv, CountInv, ~eager PROVE
                   \/ susp = suspend_depth + Undelivered
                   \/ susp = suspend_depth + Undelivered + 1
                      /\ (phase = "ready" \/ (mode = "attach" /\ (vm_start_pending \/ StartQueued)))
      BY DEF SuspensionsCounted
    <2>1. susp = suspend_depth + Undelivered + Held /\ suspend_depth \in Nat /\ Undelivered \in Nat
      BY WaitingCounts DEF CountInv
    <2>2. CASE StartHeld
      BY <2>1, <2>2, WaitingCounts DEF Held, StartHeld
    <2>3. CASE ~StartHeld
      BY <2>1, <2>3, SMTT(60), Z3T(60) DEF Held
    <2>4. QED
      BY <2>2, <2>3
  <1>2. QED
    BY <1>1, Counting, PTL

\* The client that was told "stopped" may inspect a suspended debuggee, one
\* that was told nothing has no suspension to undo, and what is on record is
\* of the stop at hand (on_stop, handle_event_set, continue_all).
THEOREM StopsTold == Spec => []StopsAreTold
  <1>1. QueueInv /\ CountInv => StoppedIsInspectable
    <2> SUFFICES ASSUME QueueInv, CountInv, told = "stopped", ~eager PROVE susp > 0 /\ handles # "past"
      BY DEF StoppedIsInspectable
    <2>1. Held \in Nat /\ Waiting \in Nat
      BY WaitingCounts DEF Held
    <2>2. QED
      BY <2>1, SMTT(60), Z3T(60) DEF CountInv
  <1>2. QueueInv /\ CountInv => SuspensionsAreKnown
    <2> SUFFICES ASSUME QueueInv, CountInv, queue = <<>>, susp > 0, ~eager, told # "stopped"
                 PROVE  phase = "ready" \/ (mode = "attach" /\ vm_start_pending)
      BY DEF SuspensionsAreKnown
    <2>1. ~First /\ Waiting = 0
      BY DEF First, Waiting
    <2>2. Held # 0
      BY <2>1, SMTT(60), Z3T(60) DEF CountInv
    <2>3. QED
      BY <2>1, <2>2 DEF Held, StartHeld
  <1>3. QED
    BY <1>1, <1>2, Counting, ExceptionsCurrent, PTL DEF StopsAreTold

-----------------------------------------------------------------------------
(***************************************************************************)
(* How deep suspensions nest                                               *)
(***************************************************************************)
\* A debuggee that is not suspended has at most the sets of a full queue
\* against it; a suspended one reports at most once more.
DepthInv ==
    /\ burst \in BOOLEAN /\ (burst => susp > 0)
    /\ suspend_depth + Waiting <= susp + MaxQueue
    /\ susp > 0 => /\ suspend_depth + Waiting <= MaxDepth + MaxQueue + 1
                   /\ burst => suspend_depth + Waiting <= MaxDepth + MaxQueue

\* Resuming without handling anything.
LEMMA ResumeIsShallow ==
    ASSUME NEW n \in Nat, QueueInv, CountInv, DepthInv, ResumeBy(n), Waiting' = Waiting,
           suspend_depth' \in Nat, suspend_depth' <= suspend_depth,
           suspend_depth' + Waiting' <= susp' + MaxQueue
    PROVE  DepthInv'
  <1>1. susp \in Nat /\ suspend_depth \in Nat /\ Waiting \in Nat /\ {MaxDepth, MaxQueue} \subseteq Nat
    BY WaitingCounts, BoundAssumption DEF CountInv
  <1>2. susp' = (IF susp > n THEN susp - n ELSE 0) /\ burst' \in BOOLEAN /\ (burst' => burst /\ susp > n)
    BY DEF ResumeBy
  <1>3. (susp' > 0 => susp > 0) /\ (burst' => susp' > 0 /\ burst)
    BY <1>1, <1>2, SMTT(60), Z3T(60)
  <1>4. susp' > 0 => suspend_depth' + Waiting' <= MaxDepth + MaxQueue + 1
    BY <1>1, <1>3, SMTT(60), Z3T(60) DEF DepthInv
  <1>5. burst' => suspend_depth' + Waiting' <= MaxDepth + MaxQueue
    BY <1>1, <1>3, SMTT(60), Z3T(60) DEF DepthInv
  <1>6. QED
    BY <1>2, <1>3, <1>4, <1>5 DEF DepthInv

LEMMA DepthStep == QueueInv /\ QueueInv' /\ CountInv /\ CountInv' /\ DepthInv /\ [Next]_vars => DepthInv'
  <1> SUFFICES ASSUME QueueInv, QueueInv', CountInv, CountInv', DepthInv, [Next]_vars PROVE DepthInv'
    OBVIOUS
  <1>1. /\ {susp, susp', suspend_depth, suspend_depth', Waiting, MaxDepth, MaxQueue, Held} \subseteq Nat
        /\ Waiting <= MaxQueue /\ MaxDepth >= 1
    BY WaitingCounts, BoundAssumption, SMTT(60), Z3T(60) DEF CountInv, Held
  <1>2. ASSUME NEW s \in BOOLEAN, Launch(s) PROVE DepthInv'
    <2>1. susp' = 1 /\ burst' = burst /\ suspend_depth' = 0 /\ phase = "new"
      BY <1>2 DEF Launch, control, CountInv
    <2>2. Waiting' = 0
      <3> DEFINE start == <<[e |-> "start"]>>
      <3>1. queue' = <<start>> /\ start[1].e = "start"
        BY <1>2 DEF Launch
      <3> HIDE DEF start
      <3>2. QED
        BY <3>1, SMTT(60), Z3T(60) DEF First, Waiting
    <2>3. QED
      BY <1>1, <2>1, <2>2, SMTT(60), Z3T(60) DEF DepthInv
  <1>3. ASSUME NEW h \in BOOLEAN, NEW cs \in SUBSET Classes, Attach(h, cs) PROVE DepthInv'
    <2>1. burst' = burst /\ suspend_depth' = 0 /\ susp = 0
      BY <1>3 DEF Attach, control, CountInv
    <2>2. Waiting' = 0
      <3> DEFINE start == <<[e |-> "start"]>>
      <3>1. (queue' = <<start>> \/ queue' = <<>>) /\ start[1].e = "start"
        BY <1>3 DEF Attach
      <3> HIDE DEF start
      <3>2. QED
        BY <3>1, SMTT(60), Z3T(60) DEF First, Waiting
    <2>3. ~burst
      BY <1>1, <2>1, SMTT(60), Z3T(60) DEF DepthInv
    <2>4. QED
      BY <1>1, <2>1, <2>2, <2>3, SMTT(60), Z3T(60) DEF DepthInv
  <1>4. CASE ConfigurationDone
    <2>1. phase = "ready" /\ UNCHANGED <<suspend_depth, queue>> /\ (ResumeBy(1) \/ UNCHANGED <<susp, burst>>)
      BY <1>4 DEF ConfigurationDone
    <2>2. Waiting' = Waiting
      BY <2>1 DEF First, Waiting
    <2>3. CASE ResumeBy(1)
      <3>1. susp = suspend_depth + Waiting + Held
        BY <2>1 DEF CountInv
      <3>2. susp' = IF susp > 1 THEN susp - 1 ELSE 0
        BY <2>3 DEF ResumeBy
      <3>3. suspend_depth + Waiting <= susp' + MaxQueue
        BY <1>1, <3>1, <3>2, BoundAssumption, SMTT(60), Z3T(60)
      <3>4. QED
        BY <1>1, <2>1, <2>2, <2>3, <3>3, ResumeIsShallow, SMTT(60), Z3T(60)
    <2>4. QED
      BY <2>1, <2>2, <2>3, SMTT(60), Z3T(60) DEF DepthInv
  <1>5. CASE DebuggeeStep
    <2>1. (susp = 0 \/ burst) /\ suspend_depth' = suspend_depth
      BY <1>5, DebuggeeReports DEF CanReport, control
    <2>2. CASE UNCHANGED <<queue, susp, burst>>
      BY <2>1, <2>2 DEF DepthInv, First, Waiting
    <2>3. ASSUME NEW evs, EventSet(evs), evs[1].e # "start", Report(evs) PROVE DepthInv'
      <3>1. Waiting' = Waiting + 1 /\ susp' = susp + 1 /\ burst' \in BOOLEAN /\ (burst' <=> susp = 0)
        BY <2>3, WaitingGrows DEF Report
      <3>2. CASE susp = 0
        BY <1>1, <2>1, <3>1, <3>2, SMTT(60), Z3T(60) DEF DepthInv
      <3>3. CASE susp # 0
        BY <1>1, <2>1, <3>1, <3>3, SMTT(60), Z3T(60) DEF DepthInv
      <3>4. QED
        BY <3>2, <3>3
    <2>4. QED
      BY <1>5, <2>2, <2>3, DebuggeeReports
  <1>6. CASE HandleSet
    <2>1. PICK start \in BOOLEAN, stop \in BOOLEAN :
             Suspend(start, stop) /\ (start <=> First) /\ (start => ~stop) /\ queue # <<>> /\ queue' = Tail(queue)
      BY <1>6, HandledSet
    <2>2. (First => Waiting' = Waiting) /\ (~First => Waiting' = Waiting - 1)
      BY <2>1, WaitingShrinks
    <2>3. CASE start
      BY <2>1, <2>2, <2>3 DEF DepthInv, Suspend
    <2>4. CASE stop
      <3>1. suspend_depth' = suspend_depth + 1 /\ UNCHANGED <<susp, burst>> /\ Waiting' = Waiting - 1
        BY <2>1, <2>2, <2>4 DEF Suspend
      <3>2. suspend_depth' + Waiting' = suspend_depth + Waiting
        BY <1>1, <3>1, SMTT(60), Z3T(60)
      <3>3. QED
        BY <3>1, <3>2 DEF DepthInv
    <2>5. CASE ~start /\ ~stop
      <3>1. suspend_depth' = suspend_depth /\ ResumeBy(1) /\ Waiting' = Waiting - 1
        BY <2>1, <2>2, <2>5 DEF Suspend
      <3>2. susp' = (IF susp > 1 THEN susp - 1 ELSE 0) /\ burst' \in BOOLEAN /\ (burst' => burst /\ susp > 1)
        BY <3>1 DEF ResumeBy
      <3>3. suspend_depth' + Waiting' <= susp' + MaxQueue
        BY <1>1, <3>1, <3>2, SMTT(60), Z3T(60) DEF DepthInv
      <3>4. QED
        BY <1>1, <3>1, <3>2, <3>3, SMTT(60), Z3T(60) DEF DepthInv
    <2>6. QED
      BY <2>3, <2>4, <2>5
  <1>7. CASE ContinueAll /\ UNCHANGED queue
    <2>1. suspend_depth' = 0 /\ ResumeBy(Max({suspend_depth, 1})) /\ Waiting' = Waiting
      BY <1>7 DEF ContinueAll, First, Waiting
    <2>2. Max({suspend_depth, 1}) \in Nat
      BY <1>1, MaxOfTwo, SMTT(60), Z3T(60)
    <2>3. suspend_depth' <= suspend_depth /\ suspend_depth' + Waiting' <= susp' + MaxQueue
      BY <1>1, <2>1, SMTT(60), Z3T(60)
    <2>4. QED
      BY <1>1, <2>1, <2>2, <2>3, ResumeIsShallow
  <1>8. CASE Pause
    <2>1. /\ suspend_depth < MaxDepth /\ susp' = susp + 1 /\ suspend_depth' = suspend_depth + 1
          /\ burst' = burst /\ Waiting' = Waiting
      BY <1>8 DEF Pause, First, Waiting
    <2>2. QED
      BY <1>1, <2>1, SMTT(60), Z3T(60) DEF DepthInv
  <1>9. CASE UNCHANGED <<suspend_depth, susp, burst, queue>>
    BY <1>9 DEF DepthInv, First, Waiting
  <1>10. QED
    BY <1>2, <1>3, <1>4, <1>5, <1>6, <1>7, <1>8, <1>9
       DEF Next, DebuggeeStep, vars, control, debuggee, SetBreakpoints, MergeLines, AllClasses, BindLoaded,
           SetBreakpointsDone, SetExceptionBreakpoints, Continue, StepRequest, Inspect

-----------------------------------------------------------------------------
(***************************************************************************)
(* Types                                                                   *)
(***************************************************************************)
\* There is a first line.
LEMMA MinOfLines == ASSUME NEW S \in SUBSET Nat, S # {} PROVE Min(S) \in S /\ \A y \in S : Min(S) <= y
  <1> DEFINE less == {ss \in Nat \X Nat : ss[1] < ss[2]}
  <1>1. IsWellFoundedOn(less, Nat)
    BY NatLessThanWellFounded DEF OpToRel
  <1> HIDE DEF less
  <1>2. PICK x \in S : \A y \in S : ~(<<y, x>> \in less)
    BY <1>1, WFMin
  <1>3. ASSUME NEW y \in S PROVE x <= y
    <2>1. x \in Nat /\ y \in Nat
      OBVIOUS
    <2>2. y < x => <<y, x>> \in less
      BY <2>1 DEF less
    <2>3. QED
      BY <1>2, <2>1, <2>2, SMTT(60), Z3T(60)
  <1>4. QED
    BY <1>3 DEF Min

\* The line a breakpoint is bound to is one the class has code for.
LEMMA TargetHasCode ==
    ASSUME NEW c \in Classes, NEW l \in Lines, Target(c, l) # {}
    PROVE  Max(Target(c, l)) \in CodeLines[c]
  <1> DEFINE later == {x \in CodeLines[c] : x > l}
  <1>1. CodeLines[c] \in SUBSET Nat
    BY CodeAssumption
  <1>2. later \in SUBSET Nat
    BY <1>1
  <1>3. CASE l \in CodeLines[c]
    BY <1>1, <1>3, MaxOfOne, SMTT(60), Z3T(60) DEF Target
  <1>4. CASE l \notin CodeLines[c]
    <2>1. later # {} /\ Target(c, l) = {Min(later)}
      BY <1>4 DEF Target
    <2>2. Min(later) \in later
      BY <1>2, <2>1, MinOfLines
    <2>3. QED
      BY <1>1, <2>1, <2>2, MaxOfOne, SMTT(60), Z3T(60)
  <1>5. QED
    BY <1>3, <1>4

\* A line is absent, unverified, or bound where some class has code.
LineTyped(b) == \A l \in Lines : b[l] \in {Absent, Unverified}
                  \cup UNION {{Break(l, c, x) : x \in CodeLines[c]} : c \in Classes}

LEMMA BoundTyped ==
    ASSUME NEW b, NEW c \in Classes, LineTyped(b)
    PROVE  LineTyped(Bound(b, c))
  <1> SUFFICES ASSUME NEW l \in Lines
               PROVE  Bound(b, c)[l] \in {Absent, Unverified}
                        \cup UNION {{Break(l, d, x) : x \in CodeLines[d]} : d \in Classes}
    BY DEF LineTyped
  <1>1. CASE b[l] = Unverified /\ Target(c, l) # {}
    <2>1. Bound(b, c)[l] = Break(l, c, Max(Target(c, l)))
      BY <1>1 DEF Bound
    <2>2. QED
      BY <1>1, <2>1, TargetHasCode, SMTT(60), Z3T(60)
  <1>2. CASE ~(b[l] = Unverified /\ Target(c, l) # {})
    <2>1. Bound(b, c)[l] = b[l]
      BY <1>2 DEF Bound
    <2>2. QED
      BY <2>1 DEF LineTyped
  <1>3. QED
    BY <1>1, <1>2

LEMMA ArmedTyped == ASSUME NEW b, LineTyped(b) PROVE Armed(b) \subseteq Requests
  <1> SUFFICES ASSUME NEW l \in Lines, b[l] \notin {Absent, Unverified} PROVE b[l] \in Requests
    BY DEF Armed
  <1>1. PICK c \in Classes : \E x \in CodeLines[c] : b[l] = Break(l, c, x)
    BY DEF LineTyped
  <1>2. PICK x \in CodeLines[c] : b[l] = Break(l, c, x)
    BY <1>1
  <1>3. x \in UNION {CodeLines[d] : d \in Classes}
    OBVIOUS
  <1>4. QED
    BY <1>2, <1>3, SMTT(60), Z3T(60) DEF Requests

LEMMA EntryTyped == ASSUME NEW c \in Classes PROVE EntryBreaks(c) \subseteq Requests
  <1>1. CodeLines[c] \in SUBSET Nat
    BY CodeAssumption
  <1>2. CASE CodeLines[c] # {}
    <2>1. Min(CodeLines[c]) \in UNION {CodeLines[d] : d \in Classes}
      BY <1>1, <1>2, MinOfLines
    <2>2. Break(EntryLine, c, Min(CodeLines[c])) \in Requests
      BY <2>1, SMTT(60), Z3T(60) DEF Requests
    <2>3. QED
      BY <2>2 DEF EntryBreaks
  <1>3. QED
    BY <1>2 DEF EntryBreaks

\* TypeOK but for the bound on suspend_depth, with busy as the record it is.
TypeInv ==
    /\ phase \in {"new", "ready", "configured"}
    /\ {last_exception, burst} \subseteq BOOLEAN
    /\ LineTyped(bps)
    /\ sets \in 0 .. MaxSets
    /\ entry \in {"none", "wanted", "prepare", "armed"} /\ step_requests \subseteq 1 .. MaxSteps
    /\ handles \in {"none", "current", "past"} /\ told \in {"running", "stopped"}
    /\ busy \in [op : {"none", "merge", "classes", "bind"}, want : SUBSET Lines, todo : SUBSET Classes]
    /\ loaded \subseteq Classes /\ reqs \subseteq Requests

\* A set that is handled binds lines, and makes requests, in a class of the
\* file, the one whose preparation it reports.
LEMMA HandleBinds ==
    ASSUME QueueInv, HandleSet
    PROVE  \E P \in SUBSET Classes, Q \in SUBSET Classes :
             /\ bps' = IF Q = {} THEN bps ELSE Bound(bps, CHOOSE c \in Q : TRUE)
             /\ reqs' = (IF P = {} THEN reqs ELSE reqs \ {Prepare("entry")})
                        \cup (UNION {EntryBreaks(c) : c \in P}) \cup (Armed(bps') \ Armed(bps))
             /\ Q = {queue[1][k].cls : k \in {j \in DOMAIN queue[1] : queue[1][j].e = "prepare"
                                                                    /\ queue[1][j].who = "file"}}
             /\ \A c, d \in Q : c = d
  <1> DEFINE evs == {Head(queue)[i] : i \in DOMAIN Head(queue)}
             prepared(who) == {v.cls : v \in {x \in evs : x.e = "prepare" /\ x.who = who}}
             P == prepared("entry")
             Q == prepared("file")
  <1>1. /\ bps' = IF Q = {} THEN bps ELSE Bound(bps, CHOOSE c \in Q : TRUE)
        /\ reqs' = (IF P = {} THEN reqs ELSE reqs \ {Prepare("entry")})
                   \cup (UNION {EntryBreaks(c) : c \in P}) \cup (Armed(bps') \ Armed(bps))
        /\ queue # <<>>
    BY DEF HandleSet
  <1>2. PICK S : queue \in Seq(S)
    BY DEF QueueInv
  <1>3. Head(queue) = queue[1] /\ EventSet(queue[1])
    BY <1>1, <1>2, SMTT(60), Z3T(60) DEF QueueInv
  <1>4. \A w : prepared(w) \subseteq Classes /\ \A c, d \in prepared(w) : c = d
    BY <1>3, SMTT(60), Z3T(60) DEF EventSet
  <1>5. Q = {queue[1][k].cls : k \in {j \in DOMAIN queue[1] : queue[1][j].e = "prepare"
                                                            /\ queue[1][j].who = "file"}}
    BY <1>3
  <1>6. P \in SUBSET Classes /\ Q \in SUBSET Classes /\ \A c, d \in Q : c = d
    BY <1>4
  <1> HIDE DEF P, Q
  <1>7. QED
    BY <1>1, <1>5, <1>6

LEMMA HandleTyped == ASSUME QueueInv, TypeInv, HandleSet PROVE LineTyped(bps') /\ reqs' \subseteq Requests
  <1>1. PICK P \in SUBSET Classes, Q \in SUBSET Classes :
             /\ bps' = IF Q = {} THEN bps ELSE Bound(bps, CHOOSE c \in Q : TRUE)
             /\ reqs' = (IF P = {} THEN reqs ELSE reqs \ {Prepare("entry")})
                        \cup (UNION {EntryBreaks(c) : c \in P}) \cup (Armed(bps') \ Armed(bps))
    BY HandleBinds
  <1>2. LineTyped(bps')
    <2>1. CASE Q = {}
      BY <1>1, <2>1 DEF TypeInv
    <2>2. CASE Q # {}
      <3>1. (CHOOSE c \in Q : TRUE) \in Classes
        BY <2>2
      <3>2. QED
        BY <1>1, <2>2, <3>1, BoundTyped DEF TypeInv
    <2>3. QED
      BY <2>1, <2>2
  <1>3. Armed(bps') \subseteq Requests
    BY <1>2, ArmedTyped
  <1>4. UNION {EntryBreaks(c) : c \in P} \subseteq Requests
    BY EntryTyped
  <1>5. QED
    BY <1>1, <1>2, <1>3, <1>4 DEF TypeInv

\* Every step keeps the types.
LEMMA TypeStep == QueueInv /\ TypeInv /\ [Next]_vars => TypeInv'
  <1> SUFFICES ASSUME QueueInv, TypeInv, [Next]_vars PROVE TypeInv'
    OBVIOUS
  <1> USE DEF TypeInv, control, breaks, stops, debuggee
  <1>1. ASSUME NEW s \in BOOLEAN, Launch(s) PROVE TypeInv'
    BY <1>1 DEF Launch
  <1>2. ASSUME NEW h \in BOOLEAN, NEW cs \in SUBSET Classes, Attach(h, cs) PROVE TypeInv'
    BY <1>2 DEF Attach
  <1>3. CASE ConfigurationDone
    <2>1. reqs' \subseteq Requests
      BY <1>3, SMTT(60), Z3T(60) DEF ConfigurationDone, Requests
    <2>2. burst' \in BOOLEAN /\ handles' \in {"none", "current", "past"}
      BY <1>3 DEF ConfigurationDone, ResumeBy, Outlived
    <2>3. QED
      BY <1>3, <2>1, <2>2 DEF ConfigurationDone
  <1>4. ASSUME NEW want \in SUBSET Lines, SetBreakpoints(want) PROVE TypeInv'
    <2>1. Prepare("file") \in Requests
      BY SMTT(60), Z3T(60) DEF Requests
    <2>2. sets' \in 0 .. MaxSets
      BY <1>4, BoundAssumption, SMTT(60), Z3T(60) DEF SetBreakpoints
    <2>3. QED
      BY <1>4, <2>1, <2>2 DEF SetBreakpoints
  <1>5. CASE MergeLines
    <2>1. LineTyped(bps')
      BY <1>5 DEF MergeLines, LineTyped
    <2>2. QED
      BY <1>5, <2>1 DEF MergeLines
  <1>6. CASE AllClasses \/ SetBreakpointsDone
    <2>1. busy' \in [op : {"none", "merge", "classes", "bind"}, want : SUBSET Lines, todo : SUBSET Classes]
      <3>1. CASE AllClasses
        BY <3>1 DEF AllClasses
      <3>2. CASE SetBreakpointsDone
        BY <3>2 DEF SetBreakpointsDone, NotBusy
      <3>3. QED
        BY <1>6, <3>1, <3>2
    <2>2. UNCHANGED <<phase, bps, sets, stops, handles, debuggee, told>>
      BY <1>6 DEF AllClasses, SetBreakpointsDone
    <2>3. QED
      BY <2>1, <2>2
  <1>7. ASSUME NEW c \in Classes, BindLoaded(c) PROVE TypeInv'
    <2>1. LineTyped(bps')
      BY <1>7, BoundTyped DEF BindLoaded
    <2>2. Armed(bps') \subseteq Requests
      BY <2>1, ArmedTyped
    <2>3. QED
      BY <1>7, <2>1, <2>2 DEF BindLoaded
  <1>8. ASSUME NEW on \in BOOLEAN, SetExceptionBreakpoints(on) PROVE TypeInv'
    <2>1. Exception \in Requests
      BY SMTT(60), Z3T(60) DEF Requests
    <2>2. QED
      BY <1>8, <2>1 DEF SetExceptionBreakpoints
  <1>9. CASE HandleSet
    <2>1. LineTyped(bps') /\ reqs' \subseteq Requests
      BY <1>9, HandleTyped
    <2>2. entry' \in {"none", "wanted", "prepare", "armed"} /\ step_requests' \subseteq step_requests
      BY <1>9 DEF HandleSet
    <2>3. {last_exception', burst'} \subseteq BOOLEAN
      BY <1>9 DEF HandleSet, Suspend, ResumeBy
    <2>4. handles' \in {"none", "current", "past"} /\ told' \in {"running", "stopped"}
      BY <1>9 DEF HandleSet, OnStop, Outlived
    <2>5. UNCHANGED <<phase, sets, busy, loaded>>
      BY <1>9 DEF HandleSet
    <2>6. QED
      BY <2>1, <2>2, <2>3, <2>4, <2>5
  <1>10. CASE Continue \/ Pause \/ Inspect
    BY <1>10 DEF Continue, Pause, Inspect, ContinueAll, OnStop, ResumeBy
  <1>11. ASSUME NEW n \in 1 .. MaxSteps, StepRequest(n) PROVE TypeInv'
    <2>1. Step(n) \in Requests
      BY SMTT(60), Z3T(60) DEF Requests
    <2>2. QED
      BY <1>11, <2>1 DEF StepRequest, ContinueAll, ResumeBy
  <1>12. CASE DebuggeeStep
    <2>1. /\ UNCHANGED <<phase, control, breaks, stops, handles>> /\ burst' \in BOOLEAN
      BY <1>12, DebuggeeReports DEF Report
    <2>2. loaded' \subseteq Classes /\ reqs' \subseteq reqs
      BY <1>12 DEF DebuggeeStep, LoadClass, ReachLine, StepCompletes, Throw
    <2>3. QED
      BY <2>1, <2>2
  <1>13. CASE UNCHANGED vars
    BY <1>13 DEF vars
  <1>14. QED
    BY <1>1, <1>2, <1>3, <1>4, <1>5, <1>6, <1>7, <1>8, <1>9, <1>10, <1>11, <1>12, <1>13 DEF Next, DebuggeeStep

\* The session's state is well typed, and suspend_depth bounded by what the
\* client asks for and what is in flight, even for a client that resumes what
\* it was not told is stopped (handle_event_set, continue_all, pause).
THEOREM Typed == Spec => []TypeOK
  <1>1. Init => DepthInv /\ TypeInv
    <2> SUFFICES ASSUME Init PROVE DepthInv /\ TypeInv
      OBVIOUS
    <2>1. suspend_depth = 0 /\ susp = 0 /\ Waiting = 0
      BY DEF Init, First, Waiting
    <2>2. burst \in BOOLEAN /\ ~burst
      BY DEF Init
    <2>3. DepthInv
      BY <2>1, <2>2, BoundAssumption, SMTT(60), Z3T(60) DEF DepthInv
    <2>4. sets \in 0 .. MaxSets
      BY BoundAssumption, SMTT(60), Z3T(60) DEF Init
    <2>5. LineTyped(bps)
      BY DEF Init, LineTyped
    <2>6. TypeInv
      BY <2>4, <2>5 DEF Init, TypeInv, NotBusy
    <2>7. QED
      BY <2>3, <2>6
  <1>2. QueueInv /\ CountInv /\ DepthInv /\ TypeInv => TypeOK
    <2> SUFFICES ASSUME QueueInv, CountInv, DepthInv, TypeInv PROVE TypeOK
      OBVIOUS
    <2>1. suspend_depth \in Nat /\ susp \in Nat /\ Waiting \in Nat /\ {MaxDepth, MaxQueue} \subseteq Nat
      BY WaitingCounts, BoundAssumption DEF CountInv
    <2>2. suspend_depth \in 0 .. MaxDepth + MaxQueue + 1
      BY <2>1, SMTT(60), Z3T(60) DEF DepthInv
    <2>3. busy.op \in {"none", "merge", "classes", "bind"} /\ busy.want \subseteq Lines /\ busy.todo \subseteq Classes
      BY DEF TypeInv
    <2>4. {vm_start_pending, last_exception, eager, burst} \subseteq BOOLEAN
      BY DEF TypeInv, CountInv
    <2>5. QED
      BY <2>1, <2>2, <2>3, <2>4 DEF TypeOK, TypeInv, CountInv, LineTyped
  <1>3. QED
    BY <1>1, <1>2, Counting, DepthStep, TypeStep, PTL DEF Spec

-----------------------------------------------------------------------------
(***************************************************************************)
(* Lines and loaded classes                                                *)
(***************************************************************************)
\* The report of c's preparation to the file is under way.
Pending(c) ==
    \E i \in 1 .. Len(queue) : \E k \in DOMAIN queue[i] :
        queue[i][k].e = "prepare" /\ queue[i][k].who = "file" /\ queue[i][k].cls = c

\* From the first setBreakpoints on every class is reported.  A line that is
\* not bound has no code in a loaded class, but for the classes the request at
\* hand has yet to bind in and those whose report is under way.
LoadedInv ==
    /\ phase = "new" => sets = 0
    /\ sets > 0 => Prepare("file") \in reqs
    /\ sets = 0 => busy.op = "none" /\ \A l \in Lines : bps[l] = Absent
    /\ busy.op # "bind" => busy.todo = {}
    /\ busy.op \in {"none", "bind"} =>
         \A l \in Lines, c \in loaded \ busy.todo : bps[l] = Unverified /\ Target(c, l) # {} => Pending(c)

\* A line nobody asked for is not a line that waits for its class.
LEMMA AbsentIsNotUnverified == Absent # Unverified
  BY SMTT(60), Z3T(60) DEF Absent, Unverified

\* Binding in c leaves only lines without code there.
LEMMA BoundCovers ==
    ASSUME NEW b, NEW c, NEW l \in Lines, Bound(b, c)[l] = Unverified
    PROVE  b[l] = Unverified /\ Target(c, l) = {}
  <1>1. \A w, d, x : Break(w, d, x) # Unverified
    BY BreakIsBreak
  <1>2. QED
    BY <1>1 DEF Bound

\* A report stays under way until it is handled.
LEMMA PendingGrows ==
    ASSUME QueueInv, NEW evs, queue' = Append(queue, evs)
    PROVE  /\ \A c : Pending(c) => Pending(c)'
           /\ \A c : (\E k \in DOMAIN evs : evs[k].e = "prepare" /\ evs[k].who = "file" /\ evs[k].cls = c) => Pending(c)'
  <1>1. PICK S : queue \in Seq(S)
    BY DEF QueueInv
  <1>2. /\ Len(queue') = Len(queue) + 1 /\ Len(queue) \in Nat
        /\ \A k \in 1 .. Len(queue) : queue'[k] = queue[k]
        /\ queue'[Len(queue) + 1] = evs
    BY <1>1, Queued, SMTT(60), Z3T(60)
  <1>3. 1 .. Len(queue) \subseteq 1 .. Len(queue') /\ Len(queue) + 1 \in 1 .. Len(queue')
    BY <1>2, OneMoreIndex
  <1>4. \A c : Pending(c) => Pending(c)'
    BY <1>2, <1>3, SMTT(60), Z3T(60) DEF Pending
  <1>5. \A c : (\E k \in DOMAIN evs : evs[k].e = "prepare" /\ evs[k].who = "file" /\ evs[k].cls = c) => Pending(c)'
    BY <1>2, <1>3 DEF Pending
  <1>6. QED
    BY <1>4, <1>5

LEMMA PendingShrinks ==
    ASSUME QueueInv, queue # <<>>, queue' = Tail(queue), NEW c, Pending(c)
    PROVE  Pending(c)' \/ c \in {queue[1][k].cls : k \in {j \in DOMAIN queue[1] : queue[1][j].e = "prepare"
                                                                             /\ queue[1][j].who = "file"}}
  <1>1. PICK S : queue \in Seq(S)
    BY DEF QueueInv
  <1>2. /\ Len(queue') = Len(queue) - 1 /\ Len(queue) \in Nat \ {0}
        /\ \A k \in 1 .. Len(queue) - 1 : queue'[k] = queue[k + 1]
    BY <1>1, Dequeued
  <1>3. PICK i \in 1 .. Len(queue) : \E k \in DOMAIN queue[i] :
           queue[i][k].e = "prepare" /\ queue[i][k].who = "file" /\ queue[i][k].cls = c
    BY DEF Pending
  <1>4. CASE i = 1
    BY <1>3, <1>4
  <1>5. CASE i # 1
    <2>1. i - 1 \in 1 .. Len(queue') /\ queue'[i - 1] = queue[i]
      BY <1>2, <1>5, SMTT(60), Z3T(60)
    <2>2. QED
      BY <1>3, <2>1 DEF Pending
  <1>6. QED
    BY <1>4, <1>5

\* setBreakpoints lists the loaded classes after it has registered.
LEMMA RequestCovers ==
    ASSUME TypeInv, OwnRequest(bps), OwnRequest(bps'), LoadedInv,
           \/ \E want \in SUBSET Lines : SetBreakpoints(want)
           \/ MergeLines \/ AllClasses \/ (\E c \in Classes : BindLoaded(c)) \/ SetBreakpointsDone
    PROVE  LoadedInv'
  <1>1. UNCHANGED <<phase, loaded, queue>> /\ phase # "new" /\ \A c : Pending(c)' <=> Pending(c)
    <2>1. UNCHANGED <<phase, loaded, queue>>
      BY DEF SetBreakpoints, MergeLines, AllClasses, BindLoaded, SetBreakpointsDone, debuggee
    <2>2. phase # "new"
      BY DEF SetBreakpoints, MergeLines, AllClasses, BindLoaded, SetBreakpointsDone, LoadedInv, Connected
    <2>3. QED
      BY <2>1, <2>2 DEF Pending
  <1>2. sets \in Nat /\ busy \in [op : {"none", "merge", "classes", "bind"}, want : SUBSET Lines, todo : SUBSET Classes]
    BY SetsAreCounted DEF TypeInv
  <1>3. \A l \in Lines : bps[l] # Prepare("file") /\ bps'[l] # Prepare("file")
    BY SMTT(60), Z3T(60) DEF OwnRequest, Prepare, Absent, Unverified
  <1>4. ASSUME NEW want \in SUBSET Lines, SetBreakpoints(want) PROVE LoadedInv'
    <2>1. /\ sets' = sets + 1 /\ Prepare("file") \in reqs'
          /\ busy' = [op |-> "merge", want |-> want, todo |-> {}]
      BY <1>4 DEF SetBreakpoints, LoadedInv
    <2>2. busy'.op = "merge" /\ busy'.todo = {}
      BY <2>1
    <2>3. sets' # 0
      BY <1>2, <2>1, SMTT(60), Z3T(60)
    <2>4. QED
      BY <1>1, <2>1, <2>2, <2>3 DEF LoadedInv
  <1>5. CASE MergeLines
    <2>1. busy'.op = "classes" /\ busy'.todo = {} /\ sets' = sets /\ sets # 0
      BY <1>2, <1>5 DEF MergeLines, LoadedInv
    <2>2. Prepare("file") \in reqs => Prepare("file") \in reqs'
      BY <1>3, <1>5 DEF MergeLines
    <2>3. QED
      BY <1>1, <2>1, <2>2 DEF LoadedInv
  <1>6. CASE AllClasses
    <2>1. busy'.op = "bind" /\ busy'.todo = loaded /\ sets' = sets /\ sets # 0 /\ reqs' = reqs
      BY <1>2, <1>6 DEF AllClasses, LoadedInv, debuggee
    <2>2. QED
      BY <1>1, <2>1 DEF LoadedInv
  <1>7. ASSUME NEW c \in Classes, BindLoaded(c) PROVE LoadedInv'
    <2>1. /\ busy.op = "bind" /\ busy'.op = "bind" /\ busy'.todo = busy.todo \ {c} /\ sets' = sets /\ sets # 0
          /\ reqs \subseteq reqs' /\ bps' = Bound(bps, c)
      BY <1>2, <1>7 DEF BindLoaded, LoadedInv
    <2>2. ASSUME NEW l \in Lines, NEW d \in loaded \ busy'.todo, bps'[l] = Unverified, Target(d, l) # {}
          PROVE  Pending(d)
      <3>1. bps[l] = Unverified /\ Target(c, l) = {}
        BY <2>1, <2>2, BoundCovers
      <3>2. d # c /\ d \in loaded \ busy.todo
        BY <2>1, <2>2, <3>1
      <3>3. QED
        BY <2>1, <2>2, <3>1, <3>2 DEF LoadedInv
    <2>3. QED
      BY <1>1, <2>1, <2>2 DEF LoadedInv
  <1>8. CASE SetBreakpointsDone
    <2>1. /\ busy.op = "bind" /\ busy'.op = "none" /\ busy'.todo = {} /\ busy.todo = {} /\ sets' = sets /\ sets # 0
          /\ reqs' = reqs /\ bps' = bps
      BY <1>2, <1>8 DEF SetBreakpointsDone, NotBusy, LoadedInv, debuggee
    <2>2. QED
      BY <1>1, <2>1 DEF LoadedInv
  <1>9. QED
    BY <1>4, <1>5, <1>6, <1>7, <1>8

\* A class that is loaded is reported, or no line is asked for.
LEMMA LoadCovers == ASSUME QueueInv, TypeInv, LoadedInv, NEW c \in Classes, LoadClass(c) PROVE LoadedInv'
  <1> DEFINE entries == IF Prepare("entry") \in reqs /\ c = MainClass
                        THEN <<[e |-> "prepare", who |-> "entry", cls |-> c]>> ELSE <<>>
             file == [e |-> "prepare", who |-> "file", cls |-> c]
             files == IF Prepare("file") \in reqs THEN <<file>> ELSE <<>>
  <1>1. /\ loaded' = loaded \cup {c} /\ UNCHANGED <<phase, sets, busy, bps, reqs>>
        /\ IF entries \o files = <<>> THEN UNCHANGED queue ELSE queue' = Append(queue, entries \o files)
    BY DEF LoadClass, Report, breaks
  <1>2. CASE sets = 0
    <2>1. ~ (sets > 0) /\ ~ (sets' > 0) /\ sets' = 0
      BY <1>1, <1>2, SMTT(60), Z3T(60)
    <2>2. \A l \in Lines : bps[l] = Absent /\ bps'[l] = Absent
      BY <1>1, <1>2 DEF LoadedInv
    <2>3. QED
      BY <1>1, <1>2, <2>1, <2>2, AbsentIsNotUnverified DEF LoadedInv
  <1>3. CASE sets # 0
    <2>1. Prepare("file") \in reqs
      BY <1>3, SetsAreCounted DEF LoadedInv, TypeInv
    <2>2. /\ entries \o files # <<>>
          /\ \E k \in DOMAIN (entries \o files) : (entries \o files)[k] = file
      <3> DEFINE first == [e |-> "prepare", who |-> "entry", cls |-> c]
      <3> HIDE DEF first, file
      <3>1. entries \in Seq({first, file}) /\ files = <<file>> /\ files \in Seq({first, file})
        <4>1. (entries = <<>> \/ entries = <<first>>) /\ files = <<file>>
          BY <2>1 DEF first
        <4> HIDE DEF entries, files
        <4>2. <<>> \in Seq({first, file}) /\ <<first>> \in Seq({first, file}) /\ <<file>> \in Seq({first, file})
          BY SMTT(60), Z3T(60)
        <4>3. QED
          BY <4>1, <4>2
      <3> HIDE DEF entries, files
      <3>2. /\ entries \o files \in Seq({first, file}) /\ Len(entries) \in Nat
            /\ Len(entries \o files) = Len(entries) + 1
            /\ (entries \o files)[Len(entries) + 1] = file
        BY <3>1, SMTT(60), Z3T(60)
      <3>3. QED
        BY <3>2, SMTT(60), Z3T(60)
    <2>3. file.e = "prepare" /\ file.who = "file" /\ file.cls = c
      OBVIOUS
    <2> HIDE DEF entries, files, file
    <2>4. Pending(c)' /\ \A d : Pending(d) => Pending(d)'
      BY <1>1, <2>2, <2>3, PendingGrows
    <2>5. QED
      BY <1>1, <1>3, <2>4 DEF LoadedInv
  <1>4. QED
    BY <1>2, <1>3

\* The report of a class binds the lines in it.
LEMMA HandleCovers == ASSUME QueueInv, TypeInv, LoadedInv, OwnRequest(bps'), HandleSet PROVE LoadedInv'
  <1>1. PICK P \in SUBSET Classes, Q \in SUBSET Classes :
             /\ bps' = IF Q = {} THEN bps ELSE Bound(bps, CHOOSE c \in Q : TRUE)
             /\ reqs' = (IF P = {} THEN reqs ELSE reqs \ {Prepare("entry")})
                        \cup (UNION {EntryBreaks(c) : c \in P}) \cup (Armed(bps') \ Armed(bps))
             /\ Q = {queue[1][k].cls : k \in {j \in DOMAIN queue[1] : queue[1][j].e = "prepare"
                                                                    /\ queue[1][j].who = "file"}}
             /\ \A c, d \in Q : c = d
    BY HandleBinds
  <1>2. UNCHANGED <<phase, sets, busy, loaded>> /\ busy.op = "none" /\ queue # <<>> /\ queue' = Tail(queue)
    BY DEF HandleSet, Idle
  <1>3. Prepare("file") \in reqs => Prepare("file") \in reqs'
    BY <1>1 DEF Prepare
  <1>4. \A l \in Lines : bps'[l] = Unverified => bps[l] = Unverified /\ \A c \in Q : Target(c, l) = {}
    <2>1. CASE Q = {}
      BY <1>1, <2>1
    <2>2. CASE Q # {}
      <3>1. PICK c \in Q : bps' = Bound(bps, c)
        BY <1>1, <2>2
      <3>2. QED
        BY <1>1, <3>1, BoundCovers
    <2>3. QED
      BY <2>1, <2>2
  <1>5. sets = 0 => \A l \in Lines : bps'[l] = Absent
    <2> SUFFICES ASSUME sets = 0, NEW l \in Lines PROVE bps'[l] = Absent
      OBVIOUS
    <2>1. bps[l] = Absent /\ Absent # Unverified
      BY DEF LoadedInv, Absent, Unverified
    <2>2. QED
      BY <1>1, <2>1 DEF Bound
  <1>6. ASSUME NEW l \in Lines, NEW c \in loaded, bps'[l] = Unverified, Target(c, l) # {} PROVE Pending(c)'
    <2>1. bps[l] = Unverified /\ c \notin Q
      BY <1>4, <1>6
    <2>2. busy.todo = {}
      BY <1>2 DEF LoadedInv
    <2>3. Pending(c)
      BY <1>2, <1>6, <2>1, <2>2 DEF LoadedInv
    <2>4. QED
      BY <1>1, <1>2, <2>1, <2>3, PendingShrinks
  <1>7. QED
    BY <1>2, <1>3, <1>5, <1>6 DEF LoadedInv

\* Every step keeps lines and loaded classes together.
LEMMA LoadedStep == QueueInv /\ TypeInv /\ ArmedInv /\ ArmedInv' /\ LoadedInv /\ [Next]_vars => LoadedInv'
  <1> SUFFICES ASSUME QueueInv, TypeInv, ArmedInv, ArmedInv', LoadedInv, [Next]_vars PROVE LoadedInv'
    OBVIOUS
  <1>1. OwnRequest(bps) /\ OwnRequest(bps')
    BY DEF ArmedInv
  <1>2. ASSUME NEW s \in BOOLEAN, Launch(s) PROVE LoadedInv'
    <2>1. sets = 0 /\ UNCHANGED <<bps, sets, busy, loaded, reqs>> /\ phase' # "new" /\ Absent # Unverified
      BY <1>2 DEF Launch, breaks, LoadedInv, Absent, Unverified
    <2>2. QED
      BY <2>1 DEF LoadedInv
  <1>3. ASSUME NEW h \in BOOLEAN, NEW cs \in SUBSET Classes, Attach(h, cs) PROVE LoadedInv'
    <2>1. sets = 0 /\ UNCHANGED <<bps, sets, busy, reqs>> /\ phase' # "new" /\ Absent # Unverified
      BY <1>3 DEF Attach, breaks, LoadedInv, Absent, Unverified
    <2>2. QED
      BY <2>1 DEF LoadedInv
  <1>4. ASSUME UNCHANGED <<bps, sets, busy, loaded>>, phase' = "new" => phase = "new",
               Prepare("file") \in reqs => Prepare("file") \in reqs', \A c : Pending(c) => Pending(c)'
        PROVE  LoadedInv'
    BY <1>4 DEF LoadedInv
  <1>5. CASE \/ ConfigurationDone \/ Continue \/ Pause \/ Inspect
             \/ (\E on \in BOOLEAN : SetExceptionBreakpoints(on)) \/ (\E n \in 1 .. MaxSteps : StepRequest(n))
    <2>1. UNCHANGED <<bps, sets, busy, loaded, queue>> /\ (phase' = "new" => phase = "new")
      BY <1>5 DEF ConfigurationDone, Continue, Pause, Inspect, SetExceptionBreakpoints, StepRequest, breaks, debuggee
    <2>2. Prepare("file") \in reqs => Prepare("file") \in reqs'
      BY <1>5 DEF ConfigurationDone, Continue, Pause, Inspect, SetExceptionBreakpoints, StepRequest, debuggee,
                  Prepare, Exception
    <2>3. \A c : Pending(c) => Pending(c)'
      BY <2>1 DEF Pending
    <2>4. QED
      BY <1>4, <2>1, <2>2, <2>3
  <1>6. CASE /\ DebuggeeStep /\ ~\E c \in Classes : LoadClass(c)
    <2>1. UNCHANGED <<bps, sets, busy, phase>>
      BY <1>6, DebuggeeReports DEF breaks
    <2>2. loaded' = loaded /\ (Prepare("file") \in reqs => Prepare("file") \in reqs')
      BY <1>6 DEF DebuggeeStep, ReachLine, StepCompletes, Throw, Prepare, Step
    <2>3. \A c : Pending(c) => Pending(c)'
      <3>1. CASE UNCHANGED queue
        BY <3>1 DEF Pending
      <3>2. ASSUME NEW evs, Report(evs) PROVE \A c : Pending(c) => Pending(c)'
        BY <3>2, PendingGrows DEF Report
      <3>3. QED
        BY <1>6, <3>1, <3>2, DebuggeeReports
    <2>4. QED
      BY <1>4, <2>1, <2>2, <2>3
  <1>7. CASE UNCHANGED vars
    <2>1. UNCHANGED <<bps, sets, busy, loaded, queue, phase, reqs>>
      BY <1>7 DEF vars, breaks, debuggee
    <2>2. \A c : Pending(c) => Pending(c)'
      BY <2>1 DEF Pending
    <2>3. QED
      BY <1>4, <2>1, <2>2
  <1>8. QED
    BY <1>1, <1>2, <1>3, <1>5, <1>6, <1>7, RequestCovers, LoadCovers, HandleCovers DEF Next, DebuggeeStep

\* No class slips between the registration of its report and the list of
\* loaded classes: no line asked for stays unverified beside a loaded class
\* that has code for it, unless the report of that class is under way.  Which
\* class a line is bound in is not said: bind_lines_in_class skips a line that
\* is verified, so it is bound in one (setBreakpoints, handle_event_set).
THEOREM LoadedLines == Spec => []LoadedLinesBound
  <1>1. Init => LoadedInv /\ TypeInv
    <2> SUFFICES ASSUME Init PROVE LoadedInv /\ TypeInv
      OBVIOUS
    <2>1. LoadedInv
      BY SMTT(60), Z3T(60) DEF Init, LoadedInv, NotBusy, Absent, Unverified
    <2>2. sets \in 0 .. MaxSets
      BY BoundAssumption, SMTT(60), Z3T(60) DEF Init
    <2>3. LineTyped(bps)
      BY DEF Init, LineTyped
    <2>4. TypeInv
      BY <2>2, <2>3 DEF Init, TypeInv, NotBusy
    <2>5. QED
      BY <2>1, <2>4
  <1>2. QueueInv /\ LoadedInv => LoadedLinesBound
    <2> SUFFICES ASSUME QueueInv, LoadedInv, busy.op = "none", NEW l \in Lines, NEW c \in loaded,
                        bps[l] = Unverified, Target(c, l) # {}
                 PROVE  \E i \in DOMAIN queue : \E k \in DOMAIN queue[i] :
                          queue[i][k].e = "prepare" /\ queue[i][k].cls = c
      BY DEF LoadedLinesBound, Idle
    <2>1. Pending(c)
      BY DEF LoadedInv
    <2>2. DOMAIN queue = 1 .. Len(queue)
      BY SMTT(60), Z3T(60) DEF QueueInv
    <2>3. QED
      BY <2>1, <2>2 DEF Pending
  <1>3. QED
    BY <1>1, <1>2, Counting, TypeStep, BreakpointsAgree, LoadedStep, PTL DEF Spec

-----------------------------------------------------------------------------
(***************************************************************************)
(* The end of a session (DebugTermination)                                 *)
(***************************************************************************)
\* What a sequence is after one has been appended or taken.
LEMMA Sequenced ==
    ASSUME NEW S, NEW s \in Seq(S)
    PROVE  /\ \A e \in S : Append(s, e) \in Seq(S) /\ Len(Append(s, e)) = Len(s) + 1
           /\ s # <<>> => Tail(s) \in Seq(S) /\ Len(Tail(s)) = Len(s) - 1 /\ Head(s) \in S
           /\ \A t \in Seq(S) : s \o t \in Seq(S)
           /\ Len(s) \in Nat
  BY SMTT(60), Z3T(60)

\* A message that is posted is one of those the loop knows, and finds room.
LEMMA Posted == ASSUME EndTypeOK, NEW m \in Messages, Post(m) PROVE inbox' \in Seq(Messages) /\ Len(inbox') <= InboxCap
  BY Sequenced, InboxAssumption, SMTT(60), Z3T(60) DEF EndTypeOK, Post

\* A message that is taken leaves room.
LEMMA Taken == ASSUME EndTypeOK, NEW m, Take(m) PROVE inbox' \in Seq(Messages) /\ Len(inbox') <= InboxCap
  BY Sequenced, InboxAssumption, SMTT(60), Z3T(60) DEF EndTypeOK, Take

\* The handlers keep the types.
LEMMA EndHandleTypes == EndTypeOK /\ Handle => EndTypeOK'
  <1> SUFFICES ASSUME EndTypeOK, Handle PROVE EndTypeOK'
    OBVIOUS
  <1> USE Taken DEF child, scratch, client, process, Fired, Backstop
  <1>1. ASSUME NEW c \in BOOLEAN, StartLaunch(c) PROVE EndTypeOK'
    <2>1. launches' \in Nat /\ scratch_dir' \in Nat /\ dirs' \subseteq Nat
      BY <1>1, SMTT(60), Z3T(60) DEF StartLaunch, EndTypeOK
    <2>2. QED
      BY <1>1, <2>1 DEF StartLaunch, EndTypeOK, Awaits
  <1>2. CASE StartAttach
    BY <1>2, SMTT(60), Z3T(60) DEF StartAttach, EndTypeOK, Awaits
  <1>3. CASE Refuse
    BY <1>3, SMTT(60), Z3T(60) DEF Refuse, EndTypeOK
  <1>4. CASE Terminate
    BY <1>4, SMTT(60), Z3T(60) DEF Terminate, EndTypeOK
  <1>5. CASE Disconnect
    BY <1>5, SMTT(60), Z3T(60) DEF Disconnect, Cleanup, EndTypeOK
  <1>6. CASE Dispose
    <2>1. vm' \in BOOLEAN
      BY <1>6 DEF Dispose
    <2>2. awaiting' \in Awaits /\ life' \in {"live", "cleanup", "exited"} /\ child_kill' \in {"none", "held", "fired"}
      BY <1>6, SMTT(60), Z3T(60) DEF Dispose, Cleanup, EndTypeOK, Awaits
    <2>3. QED
      BY <1>6, <2>1, <2>2, SMTT(60), Z3T(60) DEF Dispose, EndTypeOK
  <1>7. CASE StdinClosed
    BY <1>7, SMTT(60), Z3T(60) DEF StdinClosed, Cleanup, EndTypeOK
  <1>8. CASE Command
    BY <1>8, SMTT(60), Z3T(60) DEF Command, EndTypeOK, Awaits
  <1>9. ASSUME NEW e \in {"junk", "death"}, JdwpEvent(e) PROVE EndTypeOK'
    BY <1>9, SMTT(60), Z3T(60) DEF JdwpEvent, EndTypeOK
  <1>10. CASE JdwpClosed
    <2>1. vm' \in BOOLEAN /\ terminated_sent' \in BOOLEAN
      BY <1>10 DEF JdwpClosed
    <2>2. QED
      BY <1>10, <2>1, SMTT(60), Z3T(60) DEF JdwpClosed, EndTypeOK
  <1>11. CASE ChildExit
    <2>1. child_alive' \in BOOLEAN /\ terminated_sent' \in BOOLEAN
      BY <1>11 DEF ChildExit
    <2>2. QED
      BY <1>11, <2>1, SMTT(60), Z3T(60) DEF ChildExit, EndTypeOK
  <1>12. CASE KillDeadline
    BY <1>12, SMTT(60), Z3T(60) DEF KillDeadline, EndTypeOK
  <1>13. QED
    BY <1>1, <1>2, <1>3, <1>4, <1>5, <1>6, <1>7, <1>8, <1>9, <1>10, <1>11, <1>12 DEF Handle

\* So does a handler that goes on, or gives up.
LEMMA EndResumeTypes == EndTypeOK /\ (Resume \/ ConnectFails) => EndTypeOK'
  <1> SUFFICES ASSUME EndTypeOK, Resume \/ ConnectFails PROVE EndTypeOK'
    OBVIOUS
  <1> USE DEF child, scratch, client, process, Awaits
  <1>1. CASE StartVm
    <2>1. vm' \in BOOLEAN /\ child_alive' \in BOOLEAN
      BY <1>1 DEF StartVm, EndTypeOK
    <2>2. QED
      BY <1>1, <2>1, SMTT(60), Z3T(60) DEF StartVm, EndTypeOK
  <1>2. CASE Disposed
    BY <1>2, SMTT(60), Z3T(60) DEF Disposed, Cleanup, Fired, EndTypeOK
  <1>3. CASE Commanded
    BY <1>3, SMTT(60), Z3T(60) DEF Commanded, EndTypeOK
  <1>4. CASE ConnectFails
    <2>1. link' \in Seq(Events)
      BY <1>4, SMTT(60), Z3T(60) DEF ConnectFails
    <2>2. deaf' \in BOOLEAN
      BY <1>4 DEF ConnectFails
    <2>3. QED
      BY <1>4, <2>1, <2>2, SMTT(60), Z3T(60) DEF ConnectFails, EndTypeOK
  <1>5. QED
    BY <1>1, <1>2, <1>3, <1>4 DEF Resume

\* Every step keeps the types.
LEMMA EndTypeStep == EndTypeOK /\ [EndNext]_endVars => EndTypeOK'
  <1> SUFFICES ASSUME EndTypeOK, [EndNext]_endVars PROVE EndTypeOK'
    OBVIOUS
  <1> USE InboxAssumption DEF child, scratch, client, process
  <1>1. ASSUME NEW r \in ClientRequests, Request(r) PROVE EndTypeOK'
    <2>1. inbox' \in Seq(Messages) /\ Len(inbox') <= InboxCap
      BY <1>1, Posted DEF Request, Messages
    <2>2. requests' \in 0 .. MaxRequests /\ stdin' \in {"open", "closed"}
      BY <1>1, SMTT(60), Z3T(60) DEF Request, EndTypeOK, ClientRequests
    <2>3. QED
      BY <1>1, <2>1, <2>2, SMTT(60), Z3T(60) DEF Request, EndTypeOK
  <1>2. CASE PumpForward
    <2>1. link' \in Seq(Events) /\ Head(link) \in Messages
      BY <1>2, Sequenced DEF PumpForward, EndTypeOK, Messages
    <2>2. inbox' \in Seq(Messages) /\ Len(inbox') <= InboxCap
      BY <1>2, <2>1, Posted DEF PumpForward
    <2>3. QED
      BY <1>2, <2>1, <2>2, SMTT(60), Z3T(60) DEF PumpForward, EndTypeOK
  <1>3. CASE ChildWait
    BY <1>3, SMTT(60), Z3T(60) DEF ChildWait, EndTypeOK
  <1>4. CASE ChildReport
    <2>1. inbox' \in Seq(Messages) /\ Len(inbox') <= InboxCap
      BY <1>4, Posted DEF ChildReport, Messages
    <2>2. QED
      BY <1>4, <2>1, SMTT(60), Z3T(60) DEF ChildReport, EndTypeOK
  <1>5. CASE TimerElapses
    <2>1. inbox' \in Seq(Messages) /\ Len(inbox') <= InboxCap
      BY <1>5, Posted DEF TimerElapses, Messages
    <2>2. QED
      BY <1>5, <2>1, SMTT(60), Z3T(60) DEF TimerElapses, EndTypeOK
  <1>6. CASE Handle
    BY <1>6, EndHandleTypes
  <1>7. CASE Resume \/ ConnectFails
    BY <1>7, EndResumeTypes
  <1>8. CASE Exit
    <2>1. scratch_dir' \in Nat /\ dirs' \subseteq Nat
      BY <1>8, SMTT(60), Z3T(60) DEF Exit, EndTypeOK
    <2>2. QED
      BY <1>8, <2>1, SMTT(60), Z3T(60) DEF Exit, EndTypeOK
  <1>9. ASSUME NEW e \in {"stop", "junk"}, Emit(e) PROVE EndTypeOK'
    <2>1. link' \in Seq(Events)
      BY <1>9, Sequenced DEF Emit, EndTypeOK, Events
    <2>2. QED
      BY <1>9, <2>1, SMTT(60), Z3T(60) DEF Emit, EndTypeOK
  <1>10. CASE Freeze
    <2>1. deaf' \in BOOLEAN
      BY <1>10 DEF Freeze
    <2>2. QED
      BY <1>10, <2>1, SMTT(60), Z3T(60) DEF Freeze, EndTypeOK
  <1>11. ASSUME NEW a \in BOOLEAN, Die(a) PROVE EndTypeOK'
    <2>1. <<"death">> \in Seq(Events) /\ <<"closed">> \in Seq(Events) /\ <<>> \in Seq(Events)
      BY SMTT(60), Z3T(60) DEF Events
    <2>2. link' \in Seq(Events)
      BY <1>11, <2>1, Sequenced DEF Die, EndTypeOK
    <2>3. QED
      BY <1>11, <2>2, SMTT(60), Z3T(60) DEF Die, EndTypeOK
  <1>12. CASE UNCHANGED endVars
    BY <1>12, SMTT(60), Z3T(60) DEF endVars, EndTypeOK
  <1>13. QED
    BY <1>1, <1>2, <1>3, <1>4, <1>5, <1>6, <1>7, <1>8, <1>9, <1>10, <1>11, <1>12 DEF EndNext

\* Type correctness for any capacity and any bounds; the inbox never exceeds
\* its capacity, whoever posts (run_stdio_adapter).
THEOREM EndTyping == EndSpec => []EndTypeOK
  <1>1. EndInit => EndTypeOK
    <2> SUFFICES ASSUME EndInit PROVE EndTypeOK
      OBVIOUS
    <2>1. vm \in BOOLEAN /\ terminated_sent \in BOOLEAN /\ child_alive \in BOOLEAN /\ deaf \in BOOLEAN
      BY DEF EndInit
    <2>2. inbox \in Seq(Messages) /\ Len(inbox) = 0 /\ link \in Seq(Events)
      BY SMTT(60), Z3T(60) DEF EndInit
    <2>3. QED
      BY <2>1, <2>2, InboxAssumption, SMTT(60), Z3T(60) DEF EndInit, EndTypeOK, Awaits
  <1>2. QED
    BY <1>1, EndTypeStep, PTL DEF EndSpec

-----------------------------------------------------------------------------
(***************************************************************************)
(* What is left behind                                                     *)
(***************************************************************************)
Starts == {"launch", "attach"}

\* A request to start is alone with a session that has not started; an exit is
\* in the inbox only once its child is reaped; only a live loop awaits.
InboxInv ==
    /\ \A i \in 1 .. Len(inbox) : inbox[i] \in Starts => i = 1 /\ awaiting = "none" /\ launch_mode = "none"
    /\ \A i \in 1 .. Len(inbox) : inbox[i] = "exit" => child_task = "reaped"
    /\ awaiting \in Starts => launch_mode = "none"
    /\ awaiting # "none" => life = "live"

\* The launched child against the task that owns it and the kill channel: the
\* task exists, reports only a dead child, and while it waits the channel is
\* held, or has fired.
ChildInv ==
    /\ launch_mode = "none" => child_task = "none"
    /\ launch_mode = "launch" => child_task # "none"
    /\ child_task \in {"reporting", "reaped"} => jvm = "dead"
    /\ child_task = "waiting" => child_kill = "fired" \/ (child_kill = "held" /\ life = "live")
    /\ child_task = "killing" => child_kill = "fired"

\* No directory is newer than the last launch, whose directory the field names
\* until the adapter exits.
ScratchInv ==
    /\ dirs \subseteq 1 .. launches
    /\ launches \in dirs => scratch_dir = launches /\ life # "exited"

EndInv == InboxInv /\ ChildInv /\ ScratchInv

\* What the inbox holds after one message has been posted.
LEMMA PostedContents ==
    ASSUME EndTypeOK, NEW m, m \in Messages, Post(m)
    PROVE  \A i \in 1 .. Len(inbox') : \/ i \in 1 .. Len(inbox) /\ inbox'[i] = inbox[i]
                                       \/ inbox'[i] = m /\ i = Len(inbox) + 1
  BY SMTT(60), Z3T(60) DEF EndTypeOK, Post

\* What it holds after one has been taken: the others, which were not first.
LEMMA TakenContents ==
    ASSUME EndTypeOK, NEW m, Take(m)
    PROVE  /\ 1 \in 1 .. Len(inbox) /\ inbox[1] = m
           /\ \A i \in 1 .. Len(inbox') : \E j \in 1 .. Len(inbox) : j # 1 /\ inbox'[i] = inbox[j]
  <1>1. inbox \in Seq(Messages) /\ inbox # <<>> /\ Head(inbox) = m /\ inbox' = Tail(inbox)
    BY DEF EndTypeOK, Take
  <1>2. 1 \in 1 .. Len(inbox) /\ inbox[1] = m
    BY <1>1, SMTT(60), Z3T(60)
  <1>3. ASSUME NEW i \in 1 .. Len(inbox')
        PROVE  i + 1 \in 1 .. Len(inbox) /\ i + 1 # 1 /\ inbox'[i] = inbox[i + 1]
    BY <1>1, <1>3, SMTT(60), Z3T(60)
  <1>4. QED
    BY <1>2, <1>3

\* Handling a message keeps the inbox in order.
LEMMA HandleInbox == EndTypeOK /\ EndInv /\ Handle => InboxInv'
  <1> SUFFICES ASSUME EndTypeOK, EndInv, Handle PROVE InboxInv'
    OBVIOUS
  <1> USE DEF EndInv, InboxInv, Starts
  <1>1. \A i \in 1 .. Len(inbox') : \E j \in 1 .. Len(inbox) : j # 1 /\ inbox'[i] = inbox[j]
    BY TakenContents DEF Handle, StartLaunch, StartAttach, Refuse, Terminate, Disconnect, Dispose, StdinClosed, Command,
                         JdwpEvent, JdwpClosed, ChildExit, KillDeadline
  <1>2. \A i \in 1 .. Len(inbox') : inbox'[i] \notin Starts
    BY <1>1
  <1>3. (\E i \in 1 .. Len(inbox') : inbox'[i] = "exit") => child_task = "reaped"
    BY <1>1
  <1>4. child_task' = child_task /\ launch_mode' = launch_mode
    BY DEF Handle, StartLaunch, StartAttach, Refuse, Terminate, Disconnect, Dispose, StdinClosed, Command, JdwpEvent,
           JdwpClosed, ChildExit, KillDeadline, child
  <1>5. awaiting' \in Starts => launch_mode = "none"
    <2>1. \A m \in Starts : Take(m) => launch_mode = "none"
      BY TakenContents
    <2>2. QED
      BY <2>1 DEF Handle, StartLaunch, StartAttach, Refuse, Terminate, Disconnect, Dispose, StdinClosed, Command,
                  JdwpEvent, JdwpClosed, ChildExit, KillDeadline
  <1>6. awaiting' # "none" => life' = "live"
    BY DEF Handle, StartLaunch, StartAttach, Refuse, Terminate, Disconnect, Dispose, StdinClosed, Command, JdwpEvent,
           JdwpClosed, ChildExit, KillDeadline, Take
  <1>7. QED
    BY <1>2, <1>3, <1>4, <1>5, <1>6

\* Handling a message leaves the child alone, or fires its kill channel.
LEMMA HandleChild == EndTypeOK /\ EndInv /\ Handle => ChildInv' /\ ScratchInv'
  <1> SUFFICES ASSUME EndTypeOK, EndInv, Handle PROVE ChildInv' /\ ScratchInv'
    OBVIOUS
  <1> USE DEF EndInv, ChildInv, ScratchInv, child, client, process, scratch, Fired, Cleanup
  <1>1. \A m \in Starts : Take(m) => child_task = "none"
    BY TakenContents DEF InboxInv
  <1>2. Take("exit") => child_task = "reaped"
    BY TakenContents DEF InboxInv
  <1>3. ASSUME NEW c \in BOOLEAN, StartLaunch(c) PROVE ChildInv' /\ ScratchInv'
    <2>1. child_task = "none" /\ launch_mode # "launch"
      BY <1>1, <1>3 DEF StartLaunch, Starts
    <2>2. ChildInv'
      BY <1>3, <2>1 DEF StartLaunch
    <2>3. ScratchInv'
      BY <1>3, SMTT(60), Z3T(60) DEF StartLaunch, EndTypeOK, Take
    <2>4. QED
      BY <2>2, <2>3
  <1>4. CASE StartAttach
    BY <1>1, <1>4 DEF StartAttach, Starts
  <1>5. CASE Refuse
    BY <1>5 DEF Refuse
  <1>6. CASE Terminate
    BY <1>6 DEF Terminate
  <1>7. CASE Disconnect
    BY <1>7 DEF Disconnect, Take
  <1>8. CASE Dispose
    BY <1>8 DEF Dispose, Take
  <1>9. CASE StdinClosed
    BY <1>9 DEF StdinClosed, Take
  <1>10. CASE Command
    BY <1>10 DEF Command
  <1>11. ASSUME NEW e \in {"junk", "death"}, JdwpEvent(e) PROVE ChildInv' /\ ScratchInv'
    BY <1>11 DEF JdwpEvent
  <1>12. CASE JdwpClosed
    BY <1>12 DEF JdwpClosed
  <1>13. CASE ChildExit
    BY <1>2, <1>13 DEF ChildExit
  <1>14. CASE KillDeadline
    BY <1>14 DEF KillDeadline
  <1>15. QED
    BY <1>3, <1>4, <1>5, <1>6, <1>7, <1>8, <1>9, <1>10, <1>11, <1>12, <1>13, <1>14 DEF Handle

\* The task reports only after the child's death, which nothing undoes.
LEMMA EndStep == EndTypeOK /\ EndInv /\ [EndNext]_endVars => EndInv'
  <1> SUFFICES ASSUME EndTypeOK, EndInv, [EndNext]_endVars PROVE EndInv'
    OBVIOUS
  <1> USE DEF EndInv, InboxInv, ChildInv, ScratchInv, Starts, child, client, process, scratch
  <1>1. ASSUME NEW r \in ClientRequests, Request(r) PROVE EndInv'
    <2>1. r \in Messages /\ r # "exit"
      BY DEF ClientRequests, Messages
    <2>2. InboxInv'
      <3>1. r \in Starts => Len(inbox) + 1 = 1 /\ awaiting = "none" /\ launch_mode = "none"
        BY <1>1, SMTT(60), Z3T(60) DEF Request
      <3>2. QED
        BY <1>1, <2>1, <3>1, PostedContents DEF Request
    <2>3. QED
      BY <1>1, <2>2 DEF Request
  <1>2. CASE PumpForward
    <2>1. Head(link) \in Events
      BY <1>2, Sequenced DEF PumpForward, EndTypeOK
    <2>2. Head(link) \in Messages /\ Head(link) \notin Starts /\ Head(link) # "exit"
      BY <2>1 DEF Events, Messages
    <2>3. QED
      BY <1>2, <2>2, PostedContents DEF PumpForward
  <1>3. CASE ChildWait
    BY <1>3 DEF ChildWait
  <1>4. CASE ChildReport
    <2>1. "exit" \in Messages
      BY DEF Messages
    <2>2. QED
      BY <1>4, <2>1, PostedContents DEF ChildReport
  <1>5. CASE TimerElapses
    <2>1. "deadline" \in Messages /\ "deadline" \notin Starts /\ "deadline" # "exit"
      BY SMTT(60), Z3T(60) DEF Messages, ClientRequests, Events
    <2>2. QED
      BY <1>5, <2>1, PostedContents DEF TimerElapses
  <1>6. CASE Handle
    BY <1>6, HandleInbox, HandleChild
  <1>7. CASE StartVm
    <2>1. /\ awaiting \in Starts /\ child_task = "none" /\ life' = "live"
          /\ awaiting' = "none" /\ launch_mode' = awaiting
      BY <1>7 DEF StartVm
    <2>2. \A i \in 1 .. Len(inbox') : inbox'[i] \notin Starts /\ inbox'[i] # "exit"
      BY <1>7, <2>1, SMTT(60), Z3T(60) DEF StartVm
    <2>3. InboxInv'
      BY <2>1, <2>2
    <2>4. ChildInv'
      BY <1>7, <2>1 DEF StartVm
    <2>5. ScratchInv'
      BY <1>7 DEF StartVm
    <2>6. QED
      BY <2>3, <2>4, <2>5
  <1>8. CASE Disposed
    BY <1>8 DEF Disposed, Cleanup, Fired
  <1>9. CASE Commanded
    BY <1>9 DEF Commanded
  <1>10. CASE ConnectFails
    BY <1>10 DEF ConnectFails
  <1>11. CASE Exit
    <2>1. ScratchInv'
      BY <1>11 DEF Exit
    <2>2. QED
      BY <1>11, <2>1 DEF Exit
  <1>12. ASSUME NEW e \in {"stop", "junk"}, Emit(e) PROVE EndInv'
    BY <1>12 DEF Emit
  <1>13. CASE Freeze
    BY <1>13 DEF Freeze
  <1>14. ASSUME NEW a \in BOOLEAN, Die(a) PROVE EndInv'
    BY <1>14 DEF Die
  <1>15. CASE UNCHANGED endVars
    BY <1>15 DEF endVars
  <1>16. QED
    BY <1>1, <1>2, <1>3, <1>4, <1>5, <1>6, <1>7, <1>8, <1>9, <1>10, <1>11, <1>12, <1>13, <1>14, <1>15
    DEF EndNext, Resume

\* However the session ends and whatever is still in the inbox, when the
\* adapter has exited a launched debuggee is dead, or its kill has fired and
\* the wait for it ran out, and the scratch directory of the last launch is
\* removed (launch, cleanup, child_wait_task).
THEOREM AdapterLeavesNothing == EndSpec => []NothingLeftBehind
  <1>1. EndInit => EndInv
    <2> SUFFICES ASSUME EndInit PROVE EndInv
      OBVIOUS
    <2>1. \A i \in 1 .. Len(inbox) : FALSE
      BY SMTT(60), Z3T(60) DEF EndInit
    <2>2. ScratchInv
      BY SMTT(60), Z3T(60) DEF EndInit, ScratchInv
    <2>3. QED
      BY <2>1, <2>2 DEF EndInit, EndInv, InboxInv, ChildInv, Starts
  <1>2. EndTypeOK /\ EndInv => NothingLeftBehind
    BY DEF EndTypeOK, EndInv, ChildInv, ScratchInv, NothingLeftBehind
  <1>3. QED
    BY <1>1, <1>2, EndStep, EndTyping, PTL DEF EndSpec
=============================================================================
