------------------------ MODULE JavacScheduler_proofs ------------------------
(* Proofs about JavacScheduler, for any files and any two intervals.  The     *)
(* scheduler's functions are shown to preserve a condition on its variables;  *)
(* the actions then only have to be matched with the functions they call.     *)
EXTENDS JavacScheduler, TLAPS

\* The part of TypeOK about the scheduler.
QueueOK(k) ==
    /\ k \in QueueType
    /\ k.timer \in NoTimer .. Later(Debounce, Floor)
    /\ k.age \in NoBatch .. Debounce
    /\ k.rest \in 0 .. Floor
    /\ k.pending = {} <=> k.age = NoBatch

CurrentOf(k) == {r \in k.inflight : r.token = "current"}

\* The flag and the token agree, and a run has files to check.
RunOK(k) ==
    /\ k.running = "yes" <=> CurrentOf(k) # {}
    /\ \A r, s \in CurrentOf(k) : r = s
    /\ \A r \in CurrentOf(k) : r.uris # {}

\* A timer is set only between runs, and not due before the floor has elapsed.
TimerOK(k) == k.timer # NoTimer => k.running = "no" /\ k.timer + k.rest >= Floor

SchedulerOK(k) == QueueOK(k) /\ RunOK(k) /\ TimerOK(k)

\* f waits in the queue or is being checked.
Holds(k, f) == f \in k.pending \/ \E r \in CurrentOf(k) : f \in r.uris

-----------------------------------------------------------------------------
\* Bumping runToken leaves the runs in flight, none of them current.
LEMMA DetachedRuns ==
    ASSUME NEW runs \in SUBSET Run
    PROVE  /\ Detached(runs) \in SUBSET Run
           /\ \A r \in Detached(runs) : r.token = "past"
BY DEF Detached, Run

\* A run that starts takes the whole batch and is the only current one.
LEMMA StartedKeeps ==
    ASSUME NEW k, QueueOK(k), k.timer = NoTimer, k.pending # {}
    PROVE  /\ SchedulerOK(Started(k))
           /\ \A f \in k.pending : Holds(Started(k), f)
           /\ Started(k).timer = NoTimer
           /\ Started(k).running = "yes"
<1> USE ConstantsAssumption
<1> DEFINE new == [token |-> "current", client |-> "same", uris |-> k.pending]
           s == Started(k)
           old == Detached(k.inflight)
<1>1. k \in QueueType /\ k.inflight \in SUBSET Run /\ k.pending \in SUBSET Files
  BY DEF QueueOK, QueueType
<1>2. old \in SUBSET Run /\ \A r \in old : r.token = "past"
  BY <1>1, DetachedRuns
<1>3. new \in Run /\ new.token = "current" /\ new.uris = k.pending
  BY <1>1 DEF Run
<1> HIDE DEF new, old
<1>4. s = [k EXCEPT !.pending = {}, !.age = NoBatch, !.running = "yes", !.rest = 0,
                    !.inflight = old \cup {new}]
  BY <1>1 DEF s, Started, old, new, QueueType
<1>5. old \cup {new} \in SUBSET Run
  BY <1>2, <1>3
<1> HIDE DEF s
<1>6. /\ s \in QueueType
      /\ s.pending = {} /\ s.age = NoBatch /\ s.running = "yes" /\ s.rest = 0
      /\ s.inflight = old \cup {new} /\ s.timer = NoTimer
  <2>1. {} \in SUBSET Files /\ NoBatch \in Int
    BY DEF NoBatch
  <2> DEFINE all == old \cup {new}
  <2>2. all \in SUBSET Run /\ s = [k EXCEPT !.pending = {}, !.age = NoBatch,
            !.running = "yes", !.rest = 0, !.inflight = all]
    BY <1>4, <1>5
  <2> HIDE DEF all
  <2>3. s \in QueueType
    <3>1. s = [pending |-> {}, timer |-> k.timer, running |-> "yes", age |-> NoBatch,
               rest |-> 0, inflight |-> all, disposed |-> k.disposed]
      BY <1>1, <2>2 DEF QueueType
    <3>2. k.timer \in Int /\ k.disposed \in {"no", "yes"}
      BY <1>1 DEF QueueType
    <3>3. QED
      BY <2>1, <2>2, <3>1, <3>2 DEF QueueType
  <2>4. QED
    BY <1>1, <1>4, <2>3 DEF QueueType
<1>7. CurrentOf(s) = {new}
  BY <1>2, <1>3, <1>6 DEF CurrentOf
<1>8. QueueOK(s)
  BY <1>6 DEF QueueOK, NoBatch, NoTimer, Later
<1>9. QED
  BY <1>3, <1>6, <1>7, <1>8 DEF SchedulerOK, RunOK, TimerOK, Holds, s

\* fire, called between runs, leaves the scheduler in order and forgets a file
\* only when the check is disabled.
LEMMA FireKeeps ==
    ASSUME NEW k, NEW gate, QueueOK(k), RunOK(k), k.running = "no"
    PROVE  /\ SchedulerOK(Fire(k, gate))
           /\ gate # "disabled" => \A f : Holds(k, f) => Holds(Fire(k, gate), f)
           /\ Fire(k, gate).pending # {} /\ k.disposed = "no" => gate = "blocked"
           /\ Fire(k, gate).rest # k.rest => Fire(k, gate).running = "yes"
           /\ Fire(k, gate).disposed = k.disposed
<1> USE ConstantsAssumption
<1> DEFINE due == [k EXCEPT !.timer = NoTimer]
<1>1. k \in QueueType
  BY DEF QueueOK
<1>2. /\ due \in QueueType /\ due.timer = NoTimer
      /\ due.pending = k.pending /\ due.running = k.running /\ due.age = k.age
      /\ due.rest = k.rest /\ due.inflight = k.inflight /\ due.disposed = k.disposed
  BY <1>1 DEF QueueType, NoTimer
<1> HIDE DEF due
<1>3. QueueOK(due) /\ RunOK(due) /\ TimerOK(due)
  BY <1>2 DEF QueueOK, RunOK, TimerOK, CurrentOf, NoTimer, Later
<1>4. \A f : Holds(k, f) <=> Holds(due, f)
  BY <1>2 DEF Holds, CurrentOf
<1>5. Fire(k, gate) = IF k.disposed = "yes" THEN due
                      ELSE IF gate = "disabled" THEN Emptied(due)
                      ELSE IF gate = "blocked" \/ k.pending = {} THEN due
                      ELSE Started(due)
  BY DEF Fire, due
<1>6. k.disposed \in {"no", "yes"}
  BY <1>1 DEF QueueType
<1>7. CASE Fire(k, gate) = due /\ (k.disposed = "yes" \/ gate = "blocked" \/ k.pending = {})
  BY <1>2, <1>3, <1>4, <1>7 DEF SchedulerOK
<1>8. CASE Fire(k, gate) = Emptied(due) /\ gate = "disabled"
  <2> DEFINE e == Emptied(due)
  <2>1. /\ e \in QueueType /\ e.timer = NoTimer
        /\ e.pending = {} /\ e.running = due.running /\ e.age = NoBatch
        /\ e.rest = due.rest /\ e.inflight = due.inflight /\ e.disposed = due.disposed
    <3>1. {} \in SUBSET Files /\ NoBatch \in Int
      BY DEF NoBatch
    <3>2. e = [due EXCEPT !.pending = {}, !.age = NoBatch]
      BY DEF Emptied
    <3> HIDE DEF e
    <3>3. e \in QueueType
      BY <1>2, <3>1, <3>2 DEF QueueType
    <3>4. QED
      BY <1>2, <3>2, <3>3 DEF QueueType
  <2> HIDE DEF e
  <2>2. SchedulerOK(e)
    BY <1>3, <2>1 DEF SchedulerOK, QueueOK, RunOK, TimerOK, CurrentOf, NoTimer, NoBatch, Later
  <2>3. QED
    BY <1>2, <1>8, <2>1, <2>2 DEF e
<1>9. CASE Fire(k, gate) = Started(due) /\ k.pending # {}
  <2>1. /\ SchedulerOK(Started(due))
        /\ \A f \in due.pending : Holds(Started(due), f)
        /\ Started(due).running = "yes"
    BY <1>2, <1>3, <1>9, StartedKeeps
  <2>2. CurrentOf(k) = {}
    BY DEF RunOK
  <2>3. \A f : Holds(k, f) => f \in due.pending
    BY <1>2, <2>2 DEF Holds
  <2>4. Started(due).pending = {} /\ Started(due).disposed = due.disposed
    BY <1>2 DEF Started, QueueType
  <2>5. QED
    BY <1>2, <1>9, <2>1, <2>3, <2>4
<1>10. QED
  BY <1>5, <1>6, <1>7, <1>8, <1>9

\* arm does, too; a queue it leaves without run or timer is blocked, and a run
\* it starts finds the floor elapsed.
LEMMA ArmKeeps ==
    ASSUME NEW k, NEW gate, SchedulerOK(k)
    PROVE  /\ SchedulerOK(Arm(k, gate))
           /\ gate # "disabled" => \A f : Holds(k, f) => Holds(Arm(k, gate), f)
           /\ Arm(k, gate).pending # {} /\ Arm(k, gate).running = "no"
              /\ Arm(k, gate).disposed = "no" /\ Arm(k, gate).timer = NoTimer
              => gate = "blocked"
           /\ Arm(k, gate).running # k.running \/ Arm(k, gate).rest # k.rest
              => k.running = "no" /\ k.rest = Floor
           /\ Arm(k, gate).disposed = k.disposed
<1> USE ConstantsAssumption
<1> DEFINE armed == [k EXCEPT !.timer = Wait(k)]
<1>1. k \in QueueType /\ k.running \in {"no", "yes"} /\ k.disposed \in {"no", "yes"}
      /\ k.timer \in Int /\ k.age \in Int /\ k.rest \in Int
  BY DEF SchedulerOK, QueueOK, QueueType
<1>2. CASE k.disposed = "yes" \/ k.timer # NoTimer \/ k.running = "yes" \/ k.pending = {}
  <2>1. Arm(k, gate) = k
    BY <1>2 DEF Arm
  <2>2. QED
    BY <1>2, <2>1
<1>3. CASE k.disposed = "no" /\ k.timer = NoTimer /\ k.running = "no" /\ k.pending # {}
  <2>1. k.age \in 0 .. Debounce /\ k.rest \in 0 .. Floor
    BY <1>3 DEF SchedulerOK, QueueOK, NoBatch
  <2>2. /\ Wait(k) \in Int /\ Wait(k) >= Floor - k.rest
        /\ Wait(k) <= Later(Debounce, Floor)
    BY <2>1 DEF Wait, Later
  <2>3. CASE Wait(k) <= 0
    <3>1. Arm(k, gate) = Fire(k, gate)
      BY <1>3, <2>3 DEF Arm
    <3>2. k.rest = Floor
      BY <2>1, <2>2, <2>3
    <3>3. QED
      BY <1>3, <3>1, <3>2, FireKeeps DEF SchedulerOK
  <2>4. CASE Wait(k) > 0
    <3>1. Arm(k, gate) = armed
      BY <1>3, <2>2, <2>4 DEF Arm
    <3>2. /\ armed \in QueueType /\ armed.timer = Wait(k)
          /\ armed.pending = k.pending /\ armed.running = k.running /\ armed.age = k.age
          /\ armed.rest = k.rest /\ armed.inflight = k.inflight
          /\ armed.disposed = k.disposed
      BY <1>1, <2>2 DEF QueueType
    <3> HIDE DEF armed
    <3>3. SchedulerOK(armed)
      BY <1>1, <1>3, <2>1, <2>2, <2>4, <3>2
      DEF SchedulerOK, QueueOK, RunOK, TimerOK, CurrentOf, NoTimer, NoBatch, Later
    <3>4. \A f : Holds(k, f) => Holds(armed, f)
      BY <3>2 DEF Holds, CurrentOf
    <3>5. QED
      BY <2>2, <2>4, <3>1, <3>2, <3>3, <3>4 DEF NoTimer
  <2>5. QED
    BY <2>2, <2>3, <2>4
<1>4. QED
  BY <1>1, <1>2, <1>3

-----------------------------------------------------------------------------
\* enqueue, before arm, adds a file and disturbs nothing.
LEMMA EnqueueKeeps ==
    ASSUME NEW k, NEW f \in Files, SchedulerOK(k)
    PROVE  /\ SchedulerOK(Enqueue(k, f))
           /\ Holds(Enqueue(k, f), f)
           /\ \A g : Holds(k, g) => Holds(Enqueue(k, f), g)
           /\ Enqueue(k, f).running = k.running /\ Enqueue(k, f).rest = k.rest
<1> USE ConstantsAssumption
<1> DEFINE e == Enqueue(k, f)
           begun == IF k.pending = {} THEN 0 ELSE k.age
           files == k.pending \cup {f}
<1>1. k \in QueueType /\ k.pending \in SUBSET Files /\ k.age \in NoBatch .. Debounce
      /\ (k.pending = {} <=> k.age = NoBatch)
  BY DEF SchedulerOK, QueueOK, QueueType
<1>2. e = [k EXCEPT !.age = begun, !.pending = files]
  BY <1>1 DEF Enqueue, QueueType
<1>3. begun \in 0 .. Debounce /\ begun \in Int
  BY <1>1 DEF NoBatch
<1>4. files \in SUBSET Files /\ files # {} /\ f \in files /\ k.pending \subseteq files
  BY <1>1
<1> HIDE DEF e, begun, files
<1>5. e \in QueueType
  BY <1>1, <1>2, <1>3, <1>4 DEF QueueType
<1>6. /\ e.pending = files /\ e.age = begun /\ e.timer = k.timer
      /\ e.running = k.running /\ e.rest = k.rest /\ e.inflight = k.inflight
  BY <1>1, <1>2 DEF QueueType
<1>7. QueueOK(e)
  BY <1>3, <1>4, <1>5, <1>6 DEF SchedulerOK, QueueOK, NoBatch
<1>8. RunOK(e) /\ TimerOK(e)
  BY <1>6 DEF SchedulerOK, RunOK, TimerOK, CurrentOf
<1>9. QED
  BY <1>4, <1>6, <1>7, <1>8 DEF SchedulerOK, Holds, CurrentOf, e

\* cancelPending leaves the run in flight and the spacing alone.
LEMMA CancelKeeps ==
    ASSUME NEW k, SchedulerOK(k)
    PROVE  /\ SchedulerOK(CancelPending(k))
           /\ CancelPending(k).pending = {} /\ CancelPending(k).timer = NoTimer
           /\ CancelPending(k).running = k.running /\ CancelPending(k).rest = k.rest
           /\ CancelPending(k).inflight = k.inflight
<1> USE ConstantsAssumption
<1> DEFINE c == CancelPending(k)
<1>1. k \in QueueType /\ {} \in SUBSET Files /\ NoTimer \in Int /\ NoBatch \in Int
  BY DEF SchedulerOK, QueueOK, NoTimer, NoBatch
<1>2. c = [k EXCEPT !.timer = NoTimer, !.pending = {}, !.age = NoBatch]
  BY DEF CancelPending
<1> HIDE DEF c
<1>3. c \in QueueType
  BY <1>1, <1>2 DEF QueueType
<1>4. /\ c.pending = {} /\ c.age = NoBatch /\ c.timer = NoTimer
      /\ c.running = k.running /\ c.rest = k.rest /\ c.inflight = k.inflight
  BY <1>1, <1>2 DEF QueueType
<1>5. QueueOK(c)
  BY <1>3, <1>4 DEF SchedulerOK, QueueOK, NoBatch, NoTimer, Later
<1>6. RunOK(c) /\ TimerOK(c)
  BY <1>4 DEF SchedulerOK, RunOK, TimerOK, CurrentOf
<1>7. QED
  BY <1>4, <1>5, <1>6 DEF SchedulerOK, c

\* reset leaves no current run, no queue and no timer.
LEMMA ResetKeeps ==
    ASSUME NEW k, SchedulerOK(k)
    PROVE  /\ SchedulerOK(Reset(k))
           /\ Reset(k).pending = {} /\ Reset(k).running = "no"
<1> USE ConstantsAssumption
<1> DEFINE c == CancelPending(k)
           past == Detached(c.inflight)
           z == Reset(k)
<1>1. SchedulerOK(c) /\ c.pending = {} /\ c.timer = NoTimer
  BY CancelKeeps
<1>2. z = [c EXCEPT !.running = "no", !.rest = Floor, !.inflight = Detached(@)]
  BY DEF Reset
<1> HIDE DEF c, z
<1>3. c \in QueueType /\ c.inflight \in SUBSET Run
  BY <1>1 DEF SchedulerOK, QueueOK, QueueType
<1>4. past \in SUBSET Run /\ \A r \in past : r.token = "past"
  BY <1>3, DetachedRuns
<1>5. z = [c EXCEPT !.running = "no", !.rest = Floor, !.inflight = past]
  BY <1>2, <1>3 DEF QueueType
<1> HIDE DEF past
<1>6. z \in QueueType
  <2>1. Floor \in Int /\ c.timer \in Int /\ c.age \in Int /\ c.pending \in SUBSET Files
        /\ c.disposed \in {"no", "yes"}
    BY <1>3 DEF QueueType
  <2>2. z = [pending |-> c.pending, timer |-> c.timer, running |-> "no", age |-> c.age,
             rest |-> Floor, inflight |-> past, disposed |-> c.disposed]
    BY <1>3, <1>5 DEF QueueType
  <2>3. QED
    BY <1>4, <2>1, <2>2 DEF QueueType
<1>7. /\ z.running = "no" /\ z.rest = Floor /\ z.inflight = past
      /\ z.pending = c.pending /\ z.age = c.age /\ z.timer = c.timer
  BY <1>3, <1>5 DEF QueueType
<1>8. CurrentOf(z) = {}
  BY <1>4, <1>7 DEF CurrentOf
<1>9. QueueOK(z)
  BY <1>1, <1>6, <1>7 DEF SchedulerOK, QueueOK
<1>10. QED
  BY <1>1, <1>7, <1>8, <1>9 DEF SchedulerOK, RunOK, TimerOK, z

\* The settle callbacks of the current run leave none, and keep the files that
\* are queued; those of a busy run are queued again.
LEMMA SettledKeeps ==
    ASSUME NEW k, SchedulerOK(k), NEW r \in CurrentOf(k), NEW outcome
    PROVE  /\ SchedulerOK(Settled(k, r, outcome))
           /\ \A f \in k.pending : Holds(Settled(k, r, outcome), f)
           /\ outcome = "busy" => \A f \in r.uris : Holds(Settled(k, r, outcome), f)
           /\ Settled(k, r, outcome).rest = k.rest
           /\ Settled(k, r, outcome).running = "no"
           /\ k.running = "yes"
<1> USE ConstantsAssumption
<1> DEFINE z == Settled(k, r, outcome)
           rest == k.inflight \ {r}
           files == IF outcome = "busy" THEN k.pending \cup r.uris ELSE k.pending
           age == IF outcome = "busy" THEN Debounce ELSE k.age
<1>1. /\ k \in QueueType /\ k.inflight \in SUBSET Run /\ k.pending \in SUBSET Files
      /\ r \in k.inflight /\ k.age \in Int /\ k.age \in NoBatch .. Debounce
      /\ (k.pending = {} <=> k.age = NoBatch)
  BY DEF SchedulerOK, QueueOK, QueueType, CurrentOf
<1>2. r.uris \in SUBSET Files /\ r.uris # {}
  BY <1>1 DEF SchedulerOK, RunOK, Run
<1>3. k.running = "yes" /\ k.timer = NoTimer
  BY DEF SchedulerOK, RunOK, TimerOK
<1>4. z = [k EXCEPT !.running = "no", !.inflight = rest, !.pending = files, !.age = age]
  BY <1>1 DEF Settled, QueueType
<1>5. /\ rest \in SUBSET Run
      /\ files \in SUBSET Files /\ k.pending \subseteq files
      /\ age \in Int /\ age \in NoBatch .. Debounce
      /\ (files = {} <=> age = NoBatch)
      /\ outcome = "busy" => r.uris \subseteq files
  BY <1>1, <1>2 DEF NoBatch
<1>6. \A s \in rest : s.token # "current"
  BY DEF SchedulerOK, RunOK, CurrentOf
<1> HIDE DEF z, rest, files, age
<1>7. z \in QueueType
  BY <1>1, <1>4, <1>5 DEF QueueType
<1>8. /\ z.running = "no" /\ z.inflight = rest /\ z.pending = files /\ z.age = age
      /\ z.rest = k.rest /\ z.timer = k.timer
  BY <1>1, <1>4 DEF QueueType
<1>9. CurrentOf(z) = {}
  BY <1>6, <1>8 DEF CurrentOf
<1>10. QueueOK(z)
  BY <1>3, <1>5, <1>7, <1>8 DEF SchedulerOK, QueueOK
<1>11. SchedulerOK(z)
  BY <1>3, <1>8, <1>9, <1>10 DEF SchedulerOK, RunOK, TimerOK
<1>12. QED
  BY <1>3, <1>5, <1>8, <1>11 DEF Holds, z

\* dispose drops the queue and the timer.
LEMMA DisposeKeeps ==
    ASSUME NEW k, SchedulerOK(k)
    PROVE  LET z == [CancelPending(k) EXCEPT !.disposed = "yes"]
           IN  /\ SchedulerOK(z)
               /\ z.running = k.running /\ z.rest = k.rest /\ z.disposed = "yes"
<1> DEFINE c == CancelPending(k)
           z == [c EXCEPT !.disposed = "yes"]
<1>1. SchedulerOK(c) /\ c.running = k.running /\ c.rest = k.rest
  BY CancelKeeps
<1> HIDE DEF c
<1>2. c \in QueueType
  BY <1>1 DEF SchedulerOK, QueueOK
<1>3. /\ z \in QueueType /\ z.disposed = "yes"
      /\ z.running = c.running /\ z.inflight = c.inflight /\ z.pending = c.pending
      /\ z.age = c.age /\ z.rest = c.rest /\ z.timer = c.timer
  BY <1>2 DEF QueueType
<1> HIDE DEF z
<1>4. SchedulerOK(z)
  BY <1>1, <1>3 DEF SchedulerOK, QueueOK, RunOK, TimerOK, CurrentOf
<1>5. QED
  BY <1>1, <1>3, <1>4 DEF z, c

\* Replacing the runs in flight by others with the same current ones, up to the
\* client they talk to, keeps the scheduler in order.
LEMMA InflightKeeps ==
    ASSUME NEW k, SchedulerOK(k), NEW runs \in SUBSET Run,
           \A r \in CurrentOf(k) : \E s \in runs : s.token = "current" /\ s.uris = r.uris,
           \A s \in runs : s.token = "current" =>
               \E r \in CurrentOf(k) : s = r \/ s = [r EXCEPT !.client = "old"],
           \A s, t \in runs : s.token = "current" /\ t.token = "current" => s = t
    PROVE  LET z == [k EXCEPT !.inflight = runs]
           IN  /\ SchedulerOK(z)
               /\ \A f : Holds(k, f) => Holds(z, f)
               /\ z.pending = k.pending /\ z.running = k.running /\ z.rest = k.rest
               /\ z.timer = k.timer /\ z.disposed = k.disposed
<1> DEFINE z == [k EXCEPT !.inflight = runs]
<1>1. k \in QueueType
  BY DEF SchedulerOK, QueueOK
<1>2. /\ z \in QueueType /\ z.inflight = runs /\ z.disposed = k.disposed
      /\ z.running = k.running /\ z.pending = k.pending
      /\ z.age = k.age /\ z.rest = k.rest /\ z.timer = k.timer
  BY <1>1 DEF QueueType
<1> HIDE DEF z
<1>3. QueueOK(z) /\ TimerOK(z)
  BY <1>2 DEF SchedulerOK, QueueOK, TimerOK
<1>4. \A r \in CurrentOf(k) : r \in Run /\ [r EXCEPT !.client = "old"].uris = r.uris
  BY <1>1 DEF QueueType, CurrentOf, Run
<1>5. \A s \in CurrentOf(z) : \E r \in CurrentOf(k) : s.uris = r.uris
  BY <1>2, <1>4 DEF CurrentOf
<1>6. \A r \in CurrentOf(k) : \E s \in CurrentOf(z) : s.uris = r.uris
  BY <1>2 DEF CurrentOf
<1>7. \A s, t \in CurrentOf(z) : s = t
  BY <1>2 DEF CurrentOf
<1>8. RunOK(z)
  <2>1. CurrentOf(z) = {} <=> CurrentOf(k) = {}
    BY <1>5, <1>6
  <2>2. \A s \in CurrentOf(z) : s.uris # {}
    BY <1>5 DEF SchedulerOK, RunOK
  <2>3. QED
    BY <1>2, <1>7, <2>1, <2>2 DEF SchedulerOK, RunOK
<1>9. \A f : Holds(k, f) => Holds(z, f)
  BY <1>2, <1>6 DEF Holds
<1>10. QED
  BY <1>2, <1>3, <1>8, <1>9 DEF SchedulerOK, z

\* Time passing brings the timer nearer and the floor no later.
LEMMA TickKeeps ==
    ASSUME SchedulerOK(q), Tick
    PROVE  /\ SchedulerOK(q')
           /\ \A f : Holds(q, f) => Holds(q', f)
           /\ q'.pending = q.pending /\ q'.running = q.running
           /\ q'.disposed = q.disposed /\ q'.rest >= q.rest
           /\ q.timer # NoTimer => q'.timer # NoTimer
<1> USE ConstantsAssumption
<1> DEFINE timer == IF q.timer > 0 THEN q.timer - 1 ELSE q.timer
           age == IF q.age = NoBatch THEN q.age ELSE Sooner(q.age + 1, Debounce)
           rest == Sooner(q.rest + 1, Floor)
<1>1. /\ q \in QueueType
      /\ q.timer \in NoTimer .. Later(Debounce, Floor) /\ q.age \in NoBatch .. Debounce
      /\ q.rest \in 0 .. Floor
  BY DEF SchedulerOK, QueueOK
<1>2. q' = [q EXCEPT !.timer = timer, !.age = age, !.rest = rest]
  BY <1>1 DEF Tick, QueueType
<1>3. /\ timer \in Int /\ timer \in NoTimer .. Later(Debounce, Floor)
      /\ q.timer # NoTimer <=> timer # NoTimer
  BY <1>1 DEF NoTimer, Later
<1>4. age \in Int /\ age \in NoBatch .. Debounce /\ (age = NoBatch <=> q.age = NoBatch)
  BY <1>1 DEF NoBatch, Sooner
<1>5. rest \in Int /\ rest \in 0 .. Floor /\ rest >= q.rest
  BY <1>1 DEF Sooner
<1>6. q.timer # NoTimer /\ q.timer + q.rest >= Floor => timer + rest >= Floor
  BY <1>1 DEF Sooner, NoTimer, Later
<1> HIDE DEF timer, age, rest
<1>7. q' \in QueueType
  BY <1>1, <1>2, <1>3, <1>4, <1>5 DEF QueueType
<1>8. /\ q'.timer = timer /\ q'.age = age /\ q'.rest = rest /\ q'.pending = q.pending
      /\ q'.running = q.running /\ q'.inflight = q.inflight /\ q'.disposed = q.disposed
  BY <1>1, <1>2 DEF QueueType
<1>9. QueueOK(q')
  BY <1>3, <1>4, <1>5, <1>7, <1>8 DEF SchedulerOK, QueueOK
<1>10. CurrentOf(q') = CurrentOf(q)
  BY <1>8 DEF CurrentOf
<1>11. RunOK(q')
  BY <1>8, <1>10 DEF SchedulerOK, RunOK
<1>12. TimerOK(q')
  BY <1>3, <1>6, <1>8 DEF SchedulerOK, TimerOK
<1>13. QED
  BY <1>3, <1>5, <1>8, <1>9, <1>10, <1>11, <1>12 DEF SchedulerOK, Holds

-----------------------------------------------------------------------------
(***************************************************************************)
(* The inductive invariant                                                 *)
(***************************************************************************)
\* Nothing is owed while the check is disabled: turning it off drops the queue
\* on purpose.
EditorOK ==
    /\ setting \in {"on", "off"}
    /\ client \in {"up", "stopping", "down"}
    /\ dirty \in SUBSET Files
    /\ owed \in SUBSET Files
    /\ undone \in {"no", "yes"}
    /\ setting = "off" \/ client = "down" => owed = {}

Kept == \A f \in owed : Holds(q, f)

Inv == SchedulerOK(q) /\ EditorOK /\ Kept

\* What a step may do with the spacing of the runs, and with a queue.
Spaced ==
    q'.running = "yes" /\ (q.running = "no" \/ q'.rest < q.rest) => q.rest = Floor

Good == Inv' /\ Spaced /\ (NotStranded => NotStranded')

\* An action that ends with arm, on a scheduler in order that holds the files
\* owed afterwards, is good.
LEMMA ArmIsGood ==
    ASSUME Inv, EditorOK', NEW k, SchedulerOK(k),
           q' = Arm(k, Gate(setting', client', dirty')),
           \A f \in owed' : Holds(k, f),
           k.rest = q.rest,
           k.running = q.running \/ k.running = "no"
    PROVE  Good
<1> DEFINE gate == Gate(setting', client', dirty')
<1>1. gate = "disabled" => owed' = {}
  BY DEF Gate, EditorOK
<1>2. gate = "blocked" => dirty' # {}
  BY DEF Gate
<1> HIDE DEF gate
<1>3. q' = Arm(k, gate)
  BY DEF gate
<1>4. SchedulerOK(q')
  BY <1>3, ArmKeeps
<1>5. gate # "disabled" => \A f : Holds(k, f) => Holds(q', f)
  BY <1>3, ArmKeeps
<1>6. q'.pending # {} /\ q'.running = "no" /\ q'.disposed = "no" /\ q'.timer = NoTimer
      => gate = "blocked"
  BY <1>3, ArmKeeps
<1>7. q'.running # k.running \/ q'.rest # k.rest => k.rest = Floor
  BY <1>3, ArmKeeps
<1>8. Kept'
  BY <1>1, <1>5 DEF Kept
<1>9. NotStranded'
  BY <1>2, <1>6 DEF NotStranded
<1>10. Spaced
  <2> SUFFICES ASSUME q'.running = "yes", q.running = "no" \/ q'.rest < q.rest
               PROVE  q.rest = Floor
    BY DEF Spaced
  <2>1. CASE q.running = "no"
    BY <1>7, <2>1
  <2>2. CASE q'.rest < q.rest
    <3>1. q.rest \in Int /\ q'.rest \in Int
      BY <1>4 DEF Inv, SchedulerOK, QueueOK, QueueType
    <3>2. QED
      BY <1>7, <2>2, <3>1
  <2>3. QED
    BY <2>1, <2>2
<1>11. QED
  BY <1>4, <1>8, <1>9, <1>10 DEF Good, Inv

\* Every step from a state of the invariant is good.
LEMMA StepIsGood ==
    ASSUME Inv, [Next]_vars
    PROVE  Good
<1> USE ConstantsAssumption
<1>0. /\ SchedulerOK(q) /\ EditorOK /\ Kept
      /\ q \in QueueType /\ q.running \in {"no", "yes"} /\ q.disposed \in {"no", "yes"}
      /\ q.rest \in Int /\ q.timer \in Int
  BY DEF Inv, SchedulerOK, QueueOK, QueueType
<1>1. ASSUME NEW f \in Files, Edit(f) PROVE Good
  <2>1. q' = q /\ owed' = owed /\ dirty' # {} /\ EditorOK'
    BY <1>0, <1>1 DEF Edit, EditorOK
  <2>2. Inv'
    BY <1>0, <2>1 DEF Inv, Kept
  <2>3. QED
    BY <1>0, <2>1, <2>2 DEF Good, Spaced, NotStranded
<1>2. ASSUME NEW f \in Files, Save(f) PROVE Good
  <2>1. dirty' = dirty \ {f} /\ setting' = setting /\ client' = client
    BY <1>2 DEF Save
  <2>0. undone' = "no"
    BY <1>2 DEF Save
  <2>2. CASE /\ setting = "on" /\ q.disposed = "no"
             /\ q' = Arm(Enqueue(q, f), Gate(setting, client, dirty'))
             /\ owed' = IF client = "down" THEN owed ELSE owed \cup {f}
    <3>1. EditorOK'
      BY <1>0, <2>0, <2>1, <2>2 DEF EditorOK
    <3>2. \A g \in owed' : Holds(q, g) \/ g = f
      BY <1>0, <2>2 DEF Kept
    <3>3. /\ SchedulerOK(Enqueue(q, f)) /\ Enqueue(q, f).rest = q.rest
          /\ Enqueue(q, f).running = q.running
          /\ \A g \in owed' : Holds(Enqueue(q, f), g)
      BY <1>0, <3>2, EnqueueKeeps
    <3>4. QED
      BY <2>1, <2>2, <3>1, <3>3, ArmIsGood
  <2>3. CASE q' = Arm(q, Gate(setting, client, dirty')) /\ owed' = owed
    <3>1. EditorOK'
      BY <1>0, <2>0, <2>1, <2>3 DEF EditorOK
    <3>2. QED
      BY <1>0, <2>1, <2>3, <3>1, ArmIsGood DEF Kept
  <2>4. QED
    BY <1>2, <2>2, <2>3 DEF Save
<1>3. ASSUME NEW f \in Files, Close(f) PROVE Good
  <2>1. /\ q' = Arm(q, Gate(setting', client', dirty')) /\ owed' = owed
        /\ EditorOK'
    BY <1>0, <1>3 DEF Close, EditorOK
  <2>2. QED
    BY <1>0, <2>1, ArmIsGood DEF Kept
<1>4. ASSUME NEW f \in Files, Undo(f) PROVE Good
  <2>1. q' = q /\ owed' = owed /\ EditorOK' /\ (dirty' # {} \/ undone' = "yes")
    BY <1>0, <1>4 DEF Undo, EditorOK
  <2>2. Inv'
    BY <1>0, <2>1 DEF Inv, Kept
  <2>3. QED
    BY <1>0, <2>1, <2>2 DEF Good, Spaced, NotStranded
<1>5. CASE Poke \/ SwitchOn
  <2>1. /\ q' = Arm(q, Gate(setting', client', dirty')) /\ owed' = owed
        /\ EditorOK'
    BY <1>0, <1>5 DEF Poke, SwitchOn, EditorOK
  <2>2. QED
    BY <1>0, <2>1, ArmIsGood DEF Kept
<1>6. CASE SwitchOff
  <2>1. q' = CancelPending(q) /\ owed' = {} /\ EditorOK'
    BY <1>0, <1>6 DEF SwitchOff, EditorOK
  <2>2. /\ SchedulerOK(q') /\ q'.pending = {}
        /\ q'.running = q.running /\ q'.rest = q.rest
    BY <1>0, <2>1, CancelKeeps
  <2>3. QED
    BY <1>0, <2>1, <2>2 DEF Good, Inv, Kept, Spaced, NotStranded
<1>7. CASE Restart
  <2>1. q' = Reset(q) /\ owed' = {} /\ EditorOK'
    BY <1>0, <1>7 DEF Restart, EditorOK
  <2>2. SchedulerOK(q') /\ q'.pending = {} /\ q'.running = "no"
    BY <1>0, <2>1, ResetKeeps
  <2>3. QED
    BY <1>0, <2>1, <2>2 DEF Good, Inv, Kept, Spaced, NotStranded
<1>8. CASE Restarted
  <2> DEFINE runs == {[r EXCEPT !.client = "old"] : r \in q.inflight}
  <2>1. q' = [q EXCEPT !.inflight = runs] /\ dirty' = dirty /\ undone' = undone
    BY <1>0, <1>8 DEF Restarted, QueueType
  <2>2. owed' \subseteq owed /\ EditorOK'
    BY <1>0, <1>8 DEF Restarted, EditorOK
  <2>3. q.inflight \in SUBSET Run
    BY <1>0 DEF QueueType
  <2>4. \A r \in q.inflight :
            /\ [r EXCEPT !.client = "old"] \in Run
            /\ [r EXCEPT !.client = "old"].token = r.token
            /\ [r EXCEPT !.client = "old"].uris = r.uris
    BY <2>3 DEF Run
  <2>5. /\ runs \in SUBSET Run
        /\ \A r \in CurrentOf(q) : \E s \in runs : s.token = "current" /\ s.uris = r.uris
        /\ \A s \in runs : s.token = "current" =>
               \E r \in CurrentOf(q) : s = r \/ s = [r EXCEPT !.client = "old"]
    BY <2>4 DEF CurrentOf
  <2>6. \A s, t \in runs : s.token = "current" /\ t.token = "current" => s = t
    <3> SUFFICES ASSUME NEW s \in runs, NEW t \in runs,
                        s.token = "current", t.token = "current"
                 PROVE  s = t
      OBVIOUS
    <3>1. PICK a \in q.inflight : s = [a EXCEPT !.client = "old"]
      OBVIOUS
    <3>2. PICK b \in q.inflight : t = [b EXCEPT !.client = "old"]
      OBVIOUS
    <3>3. a \in CurrentOf(q) /\ b \in CurrentOf(q)
      BY <2>4, <3>1, <3>2 DEF CurrentOf
    <3>4. QED
      BY <1>0, <3>1, <3>2, <3>3 DEF SchedulerOK, RunOK
  <2> HIDE DEF runs
  <2>7. /\ SchedulerOK(q')
        /\ \A f : Holds(q, f) => Holds(q', f)
        /\ q'.pending = q.pending /\ q'.running = q.running /\ q'.rest = q.rest
        /\ q'.timer = q.timer /\ q'.disposed = q.disposed
    BY <1>0, <2>1, <2>5, <2>6, InflightKeeps
  <2>8. Kept'
    BY <1>0, <2>2, <2>7 DEF Kept
  <2>9. QED
    BY <1>0, <2>1, <2>2, <2>7, <2>8 DEF Good, Inv, Spaced, NotStranded
<1>9. CASE Dispose
  <2>1. q' = [CancelPending(q) EXCEPT !.disposed = "yes"] /\ owed' = {} /\ EditorOK'
    BY <1>0, <1>9 DEF Dispose, EditorOK
  <2>2. /\ SchedulerOK(q') /\ q'.disposed = "yes"
        /\ q'.running = q.running /\ q'.rest = q.rest
    BY <1>0, <2>1, DisposeKeeps
  <2>3. QED
    BY <1>0, <2>1, <2>2 DEF Good, Inv, Kept, Spaced, NotStranded
<1>10. CASE Tick
  <2>1. owed' = owed /\ dirty' = dirty /\ undone' = undone /\ EditorOK'
    BY <1>0, <1>10 DEF Tick, EditorOK
  <2>2. /\ SchedulerOK(q')
        /\ \A f : Holds(q, f) => Holds(q', f)
        /\ q'.pending = q.pending /\ q'.running = q.running
        /\ q'.disposed = q.disposed /\ q'.rest >= q.rest
        /\ q.timer # NoTimer => q'.timer # NoTimer
    BY <1>0, <1>10, TickKeeps
  <2>3. Kept'
    BY <1>0, <2>1, <2>2 DEF Kept
  <2>4. q'.rest \in Int
    BY <2>2 DEF SchedulerOK, QueueOK, QueueType
  <2>5. Spaced
    BY <1>0, <2>2, <2>4 DEF Spaced
  <2>6. QED
    BY <2>1, <2>2, <2>3, <2>5 DEF Good, Inv, NotStranded
<1>11. CASE TimerFires
  <2> DEFINE gate == Gate(setting, client, dirty)
  <2>1. q.timer = 0 /\ q' = Fire(q, gate) /\ owed' = owed /\ dirty' = dirty /\ undone' = undone /\ EditorOK'
    BY <1>0, <1>11 DEF TimerFires, EditorOK
  <2>2. (gate = "disabled" => owed = {}) /\ (gate = "blocked" => dirty # {})
    BY <1>0 DEF Gate, EditorOK
  <2> HIDE DEF gate
  <2>3. q.running = "no" /\ q.rest = Floor
    <3>1. q.timer # NoTimer /\ q.rest \in 0 .. Floor
      BY <1>0, <2>1 DEF NoTimer, SchedulerOK, QueueOK
    <3>2. q.running = "no" /\ q.timer + q.rest >= Floor
      BY <1>0, <3>1 DEF SchedulerOK, TimerOK
    <3>3. QED
      BY <2>1, <3>1, <3>2
  <2>4. /\ SchedulerOK(q')
        /\ gate # "disabled" => \A f : Holds(q, f) => Holds(q', f)
        /\ q'.pending # {} /\ q.disposed = "no" => gate = "blocked"
        /\ q'.disposed = q.disposed
    BY <1>0, <2>1, <2>3, FireKeeps DEF SchedulerOK
  <2>5. Kept'
    BY <1>0, <2>1, <2>2, <2>4 DEF Kept
  <2>6. QED
    BY <2>1, <2>2, <2>3, <2>4, <2>5 DEF Good, Inv, Spaced, NotStranded
<1>12. ASSUME NEW r \in q.inflight, NEW outcome, Settle(r, outcome) PROVE Good
  <2>1. setting' = setting /\ client' = client /\ dirty' = dirty /\ undone' = undone
    BY <1>12 DEF Settle
  <2>2. CASE /\ r.token = "current"
             /\ q' = Arm(Settled(q, r, outcome), Gate(setting, client, dirty))
             /\ owed' = IF outcome = "busy" THEN owed ELSE owed \ (r.uris \ q.pending)
    <3> DEFINE k == Settled(q, r, outcome)
    <3>1. r \in CurrentOf(q)
      BY <2>2 DEF CurrentOf
    <3>2. /\ SchedulerOK(k)
          /\ \A f \in q.pending : Holds(k, f)
          /\ outcome = "busy" => \A f \in r.uris : Holds(k, f)
          /\ k.rest = q.rest /\ k.running = "no"
      BY <1>0, <3>1, SettledKeeps
    <3> HIDE DEF k
    <3>3. \A f : Holds(q, f) => f \in q.pending \/ f \in r.uris
      BY <1>0, <3>1 DEF Holds, SchedulerOK, RunOK
    <3>4. owed' \subseteq owed /\ EditorOK'
      BY <1>0, <2>1, <2>2 DEF EditorOK
    <3>5. \A f \in owed' : Holds(k, f)
      BY <1>0, <2>2, <3>2, <3>3 DEF Kept
    <3>6. q' = Arm(k, Gate(setting', client', dirty'))
      BY <2>1, <2>2 DEF k
    <3>7. QED
      BY <3>2, <3>4, <3>5, <3>6, ArmIsGood
  <2>3. CASE r.token = "past" /\ q' = [q EXCEPT !.inflight = @ \ {r}] /\ owed' = owed
    <3> DEFINE runs == q.inflight \ {r}
    <3>1. q' = [q EXCEPT !.inflight = runs] /\ EditorOK'
      BY <1>0, <2>1, <2>3 DEF QueueType, EditorOK
    <3>2. /\ runs \in SUBSET Run
          /\ \A s : s \in CurrentOf(q) <=> s \in runs /\ s.token = "current"
      BY <1>0, <2>3 DEF QueueType, CurrentOf
    <3> HIDE DEF runs
    <3>3. \A s, t \in runs : s.token = "current" /\ t.token = "current" => s = t
      BY <1>0, <3>2 DEF SchedulerOK, RunOK
    <3>4. /\ SchedulerOK(q')
          /\ \A f : Holds(q, f) => Holds(q', f)
          /\ q'.pending = q.pending /\ q'.running = q.running /\ q'.rest = q.rest
          /\ q'.timer = q.timer /\ q'.disposed = q.disposed
      BY <1>0, <3>1, <3>2, <3>3, InflightKeeps
    <3>5. Kept'
      BY <1>0, <2>3, <3>4 DEF Kept
    <3>6. QED
      BY <1>0, <2>1, <3>1, <3>4, <3>5 DEF Good, Inv, Spaced, NotStranded
  <2>4. QED
    BY <1>12, <2>2, <2>3 DEF Settle
<1>13. CASE UNCHANGED vars
  <2>1. q' = q /\ owed' = owed /\ dirty' = dirty /\ undone' = undone /\ EditorOK'
    BY <1>0, <1>13 DEF vars, EditorOK
  <2>2. QED
    BY <1>0, <2>1 DEF Good, Inv, Kept, Spaced, NotStranded
<1>14. QED
  BY <1>1, <1>2, <1>3, <1>4, <1>5, <1>6, <1>7, <1>8, <1>9, <1>10, <1>11, <1>12, <1>13
  DEF Next, Completes, IsBusy

\* The scheduler starts in order.
LEMMA InitIsGood == Init => Inv /\ NotStranded
<1> USE ConstantsAssumption
<1> SUFFICES ASSUME Init PROVE Inv /\ NotStranded
  OBVIOUS
<1>1. /\ q \in QueueType /\ q.pending = {} /\ q.timer = NoTimer /\ q.running = "no"
      /\ q.age = NoBatch /\ q.rest = Floor /\ q.inflight = {}
  <2>1. Floor \in Int /\ NoTimer \in Int /\ NoBatch \in Int /\ {} \in SUBSET Run
        /\ {} \in SUBSET Files
    BY DEF NoTimer, NoBatch
  <2>2. QED
    BY <2>1 DEF Init, QueueType
<1>2. QueueOK(q)
  BY <1>1 DEF QueueOK, NoTimer, NoBatch, Later
<1>3. SchedulerOK(q)
  BY <1>1, <1>2 DEF SchedulerOK, RunOK, TimerOK, CurrentOf
<1>4. EditorOK /\ Kept
  BY DEF Init, EditorOK, Kept
<1>5. QED
  BY <1>1, <1>3, <1>4 DEF Inv, NotStranded

\* The inductive invariant holds always.
LEMMA Always == Spec => []Inv
<1>1. Inv /\ [Next]_vars => Inv'
  BY StepIsGood DEF Good
<1>2. QED
  BY <1>1, InitIsGood, PTL DEF Spec

-----------------------------------------------------------------------------
\* The scheduler's variables keep their types: ages and timer stay within the
\* two intervals, and a batch has a beginning exactly while it has files.
THEOREM Typing == Spec => []TypeOK
<1>1. Inv => TypeOK
  BY DEF Inv, SchedulerOK, QueueOK, EditorOK, TypeOK
<1>2. QED
  BY <1>1, Always, PTL

\* There is one current run exactly while the running flag is set, whatever
\* restarts, late answers and timers come between.
THEOREM SingleRun == Spec => []OneRun
<1>1. Inv => OneRun
  BY DEF Inv, SchedulerOK, RunOK, CurrentOf, OneRun, Current
<1>2. QED
  BY <1>1, Always, PTL

\* A saved file is queued or being checked until a run with it completes.
THEOREM SavesKept == Spec => []NoLostSave
<1>1. Inv => NoLostSave
  BY DEF Inv, Kept, Holds, CurrentOf, NoLostSave, Current
<1>2. QED
  BY <1>1, Always, PTL

\* Two runs without a restart between them start at least a floor apart.
THEOREM RunsSpaced == Spec => FloorKept
<1>1. Inv /\ [Next]_vars => Spaced
  BY StepIsGood DEF Good
<1>2. Inv /\ [Next]_vars
      => [q'.running = "yes" /\ (q.running = "no" \/ q'.rest < q.rest)
              => q.rest = Floor]_vars
  BY <1>1 DEF Spaced
<1>3. QED
  BY <1>2, Always, PTL DEF Spec, FloorKept

\* A queue is stranded by an undo, and by nothing else.
THEOREM NeverStranded == Spec => []NotStranded
<1>1. Inv /\ NotStranded /\ [Next]_vars => NotStranded'
  BY StepIsGood DEF Good
<1>2. QED
  BY <1>1, Always, InitIsGood, PTL DEF Spec

\* A save stays due until it is checked (enqueue, arm, fire).
THEOREM SavesAreDue == Spec => []SavesStayDue
<1>1. NoLostSave /\ NotStranded => SavesStayDue
  BY DEF SavesStayDue
<1>2. QED
  BY <1>1, SavesKept, NeverStranded, PTL

\* The client's checks are serial and spaced, for every debounce and floor
\* (fire, reset).
THEOREM RunsAreSerial == Spec => OneRunAtATime
  BY SingleRun, RunsSpaced, PTL DEF OneRunAtATime

=============================================================================
