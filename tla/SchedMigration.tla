----------------------------- MODULE SchedMigration -----------------------------
(***************************************************************************)
(* sched-migration.py with SchedGui.py and taskState of Core.py: the slices    *)
(* of time between scheduler events, the tasks on the runqueue of each cpu in   *)
(* a slice, and the picture that is painted of them.                          *)
(*                                                                         *)
(* The environment is the scheduler of the traced machine.  The order of the    *)
(* tasks on a runqueue, text, and the scale of the picture are left out.         *)
(***************************************************************************)
EXTENDS Integers, Sequences, FiniteSets, FiniteSetsExt, SequencesExt, TLC

CONSTANTS
  Cpus, Tasks,         \* task 0 is idle and not one of Tasks
  MaxEvents, MaxLost   \* bounds of a trace

VARIABLE st

TypeError == -2   \* instead of the number of a slice

-----------------------------------------------------------------------------
(* RunqueueSnapshot.  Slices share snapshots, so that a snapshot is a place    *)
(* in s.snaps and a runqueue of a slice is such a place.                      *)
Snapshot(tasks, event) == [tasks |-> tasks, event |-> event]
Load(snap) == Cardinality(snap.tasks) - 1

\* taskState: a task that was preempted has a state it does not know.
TaskState(state) ==
  CASE state = 0 -> "R" [] state = 1 -> "S" [] state = 2 -> "D"
    [] state = 64 -> "DEAD" [] OTHER -> "Unknown"

\* The snapshot after an event, and whether it is a new one.
Same(snap) == [new |-> FALSE, snap |-> snap]
New(tasks, event) == [new |-> TRUE, snap |-> Snapshot(tasks, event)]

SnapSwitch(snap, prev, state, next) ==
  LET runs == TaskState(state) = "R"
  IN  IF runs /\ {prev, next} \subseteq snap.tasks THEN Same(snap)
      ELSE IF runs THEN New(snap.tasks \cup {prev, next}, "unknown")
      ELSE New((snap.tasks \ {prev}) \cup {next}, "sleep")
MigrateOut(snap, old) ==
  IF old \notin snap.tasks THEN Same(snap) ELSE New(snap.tasks \ {old}, "out")
MigrateIn_InPlace(snap, new, event) == Same(Snapshot(snap.tasks \cup {new}, event))
\* A task already there renames the event of the snapshot, in every slice.
MigrateIn(snap, new, event) ==
  IF new \in snap.tasks THEN Same([snap EXCEPT !.event = event])
  ELSE New(snap.tasks \cup {new}, event)
-----------------------------------------------------------------------------
(* TimeSlice and TimeSliceList                                               *)
\* prev.rqs[cpu], a defaultdict: looking at a runqueue creates it, empty.
Touched(s, cpu) ==
  IF cpu \in DOMAIN s.prev.rqs THEN s
  ELSE [s EXCEPT !.snaps = Append(@, Snapshot({0}, "unknown")),
                 !.prev.rqs = (cpu :> Len(s.snaps) + 1) @@ @]

\* get_time_slice: the last slice ends now; before the first there is an empty one.
Empty(now) ==
  [start |-> -1, end |-> now, rqs |-> <<>>, total |-> 0, cpus |-> {}]
NextOf(s, prev, now) ==
  [snaps |-> s.snaps, prev |-> prev,
   slice |-> [prev EXCEPT !.start = now, !.end = now, !.cpus = {}]]
GetTimeSlice(s, now) ==
  NextOf(s, IF s.data = <<>> THEN Empty(now) ELSE [Last(s.data) EXCEPT !.end = now], now)

\* The runqueue of one cpu of the slice and the total load after op.
Changed(s, cpu, Op(_)) ==
  LET t == Touched(s, cpu)
      old == t.snaps[t.prev.rqs[cpu]]
      op == Op(old)
      place == IF op.new THEN Len(t.snaps) + 1 ELSE t.prev.rqs[cpu]
  IN  [t EXCEPT !.snaps = IF op.new THEN Append(@, op.snap)
                          ELSE [@ EXCEPT ![place] = op.snap],
                !.slice.rqs = (cpu :> place) @@ @,
                !.slice.total = @ + Load(op.snap) - Load(old)]
Kept(t, cpu) == t.slice.rqs[cpu] = t.prev.rqs[cpu]

\* The slices after the event, with the new one if it was appended, which marks
\* some cpus.
Listed(s, t, appended, cpus) ==
  LET before == IF s.data = <<>> THEN <<>> ELSE Append(Front(s.data), t.prev)
  IN  [s EXCEPT !.snaps = t.snaps,
                !.data = IF appended THEN Append(before, [t.slice EXCEPT !.cpus = cpus])
                         ELSE before]

\* TimeSlice.sched_switch and TimeSlice.wake_up: nothing is appended for the
\* same snapshot.
OneCpu(s, now, cpu, Op(_)) ==
  LET t == Changed(GetTimeSlice(s, now), cpu, Op)
  IN  Listed(s, t, ~Kept(t, cpu), {cpu})

Migrate(s, now, pid, from, to) ==
  IF from = to THEN Listed(s, GetTimeSlice(s, now), FALSE, {})
  ELSE LET out == Changed(GetTimeSlice(s, now), from, LAMBDA q : MigrateOut(q, pid))
           in == Changed(out, to, LAMBDA q : MigrateIn(q, pid, "in"))
       IN  Listed(s, in, TRUE, IF Kept(out, from) THEN {to} ELSE {from, to})

\* wake_up of SchedEventProxy.
WakeUp(s, now, pid, success, cpu, event) ==
  IF success = 0 THEN s
  ELSE OneCpu(s, now, cpu, LAMBDA q : MigrateIn(q, pid, event))

\* sched_switch of SchedEventProxy: the message about missed events has the
\* wrong number of arguments and raises.
ProxySwitch(s, now, cpu, prev, state, next) ==
  IF s.current[cpu] \notin {-1, prev} THEN [s EXCEPT !.crashed = TRUE]
  ELSE OneCpu([s EXCEPT !.current[cpu] = next, !.threads = @ \cup {prev, next}],
              now, cpu, LAMBDA q : SnapSwitch(q, prev, state, next))
-----------------------------------------------------------------------------
(* The search and the picture                                               *)
\* find_time_slice, as steps (start, end, found); slices are numbered from 0.
\* The middle is taken by "/": under Python 3 it is a float and no index.
FindTimeSlice(data, ts, python) ==
  LET search[start \in Nat, end \in Nat, found \in Int] ==
        LET i == (end + start) \div 2
            slice == data[i + 1]
            hit == slice.start <= ts /\ slice.end >= ts
            found2 == IF hit THEN i ELSE found
        IN  IF end - start <= 1 THEN found2
            ELSE IF hit \/ slice.start > ts THEN search[start, i, found2]
            ELSE search[i, end, found2]
  IN  IF python = 3 THEN TypeError ELSE search[0, Len(data), -1]

\* fill_zone with update_rectangle_cpu and paint_rectangle_zone: the rectangles in
\* the order they are painted.  The width is measured from the start of the trace.
FillZone(s, start, end, python) ==
  LET i == FindTimeSlice(s.data, start, python)
      width(slice) == slice.end - s.data[1].start
      painted == SelectSeq([k \in 1..Len(s.data) |-> k - 1],
                           LAMBDA k : /\ i \notin {-1, TypeError} /\ k >= i
                                      /\ s.data[k + 1].start <= end)
  IN  [k \in 1..Len(painted) |->
         LET slice == s.data[painted[k] + 1]
         IN  [cpus |-> DOMAIN slice.rqs, slice |-> painted[k],
              left |-> slice.start, right |-> slice.start + width(slice)]]

-----------------------------------------------------------------------------
(* The scheduler.  on: the cpu of a task; mode of a task: new, sleep, waking    *)
(* (a cpu is chosen), ready or run.  Of the trace: told, the tasks it has named;  *)
(* unsure, those a lost event has named; preempted, those switched out in a state *)
(* the script takes for sleep and not heard of since.  was: for each slice what   *)
(* the scheduler had at its last event; later: wake-ups and migrations to a cpu,  *)
(* with the number of slices there were.                                         *)
Curr(cpu) ==
  LET running == {t \in Tasks : st.mode[t] = "run" /\ st.on[t] = cpu}
  IN  IF running = {} THEN 0 ELSE CHOOSE t \in running : TRUE
Ready(cpu) == {t \in Tasks : st.mode[t] = "ready" /\ st.on[t] = cpu}

Init ==
  \E mode \in [Tasks -> {"new", "sleep", "ready", "run"}], on \in [Tasks -> Cpus] :
    /\ \A t, u \in Tasks :
         (mode[t] = "run" /\ mode[u] = "run" /\ t # u) => on[t] # on[u]
    /\ \A t \in Tasks : mode[t] = "ready" =>
         \E u \in Tasks : mode[u] = "run" /\ on[u] = on[t]
    /\ on[CHOOSE t \in Tasks : TRUE] = CHOOSE c \in Cpus : TRUE   \* the cpus are alike
    /\ st = [clock |-> 0, time |-> 0, lost |-> 0, mode |-> mode, on |-> on,
             told |-> {}, unsure |-> {}, preempted |-> {}, was |-> <<>>, later |-> {},
             script |-> [snaps |-> <<>>, data |-> <<>>, threads |-> {0}, crashed |-> FALSE,
                         current |-> [c \in Cpus |-> -1]]]

\* The tasks the script can know to be on a cpu.
OnCpu(k, cpu) ==
  {t \in k.told \ k.preempted : k.on[t] = cpu /\ k.mode[t] \in {"run", "ready", "waking"}}

\* What is to be seen of the scheduler after an event to which the script adds
\* slices or not: the last slice stands for it.
Witnessed(k, added, marks) ==
  LET tasks == [c \in Cpus |-> OnCpu(k, c)]
      n == Len(k.was)
  IN  IF added THEN Append(k.was, [tasks |-> tasks, unsure |-> k.unsure, marks |-> marks])
      ELSE IF n = 0 THEN <<>>
      ELSE [k.was EXCEPT ![n].tasks = tasks, ![n].unsure = k.unsure]

\* The machine becomes k by an event about tasks, and the script s unless the event
\* is lost or ends the script; marks says how the event is to be shown on each cpu.
\* Events may have the same time.
Event(k, tasks, marks, Handler(_)) ==
  /\ st.clock < MaxEvents /\ ~st.script.crashed
  /\ \E now \in {st.time, st.time + 1} :
       \/ LET s == Handler(now)
              heard == [k EXCEPT !.clock = @ + 1, !.time = now, !.script = s]
          IN  st' = IF s.crashed THEN heard
                    ELSE [heard EXCEPT
                      !.was = Witnessed(k, Len(s.data) > Len(st.script.data), marks),
                      !.later = @ \cup {<<c, marks[c], Len(st.script.data)>> :
                                          c \in {d \in DOMAIN marks :
                                                   marks[d] \in {"in", "wakeup", "fork"}}}]
       \/ /\ st.lost < MaxLost /\ now > st.time
          /\ LET missed == [k EXCEPT !.clock = @ + 1, !.time = now, !.lost = @ + 1,
                                     !.unsure = @ \cup (tasks \ {0}), !.told = st.told]
             IN  st' = [missed EXCEPT !.was = Witnessed(missed, FALSE, <<>>)]

Switch(cpu, next) ==
  LET prev == Curr(cpu)
  IN  /\ next \in Ready(cpu) \/ (next = 0 /\ prev # 0 /\ Ready(cpu) = {})
      /\ \E state \in IF prev = 0 THEN {0} ELSE IF next = 0 THEN {1, 64} ELSE {0, 1, 256} :
           LET mode == [t \in Tasks |-> IF t = next THEN "run"
                                        ELSE IF t # prev THEN st.mode[t]
                                        ELSE IF state \in {0, 256} THEN "ready"
                                        ELSE IF state = 64 THEN "dead" ELSE "sleep"]
           IN  Event([st EXCEPT !.mode = mode,
                        !.told = @ \cup ({prev, next} \ {0}),
                        !.preempted = (IF state = 256 THEN @ \cup {prev} ELSE @ \ {prev})
                                      \ {next}],
                     {prev, next}, (cpu :> IF state = 0 THEN "unknown" ELSE "sleep"),
                     LAMBDA now : ProxySwitch(st.script, now, cpu, prev, state, next))

\* A wake-up: of a new task, of one that sleeps or has a cpu chosen for it, or of
\* one that does not sleep any more (success is 0 on old kernels).
Wakeup(t) ==
  /\ st.mode[t] # "dead"
  /\ \E success \in {0, 1} :
       LET name == IF st.mode[t] = "new" THEN "fork" ELSE "wakeup"
       IN  /\ success = 0 => st.mode[t] \in {"run", "ready"}
           /\ Event(IF success = 0 THEN st
                    ELSE [st EXCEPT !.told = @ \cup {t}, !.preempted = @ \ {t},
                            !.mode[t] = IF @ \in {"run", "ready"} THEN @ ELSE "ready"],
                    IF success = 0 THEN {} ELSE {t},
                    IF success = 0 THEN <<>> ELSE (st.on[t] :> name),
                    LAMBDA now : WakeUp(st.script, now, t, success, st.on[t], name))

MigrateTask(t, cpu) ==
  /\ st.mode[t] \in {"sleep", "ready"} /\ cpu # st.on[t]
  /\ Event([st EXCEPT !.on[t] = cpu, !.told = @ \cup {t}, !.preempted = @ \ {t},
              !.mode[t] = IF @ = "sleep" THEN "waking" ELSE @],
           {t}, (cpu :> "in") @@ (st.on[t] :> "out"),
           LAMBDA now : Migrate(st.script, now, t, st.on[t], cpu))

Next ==
  \/ \E cpu \in Cpus, next \in Tasks \cup {0} : Switch(cpu, next)
  \/ \E t \in Tasks : Wakeup(t)
  \/ \E t \in Tasks, cpu \in Cpus : MigrateTask(t, cpu)
-----------------------------------------------------------------------------
TypeOK ==
  LET s == st.script
  IN  /\ st.told \cup st.unsure \cup st.preempted \subseteq Tasks
      /\ s.threads \subseteq Tasks \cup {0}
      /\ \A i \in DOMAIN s.snaps : s.snaps[i].tasks \subseteq Tasks \cup {0}
      /\ \A i \in DOMAIN s.data : Range(s.data[i].rqs) \subseteq DOMAIN s.snaps

\* Each slice shows on each cpu the tasks the scheduler had there when it was the
\* last one, and goes on showing them, although slices share their snapshots: those
\* the trace has named, but tasks a lost event named, and a preempted task, which
\* taskState does not know and the script takes to sleep until it is heard of again.
\* The total is the sum of the loads in every slice, whatever was lost, and only a
\* lost event ends the script.
RunqueuesShown ==
  LET s == st.script
      tasksOn(slice, cpu) == IF cpu \in DOMAIN slice.rqs
                             THEN s.snaps[slice.rqs[cpu]].tasks ELSE {0}
  IN  /\ s.crashed => st.lost > 0
      /\ s.data = <<>> => \A cpu \in Cpus : OnCpu(st, cpu) \subseteq st.unsure
      /\ \A i \in DOMAIN s.data :
           LET slice == s.data[i]
           IN  /\ \A cpu \in Cpus :
                    tasksOn(slice, cpu) \ st.was[i].unsure
                      = ({0} \cup st.was[i].tasks[cpu]) \ st.was[i].unsure
               /\ slice.total = MapThenSumSet(LAMBDA cpu : Load(s.snaps[slice.rqs[cpu]]),
                                              DOMAIN slice.rqs)

\* The marks of a slice tell what began it. A wake-up or migration of a task that is
\* already shown on the cpu renames the mark in every slice that shares the snapshot
\* (lines 134-136), so that a mark may also name such a later event of its cpu, and
\* nothing else.
MarksTold ==
  LET s == st.script
  IN  \A i \in DOMAIN s.data :
        /\ s.data[i].cpus # {}
        /\ \A cpu \in s.data[i].cpus :
             LET mark == s.snaps[s.data[i].rqs[cpu]].event
             IN  \/ cpu \in DOMAIN st.was[i].marks /\ mark = st.was[i].marks[cpu]
                 \/ \E n \in i..Len(s.data) : <<cpu, mark, n>> \in st.later

\* Slices follow one another without a gap; a search that does not raise, which it
\* does under Python 3, finds the first slice that holds a time, and none outside the
\* trace; and what is painted for a cpu at a time, after all the rectangles that
\* overlap it, is the last slice holding it, or nothing when the search raised.
SlicesFound ==
  LET s == st.script
      Holds(i, ts) == s.data[i + 1].start <= ts /\ ts <= s.data[i + 1].end
      first == s.data[1].start
      Right(python) ==
        LET zone == FillZone(s, first, MaxEvents, python)
        IN  /\ \A ts \in 0..(MaxEvents + 1) :
                 LET holding == {i \in 0..(Len(s.data) - 1) : Holds(i, ts)}
                     found == FindTimeSlice(s.data, ts, python)
                 IN  found = TypeError \/ found = IF holding = {} THEN -1 ELSE Min(holding)
            /\ \A ts \in first..(Last(s.data).end - 1), cpu \in Cpus :
                 LET over == {k \in DOMAIN zone : cpu \in zone[k].cpus
                                /\ zone[k].left <= ts /\ ts < zone[k].right}
                     there == {i \in 0..(Len(s.data) - 1) :
                                 Holds(i, ts) /\ cpu \in DOMAIN s.data[i + 1].rqs}
                 IN  IF FindTimeSlice(s.data, first, python) = TypeError THEN over = {}
                     ELSE there # {} => zone[Max(over)].slice = Max(there)
  IN  s.data # <<>> =>
        /\ \A i \in 1..(Len(s.data) - 1) : s.data[i].end = s.data[i + 1].start
        /\ \A python \in {2, 3} : Right(python)
=============================================================================
