----------------------------- MODULE TaskAnalyzer ------------------------------
(***************************************************************************)
(* task-analyzer.py (scripts/python): pairs the sched_switch events of a    *)
(* trace into the times a thread ran on a CPU, prints each with the gaps to  *)
(* the thread's previous one, and sums them up at the end.                   *)
(*                                                                         *)
(* The environment is the traced machine: which thread each CPU runs; an     *)
(* event may be missing from the trace.  Times are whole numbers; units,     *)
(* colours, the layout of the output and pids are left out.  db["cpu"] and   *)
(* db["global"] are written and never read, and are left out.                *)
(***************************************************************************)
EXTENDS Integers, Sequences, FiniteSets, SequencesExt

CONSTANTS
  Cpus, Threads,   \* of the machine; threads are above 0, the idle task
  OptionSets,      \* command lines
  MaxSwitches, MaxLost   \* events of a trace, and how many it may miss: bounds

VARIABLE st

NoTime == -1
None == 0    \* no time of a task, as None and 0 are false alike

\* Timespans of two tasks, and the maxima kept for --summary-extended.
NoSpans == [start |-> None, finish |-> None, outIn |-> -1, outOut |-> -1,
            inIn |-> -1, inOut |-> -1, maxOutIn |-> -1, maxAt |-> -1,
            maxInOut |-> -1, maxInIn |-> -1, maxOutOut |-> -1]

Greater(a, b) == IF a > b THEN a ELSE b

Feed(s, task) ==
  IF s.finish = None THEN [s EXCEPT !.start = task.in, !.finish = task.out]
  ELSE LET outIn == task.in - s.finish
           inOut == task.out - s.start
           inIn == task.in - s.start
           outOut == task.out - s.finish
       IN  [start |-> task.in, finish |-> task.out,
            outIn |-> outIn, outOut |-> outOut, inIn |-> inIn, inOut |-> inOut,
            maxOutIn |-> Greater(s.maxOutIn, outIn),
            maxAt |-> IF outIn > s.maxOutIn THEN task.in ELSE s.maxAt,
            maxInOut |-> Greater(s.maxInOut, inOut),
            maxInIn |-> Greater(s.maxInIn, inIn),
            maxOutOut |-> Greater(s.maxOutOut, outOut)]

Runtime(task) == task.out - task.in

\* Twice the median.
Median(numbers) ==
  LET sorted == SortSeq(numbers, LAMBDA a, b : a < b)
      index == Len(numbers) \div 2
  IN  IF Len(numbers) % 2 = 1 THEN 2 * sorted[index + 1]
      ELSE sorted[index] + sorted[index + 1]

\* Summary._task_stats for the tasks of one thread.
TaskStats(tasks) ==
  LET runtimes == [i \in DOMAIN tasks |-> Runtime(tasks[i])]
      longest == CHOOSE i \in DOMAIN tasks :
                   /\ \A j \in DOMAIN tasks : runtimes[j] <= runtimes[i]
                   /\ \A j \in 1..(i - 1) : runtimes[j] < runtimes[i]
      shortest == CHOOSE i \in DOMAIN tasks :
                    \A j \in DOMAIN tasks : runtimes[i] <= runtimes[j]
      spans == FoldLeft(Feed, NoSpans, tasks)
  IN  [runs |-> Len(tasks), sum |-> FoldLeft(+, 0, runtimes),
       max |-> runtimes[longest], maxAt |-> tasks[longest].in,
       min |-> runtimes[shortest], median |-> Median(runtimes),
       outIn |-> spans.maxOutIn, interAt |-> spans.maxAt]
-----------------------------------------------------------------------------
(* Options: time is a pair of limits, NoTime for an open one, or <<>>.       *)

\* _argument_filter_sanity_check: what is refused, with what it sets.
SanityCheck(o) ==
  LET summary == o.summary \/ o.csvSummary
  IN  IF \/ o.limit # {} /\ o.filter # {}
         \/ o.extendedTimes /\ o.only
         \/ o.time # <<>> /\ (o.summary \/ o.only \/ o.extended)
         \/ o.csv /\ (o.extended \/ summary) /\ ~o.csvSummary
         \/ o.csv /\ o.only
      THEN "refused" ELSE "begin"

\* ... and _argument_prepare_check.
Prepared(o) ==
  [o EXCEPT !.summary = @ \/ o.csvSummary, !.only = @ \/ (o.csvSummary /\ ~o.csv)]

\* _limit_filtered; a task is named by its tid or its comm.
LimitFiltered(o, task) ==
  IF o.filter # {} THEN {task.tid, task.comm} \cap o.filter # {}
  ELSE o.limit # {} /\ {task.tid, task.comm} \cap o.limit = {}

\* _is_within_timelimit: "in", "out", or "quit" beyond the upper limit.
WithinTimeLimit(o, time) ==
  IF o.time = <<>> THEN "in"
  ELSE LET low == o.time[1]
           high == o.time[2]
       IN  IF high # NoTime /\ time > high THEN "quit"
           ELSE IF time >= low THEN "in" ELSE "out"
-----------------------------------------------------------------------------
(* The database: running tasks, finished tasks of each thread, and lines.    *)

Running(s, tid, cpu) == {t \in s.running : t.tid = tid /\ t.cpu = cpu}

\* _print_task_finish: the gaps to the last task of the thread.
LineOf(s, task) ==
  LET spans == IF s.tasks[task.tid] = <<>> THEN NoSpans
               ELSE Feed(Feed(NoSpans, Last(s.tasks[task.tid])), task)
  IN  [task |-> task, outIn |-> spans.outIn, outOut |-> spans.outOut,
       inIn |-> spans.inIn, inOut |-> spans.inOut]

\* _record_cleanup binds its own name to the shorter list and drops it.
RecordCleanup_Shortens(o, list) == IF ~o.summary THEN <<Last(list)>> ELSE list
RecordCleanup(o, list) == list

HandleTaskFinish(s, tid, cpu, time) ==
  IF tid = 0 \/ Running(s, tid, cpu) = {} THEN s
  ELSE LET started == CHOOSE t \in Running(s, tid, cpu) : TRUE
           task == [started EXCEPT !.out = time]
       IN  [s EXCEPT !.running = @ \ {started},
              !.lines = IF LimitFiltered(s.opts, task) \/ s.opts.only THEN @
                        ELSE Append(@, LineOf(s, task)),
              !.tasks[tid] = RecordCleanup(s.opts, Append(@, task))]

HandleTaskStart(s, tid, cpu, time) ==
  IF tid = 0 \/ Running(s, tid, cpu) # {} THEN s
  ELSE [s EXCEPT !.running = @ \cup
                   {[tid |-> tid, cpu |-> cpu, in |-> time, out |-> NoTime,
                     comm |-> s.opts.names[tid]]}]

SchedSwitch(s, cpu, prev, next, time) ==
  CASE WithinTimeLimit(s.opts, time) = "out" -> s
    [] WithinTimeLimit(s.opts, time) = "quit" -> [s EXCEPT !.phase = "quit"]
    [] OTHER -> HandleTaskStart(HandleTaskFinish(s, prev, cpu, time),
                                next, cpu, time)
-----------------------------------------------------------------------------
Init ==
  \E o \in OptionSets :
    st = [opts |-> Prepared(o), phase |-> SanityCheck(o), running |-> {},
          tasks |-> [t \in Threads |-> <<>>], lines |-> <<>>, stats |-> <<>>,
          \* the machine: clock, what runs since when, and the completed runs
          clock |-> 1, cur |-> [c \in Cpus |-> 0], since |-> [c \in Cpus |-> 0],
          runs |-> <<>>, lost |-> 0, switches |-> 0]

TraceBegin == st.phase = "begin" /\ st' = [st EXCEPT !.phase = "trace"]

\* The machine switches a CPU to another thread, and the script is told unless
\* the event is lost.
Switch(cpu, next, pause, seen) ==
  LET prev == st.cur[cpu]
      now == st.clock + pause
      machine ==
        [st EXCEPT !.clock = now, !.cur[cpu] = next, !.since[cpu] = now,
           !.switches = @ + 1, !.lost = IF seen THEN @ ELSE @ + 1,
           !.runs = IF prev = 0 THEN @
                    ELSE Append(@, [tid |-> prev, cpu |-> cpu, in |-> st.since[cpu],
                                    out |-> now, comm |-> st.opts.names[prev]])]
  IN  /\ st.phase = "trace" /\ st.switches < MaxSwitches
      /\ next # prev /\ (next = 0 \/ \A c \in Cpus : st.cur[c] # next)
      /\ seen \/ st.lost < MaxLost
      /\ st' = IF seen THEN SchedSwitch(machine, cpu, prev, next, now) ELSE machine

\* trace_end: the summary of the threads that have tasks.
TraceEnd ==
  /\ st.phase = "trace"
  /\ st' = [st EXCEPT !.phase = "ended",
              !.stats = IF ~(st.opts.summary \/ st.opts.extended \/ st.opts.only)
                        THEN @
                        ELSE [t \in {u \in Threads : st.tasks[u] # <<>>} |->
                               TaskStats(st.tasks[t])]]

Next ==
  \/ TraceBegin
  \/ \E cpu \in Cpus, next \in Threads \cup {0}, pause \in 1..2, seen \in BOOLEAN :
       Switch(cpu, next, pause, seen)
  \/ TraceEnd
-----------------------------------------------------------------------------
TypeOK ==
  /\ st.phase \in {"refused", "begin", "trace", "quit", "ended"}
  /\ \A t \in st.running :
       /\ t.tid \in Threads /\ t.cpu \in Cpus /\ t.out = NoTime
       /\ Running(st, t.tid, t.cpu) = {t}
  /\ \A t \in Threads : \A i \in DOMAIN st.tasks[t] : st.tasks[t][i].tid = t
  /\ st.lost \in 0..MaxLost

InWindow(run) ==
  st.opts.time = <<>> \/
    (run.in >= st.opts.time[1] /\ (st.opts.time[2] = NoTime \/ run.out <= st.opts.time[2]))

RunsOf(tid) == SelectSeq(st.runs, LAMBDA r : r.tid = tid /\ InWindow(r))

\* The tasks recorded of a thread are the times it ran inside the time limits,
\* in their order, when the trace misses nothing (_handle_task_start, _finish).
TasksAreRuns ==
  st.lost = 0 => \A tid \in Threads : st.tasks[tid] = RunsOf(tid)

\* Each printed line gives the time since the thread last ran, on any CPU and
\* whether that was printed or not (_print_task_finish, Timespans.feed).
GapsMeasured ==
  st.lost = 0 =>
    \A i \in DOMAIN st.lines :
      LET line == st.lines[i]
          earlier == SelectSeq(RunsOf(line.task.tid),
                               LAMBDA r : r.out <= line.task.in)
      IN  IF earlier = <<>> THEN line.outIn = -1 /\ line.inIn = -1
          ELSE /\ line.outIn = line.task.in - Last(earlier).out
               /\ line.inIn = line.task.in - Last(earlier).in
               /\ line.outOut = line.outIn + Runtime(line.task)

\* The summary counts every run of a thread: the time it had, the run that
\* took longest, a median that splits its runs, and its longest gap
\* (Summary._task_stats), also when --summary itself was not given.
SummaryRight ==
  (st.lost = 0 /\ st.phase = "ended" /\ st.stats # <<>>) =>
    \A tid \in Threads :
      LET runs == RunsOf(tid)
          s == st.stats[tid]
          atMost(x) == {i \in DOMAIN runs : 2 * Runtime(runs[i]) <= x}
          atLeast(x) == {i \in DOMAIN runs : 2 * Runtime(runs[i]) >= x}
      IN  /\ (tid \in DOMAIN st.stats) <=> (runs # <<>>)
          /\ runs # <<>> =>
               /\ s.runs = Len(runs)
               /\ s.sum = FoldLeft(LAMBDA n, r : n + Runtime(r), 0, runs)
               /\ \E i \in DOMAIN runs : Runtime(runs[i]) = s.max /\ runs[i].in = s.maxAt
               /\ atMost(2 * s.max) = DOMAIN runs /\ atLeast(2 * s.min) = DOMAIN runs
               /\ 2 * Cardinality(atMost(s.median)) >= Len(runs)
               /\ 2 * Cardinality(atLeast(s.median)) >= Len(runs)
               /\ Len(runs) > 1 =>
                    \A i \in 2..Len(runs) : s.outIn >= runs[i].in - runs[i - 1].out

\* A summary that was asked for is written when the trace is done, unless a time
\* limit was smuggled past the check with --csv-summary: the script then stops
\* at the limit (_argument_filter_sanity_check, _is_within_timelimit).
SummaryWritten ==
  (st.phase = "quit" /\ ~st.opts.csvSummary) =>
    ~(st.opts.summary \/ st.opts.extended \/ st.opts.only)
=============================================================================
