----------------------------- MODULE ParallelPerf ------------------------------
(***************************************************************************)
(* parallel-perf.py (scripts/python/parallel-perf.py): the options and the *)
(* header of the recording are turned into time ranges for each CPU, the   *)
(* ranges into a list of perf commands, and the commands are run.          *)
(*                                                                         *)
(* An option string is the value it parses to: a time option is a list of  *)
(* pairs of times, None for an empty one; a CPU option is a set of spans;  *)
(* the interval is a quotient of seconds.  Messages, and the strings of    *)
(* the commands other than the options that are put in, are left out.      *)
(***************************************************************************)
EXTENDS TimeRanges, ParallelJobs

CONSTANTS
  Invocations,   \* command lines and recordings to consider
  MaxWork        \* most jobs of an invocation that is run; bounds the model

\* Negative numbers are refused (line 724); --jobs=0 asks for one per CPU.  The
\* samples of the command are inside its time ranges, in the order of their times.
ASSUME InvocationAssumption ==
  /\ MaxWork \in Nat
  /\ \A o \in Invocations :
       /\ o.jobs \in Nat /\ o.nr \in Nat /\ o.minInterval \in Nat
       /\ o.nrJobCpus \in Nat \ {0} /\ o.interval \in Nat \X (Nat \ {0})
       /\ o.minTime \in Nat /\ o.maxTime \in Nat
       /\ o.time \in Seq((Nat \cup {None}) \X (Nat \cup {None}))
       /\ o.nrCpus \in Nat \ {0} /\ o.cpus \subseteq Nat \X Nat
       /\ o.minSize \in Nat
       /\ o.samples \in
            Seq(Int \X Covered(ParseTimeStr(o.time, o.minTime, o.maxTime)))
       /\ \A i, j \in DOMAIN o.samples :
            i < j => o.samples[i][2] <= o.samples[j][2]

VARIABLES
  opts,       \* the invocation
  stage,      \* the step of Config to come, "ready", or why there is none
  userRanges, \* time_ranges
  split, opened,   \* split_time_ranges_for_each_cpu before and after its
                   \* ends are opened
  worklist

confVars == <<opts, stage, userRanges, split, opened, worklist>>
vars == <<jobVars, confVars>>

HasInterval == opts.interval[1] > 0

\* ParallelPerf.__init__
JobCount == IF opts.jobs = 0 THEN opts.nrJobCpus ELSE opts.jobs
Subdivisions ==
  IF opts.nr = 0 /\ ~HasInterval THEN IF opts.perCpu THEN 1 ELSE JobCount
  ELSE opts.nr

\* --no-per-cpu takes precedence over the default, not over --per-cpu.
PerCPU ==
  opts.perCpu \/ (~opts.noPerCpu /\ ~opts.perThread /\ opts.intelPT)

CPUsOption == IF PerCPU THEN opts.cpus ELSE {}
CPUs ==
  IF ~PerCPU THEN <<-1>>
  ELSE IF opts.cpus = {} THEN [i \in 1..opts.nrCpus |-> i - 1]
  ELSE ParseCPUStr(opts.cpus, opts.nrCpus)

Refused == {"bad_options", "bad_time", "bad_cpus", "self_test"}

BadOptions == opts.nr # 0 /\ HasInterval
-----------------------------------------------------------------------------
Init ==
  /\ opts \in Invocations
  /\ stage = IF BadOptions THEN "bad_options" ELSE "extract"
  /\ userRanges = <<>> /\ split = <<>> /\ opened = <<>> /\ worklist = <<>>
  /\ JobsInit

(* Config; an exception ends the program with a message.                   *)

Extract ==
  /\ stage = "extract"
  /\ userRanges' = ParseTimeStr(opts.time, opts.minTime, opts.maxTime)
  /\ stage' = IF ~ValidTimeRanges(userRanges') THEN "bad_time"
              ELSE IF ~ValidCPUs(CPUsOption, opts.nrCpus) THEN "bad_cpus"
              ELSE "split"
  /\ UNCHANGED <<opts, split, opened, worklist, jobVars>>

SplitTimeRanges ==
  /\ stage = "split" /\ stage' = "check"
  /\ split' =
       IF opts.intelPT /\ ~HasInterval
       THEN SplitTimeRangesByTraceDataDensity(userRanges, CPUs, opts.nr,
              opts.samples, PerCPU, opts.minSize, opts.minInterval,
              opts.nrJobCpus)
       ELSE IF Subdivisions > 0
       THEN <<SplitTimeRangesIntoN(userRanges, Subdivisions, opts.minInterval)>>
       ELSE <<SplitTimeRangesByInterval(userRanges, opts.interval)>>
  /\ UNCHANGED <<opts, userRanges, opened, worklist, jobVars>>

CheckTimeRanges ==
  /\ stage = "check"
  /\ stage' = IF \A i \in DOMAIN split : RecombineTimeRanges(split[i]) = userRanges
              THEN "open" ELSE "self_test"
  /\ UNCHANGED <<opts, userRanges, split, opened, worklist, jobVars>>

OpenEnds ==
  /\ stage = "open" /\ stage' = "create"
  /\ opened' = [i \in DOMAIN split |->
                  OpenTimeRangeEnds(split[i], opts.minTime, opts.maxTime)]
  /\ UNCHANGED <<opts, userRanges, split, worklist, jobVars>>

\* The CPU and the time range each command is given and its output directory.
\* A range without a time option has the directory of its CPU.
ListOf(c) == IF Len(opened) > 1 THEN opened[c] ELSE opened[1]
DirOf(c, i) ==
  IF ListOf(c)[i] = <<None, None>> THEN [cpu |-> CPUs[c], list |-> 0, range |-> 0]
  ELSE [cpu |-> CPUs[c], list |-> IF Len(opened) > 1 THEN c ELSE 0, range |-> i]

CreateWorkList ==
  /\ stage = "create" /\ stage' = "ready"
  /\ worklist' =
       FlattenSeq([c \in DOMAIN CPUs |->
         [i \in DOMAIN ListOf(c) |->
            [cpu |-> CPUs[c], time |-> ListOf(c)[i], dir |-> DirOf(c, i)]]])
  /\ UNCHANGED <<opts, userRanges, split, opened, jobVars>>

Config ==
  Extract \/ SplitTimeRanges \/ CheckTimeRanges \/ OpenEnds \/ CreateWorkList
-----------------------------------------------------------------------------
\* Run; a dry run only prints the commands.
Running(Step) ==
  /\ stage = "ready" /\ ~opts.dryRun
  /\ Step
  /\ UNCHANGED confVars

Finished ==
  \/ stage \in Refused
  \/ stage = "ready" /\ (opts.dryRun \/ Returned)

Ended == Finished /\ UNCHANGED vars

Run == CallRunWork(Len(worklist), JobCount, opts.pipeTo)

Next == Config \/ Running(Run) \/ Running(JobsNext) \/ Ended

\* Beyond the program's own steps: a perf command ends unless nobody reads what
\* it writes, a consumer ends once its input does, and a killed process dies.
Spec ==
  /\ Init /\ [][Next]_vars
  /\ WF_vars(Config)
  /\ WF_vars(Running(Run \/ MainStep))
  /\ \A w \in 1..MaxWork :
       /\ WF_vars(w \in Work /\ Running(ProducerEnds(w)))
       /\ WF_vars(w \in Work /\ Running(ConsumerEnds(w)))
       /\ WF_vars(w \in Work /\ Running(Die(w)))
-----------------------------------------------------------------------------
Adjacent(ranges) ==
  \E i \in 2..Len(ranges) : ranges[i - 1][2] + 1 = ranges[i][1]

\* No two samples of one CPU, or of all when they are not told apart, have the
\* same time.
DistinctTimes ==
  \A i, j \in DOMAIN opts.samples :
    i # j /\ (~PerCPU \/ opts.samples[i][1] = opts.samples[j][1])
      => opts.samples[i][2] # opts.samples[j][2]

\* The result of a configuration, and the types of the jobs' variables.
TypeOK ==
  /\ stage \in Refused \cup {"extract", "split", "check", "open", "create",
                             "ready"}
  /\ stage = "ready" => Len(worklist) \in Nat
  /\ pc # "idle" =>
       nrWork = Len(worklist) /\ nrJobs \in Nat \ {0}
  /\ JobsTypeOK

\* "Re-combined time ranges should be the same" (line 782): the self test of
\* valid options never fails, whatever way the ranges were divided.  It does
\* fail for ranges the user gave without a gap between them.
SelfTestSucceeds == stage = "self_test" => Adjacent(userRanges)

\* What perf script reads as the start and the end of a job's --time.
JobTimes(j) ==
  (IF worklist[j].time[1] = None THEN opts.minTime ELSE worklist[j].time[1])..
  (IF worklist[j].time[2] = None THEN opts.maxTime ELSE worklist[j].time[2])

\* The jobs divide the work (lines 925-931): every moment the user asked for is
\* given to exactly one job of every CPU, and no other moment of the recording
\* to any.
WorkIsPartitioned ==
  stage = "ready" =>
    \A c \in Range(CPUs), t \in opts.minTime..opts.maxTime :
      Cardinality({j \in DOMAIN worklist : worklist[j].cpu = c /\ t \in JobTimes(j)})
        = IF t \in Covered(userRanges) THEN 1 ELSE 0

\* No job is given a range that ends before it starts, which perf script would
\* refuse and so make the whole run fail.
NoEmptyRange ==
  stage = "ready" /\ DistinctTimes =>
    \A j \in DOMAIN worklist :
      worklist[j].time[2] # None => worklist[j].time[1] <= worklist[j].time[2]

\* "There is a separate output subdirectory for each time range" and CPU (lines
\* 898-899): no job overwrites the output of another.
OwnOutputDir ==
  \A i, j \in DOMAIN worklist : worklist[i].dir = worklist[j].dir => i = j

\* The division of the work is sound (lines 582-641 and 769-827).
WorkDivided ==
  SelfTestSucceeds /\ WorkIsPartitioned /\ NoEmptyRange /\ OwnOutputDir

\* Intel PT: no job gets more than one sample above the share its CPU's samples
\* were divided into, "approximately the same amount of trace data" (line 939).
Share(cnt) ==
  LET interval == AtLeast(IF opts.nr > 0 THEN 1 ELSE AtLeast(1, opts.minSize),
                          Rounded(Len(opts.samples),
                            IF opts.nr > 0 THEN opts.nr ELSE opts.nrJobCpus))
  IN  Ceiling(cnt, AtLeast(1, Rounded(cnt, interval)))
SamplesOf(c) == {i \in DOMAIN opts.samples : ~PerCPU \/ opts.samples[i][1] = c}
SharesAreEven ==
  stage = "ready" /\ DistinctTimes /\ Len(split) = Len(CPUs)
  /\ opts.intelPT /\ ~HasInterval
  /\ (\E c \in Range(CPUs) : Cardinality(SamplesOf(c)) >= AtLeast(1, opts.minSize)) =>
    \A j \in DOMAIN worklist :
      LET mine == SamplesOf(worklist[j].cpu)
      IN  Cardinality({i \in mine : opts.samples[i][2] \in JobTimes(j)})
            <= Share(Cardinality(mine)) + 1

\* At every moment the jobs' processes and files are accounted for, and the
\* result says how they ended (DoRunWork).
JobsInv ==
  /\ TypeOK
  /\ AtMostJobs /\ NothingLeftRunning /\ ErrFilesKept
  /\ SuccessIsReal /\ FailureHasCause

\* A run that is not refused comes to an end.
RunEnds == <>Finished
=============================================================================
