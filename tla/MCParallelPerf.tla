---------------------------- MODULE MCParallelPerf -----------------------------
(* Invocations of parallel-perf.py for TLC: many dry runs, which check the   *)
(* division of the work, and a few that run their jobs.                      *)
EXTENDS ParallelPerf

Base ==
  [perCpu |-> FALSE, noPerCpu |-> FALSE, intelPT |-> FALSE, perThread |-> FALSE,
   nr |-> 0, interval |-> <<0, 1>>, jobs |-> 2, nrJobCpus |-> 2, cpus |-> {},
   nrCpus |-> 2, time |-> <<>>, minTime |-> 2, maxTime |-> 11, samples |-> <<>>,
   minSize |-> 1, minInterval |-> 2, pipeTo |-> FALSE, dryRun |-> TRUE]

TimeOptions ==
  {<<>>, <<<<None, None>>>>, <<<<0, 13>>>>, <<<<3, 9>>>>, <<<<2, 4>>, <<7, 11>>>>,
   <<<<None, 3>>, <<5, 6>>, <<9, None>>>>, <<<<4, 3>>>>, <<<<2, 5>>, <<5, 9>>>>,
   <<<<2, 5>>, <<6, 9>>>>}

CPUOptions == {{}, {<<1, 1>>, <<0, 1>>}, {<<1, 2>>}}

Simple ==
  {[Base EXCEPT !.perCpu = p, !.nr = n, !.time = t, !.cpus = c, !.jobs = 0,
                !.minInterval = m] :
     p \in BOOLEAN, n \in 0..4, t \in TimeOptions, c \in CPUOptions,
     m \in {1, 4}}

WithInterval ==
  {[Base EXCEPT !.nr = n, !.interval = i, !.time = t, !.intelPT = pt] :
     n \in {0, 2}, i \in {<<1, 2>>, <<1, 1>>, <<3, 1>>}, t \in TimeOptions,
     pt \in BOOLEAN}

\* Samples of the two CPUs in the order of their times, inside the ranges.
SampleSeqs(t) ==
  LET times == Covered(ParseTimeStr(t, Base.minTime, Base.maxTime)) \cap {3, 4, 9}
  IN  UNION {{s \in [1..n -> {0, 1} \X times] :
                \A i \in 2..n : s[i - 1][2] <= s[i][2]} : n \in 0..3}

IntelPT ==
  UNION {{[Base EXCEPT !.intelPT = TRUE, !.noPerCpu = np, !.nr = n, !.time = t,
                       !.samples = s, !.minSize = m] :
            np \in BOOLEAN, n \in {0, 1, 3}, m \in {1, 2}, s \in SampleSeqs(t)} :
         t \in {<<>>, <<<<2, 4>>, <<7, 11>>>>}}

Real ==
  {[Base EXCEPT !.dryRun = FALSE, !.nr = n, !.jobs = j, !.pipeTo = p] :
     n \in 1..3, j \in 1..2, p \in BOOLEAN}

MCInvocations ==
  Simple \cup WithInterval \cup IntelPT \cup Real
=============================================================================
