------------------------------ MODULE TimeRanges -------------------------------
(***************************************************************************)
(* The arithmetic by which parallel-perf.py divides time among its jobs    *)
(* (scripts/python/parallel-perf.py, lines 403-712).  A time range is the  *)
(* pair <<start, end>> of its first and last nanosecond; lists of ranges   *)
(* are sequences.  The floating point quotients of the code are kept as    *)
(* pairs of a numerator and a denominator, and round() rounds halves to    *)
(* the even neighbour.                                                     *)
(*                                                                         *)
(* A definition named X_Y is a deliberately wrong variant of X, kept to    *)
(* see which property notices.                                             *)
(***************************************************************************)
EXTENDS Integers, Sequences, FiniteSets, SequencesExt

None == -1                  \* an open end of a range

AtLeast(low, n) == IF n < low THEN low ELSE n

Rounded(a, b) ==
  LET q == a \div b
      twice == 2 * (a % b)
  IN  IF twice > b \/ (twice = b /\ q % 2 = 1) THEN q + 1 ELSE q

Ceiling(a, b) == (a + b - 1) \div b

\* The elements of a set of numbers from the least to the greatest.
InOrder(S) ==
  CHOOSE s \in [1..Cardinality(S) -> S] : \A i, j \in DOMAIN s : i < j => s[i] < s[j]

Times(r) == r[1]..r[2]
Covered(ranges) == UNION {Times(ranges[i]) : i \in DOMAIN ranges}

\* Op applied to base and the elements of seq from left to right; the
\* singletons make TLC evaluate what is accumulated only once.
Fold(Op(_, _), base, seq) ==
  LET folded[i \in 0..Len(seq)] ==
        IF i = 0 THEN base
        ELSE CHOOSE y \in {Op(x, seq[i]) : x \in {folded[i - 1]}} : TRUE
  IN  folded[Len(seq)]

Iterate(Step(_), start, n) ==
  Fold(LAMBDA x, i : Step(x), start, [i \in 1..n |-> i])
-----------------------------------------------------------------------------
TimeRangeDuration(r) == r[2] - r[1] + 1

TotalDuration(ranges) ==
  Fold(LAMBDA sum, r : sum + TimeRangeDuration(r), 0, ranges)

\* The last part takes what the division leaves over.
SplitSingleTimeRangeIntoN(r, n) ==
  LET duration == TimeRangeDuration(r) \div n
  IN  IF n <= 1 \/ duration < 1 THEN <<r>>
      ELSE [i \in 1..n |->
              <<r[1] + (i - 1) * duration,
                IF i = n THEN r[2] ELSE r[1] + i * duration - 1>>]

\* interval is a quotient <<p, q>>, in nanoseconds.
SplitTimeRangesByInterval(ranges, interval) ==
  FlattenSeq([i \in DOMAIN ranges |->
    SplitSingleTimeRangeIntoN(ranges[i],
      Rounded(TimeRangeDuration(ranges[i]) * interval[2], interval[1]))])

SplitTimeRangesIntoN(ranges, n, minInterval) ==
  IF n <= Len(ranges) THEN ranges
  ELSE SplitTimeRangesByInterval(ranges,
         IF TotalDuration(ranges) < minInterval * n THEN <<minInterval, 1>>
         ELSE <<TotalDuration(ranges), n>>)

RecombineTimeRanges(ranges) ==
  Fold(LAMBDA acc, r :
         IF acc # <<>> /\ Last(acc)[2] + 1 = r[1]
         THEN [acc EXCEPT ![Len(acc)][2] = r[2]]
         ELSE Append(acc, r), <<>>, ranges)

OpenTimeRangeEnds_Always(ranges, minTime, maxTime) ==
  [ranges EXCEPT ![1][1] = None, ![Len(ranges)][2] = None]
OpenTimeRangeEnds(ranges, minTime, maxTime) ==
  LET n == Len(ranges)
      low == IF ranges[1][1] <= minTime THEN [ranges EXCEPT ![1][1] = None]
             ELSE ranges
  IN  IF ranges[n][2] >= maxTime THEN [low EXCEPT ![n][2] = None] ELSE low

ValidTimeRanges(ranges) ==
  /\ \A i \in DOMAIN ranges : ranges[i][1] <= ranges[i][2]
  /\ \A i \in 2..Len(ranges) : ranges[i][1] > ranges[i - 1][2]

\* An empty time stands for the first or the last time of the trace, no
\* option for both.
ParseTimeStr(option, minTime, maxTime) ==
  IF option = <<>> THEN <<<<minTime, maxTime>>>>
  ELSE [i \in DOMAIN option |->
          <<IF option[i][1] = None THEN minTime ELSE option[i][1],
            IF option[i][2] = None THEN maxTime ELSE option[i][2]>>]

ValidCPUs(spans, nrCpus) ==
  \A s \in spans : s[1] <= s[2] /\ s[2] < nrCpus

ParseCPUStr(spans, nrCpus) ==
  IF spans = {} THEN <<-1>> ELSE InOrder(UNION {s[1]..s[2] : s \in spans})
-----------------------------------------------------------------------------
(* Ranges with about the same number of samples (Intel PT).                *)

\* s with the i-th element replaced by the elements of mid.
Put(s, i, mid) == SubSeq(s, 1, i - 1) \o mid \o SubSeq(s, i + 1, Len(s))

\* One turn of the loop of IntersectTimeRanges over s.new and old.
IntersectStep(s, old) ==
  IF s.pos > Len(old) \/ s.newPos > Len(s.new) THEN s
  ELSE LET n == s.new[s.newPos]
           o == old[s.pos]
           start == IF n[1] < o[1] THEN o[1] ELSE n[1]
       IN  IF n[2] < o[1] THEN [s EXCEPT !.new = Put(@, s.newPos, <<>>)]
           ELSE IF n[1] > o[2] /\ s.pos < Len(old) THEN [s EXCEPT !.pos = @ + 1]
           ELSE IF n[1] > o[2]
           THEN [s EXCEPT !.pos = @ + 1, !.new = SubSeq(@, 1, s.newPos - 1)]
           ELSE IF n[2] > o[2]
           THEN [s EXCEPT !.newPos = @ + 1,
                  !.new = Put(@, s.newPos, <<<<start, o[2]>>, <<o[2] + 1, n[2]>>>>)]
           ELSE [s EXCEPT !.newPos = @ + 1,
                  !.new = Put(@, s.newPos, <<<<start, n[2]>>>>)]

\* Every turn advances one of the two positions or removes a range; each old
\* range adds at most one.
IntersectTimeRanges(new, old) ==
  Iterate(LAMBDA s : IntersectStep(s, old), [new |-> new, pos |-> 1, newPos |-> 1],
          2 * (Len(new) + Len(old)) + 2).new

\* CalcTimeRangesByCPU for all samples of a CPU: every d-th sample but the
\* last one starts a new range.
CalcTimeRangesByCPU_NoCut(times, d, minTime, maxTime) == <<<<minTime, maxTime>>>>
CalcTimeRangesByCPU(times, d, minTime, maxTime) ==
  LET cuts == (Len(times) - 1) \div d
  IN  [k \in 1..(cuts + 1) |->
         <<IF k = 1 THEN minTime ELSE times[(k - 1) * d],
           IF k = cuts + 1 THEN maxTime ELSE times[k * d] - 1>>]

\* The times of the samples that one of the lists of ranges is made for.
TimesOf(samples, perCpu, cpu) ==
  LET mine == InOrder({i \in DOMAIN samples : ~perCpu \/ samples[i][1] = cpu})
  IN  [i \in DOMAIN mine |-> samples[mine[i]][2]]

\* The list of ranges for samples that are to be divided by interval.
RangesForSamples(ranges, times, interval) ==
  LET n == AtLeast(1, Rounded(Len(times), interval))
  IN  IF times = <<>> THEN ranges
      ELSE IntersectTimeRanges(
             CalcTimeRangesByCPU(times, Ceiling(Len(times), n),
                                 ranges[1][1], Last(ranges)[2]), ranges)

\* samples: the CPU and the time of each sample, in the order of their times.
\* Result: one list for each CPU, or the list that serves all of them.
SplitTimeRangesByTraceDataDensity(ranges, cpus, nr, samples, perCpu, minSize, minInterval, nrJobCpus) ==
  LET interval == AtLeast(IF nr > 0 THEN 1 ELSE AtLeast(1, minSize),
                          Rounded(Len(samples), IF nr > 0 THEN nr ELSE nrJobCpus))
  IN  IF \A c \in Range(cpus) :
           Len(TimesOf(samples, perCpu, c)) < AtLeast(1, minSize)
      THEN <<SplitTimeRangesIntoN(ranges, AtLeast(1, nr), minInterval)>>
      ELSE [i \in DOMAIN cpus |->
              RangesForSamples(ranges, TimesOf(samples, perCpu, cpus[i]), interval)]
=============================================================================
