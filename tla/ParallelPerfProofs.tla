------------------------- MODULE ParallelPerfProofs ---------------------------
(***************************************************************************)
(* Proofs about parallel-perf.py, for all options and samples, any number  *)
(* of jobs and any limit on those that run at once.                        *)
(*                                                                         *)
(* Of the jobs, the inductive invariant IInv says that every job is in     *)
(* exactly one list of DoRunWork, what each list says of the processes of  *)
(* its jobs, and that a job with a process left, or an empty err.txt, is   *)
(* in a list that will still be polled or waited for.  Of the division of  *)
(* the work, DivInv says at each step of Config which moments the ranges   *)
(* so far cover; its lemmas follow the functions of TimeRanges.            *)
(***************************************************************************)
EXTENDS ParallelPerf, SequenceTheorems, FiniteSetTheorems, NaturalsInduction,
        WellFoundedInduction, TLAPS

-----------------------------------------------------------------------------
(* The lists of DoRunWork.                                                 *)

Disjoint(s, t) == Range(s) \cap Range(t) = {}

\* del running[0], and the first job of a list.
LEMMA TakeFirst ==
  ASSUME NEW S, NEW s \in Seq(S), IsInjective(s), s # <<>>
  PROVE  /\ Head(s) \in S /\ Head(s) \in Range(s)
         /\ Tail(s) \in Seq(S) /\ IsInjective(Tail(s))
         /\ Len(Tail(s)) = Len(s) - 1
         /\ Range(s) = {Head(s)} \cup Range(Tail(s))
         /\ Head(s) \notin Range(Tail(s))
<1> DEFINE t == Tail(s)
<1>1. /\ t \in Seq(S) /\ Len(t) = Len(s) - 1 /\ Head(s) \in S
      /\ \A i \in 1..Len(t) : t[i] = s[i + 1]
  BY HeadTailProperties
<1>2. /\ DOMAIN s = 1..Len(s) /\ DOMAIN t = 1..Len(t)
      /\ Len(s) \in Nat /\ Len(t) \in Nat /\ Len(s) >= 1 /\ Head(s) = s[1]
  BY <1>1, LenProperties
<1> HIDE DEF t
<1>3. \A i, j \in 1..Len(t) : t[i] = t[j] => i = j
  BY <1>1, <1>2 DEF IsInjective
<1>4. \A i \in 1..Len(t) : t[i] \in Range(s) /\ t[i] # Head(s)
  BY <1>1, <1>2 DEF IsInjective, Range
<1>5. \A i \in 1..Len(s) : s[i] = Head(s) \/ s[i] \in Range(t)
  <2> TAKE i \in 1..Len(s)
  <2>1. CASE i = 1
    BY <1>2, <2>1
  <2>2. CASE i # 1
    <3>1. i - 1 \in 1..Len(t) /\ t[i - 1] = s[i]
      BY <1>1, <1>2, <2>2
    <3> QED
      BY <1>2, <3>1 DEF Range
  <2> QED
    BY <2>1, <2>2
<1>6. Head(s) \in Range(s)
  BY <1>2 DEF Range
<1>7. Range(s) \subseteq {Head(s)} \cup Range(t)
  BY <1>2, <1>5 DEF Range
<1>8. Range(t) \subseteq Range(s) /\ Head(s) \notin Range(t)
  BY <1>2, <1>4 DEF Range
<1>9. IsInjective(t)
  BY <1>2, <1>3 DEF IsInjective
<1> QED
  BY <1>1, <1>6, <1>7, <1>8, <1>9 DEF t

\* append of a job that is not in the list
LEMMA AddLast ==
  ASSUME NEW S, NEW s \in Seq(S), IsInjective(s), NEW e \in S, e \notin Range(s)
  PROVE  /\ Append(s, e) \in Seq(S) /\ IsInjective(Append(s, e))
         /\ Len(Append(s, e)) = Len(s) + 1
         /\ Range(Append(s, e)) = Range(s) \cup {e}
<1> DEFINE t == Append(s, e)
<1>1. /\ t \in Seq(S) /\ Len(t) = Len(s) + 1
      /\ \A i \in 1..Len(s) : t[i] = s[i]
      /\ t[Len(s) + 1] = e
  BY AppendProperties
<1>2. /\ DOMAIN s = 1..Len(s) /\ DOMAIN t = 1..Len(t) /\ Len(s) \in Nat
  BY <1>1, LenProperties
<1> HIDE DEF t
<1>3. \A i \in 1..Len(s) : s[i] \in Range(s) /\ s[i] # e
  BY <1>2 DEF Range
<1>4. \A i \in 1..Len(t) : i \in 1..Len(s) \/ i = Len(s) + 1
  BY <1>1, <1>2
<1>5. IsInjective(t)
  <2> SUFFICES ASSUME NEW i \in 1..Len(t), NEW j \in 1..Len(t), t[i] = t[j]
               PROVE  i = j
    BY <1>2 DEF IsInjective
  <2>1. CASE i \in 1..Len(s) /\ j \in 1..Len(s)
    BY <1>1, <1>2, <2>1 DEF IsInjective
  <2>2. CASE i \notin 1..Len(s) \/ j \notin 1..Len(s)
    BY <1>1, <1>3, <1>4, <2>2
  <2> QED
    BY <2>1, <2>2
<1>6. Range(t) \subseteq Range(s) \cup {e}
  BY <1>1, <1>2, <1>3, <1>4 DEF Range
<1>7. Range(s) \subseteq Range(t)
  <2>1. \A i \in 1..Len(s) : i \in 1..Len(t) /\ s[i] = t[i]
    BY <1>1, <1>2
  <2> QED
    BY <1>2, <2>1 DEF Range
<1>8. e \in Range(t)
  <2>1. Len(s) + 1 \in 1..Len(t)
    BY <1>1, <1>2
  <2> QED
    BY <1>1, <1>2, <2>1 DEF Range
<1> QED
  BY <1>1, <1>5, <1>6, <1>7, <1>8 DEF t

\* done += finished
LEMMA JoinLists ==
  ASSUME NEW S, NEW s \in Seq(S), NEW t \in Seq(S),
         IsInjective(s), IsInjective(t), Disjoint(s, t)
  PROVE  /\ s \o t \in Seq(S) /\ IsInjective(s \o t)
         /\ Len(s \o t) = Len(s) + Len(t)
         /\ Range(s \o t) = Range(s) \cup Range(t)
<1> DEFINE u == s \o t
<1>1. /\ u \in Seq(S) /\ Len(u) = Len(s) + Len(t)
      /\ \A i \in 1..Len(u) : u[i] = IF i <= Len(s) THEN s[i] ELSE t[i - Len(s)]
  BY ConcatProperties
<1>2. /\ DOMAIN s = 1..Len(s) /\ DOMAIN t = 1..Len(t) /\ DOMAIN u = 1..Len(u)
      /\ Len(s) \in Nat /\ Len(t) \in Nat
  BY <1>1, LenProperties
<1> HIDE DEF u
<1>3. \A i \in 1..Len(u) :
        \/ i \in 1..Len(s) /\ u[i] = s[i]
        \/ i > Len(s) /\ i - Len(s) \in 1..Len(t) /\ u[i] = t[i - Len(s)]
  BY <1>1, <1>2
<1>4. \A i \in 1..Len(s), j \in 1..Len(t) : s[i] # t[j]
  BY <1>2 DEF Disjoint, Range
<1>5. IsInjective(u)
  <2> SUFFICES ASSUME NEW i \in 1..Len(u), NEW j \in 1..Len(u), u[i] = u[j]
               PROVE  i = j
    BY <1>2 DEF IsInjective
  <2>1. CASE i \in 1..Len(s) /\ j \in 1..Len(s)
    BY <1>2, <1>3, <2>1 DEF IsInjective
  <2>2. CASE i > Len(s) /\ j > Len(s)
    <3>1. /\ i - Len(s) \in 1..Len(t) /\ u[i] = t[i - Len(s)]
          /\ j - Len(s) \in 1..Len(t) /\ u[j] = t[j - Len(s)]
      BY <1>2, <1>3, <2>2
    <3>2. i - Len(s) = j - Len(s)
      BY <1>2, <3>1 DEF IsInjective
    <3> QED
      BY <1>2, <3>2
  <2>3. CASE i \in 1..Len(s) /\ j > Len(s)
    BY <1>2, <1>3, <1>4, <2>3
  <2>4. CASE j \in 1..Len(s) /\ i > Len(s)
    BY <1>2, <1>3, <1>4, <2>4
  <2> QED
    BY <1>3, <2>1, <2>2, <2>3, <2>4
<1>6. Range(u) \subseteq Range(s) \cup Range(t)
  BY <1>2, <1>3 DEF Range
<1>7. \A i \in 1..Len(s) : i \in 1..Len(u) /\ u[i] = s[i]
  BY <1>1, <1>2
<1>8. \A i \in 1..Len(t) : i + Len(s) \in 1..Len(u) /\ u[i + Len(s)] = t[i]
  <2> TAKE i \in 1..Len(t)
  <2>1. /\ i + Len(s) \in 1..Len(u) /\ ~(i + Len(s) <= Len(s))
        /\ (i + Len(s)) - Len(s) = i
    BY <1>1, <1>2
  <2> QED
    BY <1>1, <2>1
<1>9. Range(s) \cup Range(t) \subseteq Range(u)
  BY <1>2, <1>7, <1>8 DEF Range
<1> QED
  BY <1>1, <1>5, <1>6, <1>9 DEF u

\* A list holds no more jobs than it is long.
LEMMA ListSize ==
  ASSUME NEW S, NEW s \in Seq(S)
  PROVE  IsFiniteSet(Range(s)) /\ Cardinality(Range(s)) <= Len(s)
<1>1. Len(s) \in Nat /\ DOMAIN s = 1..Len(s)
  BY LenProperties
<1>2. IsFiniteSet(1..Len(s)) /\ Cardinality(1..Len(s)) = Len(s)
  BY <1>1, FS_Interval
<1>3. s \in Surjection(1..Len(s), Range(s))
  <2>1. s = [i \in 1..Len(s) |-> s[i]]
    BY <1>1, LenProperties
  <2>2. \A i \in 1..Len(s) : s[i] \in Range(s)
    BY <1>1 DEF Range
  <2>3. s \in [1..Len(s) -> Range(s)]
    BY <2>1, <2>2
  <2>4. \A x \in Range(s) : \E i \in 1..Len(s) : s[i] = x
    BY <1>1 DEF Range
  <2> QED
    BY <2>3, <2>4 DEF Surjection
<1> QED
  BY <1>2, <1>3, FS_Surjection

\* The empty list.
LEMMA EmptyLists ==
  /\ Range(<<>>) = {} /\ IsInjective(<<>>) /\ Len(<<>>) = 0
  /\ \A S : <<>> \in Seq(S)
BY EmptySeq DEF Range, IsInjective
-----------------------------------------------------------------------------
(* The inductive invariant of the jobs.                                    *)

JobOk(w) == producer[w] = "ok" /\ consumer[w] \in {"ok", "none"}
Cause(w) ==
  \/ producer[w] = "fail" \/ consumer[w] = "fail"
  \/ producer[w] = "killed" /\ consumer[w] = "ok"
Active  == {w \in Work : Started(w) /\ ~Gone(w)}
\* The jobs that still have a process, or an empty err.txt to remove.
Pending == {w \in Work : (Started(w) /\ ~Gone(w)) \/ errFile[w] = "empty"}
Polling == pc \in {"loop", "poll", "poll2"}

JobTypes ==
  /\ nrWork \in Nat /\ nrJobs \in Nat
  /\ producer \in [Work -> ProcStates] /\ consumer \in [Work -> ProcStates]
  /\ errFile \in [Work -> {"absent", "empty", "text", "removed", "lost"}]
  /\ polled \in ProcStates
  /\ result \in {"none", "true", "false", "raised"}
  /\ failed \in 0..nrWork
  /\ \A l \in {notStarted, running, notFinished, finished, done} :
       l \in Seq(Work) /\ IsInjective(l)

\* Every job is in one of the lists, once.
PartsInv ==
  /\ pc = "loop" =>
       /\ Disjoint(notStarted, running) /\ Disjoint(notStarted, done)
       /\ Disjoint(running, done)
       /\ Work = Range(notStarted) \cup Range(running) \cup Range(done)
       /\ nrWork = Len(notStarted) + Len(running) + Len(done)
  /\ pc \in {"poll", "poll2"} =>
       /\ Disjoint(notStarted, running) /\ Disjoint(notStarted, notFinished)
       /\ Disjoint(notStarted, finished) /\ Disjoint(notStarted, done)
       /\ Disjoint(running, notFinished) /\ Disjoint(running, finished)
       /\ Disjoint(running, done) /\ Disjoint(notFinished, finished)
       /\ Disjoint(notFinished, done) /\ Disjoint(finished, done)
       /\ Work = Range(notStarted) \cup Range(running) \cup Range(notFinished)
                   \cup Range(finished) \cup Range(done)
       /\ nrWork = Len(notStarted) + Len(running) + Len(notFinished)
                     + Len(finished) + Len(done)

\* What the lists say of the processes of their jobs.
StateInv ==
  /\ pc = "idle" =>
       /\ nrWork = 0 /\ failed = 0 /\ result = "none"
       /\ running = <<>> /\ notFinished = <<>> /\ finished = <<>> /\ done = <<>>
  /\ Polling =>
       /\ \A w \in Range(notStarted) :
            ~Started(w) /\ consumer[w] = "none" /\ errFile[w] = "absent"
       /\ \A w \in Range(running) : Started(w)
       /\ \A w \in Work : /\ consumer[w] \notin {"dying", "killed"}
                          /\ producer[w] \in {"dying", "killed"} => consumer[w] \in Dead
       /\ failed = 0
  /\ pc \in {"poll", "poll2"} =>
       /\ \A w \in Range(notFinished) : Started(w)
       /\ \A w \in Range(finished) : JobOk(w)
  /\ \A w \in Range(done) : JobOk(w)
  /\ pc = "poll2" =>
       /\ running # <<>> /\ polled # "none"
       /\ polled \in Dead => producer[Head(running)] = polled

\* Where the jobs are that are not done with.
PendingInv ==
  /\ pc = "loop" => Pending \subseteq Range(running)
  /\ pc \in {"poll", "poll2", "kill", "reap"} =>
       Pending \subseteq Range(running) \cup Range(notFinished)
  /\ pc = "reap2" => Pending \subseteq Range(running)
  /\ result \in {"true", "false"} => Pending = {}

EndInv ==
  /\ result = "none" <=> pc # "end"
  /\ SuccessIsReal /\ FailureHasCause /\ AtMostJobs
  /\ result = "raised" =>
       \A w \in Work : producer[w] # "alive" /\ consumer[w] # "alive"
  /\ \A w \in Work : errFile[w] # "lost" /\ (errFile[w] = "removed" => Gone(w))

IInv == JobTypes /\ PartsInv /\ StateInv /\ PendingInv /\ EndInv
-----------------------------------------------------------------------------
(* What the invariant says of the jobs.                                    *)

\* The properties follow from the invariant.
LEMMA IInvImplies ==
  IInv => /\ JobsTypeOK /\ AtMostJobs /\ NothingLeftRunning /\ ErrFilesKept
          /\ SuccessIsReal /\ FailureHasCause
<1> SUFFICES ASSUME IInv
             PROVE  /\ JobsTypeOK /\ AtMostJobs /\ NothingLeftRunning /\ ErrFilesKept
                    /\ SuccessIsReal /\ FailureHasCause
  OBVIOUS
<1>1. JobsTypeOK
  <2>1. ASSUME pc = "poll"
        PROVE  LET all == notStarted \o running \o notFinished \o finished \o done
               IN  Len(all) = nrWork /\ IsInjective(all)
    <3> DEFINE two   == notStarted \o running
               three == two \o notFinished
               four  == three \o finished
               all   == four \o done
    <3>1. \A l \in {notStarted, running, notFinished, finished, done} :
            l \in Seq(Work) /\ IsInjective(l) /\ Len(l) \in Nat
      BY LenProperties DEF IInv, JobTypes
    <3>2. /\ two \in Seq(Work) /\ IsInjective(two)
          /\ Len(two) = Len(notStarted) + Len(running)
          /\ Range(two) = Range(notStarted) \cup Range(running)
      BY <2>1, <3>1, JoinLists DEF IInv, PartsInv
    <3> HIDE DEF two
    <3>3. /\ three \in Seq(Work) /\ IsInjective(three)
          /\ Len(three) = Len(two) + Len(notFinished)
          /\ Range(three) = Range(two) \cup Range(notFinished)
      <4>1. Disjoint(two, notFinished)
        BY <2>1, <3>2 DEF IInv, PartsInv, Disjoint
      <4>2. notFinished \in Seq(Work) /\ IsInjective(notFinished)
        BY <3>1
      <4> QED
        BY ONLY <3>2, <4>1, <4>2, JoinLists
    <3> HIDE DEF three
    <3>4. /\ four \in Seq(Work) /\ IsInjective(four)
          /\ Len(four) = Len(three) + Len(finished)
          /\ Range(four) = Range(three) \cup Range(finished)
      <4>1. Disjoint(three, finished)
        BY <2>1, <3>2, <3>3 DEF IInv, PartsInv, Disjoint
      <4>2. finished \in Seq(Work) /\ IsInjective(finished)
        BY <3>1
      <4> QED
        BY ONLY <3>3, <4>1, <4>2, JoinLists
    <3> HIDE DEF four
    <3>5. IsInjective(all) /\ Len(all) = Len(four) + Len(done)
      <4>1. Disjoint(four, done)
        BY <2>1, <3>2, <3>3, <3>4 DEF IInv, PartsInv, Disjoint
      <4> QED
        BY <3>1, <3>4, <4>1, JoinLists
    <3>6. Len(all) = nrWork
      BY <2>1, <3>1, <3>2, <3>3, <3>4, <3>5 DEF IInv, PartsInv
    <3> QED
      BY <3>5, <3>6 DEF all, four, three, two
  <2> QED
    BY <2>1 DEF IInv, JobTypes, JobsTypeOK
<1>2. NothingLeftRunning
  BY DEF IInv, PendingInv, EndInv, Pending, NothingLeftRunning
<1>3. ErrFilesKept
  BY DEF IInv, PendingInv, EndInv, Pending, ErrFilesKept
<1> QED
  BY <1>1, <1>2, <1>3 DEF IInv, EndInv
-----------------------------------------------------------------------------
(* Steps that start no process.                                            *)

\* What is dead stays so, and nothing is started.
Evolves ==
  /\ nrWork' = nrWork /\ nrJobs' = nrJobs
  /\ producer' \in [Work -> ProcStates] /\ consumer' \in [Work -> ProcStates]
  /\ \A w \in Work :
       /\ producer[w] \in Dead \cup {"none"} => producer'[w] = producer[w]
       /\ producer[w] # "none" => producer'[w] # "none"
       /\ producer'[w] = "alive" => producer[w] = "alive"
       /\ consumer[w] \in Dead \cup {"none"} => consumer'[w] = consumer[w]
       /\ consumer'[w] = "alive" => consumer[w] = "alive"

\* What a job has come to, it stays.
LEMMA EvolvedJobs ==
  ASSUME IInv, Evolves
  PROVE  /\ Work' = Work
         /\ \A w \in Work : /\ Gone(w) => Gone(w)'
                            /\ JobOk(w) => JobOk(w)'
                            /\ Cause(w) => Cause(w)'
                            /\ Started(w)' <=> Started(w)
         /\ Active' \subseteq Active
         /\ AtMostJobs'
<1>1. Work' = Work
  BY DEF Evolves, Work
<1>2. ASSUME NEW w \in Work
      PROVE  /\ Gone(w) => Gone(w)'
             /\ JobOk(w) => JobOk(w)'
             /\ Cause(w) => Cause(w)'
             /\ Started(w)' <=> Started(w)
  BY DEF Evolves, Gone, JobOk, Cause, Started, Dead
<1>3. Active' \subseteq Active
  BY <1>1, <1>2 DEF Active
<1>4. AtMostJobs'
  <2>1. IsFiniteSet(Work)
    BY FS_Interval DEF IInv, JobTypes, Work
  <2>2. IsFiniteSet(Active) /\ Active \in SUBSET Work
    BY <2>1, FS_Subset DEF Active
  <2>3. IsFiniteSet(Active') /\ Cardinality(Active') <= Cardinality(Active)
    BY <1>3, <2>2, FS_Subset
  <2>4. /\ Cardinality(Active) \in Nat /\ Cardinality(Active') \in Nat
        /\ nrJobs \in Nat /\ Cardinality(Active) <= nrJobs
    BY <2>2, <2>3, FS_CardinalityType DEF IInv, JobTypes, EndInv, AtMostJobs, Active
  <2>5. Cardinality(Active') <= nrJobs'
    BY <2>3, <2>4 DEF Evolves
  <2> QED
    BY <2>5 DEF AtMostJobs, Active
<1> QED
  BY <1>1, <1>2, <1>3, <1>4

\* A step without effect on the processes and the err.txt files.
LEMMA StillEvolves ==
  ASSUME IInv, UNCHANGED <<nrWork, nrJobs, producer, consumer>>
  PROVE  Evolves
BY DEF IInv, JobTypes, Evolves

\* If no err.txt is made either, no job becomes pending.
LEMMA PendingShrinks ==
  ASSUME IInv, Evolves,
         \A w \in Work : errFile'[w] = "empty" => errFile[w] = "empty"
  PROVE  Pending' \subseteq Pending
BY EvolvedJobs DEF Pending

\* The end of the run, in a step that does not end it or blame a job.
LEMMA EvolvedEnd ==
  ASSUME IInv, Evolves, result' = result, failed' = failed,
         \A w \in Work : /\ errFile'[w] # "lost"
                         /\ errFile'[w] = "removed" =>
                              errFile[w] = "removed" \/ Gone(w)
  PROVE  /\ SuccessIsReal' /\ FailureHasCause' /\ AtMostJobs'
         /\ result' = "raised" =>
              \A w \in Work' : producer'[w] # "alive" /\ consumer'[w] # "alive"
         /\ \A w \in Work' : errFile'[w] # "lost" /\ (errFile'[w] = "removed" => Gone(w)')
         /\ failed' \in 0..nrWork'
<1>1. Work' = Work /\ AtMostJobs'
  BY EvolvedJobs
<1>2. SuccessIsReal'
  BY <1>1, EvolvedJobs DEF IInv, EndInv, SuccessIsReal, JobOk
<1>3. FailureHasCause'
  <2>1. ASSUME failed # 0
        PROVE  Cause(failed)'
    <3>1. failed \in Work /\ Cause(failed)
      BY <2>1 DEF IInv, JobTypes, EndInv, FailureHasCause, Cause, Work
    <3>2. \A w \in Work : Cause(w) => Cause(w)'
      BY EvolvedJobs
    <3> QED
      BY <3>1, <3>2 DEF Cause
  <2> QED
    BY <2>1 DEF FailureHasCause, Cause
<1>4. \A w \in Work : errFile'[w] = "removed" => Gone(w)'
  BY EvolvedJobs DEF IInv, EndInv
<1>5. result' = "raised" =>
        \A w \in Work : producer'[w] # "alive" /\ consumer'[w] # "alive"
  BY DEF IInv, EndInv, Evolves
<1>6. failed' \in 0..nrWork'
  BY DEF Evolves, IInv, JobTypes
<1> QED
  BY <1>1, <1>2, <1>3, <1>4, <1>5, <1>6

\* The jobs in done stay as they are.
LEMMA DoneStays ==
  ASSUME IInv, Evolves
  PROVE  \A w \in Range(done) : w \in Work /\ JobOk(w)'
<1>1. \A w \in Range(done) : w \in Work /\ JobOk(w)
  <2>1. done \in Seq(Work)
    BY DEF IInv, JobTypes
  <2>2. \A i \in DOMAIN done : done[i] \in Work
    BY <2>1, LenProperties, ElementOfSeq
  <2> QED
    BY <2>2 DEF IInv, StateInv, Range
<1>2. \A w \in Work : JobOk(w) => JobOk(w)'
  BY EvolvedJobs
<1> QED
  BY <1>1, <1>2
-----------------------------------------------------------------------------
(* The invariant is kept.                                                  *)

\* A call with n jobs.
LEMMA CallKeeps ==
  ASSUME IInv, NEW n \in Nat, NEW j \in Nat, NEW pipe, CallRunWork(n, j, pipe)
  PROVE  IInv'
<1>1. /\ pc = "idle" /\ pc' = "loop" /\ nrWork' = n /\ nrJobs' = j
      /\ producer' = [w \in 1..n |-> "none"]
      /\ consumer' = [w \in 1..n |-> "none"]
      /\ errFile' = [w \in 1..n |-> "absent"]
      /\ notStarted' = [i \in 1..n |-> i]
      /\ UNCHANGED <<running, notFinished, finished, done, polled, result, failed>>
  BY DEF CallRunWork
<1>2. Work' = 1..n
  BY <1>1 DEF Work
<1>3. /\ running' = <<>> /\ notFinished' = <<>> /\ finished' = <<>> /\ done' = <<>>
      /\ failed' = 0 /\ result' = "none"
  BY <1>1 DEF IInv, StateInv
<1>4. /\ notStarted' \in Seq(1..n) /\ IsInjective(notStarted')
      /\ Len(notStarted') = n /\ Range(notStarted') = 1..n
  <2> DEFINE s == [i \in 1..n |-> i]
  <2>1. s \in Seq(1..n)
    BY IsASeq
  <2>2. Len(s) = n
    BY <2>1, LenProperties
  <2>3. IsInjective(s) /\ Range(s) = 1..n
    BY DEF IsInjective, Range
  <2> QED
    BY <1>1, <2>1, <2>2, <2>3
<1>5. JobTypes'
  <2>1. \A l \in {notStarted', running', notFinished', finished', done'} :
          l \in Seq(1..n) /\ IsInjective(l)
    BY <1>3, <1>4, EmptyLists
  <2>2. polled' \in ProcStates
    BY <1>1 DEF IInv, JobTypes
  <2> QED
    BY <1>1, <1>2, <1>3, <2>1, <2>2 DEF JobTypes, ProcStates
<1>6. PartsInv'
  BY <1>1, <1>2, <1>3, <1>4, EmptyLists DEF PartsInv, Disjoint
<1>7. StateInv'
  BY <1>1, <1>2, <1>3, <1>4, EmptyLists
     DEF StateInv, Polling, Started, JobOk, Dead
<1>8. Pending' = {} /\ Active' = {}
  BY <1>1, <1>2 DEF Pending, Active, Started
<1>9. EndInv'
  <2>1. AtMostJobs'
    BY <1>1, <1>8, FS_EmptySet DEF AtMostJobs, Active
  <2> QED
    BY <1>1, <1>2, <1>3, <2>1 DEF EndInv, SuccessIsReal, FailureHasCause
<1> QED
  BY <1>1, <1>3, <1>5, <1>6, <1>7, <1>8, <1>9 DEF IInv, PendingInv

\* The job taken from notStarted is in no other list.
LEMMA StartFacts ==
  ASSUME IInv, NEW p, NEW c, NEW next, StartFrom(p, c, next)
  PROVE  LET w == Head(notStarted)
         IN  /\ pc = "loop" /\ pc' = next /\ w \in Work
             /\ ~Started(w) /\ consumer[w] = "none" /\ errFile[w] = "absent"
             /\ w \notin Range(running) /\ w \notin Range(done)
             /\ Len(running) < nrJobs
             /\ notStarted' \in Seq(Work) /\ IsInjective(notStarted')
             /\ Len(notStarted') = Len(notStarted) - 1
             /\ Range(notStarted) = {w} \cup Range(notStarted')
             /\ w \notin Range(notStarted')
             /\ running' \in Seq(Work) /\ IsInjective(running')
             /\ Len(running') = Len(running) + 1
             /\ Range(running') = Range(running) \cup {w}
             /\ producer' = [producer EXCEPT ![w] = p]
             /\ consumer' = [consumer EXCEPT ![w] = c]
             /\ errFile' = [errFile EXCEPT ![w] = "empty"]
             /\ UNCHANGED <<nrWork, nrJobs, notFinished, finished, done, polled,
                            result, failed>>
<1> DEFINE w == Head(notStarted)
<1>1. /\ pc = "loop" /\ pc' = next /\ Len(running) < nrJobs /\ notStarted # <<>>
      /\ notStarted' = Tail(notStarted) /\ running' = Append(running, w)
      /\ producer' = [producer EXCEPT ![w] = p]
      /\ consumer' = [consumer EXCEPT ![w] = c]
      /\ errFile' = [errFile EXCEPT ![w] = "empty"]
      /\ UNCHANGED <<nrWork, nrJobs, notFinished, finished, done, polled,
                     result, failed>>
  BY DEF StartFrom, MayStart, fixed
<1>2. /\ notStarted \in Seq(Work) /\ IsInjective(notStarted)
      /\ running \in Seq(Work) /\ IsInjective(running)
  BY DEF IInv, JobTypes
<1>3. /\ w \in Work /\ w \in Range(notStarted)
      /\ notStarted' \in Seq(Work) /\ IsInjective(notStarted')
      /\ Len(notStarted') = Len(notStarted) - 1
      /\ Range(notStarted) = {w} \cup Range(notStarted')
      /\ w \notin Range(notStarted')
  BY <1>1, <1>2, TakeFirst
<1> HIDE DEF w
<1>4. w \notin Range(running) /\ w \notin Range(done)
  BY <1>1, <1>3 DEF IInv, PartsInv, Disjoint
<1>5. ~Started(w) /\ consumer[w] = "none" /\ errFile[w] = "absent"
  BY <1>1, <1>3 DEF IInv, StateInv, Polling
<1>6. /\ running' \in Seq(Work) /\ IsInjective(running')
      /\ Len(running') = Len(running) + 1
      /\ Range(running') = Range(running) \cup {w}
  BY ONLY <1>1, <1>2, <1>3, <1>4, AddLast
<1> QED
  BY <1>1, <1>3, <1>4, <1>5, <1>6 DEF w

\* The processes of the other jobs are left alone.
LEMMA StartOthers ==
  ASSUME IInv, NEW p, NEW c, NEW next, StartFrom(p, c, next),
         p \in {"none", "alive"}, c \in {"none", "alive"}
  PROVE  LET w == Head(notStarted)
         IN  /\ Work' = Work
             /\ \A x \in Work \ {w} :
                  /\ producer'[x] = producer[x] /\ consumer'[x] = consumer[x]
                  /\ errFile'[x] = errFile[x]
                  /\ Started(x)' <=> Started(x)
                  /\ Gone(x)' <=> Gone(x)
                  /\ JobOk(x)' <=> JobOk(x)
             /\ producer'[w] = p /\ consumer'[w] = c /\ errFile'[w] = "empty"
             /\ producer' \in [Work -> ProcStates]
             /\ consumer' \in [Work -> ProcStates]
             /\ errFile' \in [Work -> {"absent", "empty", "text", "removed", "lost"}]
             /\ AtMostJobs'
<1> DEFINE w == Head(notStarted)
<1>1. /\ w \in Work /\ nrWork' = nrWork /\ nrJobs' = nrJobs
      /\ producer' = [producer EXCEPT ![w] = p]
      /\ consumer' = [consumer EXCEPT ![w] = c]
      /\ errFile' = [errFile EXCEPT ![w] = "empty"]
      /\ pc = "loop" /\ Len(running) < nrJobs
  BY StartFacts
<1>2. /\ producer \in [Work -> ProcStates] /\ consumer \in [Work -> ProcStates]
      /\ errFile \in [Work -> {"absent", "empty", "text", "removed", "lost"}]
      /\ running \in Seq(Work) /\ nrWork \in Nat /\ nrJobs \in Nat
  BY DEF IInv, JobTypes
<1> HIDE DEF w
<1>3. /\ Work' = Work
      /\ producer' \in [Work -> ProcStates] /\ consumer' \in [Work -> ProcStates]
      /\ errFile' \in [Work -> {"absent", "empty", "text", "removed", "lost"}]
      /\ producer'[w] = p /\ consumer'[w] = c /\ errFile'[w] = "empty"
  BY <1>1, <1>2 DEF Work, ProcStates
<1>4. ASSUME NEW x \in Work \ {w}
      PROVE  /\ producer'[x] = producer[x] /\ consumer'[x] = consumer[x]
             /\ errFile'[x] = errFile[x]
  BY <1>1, <1>2
<1>5. ASSUME NEW x \in Work \ {w}
      PROVE  /\ Started(x)' <=> Started(x)
             /\ Gone(x)' <=> Gone(x)
             /\ JobOk(x)' <=> JobOk(x)
  BY <1>4 DEF Started, Gone, JobOk
<1>6. AtMostJobs'
  <2>1. Active \subseteq Range(running)
    BY <1>1 DEF IInv, PendingInv, Pending, Active
  <2>2. Active' \subseteq Active \cup {w}
    BY <1>3, <1>5 DEF Active
  <2>3. /\ IsFiniteSet(Active) /\ Cardinality(Active) <= Cardinality(Range(running))
        /\ Cardinality(Range(running)) <= Len(running) /\ IsFiniteSet(Range(running))
    BY <1>2, <2>1, ListSize, FS_Subset
  <2>4. /\ IsFiniteSet(Active \cup {w})
        /\ Cardinality(Active \cup {w}) <= Cardinality(Active) + 1
    <3>1. Cardinality(Active) \in Nat
      BY <2>3, FS_CardinalityType
    <3>2. /\ IsFiniteSet(Active \cup {w})
          /\ \/ Cardinality(Active \cup {w}) = Cardinality(Active)
             \/ Cardinality(Active \cup {w}) = Cardinality(Active) + 1
      BY ONLY <2>3, FS_AddElement
    <3> QED
      BY <3>1, <3>2
  <2>5. /\ IsFiniteSet(Active') /\ Cardinality(Active') <= Cardinality(Active \cup {w})
    BY <2>2, <2>4, FS_Subset
  <2>6. /\ Cardinality(Active) \in Nat /\ Cardinality(Active') \in Nat
        /\ Cardinality(Active \cup {w}) \in Nat /\ Cardinality(Range(running)) \in Nat
        /\ Len(running) \in Nat
    BY <1>2, <2>3, <2>4, <2>5, FS_CardinalityType, LenProperties
  <2>7. Cardinality(Active') <= nrJobs'
    BY <1>1, <1>2, <2>3, <2>4, <2>5, <2>6
  <2> QED
    BY <2>7 DEF AtMostJobs, Active
<1> QED
  BY <1>3, <1>4, <1>5, <1>6 DEF w

\* Start: the job is running, or Popen raised.
LEMMA StartKeeps ==
  ASSUME IInv, NEW p, NEW c, NEW next, StartFrom(p, c, next),
         c \in {"none", "alive"},
         \/ p = "alive" /\ next \in {"loop", "except"}
         \/ p = "none" /\ next = "except"
  PROVE  IInv'
<1> DEFINE w == Head(notStarted)
<1>1. /\ pc = "loop" /\ pc' = next /\ w \in Work
      /\ ~Started(w) /\ consumer[w] = "none" /\ errFile[w] = "absent"
      /\ w \notin Range(running) /\ w \notin Range(done)
      /\ notStarted' \in Seq(Work) /\ IsInjective(notStarted')
      /\ Len(notStarted') = Len(notStarted) - 1
      /\ Range(notStarted) = {w} \cup Range(notStarted')
      /\ w \notin Range(notStarted')
      /\ running' \in Seq(Work) /\ IsInjective(running')
      /\ Len(running') = Len(running) + 1
      /\ Range(running') = Range(running) \cup {w}
      /\ UNCHANGED <<nrWork, nrJobs, notFinished, finished, done, polled,
                     result, failed>>
  BY StartFacts
<1>2. /\ Work' = Work
      /\ \A x \in Work \ {w} :
           /\ producer'[x] = producer[x] /\ consumer'[x] = consumer[x]
           /\ errFile'[x] = errFile[x]
           /\ Started(x)' <=> Started(x)
           /\ Gone(x)' <=> Gone(x)
           /\ JobOk(x)' <=> JobOk(x)
      /\ producer'[w] = p /\ consumer'[w] = c /\ errFile'[w] = "empty"
      /\ producer' \in [Work -> ProcStates] /\ consumer' \in [Work -> ProcStates]
      /\ errFile' \in [Work -> {"absent", "empty", "text", "removed", "lost"}]
      /\ AtMostJobs'
  BY StartOthers
<1> HIDE DEF w
<1>3. /\ nrWork \in Nat /\ nrJobs \in Nat /\ polled \in ProcStates
      /\ result \in {"none", "true", "false", "raised"} /\ failed \in 0..nrWork
      /\ \A l \in {notFinished, finished, done} : l \in Seq(Work) /\ IsInjective(l)
      /\ notStarted \in Seq(Work) /\ running \in Seq(Work)
  BY DEF IInv, JobTypes
<1>4. JobTypes'
  BY <1>1, <1>2, <1>3 DEF JobTypes
<1>5. failed = 0 /\ result = "none"
  BY <1>1, <1>3 DEF IInv, StateInv, Polling, EndInv
<1>6. PartsInv'
  <2>1. next \in {"loop", "except"}
    OBVIOUS
  <2>2. next = "loop" =>
          /\ Disjoint(notStarted', running') /\ Disjoint(notStarted', done)
          /\ Disjoint(running', done)
          /\ Work = Range(notStarted') \cup Range(running') \cup Range(done)
    BY <1>1 DEF IInv, PartsInv, Disjoint
  <2>3. nrWork = Len(notStarted') + Len(running') + Len(done)
    BY <1>1, <1>3, LenProperties DEF IInv, PartsInv
  <2> QED
    BY <1>1, <1>2, <2>1, <2>2, <2>3 DEF PartsInv
<1>7. Range(done) \subseteq Work /\ \A x \in Range(done) : JobOk(x)
  BY <1>1 DEF IInv, PartsInv, StateInv
<1>8. \A x \in Range(done') : JobOk(x)'
  BY <1>1, <1>2, <1>7
<1>9. StateInv'
  <2>1. ASSUME next = "loop"
        PROVE  /\ \A x \in Range(notStarted') :
                    ~Started(x)' /\ consumer'[x] = "none" /\ errFile'[x] = "absent"
               /\ \A x \in Range(running') : Started(x)'
    <3>1. /\ Range(notStarted') \subseteq Work \ {w} /\ Range(running) \subseteq Work \ {w}
          /\ \A x \in Range(notStarted') :
               ~Started(x) /\ consumer[x] = "none" /\ errFile[x] = "absent"
          /\ \A x \in Range(running) : Started(x)
      BY <1>1 DEF IInv, PartsInv, StateInv, Polling
    <3>2. \A x \in {w} : Started(x)'
      BY <1>2, <2>1 DEF Started
    <3> QED
      BY <1>1, <1>2, <3>1, <3>2
  <2>2. ASSUME next = "loop", NEW x \in Work
        PROVE  /\ consumer'[x] \notin {"dying", "killed"}
               /\ producer'[x] \in {"dying", "killed"} => consumer'[x] \in Dead
    <3>1. CASE x = w
      BY <1>2, <2>2, <3>1
    <3>2. CASE x # w
      BY <1>1, <1>2, <3>2 DEF IInv, StateInv, Polling
    <3> QED
      BY <3>1, <3>2
  <2>3. next \in {"loop", "except"}
    OBVIOUS
  <2> QED
    BY <1>1, <1>2, <1>5, <1>8, <2>1, <2>2, <2>3 DEF StateInv, Polling
<1>10. PendingInv'
  <2>1. Pending' \subseteq Pending \cup {w}
    BY <1>2 DEF Pending
  <2>2. Pending' \subseteq Range(running')
    BY <1>1, <2>1 DEF IInv, PendingInv
  <2>3. next \in {"loop", "except"}
    OBVIOUS
  <2> QED
    BY <1>1, <1>5, <2>2, <2>3 DEF PendingInv
<1>11. EndInv'
  <2>1. \A x \in Work : errFile'[x] # "lost" /\ (errFile'[x] = "removed" => Gone(x)')
    <3> TAKE x \in Work
    <3>1. CASE x = w
      BY <1>2, <3>1
    <3>2. CASE x # w
      BY <1>2, <3>2 DEF IInv, EndInv
    <3> QED
      BY <3>1, <3>2
  <2>2. next # "end"
    OBVIOUS
  <2> QED
    BY <1>1, <1>2, <1>5, <2>1, <2>2 DEF EndInv, SuccessIsReal, FailureHasCause
<1> QED
  BY <1>4, <1>6, <1>9, <1>10, <1>11 DEF IInv
-----------------------------------------------------------------------------
(* The polls.                                                              *)

\* A round of polls starts with empty lists of the polled.
LEMMA BeginPollsKeeps ==
  ASSUME IInv, BeginPolls
  PROVE  IInv'
<1>1. /\ pc = "loop" /\ pc' = "poll" /\ notFinished' = <<>> /\ finished' = <<>>
      /\ UNCHANGED <<nrWork, nrJobs, producer, consumer, errFile, notStarted,
                     running, done, polled, result, failed>>
  BY DEF BeginPolls, fixed, procVars
<1>2. Evolves /\ Work' = Work /\ Pending' \subseteq Pending
  BY <1>1, StillEvolves, EvolvedJobs, PendingShrinks
<1>3. JobTypes'
  BY <1>1, <1>2, EmptyLists DEF IInv, JobTypes
<1>4. PartsInv'
  <2>1. /\ Disjoint(notStarted, running) /\ Disjoint(notStarted, done)
        /\ Disjoint(running, done)
        /\ Work = Range(notStarted) \cup Range(running) \cup Range(done)
        /\ nrWork = Len(notStarted) + Len(running) + Len(done)
    BY <1>1 DEF IInv, PartsInv
  <2>2. /\ Len(notStarted) \in Nat /\ Len(running) \in Nat /\ Len(done) \in Nat
    BY LenProperties DEF IInv, JobTypes
  <2>3. nrWork = Len(notStarted) + Len(running) + 0 + 0 + Len(done)
    BY <2>1, <2>2
  <2> QED
    BY <1>1, <1>2, <2>1, <2>3, EmptyLists DEF PartsInv, Disjoint
<1>5. StateInv'
  <2>1. \A w \in Range(done) : JobOk(w)'
    BY <1>2, DoneStays
  <2>2. \A w : Started(w)' <=> Started(w)
    BY <1>1 DEF Started
  <2> QED
    BY <1>1, <1>2, <2>1, <2>2, EmptyLists DEF IInv, StateInv, Polling
<1>6. PendingInv'
  BY <1>1, <1>2 DEF IInv, PendingInv, EndInv
<1>7. EndInv'
  <2>1. \A w \in Work : /\ errFile'[w] # "lost"
                        /\ errFile'[w] = "removed" => errFile[w] = "removed" \/ Gone(w)
    BY <1>1 DEF IInv, EndInv
  <2> QED
    BY <1>1, <1>2, <2>1, EvolvedEnd DEF IInv, EndInv
<1> QED
  BY <1>3, <1>4, <1>5, <1>6, <1>7 DEF IInv

\* Poll's first look at a job, at the head of running.
LEMMA PollProducerKeeps ==
  ASSUME IInv, PollProducer
  PROVE  IInv'
<1>1. /\ pc = "poll" /\ pc' = "poll2" /\ running # <<>>
      /\ polled' = producer[Head(running)]
      /\ UNCHANGED <<nrWork, nrJobs, producer, consumer, errFile, notStarted,
                     running, notFinished, finished, done, result, failed>>
  BY DEF PollProducer, fixed, procVars, lists
<1>2. Evolves /\ Work' = Work /\ Pending' \subseteq Pending
  BY <1>1, StillEvolves, EvolvedJobs, PendingShrinks
<1>3. Head(running) \in Work /\ Head(running) \in Range(running)
  BY <1>1, TakeFirst DEF IInv, JobTypes
<1>4. JobTypes'
  BY <1>1, <1>2, <1>3 DEF IInv, JobTypes
<1>5. PartsInv'
  BY <1>1, <1>2 DEF IInv, PartsInv
<1>6. StateInv'
  <2>1. /\ \A w \in Range(done) : JobOk(w)'
        /\ \A w : (Started(w)' <=> Started(w)) /\ (JobOk(w)' <=> JobOk(w))
    BY <1>1, <1>2, DoneStays DEF Started, JobOk
  <2>2. polled' # "none"
    BY <1>1, <1>3 DEF IInv, StateInv, Polling, Started
  <2> QED
    BY <1>1, <1>2, <2>1, <2>2 DEF IInv, StateInv, Polling
<1>7. PendingInv'
  BY <1>1, <1>2 DEF IInv, PendingInv, EndInv
<1>8. EndInv'
  <2>1. \A w \in Work : /\ errFile'[w] # "lost"
                        /\ errFile'[w] = "removed" => errFile[w] = "removed" \/ Gone(w)
    BY <1>1 DEF IInv, EndInv
  <2> QED
    BY <1>1, <1>2, <2>1, EvolvedEnd DEF IInv, EndInv
<1> QED
  BY <1>4, <1>5, <1>6, <1>7, <1>8 DEF IInv

\* What Poll returns is how the job ended, and none of its processes is left.
LEMMA ResultFacts ==
  ASSUME IInv, pc = "poll2"
  PROVE  LET w == Head(running)
             r == JobResult(polled, consumer[w])
         IN  /\ r = "ok" => JobOk(w) /\ Gone(w)
             /\ r \in {"fail", "killed"} => Gone(w) /\ Cause(w)
             /\ r # "none" => ~AliveProc(polled)
             /\ r # "none" => r \in Dead
<1> DEFINE w == Head(running)
<1>1. w \in Work /\ w \in Range(running)
  BY TakeFirst DEF IInv, JobTypes, StateInv
<1> HIDE DEF w
<1>2. /\ polled \in {"alive", "dying", "ok", "fail", "killed"}
      /\ polled \in Dead => producer[w] = polled
      /\ consumer[w] \in {"none", "alive", "ok", "fail"}
      /\ producer[w] \in {"dying", "killed"} => consumer[w] \in Dead
  <2>1. polled \in ProcStates /\ consumer[w] \in ProcStates
    BY <1>1 DEF IInv, JobTypes
  <2>2. polled # "none" /\ (polled \in Dead => producer[w] = polled)
    BY DEF IInv, StateInv, w
  <2>3. /\ consumer[w] \notin {"dying", "killed"}
        /\ producer[w] \in {"dying", "killed"} => consumer[w] \in Dead
    BY <1>1 DEF IInv, StateInv, Polling
  <2> QED
    BY <2>1, <2>2, <2>3 DEF ProcStates, Dead
<1>3. CASE consumer[w] = "none"
  BY <1>2, <1>3 DEF JobResult, AliveProc, JobOk, Gone, Cause, Dead, w
<1>4. CASE consumer[w] \in {"ok", "fail"}
  BY <1>2, <1>4 DEF JobResult, AliveProc, JobOk, Gone, Cause, Dead, w
<1>5. CASE consumer[w] = "alive"
  BY <1>2, <1>5 DEF JobResult, AliveProc, w
<1> QED
  BY <1>2, <1>3, <1>4, <1>5

\* The files and the processes after a poll.
LEMMA PollEffect ==
  ASSUME IInv, PollJob
  PROVE  LET w == Head(running)
             r == JobResult(polled, consumer[w])
         IN  /\ pc = "poll2" /\ w \in Work /\ Evolves
             /\ consumer' = consumer
             /\ \A x \in Work : producer'[x] \in {"dying", "killed"} =>
                  producer[x] = producer'[x] \/ consumer[x] \in Dead
             /\ errFile' \in [Work -> {"absent", "empty", "text", "removed", "lost"}]
             /\ \A x \in Work : /\ errFile'[x] # "lost"
                                /\ errFile'[x] = "removed" =>
                                     errFile[x] = "removed" \/ Gone(x)
                                /\ errFile'[x] = "empty" => errFile[x] = "empty"
                                /\ errFile[x] = "absent" => errFile'[x] = "absent"
             /\ Pending' \subseteq Pending
             /\ r # "none" => w \notin Pending'
             /\ UNCHANGED <<nrWork, nrJobs, notStarted, done, result>>
             /\ polled' = "none"
<1> DEFINE w == Head(running)
           r == JobResult(polled, consumer[w])
<1>1. /\ pc = "poll2"
      /\ producer' = ProducerAfterPoll(w) /\ errFile' = ErrAfterPoll(w, r)
      /\ UNCHANGED <<nrWork, nrJobs, consumer, notStarted, done, result>>
      /\ polled' = "none"
  BY DEF PollJob, fixed
<1>2. w \in Work
  BY <1>1, TakeFirst DEF IInv, JobTypes, StateInv
<1>3. /\ r \in {"fail", "killed", "ok"} => Gone(w)
      /\ r # "none" => r \in Dead
  BY <1>1, ResultFacts
<1> HIDE DEF w, r
<1>4. /\ producer \in [Work -> ProcStates] /\ consumer \in [Work -> ProcStates]
      /\ errFile \in [Work -> {"absent", "empty", "text", "removed", "lost"}]
      /\ \A x \in Work : errFile[x] # "lost"
  BY DEF IInv, JobTypes, EndInv
<1>5. \/ producer' = producer
      \/ /\ consumer[w] \in Dead /\ producer[w] = "alive"
         /\ producer' = [producer EXCEPT ![w] = "dying"]
  BY <1>1 DEF ProducerAfterPoll
<1>6. \/ errFile' = errFile /\ ~(r # "none" /\ errFile[w] = "empty")
      \/ /\ errFile' = [errFile EXCEPT ![w] = "removed"]
         /\ r # "none" /\ errFile[w] = "empty"
  BY <1>1 DEF ErrAfterPoll
<1>7. r # "none" => Gone(w)
  BY <1>3 DEF Dead
<1>8. Evolves
  BY <1>1, <1>2, <1>4, <1>5 DEF Evolves, ProcStates, Dead
<1>9. \A x \in Work : producer'[x] \in {"dying", "killed"} =>
                        producer[x] = producer'[x] \/ consumer[x] \in Dead
  BY <1>2, <1>4, <1>5
<1>10. errFile' \in [Work -> {"absent", "empty", "text", "removed", "lost"}]
  BY <1>2, <1>4, <1>6
<1>11. \A x \in Work : /\ errFile'[x] # "lost"
                       /\ errFile'[x] = "removed" => errFile[x] = "removed" \/ Gone(x)
                       /\ errFile'[x] = "empty" => errFile[x] = "empty"
                       /\ errFile[x] = "absent" => errFile'[x] = "absent"
                       /\ x = w /\ r # "none" => errFile'[x] # "empty"
  BY <1>2, <1>4, <1>6, <1>7
<1>12. Pending' \subseteq Pending
  BY <1>8, <1>11, PendingShrinks
<1>13. r # "none" => w \notin Pending'
  <2>1. r # "none" => errFile'[w] # "empty"
    BY <1>2, <1>11
  <2>2. \A x \in Work : Gone(x) => Gone(x)'
    BY <1>8, EvolvedJobs
  <2>3. \A x \in Pending' : ~Gone(x)' \/ errFile'[x] = "empty"
    BY DEF Pending
  <2> QED
    BY <1>2, <1>7, <2>1, <2>2, <2>3
<1> QED
  BY <1>1, <1>2, <1>8, <1>9, <1>10, <1>11, <1>12, <1>13 DEF w, r

\* What is left of running, and what each outcome does to the lists.
LEMMA PollLists ==
  ASSUME IInv, PollJob
  PROVE  LET w == Head(running)
             r == JobResult(polled, consumer[w])
         IN  /\ running \in Seq(Work) /\ IsInjective(running)
             /\ running' = Tail(running)
             /\ running' \in Seq(Work) /\ IsInjective(running')
             /\ Len(running') = Len(running) - 1
             /\ Range(running) = {w} \cup Range(running')
             /\ w \notin Range(running')
             /\ \/ /\ r = "none" /\ pc' = "poll"
                   /\ notFinished' = Append(notFinished, w)
                   /\ finished' = finished /\ failed' = failed
                \/ /\ r = "ok" /\ pc' = "poll"
                   /\ finished' = Append(finished, w)
                   /\ notFinished' = notFinished /\ failed' = failed
                \/ /\ r \in {"fail", "killed"} /\ pc' = "kill" /\ failed' = w
                   /\ notFinished' = notFinished /\ finished' = finished
<1> DEFINE w == Head(running)
           r == JobResult(polled, consumer[w])
<1>1. /\ pc = "poll2" /\ running' = Tail(running)
      /\ \/ /\ r = "none" /\ pc' = "poll"
            /\ notFinished' = Append(notFinished, w)
            /\ finished' = finished /\ failed' = failed
         \/ /\ r = "ok" /\ pc' = "poll"
            /\ finished' = Append(finished, w)
            /\ notFinished' = notFinished /\ failed' = failed
         \/ /\ r \in {"fail", "killed"} /\ pc' = "kill" /\ failed' = w
            /\ notFinished' = notFinished /\ finished' = finished
  BY DEF PollJob, FailNow
<1>2. running \in Seq(Work) /\ IsInjective(running) /\ running # <<>>
  BY <1>1 DEF IInv, JobTypes, StateInv
<1>3. /\ running' \in Seq(Work) /\ IsInjective(running')
      /\ Len(running') = Len(running) - 1
      /\ Range(running) = {w} \cup Range(running')
      /\ w \notin Range(running')
  BY <1>1, <1>2, TakeFirst
<1> HIDE DEF r
<1> QED
  BY <1>1, <1>2, <1>3 DEF r

\* The end of Poll: the job goes on, is finished, or ends the run.
LEMMA PollJobKeeps ==
  ASSUME IInv, PollJob
  PROVE  IInv'
<1> DEFINE w == Head(running)
           r == JobResult(polled, consumer[w])
<1>1. /\ pc = "poll2" /\ w \in Work /\ Evolves
      /\ consumer' = consumer
      /\ \A x \in Work : producer'[x] \in {"dying", "killed"} =>
           producer[x] = producer'[x] \/ consumer[x] \in Dead
      /\ errFile' \in [Work -> {"absent", "empty", "text", "removed", "lost"}]
      /\ \A x \in Work : /\ errFile'[x] # "lost"
                         /\ errFile'[x] = "removed" =>
                              errFile[x] = "removed" \/ Gone(x)
                         /\ errFile[x] = "absent" => errFile'[x] = "absent"
      /\ Pending' \subseteq Pending
      /\ r # "none" => w \notin Pending'
      /\ UNCHANGED <<nrWork, nrJobs, notStarted, done, result>>
      /\ polled' = "none"
  BY PollEffect
<1>2. /\ running \in Seq(Work)
      /\ running' \in Seq(Work) /\ IsInjective(running')
      /\ Len(running') = Len(running) - 1
      /\ Range(running) = {w} \cup Range(running')
      /\ w \notin Range(running')
  BY PollLists
<1>3. \/ /\ r = "none" /\ pc' = "poll"
         /\ notFinished' = Append(notFinished, w)
         /\ finished' = finished /\ failed' = failed
      \/ /\ r = "ok" /\ pc' = "poll"
         /\ finished' = Append(finished, w)
         /\ notFinished' = notFinished /\ failed' = failed
      \/ /\ r \in {"fail", "killed"} /\ pc' = "kill" /\ failed' = w
         /\ notFinished' = notFinished /\ finished' = finished
  BY PollLists
<1>4. /\ r = "ok" => JobOk(w)
      /\ r \in {"fail", "killed"} => Cause(w)
  BY <1>1, ResultFacts
<1> HIDE DEF w, r
<1>5. Work' = Work
  BY <1>1, EvolvedJobs
<1>6. /\ nrWork \in Nat /\ nrJobs \in Nat
      /\ result \in {"none", "true", "false", "raised"} /\ failed \in 0..nrWork
      /\ \A l \in {notStarted, running, notFinished, finished, done} :
           l \in Seq(Work) /\ IsInjective(l)
  BY DEF IInv, JobTypes
<1>7. failed = 0 /\ result = "none"
  BY <1>1 DEF IInv, StateInv, Polling, EndInv
<1>8. /\ w \notin Range(notStarted) /\ w \notin Range(notFinished)
      /\ w \notin Range(finished) /\ w \notin Range(done)
  BY <1>1, <1>2 DEF IInv, PartsInv, Disjoint
<1>9. /\ Append(notFinished, w) \in Seq(Work) /\ IsInjective(Append(notFinished, w))
      /\ Len(Append(notFinished, w)) = Len(notFinished) + 1
      /\ Range(Append(notFinished, w)) = Range(notFinished) \cup {w}
  <2>1. notFinished \in Seq(Work) /\ IsInjective(notFinished)
    BY <1>6
  <2> QED
    BY ONLY <1>1, <1>8, <2>1, AddLast
<1>10. /\ Append(finished, w) \in Seq(Work) /\ IsInjective(Append(finished, w))
       /\ Len(Append(finished, w)) = Len(finished) + 1
       /\ Range(Append(finished, w)) = Range(finished) \cup {w}
  <2>1. finished \in Seq(Work) /\ IsInjective(finished)
    BY <1>6
  <2> QED
    BY ONLY <1>1, <1>8, <2>1, AddLast
<1>11. /\ notFinished' \in Seq(Work) /\ IsInjective(notFinished')
       /\ finished' \in Seq(Work) /\ IsInjective(finished')
  BY <1>3, <1>6, <1>9, <1>10
<1>12. /\ pc' \in {"poll", "kill"}
       /\ failed' \in 0..nrWork
       /\ failed' # 0 => failed' = w
  BY <1>1, <1>3, <1>6, <1>7 DEF Work
<1>13. JobTypes'
  BY <1>1, <1>2, <1>5, <1>6, <1>11, <1>12 DEF JobTypes, Evolves, ProcStates
<1>14. PartsInv'
  <2>1. /\ Disjoint(notStarted, running) /\ Disjoint(notStarted, notFinished)
        /\ Disjoint(notStarted, finished) /\ Disjoint(notStarted, done)
        /\ Disjoint(running, notFinished) /\ Disjoint(running, finished)
        /\ Disjoint(running, done) /\ Disjoint(notFinished, finished)
        /\ Disjoint(notFinished, done) /\ Disjoint(finished, done)
        /\ Work = Range(notStarted) \cup Range(running) \cup Range(notFinished)
                    \cup Range(finished) \cup Range(done)
        /\ nrWork = Len(notStarted) + Len(running) + Len(notFinished)
                      + Len(finished) + Len(done)
    BY <1>1 DEF IInv, PartsInv
  <2>2. /\ Len(notStarted) \in Nat /\ Len(running) \in Nat /\ Len(notFinished) \in Nat
        /\ Len(finished) \in Nat /\ Len(done) \in Nat
    BY <1>6, LenProperties
  <2>3. CASE r = "none"
    <3>1. /\ Range(notFinished') = Range(notFinished) \cup {w} /\ finished' = finished
          /\ Len(notFinished') = Len(notFinished) + 1 /\ pc' = "poll"
      BY <1>3, <1>9, <2>3
    <3>2. nrWork = Len(notStarted) + Len(running') + Len(notFinished')
                     + Len(finished) + Len(done)
      BY <1>2, <2>1, <2>2, <3>1
    <3> QED
      BY <1>1, <1>2, <1>5, <1>8, <2>1, <3>1, <3>2 DEF PartsInv, Disjoint
  <2>4. CASE r = "ok"
    <3>1. /\ Range(finished') = Range(finished) \cup {w} /\ notFinished' = notFinished
          /\ Len(finished') = Len(finished) + 1 /\ pc' = "poll"
      BY <1>3, <1>10, <2>4
    <3>2. nrWork = Len(notStarted) + Len(running') + Len(notFinished)
                     + Len(finished') + Len(done)
      BY <1>2, <2>1, <2>2, <3>1
    <3> QED
      BY <1>1, <1>2, <1>5, <1>8, <2>1, <3>1, <3>2 DEF PartsInv, Disjoint
  <2>5. CASE r \in {"fail", "killed"}
    BY <1>3, <2>5 DEF PartsInv
  <2> QED
    BY <1>3, <2>3, <2>4, <2>5
<1>15. StateInv'
  <2>1. /\ \A x \in Work : (Started(x)' <=> Started(x)) /\ (JobOk(x) => JobOk(x)')
        /\ \A x \in Range(done) : JobOk(x)'
    BY <1>1, EvolvedJobs, DoneStays
  <2>2. /\ Range(notStarted) \subseteq Work /\ Range(running) \subseteq Work
        /\ Range(notFinished) \subseteq Work /\ Range(finished) \subseteq Work
    BY <1>1 DEF IInv, PartsInv
  <2>3. pc' = "poll" => failed' = 0
    BY <1>3, <1>7
  <2>4. \A x \in Range(notStarted) :
          ~Started(x)' /\ consumer'[x] = "none" /\ errFile'[x] = "absent"
    BY <1>1, <2>1, <2>2 DEF IInv, StateInv, Polling
  <2>5. /\ \A x \in Range(running') : Started(x)'
        /\ pc' = "poll" => \A x \in Range(notFinished') : Started(x)'
    <3>1. \A x \in Range(running) \cup Range(notFinished) : Started(x)
      BY <1>1 DEF IInv, StateInv, Polling
    <3>2. pc' = "poll" => Range(notFinished') \subseteq Range(notFinished) \cup {w}
      BY <1>3, <1>9
    <3> QED
      BY <1>1, <1>2, <2>1, <2>2, <3>1, <3>2
  <2>6. pc' = "poll" => \A x \in Range(finished') : JobOk(x)'
    <3>1. \A x \in Range(finished) : JobOk(x)
      BY <1>1 DEF IInv, StateInv
    <3>2. pc' = "poll" => \/ finished' = finished
                          \/ r = "ok" /\ Range(finished') = Range(finished) \cup {w}
      BY <1>3, <1>10
    <3> QED
      BY <1>1, <1>4, <2>1, <2>2, <3>1, <3>2
  <2>7. \A x \in Work : /\ consumer'[x] \notin {"dying", "killed"}
                        /\ producer'[x] \in {"dying", "killed"} => consumer'[x] \in Dead
    BY <1>1 DEF IInv, StateInv, Polling
  <2> QED
    BY <1>1, <1>5, <1>12, <2>1, <2>3, <2>4, <2>5, <2>6, <2>7 DEF StateInv, Polling
<1>16. PendingInv'
  <2>1. Pending \subseteq Range(running) \cup Range(notFinished)
    BY <1>1 DEF IInv, PendingInv
  <2>2. CASE r = "none"
    <3>1. pc' = "poll" /\ Range(notFinished') = Range(notFinished) \cup {w}
      BY <1>3, <1>9, <2>2
    <3> QED
      BY <1>1, <1>2, <1>7, <2>1, <3>1 DEF PendingInv
  <2>3. CASE r # "none"
    <3>1. notFinished' = notFinished /\ w \notin Pending'
      BY <1>1, <1>3, <2>3
    <3> QED
      BY <1>1, <1>2, <1>7, <1>12, <2>1, <3>1 DEF PendingInv
  <2> QED
    BY <2>2, <2>3
<1>17. EndInv'
  <2>1. AtMostJobs'
    BY <1>1, EvolvedJobs
  <2>2. \A x \in Work : errFile'[x] # "lost" /\ (errFile'[x] = "removed" => Gone(x)')
    BY <1>1, EvolvedJobs DEF IInv, EndInv
  <2>3. FailureHasCause'
    <3>1. failed' # 0 => Cause(w)
      BY <1>3, <1>4, <1>7
    <3>2. \A x \in Work : Cause(x) => Cause(x)'
      BY <1>1, EvolvedJobs
    <3> QED
      BY <1>1, <1>12, <3>1, <3>2 DEF FailureHasCause, Cause
  <2> QED
    BY <1>1, <1>5, <1>7, <1>12, <2>1, <2>2, <2>3 DEF EndInv, SuccessIsReal
<1> QED
  BY <1>13, <1>14, <1>15, <1>16, <1>17 DEF IInv

\* What is not finished is running again; the rest is done.
LEMMA EndPollsKeeps ==
  ASSUME IInv, EndPolls
  PROVE  IInv'
<1>1. /\ pc = "poll" /\ running = <<>> /\ pc' = "loop"
      /\ running' = notFinished /\ done' = done \o finished
      /\ UNCHANGED <<nrWork, nrJobs, producer, consumer, errFile, notStarted,
                     notFinished, finished, polled, result, failed>>
  BY DEF EndPolls, fixed, procVars
<1>2. Evolves /\ Work' = Work /\ Pending' \subseteq Pending
  BY <1>1, StillEvolves, EvolvedJobs, PendingShrinks
<1>3. /\ done \in Seq(Work) /\ IsInjective(done)
      /\ finished \in Seq(Work) /\ IsInjective(finished)
  BY DEF IInv, JobTypes
<1>4. /\ done' \in Seq(Work) /\ IsInjective(done')
      /\ Len(done') = Len(done) + Len(finished)
      /\ Range(done') = Range(done) \cup Range(finished)
  <2>1. Disjoint(done, finished)
    BY <1>1 DEF IInv, PartsInv, Disjoint
  <2> QED
    BY <1>1, <1>3, <2>1, JoinLists
<1>5. JobTypes'
  BY <1>1, <1>2, <1>4 DEF IInv, JobTypes
<1>6. PartsInv'
  <2>1. /\ Len(running) = 0 /\ Range(running) = {}
    BY <1>1, EmptyLists
  <2>2. /\ Len(notStarted) \in Nat /\ Len(notFinished) \in Nat
        /\ Len(finished) \in Nat /\ Len(done) \in Nat
    BY LenProperties DEF IInv, JobTypes
  <2>3. nrWork = Len(notStarted) + Len(notFinished) + Len(done')
    BY <1>1, <1>4, <2>1, <2>2 DEF IInv, PartsInv
  <2>4. /\ Disjoint(notStarted, notFinished)
        /\ Disjoint(notStarted, done') /\ Disjoint(notFinished, done')
        /\ Work = Range(notStarted) \cup Range(notFinished) \cup Range(done')
    BY <1>1, <1>4, <2>1 DEF IInv, PartsInv, Disjoint
  <2> QED
    BY <1>1, <1>2, <2>3, <2>4 DEF PartsInv
<1>7. StateInv'
  <2>1. \A w : (Started(w)' <=> Started(w)) /\ (JobOk(w)' <=> JobOk(w))
    BY <1>1 DEF Started, JobOk
  <2>2. \A w \in Range(done') : JobOk(w)'
    BY <1>1, <1>4, <2>1 DEF IInv, StateInv
  <2> QED
    BY <1>1, <1>2, <2>1, <2>2 DEF IInv, StateInv, Polling
<1>8. PendingInv'
  BY <1>1, <1>2, EmptyLists DEF IInv, PendingInv, EndInv
<1>9. EndInv'
  <2>1. \A w \in Work : /\ errFile'[w] # "lost"
                        /\ errFile'[w] = "removed" => errFile[w] = "removed" \/ Gone(w)
    BY <1>1 DEF IInv, EndInv
  <2> QED
    BY <1>1, <1>2, <2>1, EvolvedEnd DEF IInv, EndInv
<1> QED
  BY <1>5, <1>6, <1>7, <1>8, <1>9 DEF IInv
-----------------------------------------------------------------------------
(* The ways the run ends.                                                  *)

\* A step to a place where no list is looked at any more.
LEMMA LeaveLoop ==
  ASSUME IInv, Evolves, pc' \in {"reap", "reap2", "except", "end"},
         UNCHANGED <<notStarted, finished, done, polled, failed>>,
         \A l \in {running', notFinished'} : l \in Seq(Work) /\ IsInjective(l),
         errFile' \in [Work -> {"absent", "empty", "text", "removed", "lost"}],
         result' \in {"none", "true", "false", "raised"}
  PROVE  JobTypes' /\ PartsInv' /\ StateInv'
<1>1. Work' = Work /\ \A w \in Range(done) : JobOk(w)'
  BY EvolvedJobs, DoneStays
<1>2. JobTypes'
  BY <1>1 DEF IInv, JobTypes, Evolves
<1>3. PartsInv' /\ StateInv'
  BY <1>1 DEF PartsInv, StateInv, Polling
<1> QED
  BY <1>2, <1>3

\* When as many are done as there were to do, nothing is left.
LEMMA AllDoneKeeps ==
  ASSUME IInv, AllDone
  PROVE  IInv'
<1>1. /\ pc = "loop" /\ Len(done) = nrWork /\ pc' = "end" /\ result' = "true"
      /\ UNCHANGED <<nrWork, nrJobs, producer, consumer, errFile, notStarted,
                     running, notFinished, finished, done, polled, failed>>
  BY DEF AllDone, fixed, procVars, lists
<1>2. Evolves /\ Work' = Work /\ Pending' \subseteq Pending
  BY <1>1, StillEvolves, EvolvedJobs, PendingShrinks
<1>3. JobTypes' /\ PartsInv' /\ StateInv'
  BY <1>1, <1>2, LeaveLoop DEF IInv, JobTypes
<1>4. Range(notStarted) = {} /\ Range(running) = {}
  <2>1. /\ notStarted \in Seq(Work) /\ running \in Seq(Work) /\ done \in Seq(Work)
    BY DEF IInv, JobTypes
  <2>2. Len(notStarted) = 0 /\ Len(running) = 0
    BY <1>1, <2>1, LenProperties DEF IInv, PartsInv
  <2>3. notStarted = <<>> /\ running = <<>>
    BY <2>1, <2>2, EmptySeq
  <2> QED
    BY <2>3, EmptyLists
<1>5. \A w \in Work : JobOk(w)
  BY <1>1, <1>4 DEF IInv, PartsInv, StateInv
<1>6. Pending' = {}
  BY <1>1, <1>2, <1>4 DEF IInv, PendingInv
<1>7. EndInv'
  <2>1. SuccessIsReal'
    BY <1>1, <1>2, <1>5 DEF SuccessIsReal, JobOk
  <2>2. failed = 0
    BY <1>1 DEF IInv, StateInv, Polling
  <2>3. AtMostJobs'
    BY <1>2, EvolvedJobs
  <2>4. \A w \in Work : errFile'[w] # "lost" /\ (errFile'[w] = "removed" => Gone(w)')
    BY <1>1, <1>2, EvolvedJobs DEF IInv, EndInv
  <2> QED
    BY <1>1, <1>2, <2>1, <2>2, <2>3, <2>4 DEF EndInv, FailureHasCause
<1> QED
  BY <1>1, <1>3, <1>6, <1>7 DEF IInv, PendingInv

\* What KillWork and Kill do to the processes.
LEMMA KillAllEvolves ==
  ASSUME IInv, NEW ws, KillAll(ws), UNCHANGED <<nrWork, nrJobs, errFile>>
  PROVE  /\ Evolves /\ Work' = Work /\ Pending' \subseteq Pending
         /\ \A w \in Work : w \in ws =>
              producer'[w] # "alive" /\ consumer'[w] # "alive"
<1>1. /\ producer' = [w \in Work |->
            IF w \in ws /\ producer[w] = "alive" THEN "dying" ELSE producer[w]]
      /\ consumer' = [w \in Work |->
            IF w \in ws /\ consumer[w] = "alive" THEN "dying" ELSE consumer[w]]
  BY DEF KillAll
<1>2. Evolves
  BY <1>1 DEF Evolves, IInv, JobTypes, ProcStates, Dead
<1>3. Work' = Work /\ Pending' \subseteq Pending
  BY <1>2, EvolvedJobs, PendingShrinks
<1> QED
  BY <1>1, <1>2, <1>3

\* The end of the run, when only the processes have changed.
LEMMA StillEnd ==
  ASSUME IInv, Evolves, UNCHANGED <<errFile, result, failed>>,
         pc' = "end" <=> pc = "end"
  PROVE  EndInv'
<1>1. \A w \in Work : /\ errFile'[w] # "lost"
                      /\ errFile'[w] = "removed" => errFile[w] = "removed" \/ Gone(w)
  BY DEF IInv, EndInv
<1>2. result' = "none" <=> pc' # "end"
  BY DEF IInv, EndInv
<1> QED
  BY <1>1, <1>2, EvolvedEnd DEF EndInv

\* KillWork's kills, of the polled and of the not yet polled.
LEMMA KillsKeep ==
  ASSUME IInv, KillNotFinished \/ KillRunning
  PROVE  IInv'
<1>1. /\ pc \in {"kill", "reap"}
      /\ \/ pc = "kill" /\ pc' = "reap"
         \/ pc = "reap" /\ pc' = "reap2" /\ notFinished = <<>>
      /\ UNCHANGED <<nrWork, nrJobs, errFile, notStarted, running, notFinished,
                     finished, done, polled, result, failed>>
      /\ \E ws : KillAll(ws)
  BY DEF KillNotFinished, KillRunning, fixed, lists
<1>2. Evolves /\ Work' = Work /\ Pending' \subseteq Pending
  BY <1>1, KillAllEvolves
<1>3. JobTypes' /\ PartsInv' /\ StateInv'
  BY <1>1, <1>2, LeaveLoop DEF IInv, JobTypes
<1>4. PendingInv'
  <2>1. Pending \subseteq Range(running) \cup Range(notFinished)
    BY <1>1 DEF IInv, PendingInv
  <2>2. notFinished = <<>> => Range(notFinished) = {}
    BY EmptyLists
  <2>3. result = "none"
    BY <1>1 DEF IInv, EndInv
  <2> QED
    BY <1>1, <1>2, <2>1, <2>2, <2>3 DEF PendingInv
<1>5. EndInv'
  BY <1>1, <1>2, StillEnd
<1> QED
  BY <1>3, <1>4, <1>5 DEF IInv

\* The job waited for is gone, and its empty err.txt with it.
LEMMA ReapEffect ==
  ASSUME IInv, NEW at, NEW w \in Work, Reap(at, w),
         UNCHANGED <<nrWork, nrJobs, producer, consumer>>
  PROVE  /\ Evolves /\ Work' = Work
         /\ Pending' \subseteq Pending \ {w}
         /\ errFile' \in [Work -> {"absent", "empty", "text", "removed", "lost"}]
         /\ \A x \in Work : /\ errFile'[x] # "lost"
                            /\ errFile'[x] = "removed" =>
                                 errFile[x] = "removed" \/ Gone(x)
<1>1. Gone(w) /\ errFile' = ErrAfterPoll(w, "killed")
  BY DEF Reap
<1>2. Evolves /\ Work' = Work
  BY StillEvolves, EvolvedJobs
<1>3. /\ errFile \in [Work -> {"absent", "empty", "text", "removed", "lost"}]
      /\ \A x \in Work : errFile[x] # "lost"
  BY DEF IInv, JobTypes, EndInv
<1>4. \/ errFile' = errFile /\ errFile[w] # "empty"
      \/ errFile' = [errFile EXCEPT ![w] = "removed"]
  BY <1>1 DEF ErrAfterPoll
<1>5. errFile' \in [Work -> {"absent", "empty", "text", "removed", "lost"}]
  BY <1>3, <1>4
<1>6. /\ errFile'[w] # "empty"
      /\ \A x \in Work : /\ errFile'[x] # "lost"
                         /\ errFile'[x] = "removed" => errFile[x] = "removed" \/ Gone(x)
                         /\ errFile'[x] = "empty" => errFile[x] = "empty"
  BY <1>1, <1>3, <1>4
<1>7. Pending' \subseteq Pending /\ w \notin Pending'
  <2>1. Pending' \subseteq Pending
    BY <1>2, <1>6, PendingShrinks
  <2>2. \A x \in Work : Gone(x) => Gone(x)'
    BY <1>2, EvolvedJobs
  <2>3. \A x \in Pending' : ~Gone(x)' \/ errFile'[x] = "empty"
    BY DEF Pending
  <2> QED
    BY <1>1, <1>6, <2>1, <2>2, <2>3
<1> QED
  BY <1>2, <1>5, <1>6, <1>7

\* KillWork's waits.
LEMMA ReapsKeep ==
  ASSUME IInv, ReapNotFinished \/ ReapRunning
  PROVE  IInv'
<1>1. UNCHANGED <<nrWork, nrJobs, producer, consumer, pc, notStarted, finished,
                  done, polled, result, failed>>
  BY DEF ReapNotFinished, ReapRunning, fixed
<1>2. /\ running \in Seq(Work) /\ IsInjective(running)
      /\ notFinished \in Seq(Work) /\ IsInjective(notFinished)
  BY DEF IInv, JobTypes
<1>3. CASE ReapNotFinished
  <2> DEFINE w == Head(notFinished)
  <2>1. /\ notFinished # <<>> /\ pc = "reap" /\ Reap("reap", w)
        /\ notFinished' = Tail(notFinished) /\ running' = running
    BY <1>3 DEF ReapNotFinished, Reap
  <2>2. /\ w \in Work /\ notFinished' \in Seq(Work) /\ IsInjective(notFinished')
        /\ Range(notFinished) = {w} \cup Range(notFinished')
    BY <1>2, <2>1, TakeFirst
  <2> HIDE DEF w
  <2>3. /\ Evolves /\ Work' = Work /\ Pending' \subseteq Pending \ {w}
        /\ errFile' \in [Work -> {"absent", "empty", "text", "removed", "lost"}]
        /\ \A x \in Work : /\ errFile'[x] # "lost"
                           /\ errFile'[x] = "removed" =>
                                errFile[x] = "removed" \/ Gone(x)
    BY <1>1, <2>1, <2>2, ReapEffect
  <2>4. JobTypes' /\ PartsInv' /\ StateInv'
    BY <1>1, <1>2, <2>1, <2>2, <2>3, LeaveLoop DEF IInv, JobTypes
  <2>5. PendingInv'
    BY <1>1, <2>1, <2>2, <2>3 DEF IInv, PendingInv, EndInv
  <2>6. EndInv'
    BY <1>1, <2>3, EvolvedEnd DEF IInv, EndInv
  <2> QED
    BY <2>4, <2>5, <2>6 DEF IInv
<1>4. CASE ReapRunning
  <2> DEFINE w == Head(running)
  <2>1. /\ running # <<>> /\ pc = "reap2" /\ Reap("reap2", w)
        /\ running' = Tail(running) /\ notFinished' = notFinished
    BY <1>4 DEF ReapRunning, Reap
  <2>2. /\ w \in Work /\ running' \in Seq(Work) /\ IsInjective(running')
        /\ Range(running) = {w} \cup Range(running')
    BY <1>2, <2>1, TakeFirst
  <2> HIDE DEF w
  <2>3. /\ Evolves /\ Work' = Work /\ Pending' \subseteq Pending \ {w}
        /\ errFile' \in [Work -> {"absent", "empty", "text", "removed", "lost"}]
        /\ \A x \in Work : /\ errFile'[x] # "lost"
                           /\ errFile'[x] = "removed" =>
                                errFile[x] = "removed" \/ Gone(x)
    BY <1>1, <2>1, <2>2, ReapEffect
  <2>4. JobTypes' /\ PartsInv' /\ StateInv'
    BY <1>1, <1>2, <2>1, <2>2, <2>3, LeaveLoop DEF IInv, JobTypes
  <2>5. PendingInv'
    BY <1>1, <2>1, <2>2, <2>3 DEF IInv, PendingInv, EndInv
  <2>6. EndInv'
    BY <1>1, <2>3, EvolvedEnd DEF IInv, EndInv
  <2> QED
    BY <2>4, <2>5, <2>6 DEF IInv
<1> QED
  BY <1>3, <1>4

\* Every job that was killed has been waited for.
LEMMA ReturnFalseKeeps ==
  ASSUME IInv, ReturnFalse
  PROVE  IInv'
<1>1. /\ pc = "reap2" /\ running = <<>> /\ pc' = "end" /\ result' = "false"
      /\ UNCHANGED <<nrWork, nrJobs, producer, consumer, errFile, notStarted,
                     running, notFinished, finished, done, polled, failed>>
  BY DEF ReturnFalse, fixed, procVars, lists
<1>2. Evolves /\ Work' = Work /\ Pending' \subseteq Pending
  BY <1>1, StillEvolves, EvolvedJobs, PendingShrinks
<1>3. JobTypes' /\ PartsInv' /\ StateInv'
  BY <1>1, <1>2, LeaveLoop DEF IInv, JobTypes
<1>4. Pending' = {}
  BY <1>1, <1>2, EmptyLists DEF IInv, PendingInv
<1>5. EndInv'
  <2>1. AtMostJobs'
    BY <1>2, EvolvedJobs
  <2>2. \A w \in Work : errFile'[w] # "lost" /\ (errFile'[w] = "removed" => Gone(w)')
    BY <1>1, <1>2, EvolvedJobs DEF IInv, EndInv
  <2> QED
    BY <1>1, <1>2, <2>1, <2>2 DEF IInv, EndInv, SuccessIsReal, FailureHasCause
<1> QED
  BY <1>1, <1>3, <1>4, <1>5 DEF IInv, PendingInv

\* Ctrl-C may come anywhere.
LEMMA InterruptKeeps ==
  ASSUME IInv, Interrupt
  PROVE  IInv'
<1>1. /\ pc # "end" /\ pc' = "except"
      /\ UNCHANGED <<nrWork, nrJobs, producer, consumer, errFile, notStarted,
                     running, notFinished, finished, done, polled, result, failed>>
  BY DEF Interrupt, fixed, procVars, lists
<1>2. Evolves
  BY <1>1, StillEvolves
<1>3. JobTypes' /\ PartsInv' /\ StateInv'
  BY <1>1, <1>2, LeaveLoop DEF IInv, JobTypes
<1>4. PendingInv'
  BY <1>1 DEF IInv, PendingInv, EndInv
<1>5. EndInv'
  BY <1>1, <1>2, StillEnd
<1> QED
  BY <1>3, <1>4, <1>5 DEF IInv

\* Everything is killed before the exception goes on.
LEMMA KillAndRaiseKeeps ==
  ASSUME IInv, KillAndRaise
  PROVE  IInv'
<1>1. /\ pc = "except" /\ KillAll(Work) /\ pc' = "end" /\ result' = "raised"
      /\ UNCHANGED <<nrWork, nrJobs, errFile, notStarted, running, notFinished,
                     finished, done, polled, failed>>
  BY DEF KillAndRaise, fixed, lists
<1>2. /\ Evolves /\ Work' = Work
      /\ \A w \in Work : producer'[w] # "alive" /\ consumer'[w] # "alive"
  BY <1>1, KillAllEvolves
<1>3. JobTypes' /\ PartsInv' /\ StateInv'
  BY <1>1, <1>2, LeaveLoop DEF IInv, JobTypes
<1>4. PendingInv'
  BY <1>1 DEF PendingInv
<1>5. EndInv'
  <2>1. AtMostJobs'
    BY <1>2, EvolvedJobs
  <2>2. \A w \in Work : errFile'[w] # "lost" /\ (errFile'[w] = "removed" => Gone(w)')
    BY <1>1, <1>2, EvolvedJobs DEF IInv, EndInv
  <2>3. FailureHasCause'
    <3>1. ASSUME failed # 0
          PROVE  Cause(failed)'
      <4>1. failed \in Work /\ Cause(failed)
        BY <3>1 DEF IInv, JobTypes, EndInv, FailureHasCause, Cause, Work
      <4>2. \A w \in Work : Cause(w) => Cause(w)'
        BY <1>2, EvolvedJobs
      <4> QED
        BY <1>1, <4>1, <4>2 DEF Cause
    <3> QED
      BY <1>1, <3>1 DEF FailureHasCause, Cause
  <2> QED
    BY <1>1, <1>2, <2>1, <2>2, <2>3 DEF EndInv, SuccessIsReal
<1> QED
  BY <1>3, <1>4, <1>5 DEF IInv
-----------------------------------------------------------------------------
(* The steps of the processes.                                             *)

\* A process of one job exits, dies or writes to err.txt.
LEMMA ProcessEffect ==
  ASSUME IInv, NEW w \in Work, Process(w)
  PROVE  /\ Evolves
         /\ UNCHANGED <<pc, notStarted, running, notFinished, finished, done,
                        polled, result, failed>>
         /\ errFile' \in [Work -> {"absent", "empty", "text", "removed", "lost"}]
         /\ \A x \in Work :
              /\ errFile'[x] # "lost"
              /\ errFile'[x] = "removed" => errFile[x] = "removed"
              /\ errFile'[x] = "empty" => errFile[x] = "empty"
              /\ errFile[x] = "absent" => errFile'[x] = "absent"
              /\ producer'[x] = "dying" => producer[x] = "dying"
              /\ producer'[x] = "killed" => producer[x] \in {"dying", "killed"}
              /\ consumer'[x] = "dying" => consumer[x] = "dying"
              /\ consumer'[x] = "killed" => consumer[x] \in {"dying", "killed"}
<1>1. /\ producer \in [Work -> ProcStates] /\ consumer \in [Work -> ProcStates]
      /\ errFile \in [Work -> {"absent", "empty", "text", "removed", "lost"}]
      /\ \A x \in Work : errFile[x] # "lost" /\ (errFile[x] = "removed" => Gone(x))
  BY DEF IInv, JobTypes, EndInv
<1>2. CASE ProducerExits(w)
  <2>1. PICK rc \in {"ok", "fail"} : producer' = [producer EXCEPT ![w] = rc]
    BY <1>2 DEF ProducerExits
  <2>2. /\ producer[w] = "alive"
        /\ UNCHANGED <<nrWork, nrJobs, consumer, errFile, pc, notStarted, running,
                       notFinished, finished, done, polled, result, failed>>
    BY <1>2 DEF ProducerExits, fixed, lists
  <2> QED
    BY <1>1, <2>1, <2>2 DEF Evolves, ProcStates, Dead
<1>3. CASE ConsumerExits(w)
  <2>1. PICK rc \in {"ok", "fail"} : consumer' = [consumer EXCEPT ![w] = rc]
    BY <1>3 DEF ConsumerExits
  <2>2. /\ consumer[w] = "alive"
        /\ UNCHANGED <<nrWork, nrJobs, producer, errFile, pc, notStarted, running,
                       notFinished, finished, done, polled, result, failed>>
    BY <1>3 DEF ConsumerExits, fixed, lists
  <2> QED
    BY <1>1, <2>1, <2>2 DEF Evolves, ProcStates, Dead
<1>4. CASE Die(w)
  <2>1. \/ /\ producer[w] = "dying"
           /\ producer' = [producer EXCEPT ![w] = "killed"] /\ consumer' = consumer
        \/ /\ consumer[w] = "dying"
           /\ consumer' = [consumer EXCEPT ![w] = "killed"] /\ producer' = producer
    BY <1>4 DEF Die
  <2>2. UNCHANGED <<nrWork, nrJobs, errFile, pc, notStarted, running,
                    notFinished, finished, done, polled, result, failed>>
    BY <1>4 DEF Die, fixed, lists
  <2> QED
    BY <1>1, <2>1, <2>2 DEF Evolves, ProcStates, Dead
<1>5. CASE WriteErr(w)
  <2>1. /\ producer[w] = "alive" \/ consumer[w] = "alive"
        /\ errFile' = [errFile EXCEPT ![w] = IF errFile[w] = "empty" THEN "text"
                         ELSE IF errFile[w] = "removed" THEN "lost" ELSE errFile[w]]
        /\ UNCHANGED <<nrWork, nrJobs, producer, consumer, pc, notStarted, running,
                       notFinished, finished, done, polled, result, failed>>
    BY <1>5 DEF WriteErr, fixed, lists
  <2>2. errFile[w] # "removed"
    BY <1>1, <2>1 DEF Gone, Dead
  <2>3. Evolves
    BY <2>1, StillEvolves
  <2> QED
    BY <1>1, <2>1, <2>2, <2>3
<1> QED
  BY <1>2, <1>3, <1>4, <1>5 DEF Process

\* The processes do what they do at any moment.
LEMMA ProcessKeeps ==
  ASSUME IInv, NEW w \in Work, Process(w)
  PROVE  IInv'
<1>1. /\ Evolves
      /\ UNCHANGED <<pc, notStarted, running, notFinished, finished, done,
                     polled, result, failed>>
      /\ errFile' \in [Work -> {"absent", "empty", "text", "removed", "lost"}]
      /\ \A x \in Work :
           /\ errFile'[x] # "lost"
           /\ errFile'[x] = "removed" => errFile[x] = "removed"
           /\ errFile'[x] = "empty" => errFile[x] = "empty"
           /\ errFile[x] = "absent" => errFile'[x] = "absent"
           /\ producer'[x] = "dying" => producer[x] = "dying"
           /\ producer'[x] = "killed" => producer[x] \in {"dying", "killed"}
           /\ consumer'[x] = "dying" => consumer[x] = "dying"
           /\ consumer'[x] = "killed" => consumer[x] \in {"dying", "killed"}
  BY ProcessEffect
<1>2. /\ Work' = Work /\ Pending' \subseteq Pending
      /\ \A x \in Work : /\ Started(x)' <=> Started(x)
                         /\ JobOk(x) => JobOk(x)'
      /\ \A x \in Range(done) : JobOk(x)'
  BY <1>1, EvolvedJobs, PendingShrinks, DoneStays
<1>3. JobTypes'
  BY <1>1, <1>2 DEF IInv, JobTypes, Evolves
<1>4. PartsInv'
  BY <1>1, <1>2 DEF IInv, PartsInv, Evolves
<1>5. StateInv'
  <2>1. pc # "idle"
    <3>1. pc = "idle" => Work = {}
      BY DEF IInv, StateInv, Work
    <3> QED
      BY <3>1
  <2>2. Polling => /\ Range(notStarted) \subseteq Work /\ Range(running) \subseteq Work
    BY DEF IInv, PartsInv, Polling
  <2>3. pc \in {"poll", "poll2"} =>
          Range(notFinished) \subseteq Work /\ Range(finished) \subseteq Work
    BY DEF IInv, PartsInv
  <2>4. ASSUME Polling
        PROVE  /\ \A x \in Range(notStarted) :
                    ~Started(x)' /\ consumer'[x] = "none" /\ errFile'[x] = "absent"
               /\ \A x \in Range(running) : Started(x)'
               /\ \A x \in Work :
                    /\ consumer'[x] \notin {"dying", "killed"}
                    /\ producer'[x] \in {"dying", "killed"} => consumer'[x] \in Dead
               /\ failed = 0
    <3>1. /\ \A x \in Range(notStarted) :
               ~Started(x) /\ consumer[x] = "none" /\ errFile[x] = "absent"
          /\ \A x \in Range(running) : Started(x)
          /\ \A x \in Work :
               /\ consumer[x] \notin {"dying", "killed"}
               /\ producer[x] \in {"dying", "killed"} => consumer[x] \in Dead
          /\ failed = 0
      BY <2>4 DEF IInv, StateInv
    <3>2. \A x \in Range(notStarted) : consumer'[x] = "none"
      BY <2>2, <2>4, <1>1, <3>1 DEF Evolves
    <3>3. \A x \in Work :
            /\ consumer'[x] \notin {"dying", "killed"}
            /\ producer'[x] \in {"dying", "killed"} => consumer'[x] \in Dead
      BY <1>1, <3>1 DEF Evolves
    <3> QED
      BY <1>1, <1>2, <2>2, <2>4, <3>1, <3>2, <3>3
  <2>5. pc \in {"poll", "poll2"} =>
          /\ \A x \in Range(notFinished) : Started(x)'
          /\ \A x \in Range(finished) : JobOk(x)'
    BY <1>2, <2>3 DEF IInv, StateInv
  <2>6. pc = "poll2" =>
          /\ running # <<>> /\ polled # "none"
          /\ polled \in Dead => producer'[Head(running)] = polled
    <3>1. pc = "poll2" => Head(running) \in Work
      BY TakeFirst DEF IInv, JobTypes, StateInv
    <3> QED
      BY <1>1, <3>1 DEF IInv, StateInv, Evolves
  <2> QED
    BY <1>1, <1>2, <2>1, <2>4, <2>5, <2>6 DEF StateInv, Polling
<1>6. PendingInv'
  BY <1>1, <1>2 DEF IInv, PendingInv
<1>7. EndInv'
  BY <1>1, EvolvedEnd DEF IInv, EndInv
<1> QED
  BY <1>3, <1>4, <1>5, <1>6, <1>7 DEF IInv
-----------------------------------------------------------------------------
(* RunWork, called for any number of jobs.                                 *)

\* Before the call.
LEMMA InitIInv == JobsInit => IInv
<1> SUFFICES ASSUME JobsInit
             PROVE  IInv
  OBVIOUS
<1>1. /\ nrWork = 0 /\ nrJobs = 0 /\ pc = "idle"
      /\ producer = <<>> /\ consumer = <<>> /\ errFile = <<>>
      /\ notStarted = <<>> /\ running = <<>> /\ notFinished = <<>>
      /\ finished = <<>> /\ done = <<>>
      /\ polled = "none" /\ result = "none" /\ failed = 0
  BY DEF JobsInit
<1>2. Work = {}
  BY <1>1 DEF Work
<1>3. \A T : <<>> \in [Work -> T]
  BY <1>2
<1>4. JobTypes
  BY <1>1, <1>3, EmptyLists DEF JobTypes, ProcStates
<1>5. AtMostJobs
  BY <1>1, <1>2, FS_EmptySet DEF AtMostJobs
<1> QED
  BY <1>1, <1>2, <1>4, <1>5, EmptyLists
     DEF IInv, PartsInv, StateInv, PendingInv, EndInv, Polling, Pending,
         SuccessIsReal, FailureHasCause

\* Every step of the run keeps the invariant.
LEMMA JobsNextKeeps ==
  ASSUME IInv, JobsNext
  PROVE  IInv'
<1>1. CASE StartJob
  BY <1>1, StartKeeps DEF StartJob
<1>2. CASE StartRaises
  <2>1. StartFrom("none", "none", "except") \/ StartFrom("alive", "none", "except")
    BY <1>2 DEF StartRaises
  <2> QED
    BY <2>1, StartKeeps
<1>3. CASE Interrupt
  BY <1>3, InterruptKeeps
<1>4. CASE \E w \in Work : Process(w)
  BY <1>4, ProcessKeeps
<1> QED
  BY <1>1, <1>2, <1>3, <1>4, BeginPollsKeeps, PollProducerKeeps, PollJobKeeps,
     EndPollsKeeps, AllDoneKeeps, KillsKeep, ReapsKeep, ReturnFalseKeeps,
     KillAndRaiseKeeps
     DEF JobsNext, MainStep

\* So does a step of something else.
LEMMA StutterKeeps ==
  ASSUME IInv, UNCHANGED jobVars
  PROVE  IInv'
<1>1. UNCHANGED <<nrWork, nrJobs, producer, consumer, errFile, pc, notStarted,
                  running, notFinished, finished, done, polled, result, failed>>
  BY DEF jobVars, fixed, procVars, lists
<1>2. /\ Evolves /\ Work' = Work /\ Pending' \subseteq Pending
  BY <1>1, StillEvolves, EvolvedJobs, PendingShrinks
<1>3. JobTypes' /\ PartsInv'
  BY <1>1, <1>2 DEF IInv, JobTypes, PartsInv
<1>4. StateInv'
  <2>1. \A w : (Started(w)' <=> Started(w)) /\ (JobOk(w)' <=> JobOk(w))
    BY <1>1 DEF Started, JobOk
  <2> QED
    BY <1>1, <1>2, <2>1 DEF IInv, StateInv, Polling
<1>5. PendingInv'
  BY <1>1, <1>2 DEF IInv, PendingInv
<1>6. EndInv'
  BY <1>1, <1>2, StillEnd
<1> QED
  BY <1>3, <1>4, <1>5, <1>6 DEF IInv

\* RunWork by itself: called at any moment, with any worklist.
RunWorkSpec ==
  /\ JobsInit
  /\ [][JobsNext \/ \E n \in Nat, j \in Nat, pipe \in BOOLEAN :
                      CallRunWork(n, j, pipe)]_jobVars

\* RunWork, whatever the number of jobs and of those that may run at once:
\* never too many run, and the result says how the jobs ended, which then have
\* no process left (lines 192-260).
THEOREM RunWorkAccounted ==
  RunWorkSpec => [](/\ JobsTypeOK /\ AtMostJobs /\ NothingLeftRunning
                    /\ ErrFilesKept /\ SuccessIsReal /\ FailureHasCause)
<1>1. IInv /\ [JobsNext \/ \E n \in Nat, j \in Nat, pipe \in BOOLEAN :
                 CallRunWork(n, j, pipe)]_jobVars => IInv'
  BY JobsNextKeeps, StutterKeeps, CallKeeps
<1> QED
  BY InitIInv, IInvImplies, <1>1, PTL DEF RunWorkSpec
-----------------------------------------------------------------------------
(* What is computed step by step: the folds of TimeRanges and FlattenSeq.  *)

\* What holds at m, and with each number at the next, holds from m to n.
LEMMA Reaches ==
  ASSUME NEW m \in Nat, NEW n \in Nat, NEW T, m \in T,
         \A k \in m..(n - 1) : k \in T => k + 1 \in T
  PROVE  m..n \subseteq T
<1> SUFFICES ASSUME (m..n) \ T # {} PROVE FALSE
  OBVIOUS
<1> DEFINE R == OpToRel(<, Nat)
           F == (m..n) \ T
<1>1. IsWellFoundedOn(R, Nat)
  BY NatLessThanWellFounded
<1>2. R = {ss \in Nat \X Nat : ss[1] < ss[2]}
  BY DEF OpToRel
<1>3. F \in SUBSET Nat
  OBVIOUS
<1> HIDE DEF R
<1>4. PICK x \in F : \A k \in F : <<k, x>> \notin R
  BY <1>1, <1>3, WFMin
<1>5. x \in m..n /\ x \notin T /\ x # m
  OBVIOUS
<1>6. x - 1 \notin F
  <2>1. \A k \in F : ~(k < x)
    BY <1>2, <1>3, <1>4
  <2> QED
    BY <1>5, <2>1
<1>7. x - 1 \in m..(n - 1) /\ x - 1 \in T
  BY <1>5, <1>6
<1>8. (x - 1) + 1 \in T
  BY <1>7
<1> QED
  BY <1>5, <1>8

\* Values that are each computed from the one before.
Stepwise(f, n, base, g) == f[0] = base /\ \A i \in 1..n : f[i] = g[i][f[i - 1]]

\* Such values exist, and are of the type the steps keep.
LEMMA StepByStep ==
  ASSUME NEW A, NEW n \in Nat, NEW base \in A, NEW g \in [1..n -> [A -> A]]
  PROVE  \E f \in [0..n -> A] : Stepwise(f, n, base, g)
<1> DEFINE Computed(k) == \E f \in [0..k -> A] : Stepwise(f, k, base, g)
           T == {k \in 0..n : Computed(k)}
<1>1. 0 \in T
  <2>1. [i \in 0..0 |-> base] \in [0..0 -> A] /\ [i \in 0..0 |-> base][0] = base
        /\ 1..0 = {}
    OBVIOUS
  <2>2. Computed(0)
    BY <2>1 DEF Stepwise
  <2> QED
    BY <2>2
<1>2. ASSUME NEW k \in 0..(n - 1), k \in T PROVE k + 1 \in T
  <2>1. PICK f \in [0..k -> A] :
          f[0] = base /\ \A i \in 1..k : f[i] = g[i][f[i - 1]]
    BY <1>2 DEF Stepwise
  <2>2. f[k] \in A /\ k + 1 \in 1..n /\ g[k + 1][f[k]] \in A
    OBVIOUS
  <2> DEFINE h == [i \in 0..(k + 1) |-> IF i <= k THEN f[i] ELSE g[k + 1][f[k]]]
  <2>3. h \in [0..(k + 1) -> A] /\ h[0] = base
    BY <2>1, <2>2
  <2>4. ASSUME NEW i \in 1..(k + 1) PROVE h[i] = g[i][h[i - 1]]
    <3>1. i \in 0..(k + 1) /\ i - 1 \in 0..(k + 1) /\ i - 1 <= k
      OBVIOUS
    <3>2. CASE i <= k
      BY <2>1, <3>1, <3>2
    <3>3. CASE i = k + 1
      BY <2>1, <3>1, <3>3
    <3> QED
      BY <3>2, <3>3
  <2>5. Computed(k + 1)
    BY <2>3, <2>4 DEF Stepwise
  <2> QED
    BY <2>5
<1>3. 0..n \subseteq T
  <2> HIDE DEF T
  <2> QED
    BY <1>1, <1>2, Reaches
<1> QED
  BY <1>3

\* The durations of ranges add up.
LEMMA TotalDurationPositive ==
  ASSUME NEW U \in Seq(Int \X Int), Len(U) # 0, \A i \in DOMAIN U : U[i][1] <= U[i][2]
  PROVE  TotalDuration(U) \in Nat \ {0}
<1> DEFINE n == Len(U)
           g == [i \in 1..n |-> [x \in Nat |-> x + TimeRangeDuration(U[i])]]
           Step(x, i) == CHOOSE y \in {v + TimeRangeDuration(U[i]) : v \in {x}} : TRUE
           Folds(f) == f = [i \in 0..n |-> IF i = 0 THEN 0 ELSE Step(f[i - 1], i)]
           sum == CHOOSE f : Folds(f)
<1>1. \A i \in 1..n : TimeRangeDuration(U[i]) \in Nat \ {0}
  <2> SUFFICES ASSUME NEW i \in 1..n PROVE TimeRangeDuration(U[i]) \in Nat \ {0}
    OBVIOUS
  <2>1. U[i] \in Int \X Int /\ U[i][1] <= U[i][2]
    OBVIOUS
  <2> QED
    BY <2>1 DEF TimeRangeDuration
<1>2. \A x, i : Step(x, i) = x + TimeRangeDuration(U[i])
  OBVIOUS
<1>3. TotalDuration(U) = sum[n]
  BY DEF TotalDuration, Fold
<1> HIDE DEF Step
<1>4. n \in Nat /\ g \in [1..n -> [Nat -> Nat]]
  BY <1>1
<1>5. PICK f \in [0..n -> Nat] : Stepwise(f, n, 0, g)
  <2> HIDE DEF n, g
  <2>1. 0 \in Nat
    OBVIOUS
  <2> QED
    BY <1>4, <2>1, StepByStep, Zenon
<1>6. ASSUME NEW i \in 1..n PROVE f[i] = Step(f[i - 1], i)
  <2>1. i - 1 \in 0..n /\ f[i - 1] \in Nat
    <3>1. n \in Nat
      BY <1>4
    <3> HIDE DEF n
    <3>2. i - 1 \in 0..n
      BY <3>1
    <3> QED
      BY <3>2
  <2>2. g[i][f[i - 1]] = f[i - 1] + TimeRangeDuration(U[i])
    BY <2>1
  <2> QED
    BY <1>2, <1>5, <2>2 DEF Stepwise
<1>7. Folds(f)
  BY <1>5, <1>6 DEF Stepwise
<1>8. Folds(sum)
  BY <1>7
<1>9. \A i \in 0..n : sum[i] = IF i = 0 THEN 0 ELSE Step(sum[i - 1], i)
  BY <1>8
<1> HIDE DEF sum, Folds
<1>10. \A i \in 1..n : sum[i] = sum[i - 1] + TimeRangeDuration(U[i])
  BY <1>2, <1>9
<1> DEFINE T == {i \in Nat : sum[i] \in Nat /\ (i # 0 => sum[i] # 0)}
<1>11. 0 \in T
  BY <1>4, <1>9
<1>12. ASSUME NEW k \in 0..(n - 1), k \in T PROVE k + 1 \in T
  <2>1. k + 1 \in 1..n /\ (k + 1) - 1 = k
    OBVIOUS
  <2>2. sum[k + 1] = sum[k] + TimeRangeDuration(U[k + 1])
    BY <1>10, <2>1
  <2> QED
    BY <1>1, <1>12, <2>1, <2>2
<1>13. 0..n \subseteq T
  <2> HIDE DEF T
  <2> QED
    BY <1>4, <1>11, <1>12, Reaches
<1>14. n \in 0..n /\ n # 0
  BY <1>4
<1> QED
  BY <1>3, <1>13, <1>14
-----------------------------------------------------------------------------
(* The division of the ranges the user asked for.                          *)

Pairs == Int \X Int
Valid(U) == U \in Seq(Pairs) /\ U # <<>> /\ ValidTimeRanges(U)
NoneEmpty(L) == \A i \in DOMAIN L : L[i][1] <= L[i][2]

\* Both ends of p are times of r.
Within(p, r) == r[1] <= p[1] /\ p[1] <= r[2] /\ r[1] <= p[2] /\ p[2] <= r[2]

\* q goes on where p ends, or both are at a gap between two ranges of U.
Joined(p, q, U) ==
  \E k \in DOMAIN U :
    /\ Within(p, U[k])
    /\ \/ Within(q, U[k]) /\ q[1] = p[2] + 1
       \/ /\ k + 1 \in DOMAIN U /\ Within(q, U[k + 1])
          /\ p[2] = U[k][2] /\ q[1] = U[k + 1][1]

\* L divides the first n ranges of U: its ranges are in the order of their times, each
\* lies in one of U, the next goes on where it ends, and none is missing at either end.
\* A range may be empty, which is what two samples with the same time lead to.
Divides(L, U, n) ==
  /\ L \in Seq(Pairs) /\ L # <<>>
  /\ \A i \in DOMAIN L : L[i][1] <= L[i][2] + 1 /\ \E k \in 1..n : Within(L[i], U[k])
  /\ \A i, j \in DOMAIN L : i < j => L[i][2] < L[j][1]
  /\ \A i \in DOMAIN L : i + 1 \in DOMAIN L => Joined(L[i], L[i + 1], U)
  /\ L[1][1] = U[1][1]
  /\ L[Len(L)][2] = U[n][2] /\ Within(L[Len(L)], U[n])

\* A sequence's length, domain and elements.
LEMMA SeqFacts ==
  ASSUME NEW S, NEW s \in Seq(S)
  PROVE  /\ Len(s) \in Nat /\ DOMAIN s = 1..Len(s) /\ \A i \in 1..Len(s) : s[i] \in S
         /\ s # <<>> <=> Len(s) >= 1
OBVIOUS

\* Valid ranges are in the order of their times.
LEMMA ValidInOrder ==
  ASSUME NEW U, Valid(U)
  PROVE  /\ \A i \in DOMAIN U : U[i] \in Pairs /\ U[i][1] <= U[i][2]
                                /\ U[i][1] \in Int /\ U[i][2] \in Int
         /\ \A i, j \in DOMAIN U : i < j => U[i][2] < U[j][1]
<1>1. /\ U \in Seq(Pairs) /\ Len(U) \in Nat /\ DOMAIN U = 1..Len(U)
      /\ \A i \in 1..Len(U) : U[i] \in Pairs
  BY SeqFacts DEF Valid
<1>2. \A i \in 1..Len(U) : U[i][1] \in Int /\ U[i][2] \in Int /\ U[i][1] <= U[i][2]
  BY <1>1 DEF Pairs, Valid, ValidTimeRanges
<1>3. \A i \in 2..Len(U) : U[i - 1][2] < U[i][1]
  BY <1>1, <1>2 DEF Valid, ValidTimeRanges
<1>4. ASSUME NEW i \in 1..Len(U), NEW j \in 1..Len(U), i < j PROVE U[i][2] < U[j][1]
  <2> DEFINE T == {m \in 1..Len(U) : U[i][2] < U[m][1]}
  <2>1. i + 1 \in Nat /\ i + 1 \in 2..Len(U) /\ (i + 1) - 1 = i
    BY <1>1, <1>4
  <2>2. i + 1 \in T
    BY <1>3, <2>1
  <2>3. ASSUME NEW m \in (i + 1)..(Len(U) - 1), m \in T PROVE m + 1 \in T
    <3>1. m \in 1..Len(U) /\ m + 1 \in 2..Len(U) /\ (m + 1) - 1 = m /\ m + 1 \in 1..Len(U)
      BY <1>1, <2>3
    <3>2. U[m][2] < U[m + 1][1] /\ U[m][1] <= U[m][2]
      BY <1>2, <1>3, <3>1
    <3>3. U[i][2] < U[m][1]
      BY <2>3
    <3>4. /\ U[i][2] \in Int /\ U[m][1] \in Int /\ U[m][2] \in Int
          /\ U[m + 1][1] \in Int
      BY <1>2, <3>1
    <3>5. U[i][2] < U[m + 1][1]
      BY <3>2, <3>3, <3>4
    <3> QED
      BY <3>1, <3>5
  <2>4. (i + 1)..Len(U) \subseteq T
    <3> HIDE DEF T
    <3> QED
      BY <1>1, <2>1, <2>2, <2>3, Reaches
  <2>5. j \in (i + 1)..Len(U)
    BY <1>1, <1>4
  <2> QED
    BY <2>4, <2>5
<1> QED
  BY <1>1, <1>2, <1>4

\* The ranges divide themselves, also the first n of them.
LEMMA DividesItself ==
  ASSUME NEW U, Valid(U)
  PROVE  Divides(U, U, Len(U)) /\ NoneEmpty(U)
<1>1. /\ U \in Seq(Pairs) /\ Len(U) \in Nat /\ DOMAIN U = 1..Len(U) /\ Len(U) >= 1
      /\ U # <<>>
  BY SeqFacts DEF Valid
<1>2. /\ \A i \in DOMAIN U : U[i] \in Pairs /\ U[i][1] <= U[i][2]
                             /\ U[i][1] \in Int /\ U[i][2] \in Int
      /\ \A i, j \in DOMAIN U : i < j => U[i][2] < U[j][1]
  BY ValidInOrder
<1>3. \A i \in DOMAIN U : Within(U[i], U[i])
  BY <1>2 DEF Within
<1>4. \A i \in DOMAIN U : i + 1 \in DOMAIN U => Joined(U[i], U[i + 1], U)
  BY <1>2, <1>3 DEF Joined
<1>5. \A i \in DOMAIN U : U[i][1] <= U[i][2] + 1 /\ \E k \in 1..Len(U) : Within(U[i], U[k])
  BY <1>1, <1>2, <1>3
<1>6. Len(U) \in DOMAIN U
  BY <1>1
<1> QED
  BY <1>1, <1>2, <1>3, <1>4, <1>5, <1>6 DEF Divides, NoneEmpty
-----------------------------------------------------------------------------
(* SplitSingleTimeRangeIntoN                                               *)

\* Multiples of a duration are ordered as their factors.
LEMMA MultiplesInOrder ==
  ASSUME NEW d \in Nat, NEW i \in Int, NEW j \in Int, i <= j
  PROVE  i * d \in Int /\ j * d \in Int /\ i * d <= j * d
<1>1. (j - i) * d \in Nat
  <2>1. j - i \in Nat
    OBVIOUS
  <2> QED
    BY <2>1
<1>2. (j - i) * d = j * d - i * d
  OBVIOUS
<1> QED
  BY <1>1, <1>2

\* A quotient times the divisor is not above the dividend.
LEMMA QuotientTimes ==
  ASSUME NEW a \in Nat, NEW n \in Nat \ {0}
  PROVE  a \div n \in Nat /\ n * (a \div n) <= a
OBVIOUS

\* Dividing one range into n parts.
LEMMA SplitSingleDivides ==
  ASSUME NEW r \in Pairs, r[1] <= r[2], NEW n \in Int
  PROVE  /\ Divides(SplitSingleTimeRangeIntoN(r, n), <<r>>, 1)
         /\ NoneEmpty(SplitSingleTimeRangeIntoN(r, n))
<1> DEFINE L == SplitSingleTimeRangeIntoN(r, n)
           d == TimeRangeDuration(r) \div n
<1>1. r[1] \in Int /\ r[2] \in Int /\ Within(r, r)
  BY DEF Pairs, Within
<1>2. CASE n <= 1 \/ d < 1
  <2>1. L = <<r>>
    BY <1>2 DEF SplitSingleTimeRangeIntoN
  <2>2. <<r>> \in Seq(Pairs) /\ Len(<<r>>) = 1 /\ <<r>>[1] = r /\ DOMAIN <<r>> = {1}
    OBVIOUS
  <2>3. Divides(<<r>>, <<r>>, 1) /\ NoneEmpty(<<r>>)
    <3>1. \A i, j \in DOMAIN <<r>> : ~(i < j) /\ i + 1 \notin DOMAIN <<r>>
      BY <2>2
    <3>2. r[1] <= r[2] + 1 /\ 1 \in 1..1
      BY <1>1
    <3> QED
      BY <1>1, <2>2, <3>1, <3>2 DEF Divides, NoneEmpty
  <2> QED
    BY <2>1, <2>3
<1>3. CASE ~(n <= 1 \/ d < 1)
  <2>1. L = [i \in 1..n |-> <<r[1] + (i - 1) * d, IF i = n THEN r[2] ELSE r[1] + i * d - 1>>]
    BY <1>3 DEF SplitSingleTimeRangeIntoN
  <2>2. /\ n \in Nat \ {0, 1} /\ d \in Nat \ {0} /\ n * d <= r[2] - r[1] + 1
        /\ TimeRangeDuration(r) = r[2] - r[1] + 1
    <3>1. TimeRangeDuration(r) = r[2] - r[1] + 1 /\ TimeRangeDuration(r) \in Nat
      BY <1>1 DEF TimeRangeDuration
    <3>2. n \in Nat \ {0, 1} /\ n \in Nat \ {0}
      BY <1>3
    <3>3. d \in Nat /\ n * d <= TimeRangeDuration(r)
      BY <3>1, <3>2, QuotientTimes
    <3> QED
      BY <1>3, <3>1, <3>2, <3>3
  <2> HIDE DEF L, d
  <2>3. \A i \in 1..n : /\ (i - 1) * d \in Int /\ i * d \in Int /\ i * d = (i - 1) * d + d
                        /\ 0 <= (i - 1) * d /\ i * d <= n * d
    <3> SUFFICES ASSUME NEW i \in 1..n
                 PROVE  /\ (i - 1) * d \in Int /\ i * d \in Int /\ i * d = (i - 1) * d + d
                        /\ 0 <= (i - 1) * d /\ i * d <= n * d
      OBVIOUS
    <3>1. i \in Int /\ i - 1 \in Int /\ 0 <= i - 1 /\ i <= n /\ n \in Int /\ d \in Nat
      BY <2>2
    <3>2. 0 * d <= (i - 1) * d /\ (i - 1) * d \in Int
      BY <3>1, MultiplesInOrder
    <3>3. i * d <= n * d /\ i * d \in Int
      BY <3>1, MultiplesInOrder
    <3>4. i * d = (i - 1) * d + d /\ 0 * d = 0
      BY <3>1
    <3> QED
      BY <3>2, <3>3, <3>4
  <2>4. \A i \in 1..n :
          /\ L[i][1] = r[1] + (i - 1) * d
          /\ L[i][2] = IF i = n THEN r[2] ELSE r[1] + i * d - 1
          /\ L[i] \in Pairs
    <3> SUFFICES ASSUME NEW i \in 1..n
                 PROVE  /\ L[i][1] = r[1] + (i - 1) * d
                        /\ L[i][2] = IF i = n THEN r[2] ELSE r[1] + i * d - 1
                        /\ L[i] \in Pairs
      OBVIOUS
    <3> DEFINE x == r[1] + (i - 1) * d
               y == IF i = n THEN r[2] ELSE r[1] + i * d - 1
    <3>1. L[i] = <<x, y>>
      BY <2>1
    <3>2. x \in Int /\ y \in Int
      BY <1>1, <2>3
    <3> HIDE DEF x, y
    <3>3. L[i][1] = x /\ L[i][2] = y /\ L[i] \in Pairs
      BY <3>1, <3>2 DEF Pairs
    <3> QED
      BY <3>3 DEF x, y
  <2>5. L \in Seq(Pairs) /\ Len(L) = n /\ DOMAIN L = 1..n /\ L # <<>>
    <3>1. n \in Nat
      BY <2>2
    <3>2. L \in [1..n -> Pairs]
      BY <2>1, <2>4
    <3>3. L \in Seq(Pairs) /\ DOMAIN L = 1..n
      BY <3>1, <3>2, IsASeq
    <3>4. Len(L) = n
      BY <3>1, <3>3
    <3> QED
      BY <2>2, <3>3, <3>4
  <2>6. n \in 1..n /\ 1 \in 1..n
    BY <2>2
  <2>7. \A i \in 1..n : L[i][1] <= L[i][2] /\ Within(L[i], r) /\ L[i][1] \in Int /\ L[i][2] \in Int
    <3> SUFFICES ASSUME NEW i \in 1..n
                 PROVE  L[i][1] <= L[i][2] /\ Within(L[i], r) /\ L[i][1] \in Int /\ L[i][2] \in Int
      OBVIOUS
    <3>1. /\ (i - 1) * d \in Int /\ i * d \in Int /\ i * d = (i - 1) * d + d
          /\ 0 <= (i - 1) * d /\ i * d <= n * d /\ n * d \in Int
      BY <2>3, <2>6
    <3>2. L[i][1] = r[1] + (i - 1) * d
          /\ L[i][2] = IF i = n THEN r[2] ELSE r[1] + i * d - 1
      BY <2>4
    <3>3. CASE i = n
      BY <1>1, <2>2, <3>1, <3>2, <3>3 DEF Within
    <3>4. CASE i # n
      BY <1>1, <2>2, <3>1, <3>2, <3>4 DEF Within
    <3> QED
      BY <3>3, <3>4
  <2>8. \A i, j \in 1..n : i < j => L[i][2] < L[j][1]
    <3> SUFFICES ASSUME NEW i \in 1..n, NEW j \in 1..n, i < j PROVE L[i][2] < L[j][1]
      OBVIOUS
    <3>1. i * d <= (j - 1) * d /\ i * d \in Int /\ (j - 1) * d \in Int
      <4>1. i \in Int /\ j - 1 \in Int /\ i <= j - 1 /\ d \in Nat
        BY <2>2
      <4> QED
        BY <4>1, MultiplesInOrder
    <3>2. i # n /\ L[i][2] = r[1] + i * d - 1 /\ L[j][1] = r[1] + (j - 1) * d
      BY <2>2, <2>4
    <3> QED
      BY <1>1, <3>1, <3>2
  <2>9. \A i \in 1..n : i + 1 \in 1..n => Joined(L[i], L[i + 1], <<r>>)
    <3> SUFFICES ASSUME NEW i \in 1..n, i + 1 \in 1..n PROVE Joined(L[i], L[i + 1], <<r>>)
      OBVIOUS
    <3>1. i # n /\ L[i][2] = r[1] + i * d - 1 /\ L[i + 1][1] = r[1] + i * d
      BY <2>2, <2>4
    <3>2. L[i + 1][1] = L[i][2] + 1
      BY <1>1, <2>3, <3>1
    <3>3. Within(L[i], r) /\ Within(L[i + 1], r)
      BY <2>7
    <3>4. 1 \in DOMAIN <<r>> /\ <<r>>[1] = r
      OBVIOUS
    <3> QED
      BY <3>2, <3>3, <3>4 DEF Joined
  <2>10. L[1][1] = r[1] /\ L[n][2] = r[2]
    <3>1. (1 - 1) * d = 0
      BY <2>2
    <3> QED
      BY <1>1, <2>4, <2>6, <3>1
  <2>11. <<r>>[1] = r /\ 1 \in 1..1
    OBVIOUS
  <2>12. \A i \in 1..n : L[i][1] <= L[i][2] + 1 /\ \E k \in 1..1 : Within(L[i], <<r>>[k])
    BY <2>7, <2>11
  <2>13. Divides(L, <<r>>, 1)
    BY <2>5, <2>6, <2>7, <2>8, <2>9, <2>10, <2>11, <2>12 DEF Divides
  <2>14. NoneEmpty(L)
    BY <2>5, <2>7 DEF NoneEmpty
  <2> QED
    BY <2>13, <2>14 DEF L
<1> QED
  BY <1>2, <1>3
-----------------------------------------------------------------------------
(* Lists put together.                                                     *)

\* The elements of a concatenation.
LEMMA ConcatFacts ==
  ASSUME NEW S, NEW s \in Seq(S), NEW t \in Seq(S)
  PROVE  /\ s \o t \in Seq(S) /\ Len(s \o t) = Len(s) + Len(t)
         /\ DOMAIN (s \o t) = 1..(Len(s) + Len(t))
         /\ \A i \in 1..Len(s) : (s \o t)[i] = s[i]
         /\ \A i \in 1..Len(t) : (s \o t)[Len(s) + i] = t[i]
OBVIOUS

\* FlattenSeq appends the lists one after the other.
LEMMA Flattens ==
  ASSUME NEW S, NEW ss \in Seq(Seq(S)), ss # <<>>
  PROVE  \E f \in [1..Len(ss) -> Seq(S)] :
           /\ f[1] = ss[1] /\ FlattenSeq(ss) = f[Len(ss)]
           /\ \A i \in 2..Len(ss) : f[i] = f[i - 1] \o ss[i]
<1> DEFINE n == Len(ss) - 1
           g == [i \in 1..n |-> [x \in Seq(S) |-> x \o ss[i + 1]]]
           Flat(f) == f = [i \in 1..Len(ss) |-> IF i = 1 THEN ss[i] ELSE f[i - 1] \o ss[i]]
           flatten == CHOOSE f : Flat(f)
<1>1. /\ Len(ss) \in Nat \ {0} /\ n \in Nat /\ n + 1 = Len(ss)
      /\ \A i \in 1..Len(ss) : ss[i] \in Seq(S)
  OBVIOUS
<1>2. FlattenSeq(ss) = flatten[Len(ss)]
  BY <1>1 DEF FlattenSeq
<1>3. g \in [1..n -> [Seq(S) -> Seq(S)]]
  <2> HIDE DEF n
  <2>1. \A i \in 1..n : i + 1 \in 1..Len(ss) /\ ss[i + 1] \in Seq(S)
    BY <1>1
  <2>2. \A i \in 1..n : \A x \in Seq(S) : x \o ss[i + 1] \in Seq(S)
    BY <2>1, ConcatFacts
  <2> QED
    BY <2>2
<1>4. PICK h \in [0..n -> Seq(S)] : Stepwise(h, n, ss[1], g)
  <2> HIDE DEF n, g
  <2>1. n \in Nat /\ ss[1] \in Seq(S)
    BY <1>1
  <2> QED
    BY <1>3, <2>1, StepByStep, Zenon
<1> DEFINE f == [i \in 1..Len(ss) |-> h[i - 1]]
<1> HIDE DEF n, Flat, flatten
<1>5. f \in [1..Len(ss) -> Seq(S)] /\ f[1] = ss[1]
  BY <1>1, <1>4 DEF Stepwise
<1>6. \A i \in 2..Len(ss) : f[i] = f[i - 1] \o ss[i]
  <2> SUFFICES ASSUME NEW i \in 2..Len(ss) PROVE f[i] = f[i - 1] \o ss[i]
    OBVIOUS
  <2>1. /\ i - 1 \in 1..n /\ (i - 1) + 1 = i /\ (i - 1) - 1 \in 0..n
        /\ i \in 1..Len(ss) /\ i - 1 \in 1..Len(ss)
    BY <1>1
  <2>2. h[(i - 1) - 1] \in Seq(S) /\ f[i] = h[i - 1] /\ f[i - 1] = h[(i - 1) - 1]
    BY <2>1
  <2>3. h[i - 1] = g[i - 1][h[(i - 1) - 1]]
    BY <1>4, <2>1 DEF Stepwise
  <2>4. g[i - 1][h[(i - 1) - 1]] = h[(i - 1) - 1] \o ss[i]
    BY <2>1, <2>2
  <2> QED
    BY <2>2, <2>3, <2>4
<1> HIDE DEF f
<1>7. Flat(f)
  <2>1. \A i \in 1..Len(ss) : f[i] = IF i = 1 THEN ss[i] ELSE f[i - 1] \o ss[i]
    <3>1. \A i \in 1..Len(ss) : i # 1 => i \in 2..Len(ss)
      BY <1>1
    <3> QED
      BY <1>5, <1>6, <3>1
  <2> DEFINE e(i) == IF i = 1 THEN ss[i] ELSE f[i - 1] \o ss[i]
  <2>2. \A i \in 1..Len(ss) : f[i] = e(i)
    BY <2>1
  <2> HIDE DEF e
  <2>3. f = [i \in 1..Len(ss) |-> e(i)]
    BY <1>5, <2>2
  <2> QED
    BY <2>3 DEF e, Flat
<1>8. Flat(flatten)
  BY <1>7 DEF flatten
<1>9. \A i \in 1..Len(ss) : flatten[i] = IF i = 1 THEN ss[i] ELSE flatten[i - 1] \o ss[i]
  BY <1>8 DEF Flat
<1> DEFINE T == {i \in Nat : flatten[i] = f[i]}
<1>10. 1 \in T
  BY <1>1, <1>5, <1>9
<1>11. ASSUME NEW k \in 1..(Len(ss) - 1), k \in T PROVE k + 1 \in T
  <2>1. k + 1 \in 2..Len(ss) /\ k + 1 \in 1..Len(ss) /\ (k + 1) - 1 = k /\ k + 1 # 1
    BY <1>1
  <2>2. flatten[k + 1] = flatten[k] \o ss[k + 1] /\ f[k + 1] = f[k] \o ss[k + 1]
    BY <1>6, <1>9, <2>1
  <2>3. flatten[k] = f[k]
    BY <1>11
  <2>4. flatten[k + 1] = f[k + 1]
    BY <2>2, <2>3
  <2> HIDE DEF flatten, f
  <2> QED
    BY <2>1, <2>4
<1>12. 1..Len(ss) \subseteq T
  <2> HIDE DEF T
  <2>1. 1 \in Nat /\ Len(ss) \in Nat
    BY <1>1
  <2> QED
    BY <1>10, <1>11, <2>1, Reaches
<1>13. flatten[Len(ss)] = f[Len(ss)]
  <2>1. Len(ss) \in 1..Len(ss)
    BY <1>1
  <2>2. Len(ss) \in T
    BY <1>12, <2>1
  <2> QED
    BY <2>2
<1> QED
  BY <1>2, <1>5, <1>6, <1>13

\* Each element of the lists has its place in the flat one, and no other has.
IsFlat(w, ss, S) ==
  /\ w \in Seq(S)
  /\ \E off \in [1..Len(ss) -> Nat] :
       /\ \A c \in DOMAIN ss : \A i \in DOMAIN ss[c] :
            off[c] + i \in DOMAIN w /\ w[off[c] + i] = ss[c][i]
       /\ \A j \in DOMAIN w :
            \E c \in DOMAIN ss : \E i \in DOMAIN ss[c] : j = off[c] + i

\* FlattenSeq puts the lists together so.
LEMMA FlatPlaces ==
  ASSUME NEW S, NEW ss \in Seq(Seq(S)), ss # <<>>
  PROVE  IsFlat(FlattenSeq(ss), ss, S)
<1>1. PICK f \in [1..Len(ss) -> Seq(S)] :
        /\ f[1] = ss[1] /\ FlattenSeq(ss) = f[Len(ss)]
        /\ \A i \in 2..Len(ss) : f[i] = f[i - 1] \o ss[i]
  BY Flattens
<1>2. Len(ss) \in Nat \ {0} /\ DOMAIN ss = 1..Len(ss) /\ \A i \in 1..Len(ss) : ss[i] \in Seq(S)
  OBVIOUS
<1> DEFINE off == [c \in 1..Len(ss) |-> IF c = 1 THEN 0 ELSE Len(f[c - 1])]
           Placed(k) ==
             /\ \A c \in 1..k : \A i \in DOMAIN ss[c] :
                  off[c] + i \in DOMAIN f[k] /\ f[k][off[c] + i] = ss[c][i]
             /\ \A j \in DOMAIN f[k] : \E c \in 1..k : \E i \in DOMAIN ss[c] : j = off[c] + i
<1>3. off \in [1..Len(ss) -> Nat] /\ off[1] = 0
  <2>1. \A c \in 1..Len(ss) : c # 1 => c - 1 \in 1..Len(ss)
    BY <1>2
  <2>2. \A c \in 1..Len(ss) : c # 1 => Len(f[c - 1]) \in Nat
    BY <1>1, <2>1
  <2> QED
    BY <1>2, <2>2
<1> DEFINE T == {k \in 1..Len(ss) : Placed(k)}
<1>4. 1 \in T
  <2>1. \A i \in DOMAIN ss[1] : off[1] + i = i
    BY <1>2, <1>3
  <2>2. 1..1 = {1} /\ 1 \in 1..Len(ss)
    BY <1>2
  <2> HIDE DEF off
  <2> QED
    BY <1>1, <2>1, <2>2
<1>5. ASSUME NEW k \in 1..(Len(ss) - 1), k \in T PROVE k + 1 \in T
  <2>1. k + 1 \in 2..Len(ss) /\ k + 1 \in 1..Len(ss) /\ (k + 1) - 1 = k /\ k \in 1..Len(ss)
        /\ k + 1 # 1
    BY <1>2
  <2> DEFINE p == f[k]
             q == ss[k + 1]
             w == f[k + 1]
  <2>2. off[k + 1] = Len(p)
    BY <2>1
  <2>3. w = p \o q /\ p \in Seq(S) /\ q \in Seq(S)
    BY <1>1, <1>2, <2>1
  <2>4. \A c \in 1..k : \A i \in DOMAIN ss[c] : off[c] + i \in DOMAIN p /\ p[off[c] + i] = ss[c][i]
    BY <1>5
  <2>5. \A j \in DOMAIN p : \E c \in 1..k : \E i \in DOMAIN ss[c] : j = off[c] + i
    BY <1>5
  <2> HIDE DEF off, p, w
  <2>6. /\ DOMAIN p = 1..Len(p) /\ Len(p) \in Nat /\ DOMAIN q = 1..Len(q) /\ Len(q) \in Nat
        /\ DOMAIN w = 1..(Len(p) + Len(q))
        /\ \A i \in 1..Len(p) : w[i] = p[i]
        /\ \A i \in 1..Len(q) : w[Len(p) + i] = q[i]
    <3> HIDE DEF q
    <3> QED
      BY <2>3, ConcatFacts
  <2>7. ASSUME NEW c \in 1..(k + 1), NEW i \in DOMAIN ss[c]
        PROVE  off[c] + i \in DOMAIN w /\ w[off[c] + i] = ss[c][i]
    <3>1. CASE c \in 1..k
      <4>1. off[c] + i \in DOMAIN p /\ p[off[c] + i] = ss[c][i]
        BY <2>4, <3>1
      <4> HIDE DEF q
      <4> QED
        BY <2>6, <4>1
    <3>2. CASE c = k + 1
      <4>1. i \in DOMAIN q /\ ss[c] = q /\ off[c] = Len(p)
        BY <2>2, <3>2
      <4> HIDE DEF q
      <4>2. i \in 1..Len(q)
        BY <2>6, <4>1
      <4>3. Len(p) + i \in 1..(Len(p) + Len(q)) /\ w[Len(p) + i] = q[i]
        BY <2>6, <4>2
      <4> QED
        BY <2>6, <4>1, <4>3
    <3> QED
      BY <3>1, <3>2
  <2>9. ASSUME NEW j \in DOMAIN w
        PROVE  \E c \in 1..(k + 1) : \E i \in DOMAIN ss[c] : j = off[c] + i
    <3>1. CASE j \in DOMAIN p
      <4>2. PICK c \in 1..k : \E i \in DOMAIN ss[c] : j = off[c] + i
        BY <2>5, <3>1
      <4>3. c \in 1..(k + 1)
        OBVIOUS
      <4> QED
        BY <4>2, <4>3
    <3>2. CASE j \notin DOMAIN p
      <4> DEFINE i == j - Len(p)
      <4>1. i \in 1..Len(q) /\ j = Len(p) + i
        <5> HIDE DEF q
        <5> QED
          BY <2>6, <3>2
      <4>2. i \in DOMAIN ss[k + 1] /\ j = off[k + 1] + i
        <5> HIDE DEF i
        <5> QED
          BY <2>2, <2>6, <4>1
      <4>3. k + 1 \in 1..(k + 1)
        OBVIOUS
      <4> QED
        BY <4>2, <4>3
    <3> QED
      BY <3>1, <3>2
  <2>8. Placed(k + 1)
    BY <2>7, <2>9 DEF w
  <2> QED
    BY <2>1, <2>8
<1>6. Len(ss) \in T
  <2> HIDE DEF T
  <2>1. 1 \in Nat /\ Len(ss) \in Nat /\ Len(ss) \in 1..Len(ss)
    BY <1>2
  <2> QED
    BY <1>4, <1>5, <2>1, Reaches
<1>7. Placed(Len(ss)) /\ FlattenSeq(ss) = f[Len(ss)] /\ f[Len(ss)] \in Seq(S)
  BY <1>1, <1>2, <1>6
<1> HIDE DEF off
<1>8. /\ \A c \in DOMAIN ss : \A i \in DOMAIN ss[c] :
           /\ off[c] + i \in DOMAIN FlattenSeq(ss)
           /\ FlattenSeq(ss)[off[c] + i] = ss[c][i]
      /\ \A j \in DOMAIN FlattenSeq(ss) :
           \E c \in DOMAIN ss : \E i \in DOMAIN ss[c] : j = off[c] + i
  BY <1>2, <1>7, Zenon
<1> QED
  BY <1>3, <1>7, <1>8, Zenon DEF IsFlat
-----------------------------------------------------------------------------
(* SplitTimeRangesByInterval and SplitTimeRangesIntoN                      *)

\* The last range of a division ends last.
LEMMA EndsLast ==
  ASSUME NEW U, NEW n, NEW L, Divides(L, U, n)
  PROVE  /\ Len(L) \in Nat \ {0} /\ DOMAIN L = 1..Len(L) /\ Len(L) \in DOMAIN L /\ 1 \in DOMAIN L
         /\ \A i \in DOMAIN L : L[i] \in Pairs /\ L[i][1] \in Int /\ L[i][2] \in Int
         /\ \A i \in DOMAIN L : L[i][2] <= L[Len(L)][2]
<1>1. L \in Seq(Pairs) /\ L # <<>>
  BY DEF Divides
<1>2. Len(L) \in Nat \ {0} /\ DOMAIN L = 1..Len(L) /\ Len(L) \in DOMAIN L /\ 1 \in DOMAIN L
  BY <1>1, SeqFacts
<1>3. \A i \in DOMAIN L : L[i] \in Pairs /\ L[i][1] \in Int /\ L[i][2] \in Int
  BY <1>1, <1>2, SeqFacts DEF Pairs
<1>4. ASSUME NEW i \in DOMAIN L PROVE L[i][2] <= L[Len(L)][2]
  <2>1. i < Len(L) => L[i][2] < L[Len(L)][1]
    BY <1>2 DEF Divides
  <2>2. L[Len(L)][1] <= L[Len(L)][2] + 1
    BY <1>2 DEF Divides
  <2>3. i < Len(L) \/ i = Len(L)
    BY <1>2
  <2>4. /\ L[i][2] \in Int /\ L[Len(L)][1] \in Int /\ L[Len(L)][2] \in Int
    BY <1>2, <1>3
  <2> QED
    BY <2>1, <2>2, <2>3, <2>4
<1> QED
  BY <1>2, <1>3, <1>4

\* A division of one range is a division of the first.
LEMMA DividesFirst ==
  ASSUME NEW U, Valid(U), NEW P, Divides(P, <<U[1]>>, 1)
  PROVE  Divides(P, U, 1)
<1>1. 1 \in DOMAIN U /\ <<U[1]>>[1] = U[1] /\ DOMAIN <<U[1]>> = {1} /\ 1 \in 1..1 /\ 2 \notin {1}
  BY SeqFacts DEF Valid
<1>2. \A p, q : Joined(p, q, <<U[1]>>) => Joined(p, q, U)
  BY <1>1 DEF Joined
<1> QED
  BY <1>1, <1>2 DEF Divides

\* A division of the next range goes on where the one of those before ends.
LEMMA DividesNext ==
  ASSUME NEW U, Valid(U), NEW k \in DOMAIN U, k + 1 \in DOMAIN U,
         NEW L, Divides(L, U, k), NEW P, Divides(P, <<U[k + 1]>>, 1)
  PROVE  /\ Divides(L \o P, U, k + 1)
         /\ NoneEmpty(L) /\ NoneEmpty(P) => NoneEmpty(L \o P)
<1> DEFINE w == L \o P
           l == Len(L)
           m == Len(P)
           r == U[k + 1]
<1>1. /\ \A i \in DOMAIN U : U[i] \in Pairs /\ U[i][1] <= U[i][2]
                             /\ U[i][1] \in Int /\ U[i][2] \in Int
      /\ \A i, j \in DOMAIN U : i < j => U[i][2] < U[j][1]
      /\ Len(U) \in Nat /\ DOMAIN U = 1..Len(U)
  BY ValidInOrder, SeqFacts DEF Valid
<1>2. <<r>>[1] = r /\ DOMAIN <<r>> = {1} /\ 1..1 = {1}
  OBVIOUS
<1>3. /\ l \in Nat \ {0} /\ DOMAIN L = 1..l /\ l \in DOMAIN L /\ 1 \in DOMAIN L
      /\ \A i \in DOMAIN L : L[i] \in Pairs /\ L[i][1] \in Int /\ L[i][2] \in Int
      /\ \A i \in DOMAIN L : L[i][2] <= L[l][2]
      /\ L \in Seq(Pairs)
  BY EndsLast DEF Divides
<1>4. /\ m \in Nat \ {0} /\ DOMAIN P = 1..m /\ m \in DOMAIN P /\ 1 \in DOMAIN P
      /\ \A i \in DOMAIN P : P[i] \in Pairs /\ P[i][1] \in Int /\ P[i][2] \in Int
      /\ P \in Seq(Pairs)
  BY EndsLast DEF Divides
<1>5. /\ w \in Seq(Pairs) /\ Len(w) = l + m /\ DOMAIN w = 1..(l + m)
      /\ \A i \in 1..l : w[i] = L[i]
      /\ \A i \in 1..m : w[l + i] = P[i]
  BY <1>3, <1>4, ConcatFacts
<1>6. \A i \in 1..(l + m) :
        \/ i \in 1..l /\ w[i] = L[i]
        \/ i \in (l + 1)..(l + m) /\ i - l \in 1..m /\ w[i] = P[i - l]
  <2> SUFFICES ASSUME NEW i \in 1..(l + m), ~(i <= l)
               PROVE  i \in (l + 1)..(l + m) /\ i - l \in 1..m /\ w[i] = P[i - l]
    BY <1>3, <1>4, <1>5
  <2>1. i - l \in 1..m /\ l + (i - l) = i
    BY <1>3, <1>4
  <2> QED
    BY <1>3, <1>4, <1>5, <2>1
<1>7. /\ \A i \in 1..m : Within(P[i], r) /\ P[i][1] <= P[i][2] + 1
      /\ P[1][1] = r[1] /\ P[m][2] = r[2]
      /\ \A i, j \in 1..m : i < j => P[i][2] < P[j][1]
      /\ \A i \in 1..m : i + 1 \in 1..m => P[i + 1][1] = P[i][2] + 1
  <2> DEFINE R == <<r>>
  <2>1. R[1] = r /\ DOMAIN R = {1} /\ \A x \in DOMAIN R : x = 1 /\ x + 1 \notin DOMAIN R
    BY <1>2
  <2>2. Divides(P, R, 1)
    OBVIOUS
  <2> HIDE DEF R, r, m
  <2>3. \A i \in 1..m : Within(P[i], r) /\ P[i][1] <= P[i][2] + 1
    BY <1>2, <1>4, <2>1, <2>2 DEF Divides
  <2>4. P[1][1] = r[1] /\ P[m][2] = r[2]
    BY <2>1, <2>2 DEF Divides, m
  <2>5. \A i, j \in 1..m : i < j => P[i][2] < P[j][1]
    BY <1>4, <2>2 DEF Divides
  <2>6. \A i \in 1..m : i + 1 \in 1..m => Joined(P[i], P[i + 1], R)
    BY <1>4, <2>2 DEF Divides
  <2>7. \A p, q : Joined(p, q, R) => q[1] = p[2] + 1
    BY <2>1 DEF Joined
  <2> QED
    BY <2>3, <2>4, <2>5, <2>6, <2>7
<1>8. /\ \A i \in 1..l : L[i][1] <= L[i][2] + 1 /\ \E x \in 1..k : Within(L[i], U[x])
      /\ L[1][1] = U[1][1] /\ L[l][2] = U[k][2] /\ Within(L[l], U[k])
      /\ \A i, j \in 1..l : i < j => L[i][2] < L[j][1]
      /\ \A i \in 1..l : i + 1 \in 1..l => Joined(L[i], L[i + 1], U)
  BY <1>3 DEF Divides
<1>9. U[k][2] < r[1] /\ r[1] \in Int /\ r[2] \in Int /\ U[k][2] \in Int /\ k + 1 \in 1..(k + 1)
  BY <1>1
<1> HIDE DEF w, l, m, r
<1>10. ASSUME NEW i \in 1..(l + m)
       PROVE  w[i][1] <= w[i][2] + 1 /\ \E x \in 1..(k + 1) : Within(w[i], U[x])
  <2>1. CASE i \in 1..l /\ w[i] = L[i]
    <3>1. PICK x \in 1..k : Within(L[i], U[x])
      BY <1>8, <2>1
    <3>2. x \in 1..(k + 1)
      BY <1>1
    <3> QED
      BY <1>8, <2>1, <3>1, <3>2
  <2>2. CASE i - l \in 1..m /\ w[i] = P[i - l]
    BY <1>7, <1>9, <2>2 DEF r
  <2> QED
    BY <1>6, <2>1, <2>2
<1>11. ASSUME NEW i \in 1..(l + m), NEW j \in 1..(l + m), i < j PROVE w[i][2] < w[j][1]
  <2>1. CASE i \in 1..l /\ j \in 1..l
    BY <1>5, <1>8, <1>11, <2>1
  <2>2. CASE i \in 1..l /\ j \notin 1..l
    <3>1. w[i] = L[i] /\ j - l \in 1..m /\ w[j] = P[j - l]
      BY <1>5, <1>6, <2>2
    <3>2. L[i][2] <= L[l][2] /\ L[i][2] \in Int
      BY <1>3, <2>2
    <3>3. r[1] <= P[j - l][1] /\ P[j - l][1] \in Int
      BY <1>4, <1>7, <3>1 DEF Within
    <3> QED
      BY <1>8, <1>9, <3>1, <3>2, <3>3
  <2>3. CASE i \notin 1..l
    <3>1. i - l \in 1..m /\ w[i] = P[i - l]
      BY <1>6, <2>3
    <3>2. j \notin 1..l
      BY <1>3, <1>11, <2>3
    <3>3. j - l \in 1..m /\ w[j] = P[j - l]
      BY <1>6, <3>2
    <3>4. i - l < j - l
      BY <1>3, <1>11
    <3> QED
      BY <1>7, <3>1, <3>3, <3>4
  <2> QED
    BY <2>1, <2>2, <2>3
<1>12. ASSUME NEW i \in 1..(l + m), i + 1 \in 1..(l + m) PROVE Joined(w[i], w[i + 1], U)
  <2>1. CASE i + 1 \in 1..l
    <3>1. i \in 1..l
      BY <1>3, <2>1
    <3> QED
      BY <1>5, <1>8, <2>1, <3>1
  <2>2. CASE i = l
    <3>1. w[i] = L[l] /\ w[i + 1] = P[1] /\ 1 \in 1..m
      BY <1>3, <1>4, <1>5, <2>2
    <3> QED
      BY <1>7, <1>8, <3>1 DEF Joined, r
  <2>3. CASE i \notin 1..l
    <3>1. i - l \in 1..m /\ w[i] = P[i - l]
      BY <1>6, <2>3
    <3>2. i + 1 \notin 1..l /\ (i + 1) - l = (i - l) + 1
      BY <1>3, <1>4, <2>3
    <3>3. (i - l) + 1 \in 1..m /\ w[i + 1] = P[(i - l) + 1]
      BY <1>6, <1>12, <3>2
    <3>4. P[(i - l) + 1][1] = P[i - l][2] + 1 /\ Within(P[i - l], r) /\ Within(P[(i - l) + 1], r)
      BY <1>7, <3>1, <3>3
    <3> QED
      BY <3>1, <3>3, <3>4 DEF Joined, r
  <2>4. i + 1 \in 1..l \/ i = l \/ i \notin 1..l
    BY <1>3, <1>4
  <2> QED
    BY <2>1, <2>2, <2>3, <2>4
<1>13. w[1] = L[1] /\ w[l + m] = P[m] /\ w # <<>> /\ l + m \in 1..(l + m)
  <2>1. l + m >= 1 /\ l + m \in 1..(l + m) /\ 1 \in 1..l /\ m \in 1..m
    BY <1>3, <1>4
  <2>2. w[1] = L[1] /\ w[l + m] = P[m]
    BY <1>5, <2>1
  <2>3. w # <<>>
    BY <1>5, <2>1, SeqFacts
  <2> QED
    BY <2>1, <2>2, <2>3
<1>14. Within(P[m], r)
  BY <1>4, <1>7
<1>15. Divides(w, U, k + 1)
  <2>1. w[Len(w)][2] = U[k + 1][2] /\ Within(w[Len(w)], U[k + 1])
    BY <1>5, <1>7, <1>13, <1>14 DEF r
  <2> QED
    BY <1>5, <1>8, <1>10, <1>11, <1>12, <1>13, <2>1 DEF Divides
<1>16. NoneEmpty(L) /\ NoneEmpty(P) => NoneEmpty(w)
  BY <1>3, <1>4, <1>5, <1>6 DEF NoneEmpty
<1> QED
  BY <1>15, <1>16 DEF w

\* A rounded quotient is an integer.
LEMMA RoundedType ==
  ASSUME NEW a \in Int, NEW b \in Nat \ {0}
  PROVE  Rounded(a, b) \in Int
<1>1. a \div b \in Int
  OBVIOUS
<1> QED
  BY <1>1 DEF Rounded

\* SplitTimeRangesByInterval divides the ranges into none that is empty.
LEMMA ByInterval ==
  ASSUME NEW U, Valid(U), NEW interval \in Int \X Int, interval[1] \in Nat \ {0}
  PROVE  LET L == SplitTimeRangesByInterval(U, interval)
         IN  Divides(L, U, Len(U)) /\ NoneEmpty(L)
<1> DEFINE n(i) == Rounded(TimeRangeDuration(U[i]) * interval[2], interval[1])
           ss == [i \in DOMAIN U |-> SplitSingleTimeRangeIntoN(U[i], n(i))]
<1>1. /\ U \in Seq(Pairs) /\ Len(U) \in Nat /\ DOMAIN U = 1..Len(U) /\ Len(U) >= 1
      /\ U # <<>>
  BY SeqFacts DEF Valid
<1>2. /\ \A i \in DOMAIN U : U[i] \in Pairs /\ U[i][1] <= U[i][2]
                             /\ U[i][1] \in Int /\ U[i][2] \in Int
  BY ValidInOrder
<1>3. \A i \in DOMAIN U : n(i) \in Int
  <2> SUFFICES ASSUME NEW i \in DOMAIN U PROVE n(i) \in Int
    OBVIOUS
  <2>1. TimeRangeDuration(U[i]) \in Int
    BY <1>2 DEF TimeRangeDuration
  <2>2. interval[2] \in Int
    OBVIOUS
  <2>3. TimeRangeDuration(U[i]) * interval[2] \in Int
    BY <2>1, <2>2
  <2> QED
    BY <2>3, RoundedType
<1> HIDE DEF n
<1>4. \A i \in DOMAIN U : Divides(ss[i], <<U[i]>>, 1) /\ NoneEmpty(ss[i])
  BY <1>2, <1>3, SplitSingleDivides
<1>5. SplitTimeRangesByInterval(U, interval) = FlattenSeq(ss)
  BY DEF SplitTimeRangesByInterval, n
<1>6. \A i \in DOMAIN U : ss[i] \in Seq(Pairs)
  BY <1>4 DEF Divides
<1>7. ss \in Seq(Seq(Pairs)) /\ Len(ss) = Len(U) /\ DOMAIN ss = 1..Len(U) /\ ss # <<>>
  <2>1. ss \in [1..Len(U) -> Seq(Pairs)]
    BY <1>1, <1>6
  <2> HIDE DEF ss
  <2>2. ss \in Seq(Seq(Pairs)) /\ DOMAIN ss = 1..Len(U)
    BY <1>1, <2>1, IsASeq
  <2>3. Len(ss) = Len(U)
    BY <1>1, <2>2
  <2> QED
    BY <1>1, <2>2, <2>3
<1> HIDE DEF ss
<1>8. PICK f \in [1..Len(ss) -> Seq(Pairs)] :
        /\ f[1] = ss[1] /\ FlattenSeq(ss) = f[Len(ss)]
        /\ \A i \in 2..Len(ss) : f[i] = f[i - 1] \o ss[i]
  <2>1. \A s \in Seq(Seq(Pairs)) : s # <<>> =>
          \E f \in [1..Len(s) -> Seq(Pairs)] :
            /\ f[1] = s[1] /\ FlattenSeq(s) = f[Len(s)]
            /\ \A i \in 2..Len(s) : f[i] = f[i - 1] \o s[i]
    BY Flattens
  <2> QED
    BY ONLY <1>7, <2>1, Zenon
<1> DEFINE T == {k \in 1..Len(U) : Divides(f[k], U, k) /\ NoneEmpty(f[k])}
<1>9. 1 \in T
  <2>1. 1 \in DOMAIN U
    BY <1>1
  <2> QED
    BY <1>1, <1>4, <1>8, <2>1, DividesFirst
<1>10. ASSUME NEW k \in 1..(Len(U) - 1), k \in T PROVE k + 1 \in T
  <2>1. k \in DOMAIN U /\ k + 1 \in DOMAIN U /\ k + 1 \in 2..Len(ss) /\ (k + 1) - 1 = k
    BY <1>1, <1>7
  <2>2. f[k + 1] = f[k] \o ss[k + 1]
    BY <1>8, <2>1
  <2>3. Divides(f[k], U, k) /\ NoneEmpty(f[k])
    BY <1>10
  <2>4. Divides(ss[k + 1], <<U[k + 1]>>, 1) /\ NoneEmpty(ss[k + 1])
    BY <1>4, <2>1
  <2>5. Divides(f[k + 1], U, k + 1) /\ NoneEmpty(f[k + 1])
    BY <2>1, <2>2, <2>3, <2>4, DividesNext
  <2> QED
    BY <1>1, <2>1, <2>5
<1>11. Len(U) \in T
  <2> HIDE DEF T
  <2>1. 1 \in Nat /\ Len(U) \in 1..Len(U)
    BY <1>1
  <2> QED
    BY <1>1, <1>9, <1>10, <2>1, Reaches
<1> QED
  BY <1>5, <1>7, <1>8, <1>11

\* SplitTimeRangesIntoN does so too.
LEMMA IntoN ==
  ASSUME NEW U, Valid(U), NEW n \in Nat \ {0}, NEW minInterval \in Nat
  PROVE  LET L == SplitTimeRangesIntoN(U, n, minInterval)
         IN  Divides(L, U, Len(U)) /\ NoneEmpty(L)
<1>1. /\ U \in Seq(Pairs) /\ Len(U) # 0
  BY SeqFacts DEF Valid
<1>2. \A i \in DOMAIN U : U[i][1] <= U[i][2]
  BY ValidInOrder
<1> DEFINE t == TotalDuration(U)
           interval == IF t < minInterval * n THEN <<minInterval, 1>> ELSE <<t, n>>
<1>3. t \in Nat \ {0}
  BY <1>1, <1>2, TotalDurationPositive DEF Pairs
<1> HIDE DEF t
<1>4. interval \in Int \X Int /\ interval[1] \in Nat \ {0}
  <2>1. CASE t < minInterval * n
    <3>1. minInterval # 0
      BY <1>3, <2>1
    <3> QED
      BY <2>1, <3>1
  <2>2. CASE ~(t < minInterval * n)
    BY <1>3, <2>2
  <2> QED
    BY <2>1, <2>2
<1> HIDE DEF interval
<1>5. Divides(SplitTimeRangesByInterval(U, interval), U, Len(U))
      /\ NoneEmpty(SplitTimeRangesByInterval(U, interval))
  BY <1>4, ByInterval
<1> QED
  BY <1>5, DividesItself DEF SplitTimeRangesIntoN, interval, t

\* A finite set of numbers can be listed in their order.
LEMMA InOrderExists ==
  ASSUME NEW m \in Nat, NEW S \in SUBSET (0..m)
  PROVE  /\ InOrder(S) \in Seq(S) /\ Len(InOrder(S)) = Cardinality(S)
         /\ DOMAIN InOrder(S) = 1..Cardinality(S) /\ Cardinality(S) \in Nat
         /\ \A i, j \in DOMAIN InOrder(S) : i < j => InOrder(S)[i] < InOrder(S)[j]
<1> DEFINE Listed(s, X) == /\ s \in [1..Cardinality(X) -> X]
                           /\ \A i, j \in DOMAIN s : i < j => s[i] < s[j]
           T == {k \in 0..(m + 1) : \A X \in SUBSET (0..(k - 1)) : \E s : Listed(s, X)}
<1>1. 0 \in T
  <2>1. ASSUME NEW X \in SUBSET (0..(0 - 1)) PROVE \E s : Listed(s, X)
    <3>1. X = {}
      OBVIOUS
    <3>2. 1..Cardinality(X) = {}
      BY <3>1, FS_EmptySet
    <3> DEFINE e == [i \in 1..Cardinality(X) |-> 0]
    <3>3. e \in [1..Cardinality(X) -> X] /\ DOMAIN e = {}
      BY <3>2
    <3> HIDE DEF e
    <3>4. Listed(e, X)
      BY <3>3
    <3> QED
      BY <3>4
  <2>2. 0 \in 0..(m + 1)
    OBVIOUS
  <2> HIDE DEF Listed
  <2> QED
    BY <2>1, <2>2
<1>2. ASSUME NEW k \in 0..((m + 1) - 1), k \in T PROVE k + 1 \in T
  <2> SUFFICES ASSUME NEW X \in SUBSET (0..((k + 1) - 1)) PROVE \E s : Listed(s, X)
    <3>1. k + 1 \in 0..(m + 1)
      OBVIOUS
    <3> HIDE DEF Listed
    <3> QED
      BY <3>1
  <2>0. \A Y \in SUBSET (0..(k - 1)) : \E s : Listed(s, Y)
    BY <1>2
  <2>1. CASE k \notin X
    <3>1. X \in SUBSET (0..(k - 1))
      BY <2>1
    <3> QED
      BY <2>0, <3>1
  <2>2. CASE k \in X
    <3> DEFINE Y == X \ {k}
               c == Cardinality(Y)
    <3>1. Y \in SUBSET (0..(k - 1)) /\ IsFiniteSet(Y) /\ \A y \in Y : y \in Nat /\ y < k
      <4>1. IsFiniteSet(0..(k - 1))
        BY FS_Interval
      <4>2. Y \in SUBSET (0..(k - 1))
        OBVIOUS
      <4>3. \A y \in Y : y \in Nat /\ y < k
        OBVIOUS
      <4> HIDE DEF Y
      <4> QED
        BY <4>1, <4>2, <4>3, FS_Subset
    <3>2. X = Y \cup {k} /\ k \notin Y
      BY <2>2
    <3>3. c \in Nat /\ Cardinality(X) = c + 1
      BY <3>1, <3>2, FS_AddElement, FS_CardinalityType
    <3>4. PICK s : Listed(s, Y)
      BY <2>0, <3>1
    <3>5. s \in [1..c -> Y] /\ \A i, j \in 1..c : i < j => s[i] < s[j]
      BY <3>4
    <3> HIDE DEF Y, c
    <3> DEFINE t == [i \in 1..(c + 1) |-> IF i <= c THEN s[i] ELSE k]
    <3>6. \A i \in 1..(c + 1) : i <= c => i \in 1..c /\ t[i] = s[i] /\ t[i] \in Y
      BY <3>3, <3>5
    <3>7. \A i \in 1..(c + 1) : ~(i <= c) => i = c + 1 /\ t[i] = k
      BY <3>3
    <3>8. t \in [1..(c + 1) -> X] /\ DOMAIN t = 1..(c + 1)
      BY <3>2, <3>6, <3>7
    <3> HIDE DEF t
    <3>9. ASSUME NEW i \in 1..(c + 1), NEW j \in 1..(c + 1), i < j PROVE t[i] < t[j]
      <4>1. i <= c
        BY <3>3, <3>9
      <4>2. CASE j <= c
        BY <3>5, <3>6, <3>9, <4>1, <4>2
      <4>3. CASE ~(j <= c)
        BY <3>1, <3>6, <3>7, <4>1, <4>3
      <4> QED
        BY <4>2, <4>3
    <3>10. Listed(t, X)
      BY <3>3, <3>8, <3>9
    <3> QED
      BY <3>10
  <2> QED
    BY <2>1, <2>2
<1>3. m + 1 \in T
  <2> HIDE DEF T
  <2>1. 0 \in Nat /\ m + 1 \in Nat /\ m + 1 \in 0..(m + 1)
    OBVIOUS
  <2> QED
    BY <1>1, <1>2, <2>1, Reaches
<1>4. \E s : Listed(s, S)
  <2>1. (m + 1) - 1 = m
    OBVIOUS
  <2>2. S \in SUBSET (0..((m + 1) - 1))
    BY <2>1
  <2> QED
    BY <1>3, <2>2
<1>5. Listed(InOrder(S), S)
  <2>1. \E s \in [1..Cardinality(S) -> S] : \A i, j \in DOMAIN s : i < j => s[i] < s[j]
    BY <1>4
  <2> QED
    BY <2>1 DEF InOrder
<1>6. Cardinality(S) \in Nat
  <2>1. IsFiniteSet(0..m)
    BY FS_Interval
  <2> QED
    BY <2>1, FS_Subset, FS_CardinalityType
<1>7. InOrder(S) \in Seq(S) /\ DOMAIN InOrder(S) = 1..Cardinality(S)
  BY <1>5, <1>6, IsASeq
<1>8. Len(InOrder(S)) = Cardinality(S)
  BY <1>6, <1>7
<1> QED
  BY <1>5, <1>6, <1>7, <1>8

\* Ranges that follow each other without a gap from lo to hi.
Chain(P, lo, hi) ==
  /\ P \in Seq(Pairs) /\ P # <<>>
  /\ P[1][1] = lo /\ P[Len(P)][2] = hi
  /\ \A i \in 1..Len(P) : P[i][1] <= P[i][2] + 1
  /\ \A i \in 1..Len(P) : i + 1 \in 1..Len(P) => P[i + 1][1] = P[i][2] + 1

Ascending(s) == \A i, j \in DOMAIN s : i < j => s[i] <= s[j]
Increasing(s) == \A i, j \in DOMAIN s : i < j => s[i] < s[j]

\* CalcTimeRangesByCPU: the ranges between samples follow each other; none but
\* the first may be empty if no two samples have the same time.
LEMMA CalcChain ==
  ASSUME NEW lo \in Int, NEW hi \in Int, NEW times \in Seq(Int), times # <<>>,
         \A i \in DOMAIN times : lo <= times[i] /\ times[i] <= hi,
         Ascending(times), NEW d \in Nat \ {0}
  PROVE  LET P == CalcTimeRangesByCPU(times, d, lo, hi)
         IN  /\ Chain(P, lo, hi)
             /\ Increasing(times) => \A i \in 2..Len(P) : P[i][1] <= P[i][2]
<1> DEFINE cuts == (Len(times) - 1) \div d
           P == CalcTimeRangesByCPU(times, d, lo, hi)
           from(k) == IF k = 1 THEN lo ELSE times[(k - 1) * d]
           to(k) == IF k = cuts + 1 THEN hi ELSE times[k * d] - 1
<1>1. /\ Len(times) \in Nat \ {0} /\ DOMAIN times = 1..Len(times)
      /\ \A i \in 1..Len(times) : times[i] \in Int
  BY SeqFacts
<1>2. cuts \in Nat /\ d * cuts <= Len(times) - 1
  <2>1. Len(times) - 1 \in Nat
    BY <1>1
  <2> QED
    BY <2>1, QuotientTimes
<1>3. P = [k \in 1..(cuts + 1) |-> <<from(k), to(k)>>]
  BY DEF CalcTimeRangesByCPU
<1> HIDE DEF cuts, P
<1>4. ASSUME NEW k \in 1..cuts PROVE k * d \in 1..Len(times) /\ k * d \in Int
  <2>1. 1 * d <= k * d /\ k * d <= cuts * d /\ k * d \in Int
    <3>1. 1 \in Int /\ k \in Int /\ cuts \in Int /\ 1 <= k /\ k <= cuts /\ d \in Nat
      BY <1>2
    <3> QED
      BY <3>1, MultiplesInOrder
  <2>2. 1 * d = d /\ cuts * d = d * cuts /\ d * cuts \in Int
    BY <1>2
  <2> HIDE DEF from, to
  <2> QED
    BY <1>1, <1>2, <2>1, <2>2
<1>5. ASSUME NEW k \in 1..cuts, NEW l \in 1..cuts, k < l PROVE k * d < l * d
  <2>1. (k + 1) * d <= l * d /\ (k + 1) * d \in Int /\ l * d \in Int
    <3>1. k + 1 \in Int /\ l \in Int /\ k + 1 <= l /\ d \in Nat
      BY <1>2, <1>5
    <3> QED
      BY <3>1, MultiplesInOrder
  <2>2. (k + 1) * d = k * d + d /\ k * d \in Int
    BY <1>2
  <2> QED
    BY <2>1, <2>2
<1> DEFINE cut(k) == times[k * d]
<1>6. \A k \in 1..cuts : cut(k) \in Int /\ lo <= cut(k) /\ cut(k) <= hi
  BY <1>1, <1>4
<1>7. \A k, l \in 1..cuts : k < l => cut(k) <= cut(l)
  BY <1>1, <1>4, <1>5 DEF Ascending
<1>8. Increasing(times) => \A k, l \in 1..cuts : k < l => cut(k) < cut(l)
  BY <1>1, <1>4, <1>5 DEF Increasing
<1>9. \A k \in 1..(cuts + 1) : from(k) = IF k = 1 THEN lo ELSE cut(k - 1)
  OBVIOUS
<1>10. \A k \in 1..(cuts + 1) : to(k) = IF k = cuts + 1 THEN hi ELSE cut(k) - 1
  OBVIOUS
<1> HIDE DEF from, to, cut
<1>11. \A k \in 1..(cuts + 1) : (k # 1 => k - 1 \in 1..cuts) /\ (k # cuts + 1 => k \in 1..cuts)
  BY <1>2
<1>12. \A k \in 1..(cuts + 1) : from(k) \in Int /\ to(k) \in Int
  BY <1>6, <1>9, <1>10, <1>11
<1>13. \A k \in 1..(cuts + 1) : P[k] \in Pairs /\ P[k][1] = from(k) /\ P[k][2] = to(k)
  BY <1>3, <1>12 DEF Pairs
<1>14. P \in Seq(Pairs) /\ Len(P) = cuts + 1 /\ P # <<>>
  <2>1. P \in [1..(cuts + 1) -> Pairs]
    BY <1>3, <1>13
  <2>2. cuts + 1 \in Nat
    BY <1>2
  <2>3. P \in Seq(Pairs) /\ DOMAIN P = 1..(cuts + 1)
    BY <2>1, <2>2, IsASeq
  <2>4. Len(P) = cuts + 1
    BY <2>2, <2>3
  <2> QED
    BY <1>2, <2>3, <2>4
<1>15. lo <= hi
  BY <1>1
<1>16. ASSUME NEW k \in 1..(cuts + 1) PROVE from(k) <= to(k) + 1
  <2>1. CASE k = 1
    BY <1>2, <1>6, <1>9, <1>10, <1>11, <1>15, <2>1
  <2>2. CASE k # 1
    <3>1. k - 1 \in 1..cuts /\ from(k) = cut(k - 1)
      BY <1>9, <1>11, <2>2
    <3>2. CASE k = cuts + 1
      BY <1>6, <1>10, <3>1, <3>2
    <3>3. CASE k # cuts + 1
      <4>1. k \in 1..cuts /\ to(k) = cut(k) - 1 /\ k - 1 < k
        BY <1>10, <1>11, <3>3
      <4>2. cut(k - 1) <= cut(k)
        BY <1>7, <3>1, <4>1
      <4> QED
        BY <1>6, <3>1, <4>1, <4>2
    <3> QED
      BY <3>2, <3>3
  <2> QED
    BY <2>1, <2>2
<1>17. ASSUME NEW k \in 2..(cuts + 1), Increasing(times) PROVE from(k) <= to(k)
  <2>1. k \in 1..(cuts + 1) /\ k # 1
    BY <1>2
  <2>2. k - 1 \in 1..cuts /\ from(k) = cut(k - 1)
    BY <1>9, <1>11, <2>1
  <2>3. CASE k = cuts + 1
    BY <1>6, <1>10, <2>1, <2>2, <2>3
  <2>4. CASE k # cuts + 1
    <3>1. k \in 1..cuts /\ to(k) = cut(k) - 1 /\ k - 1 < k
      BY <1>10, <1>11, <2>1, <2>4
    <3>2. cut(k - 1) < cut(k)
      BY <1>8, <1>17, <2>2, <3>1
    <3> QED
      BY <1>6, <2>2, <3>1, <3>2
  <2> QED
    BY <2>3, <2>4
<1>18. ASSUME NEW k \in 1..(cuts + 1), k + 1 \in 1..(cuts + 1) PROVE from(k + 1) = to(k) + 1
  <2>1. k # cuts + 1 /\ k + 1 # 1 /\ (k + 1) - 1 = k /\ k \in 1..cuts
    BY <1>2, <1>18
  <2>2. from(k + 1) = cut(k) /\ to(k) = cut(k) - 1
    BY <1>9, <1>10, <1>18, <2>1
  <2> QED
    BY <1>6, <2>1, <2>2
<1>19. Chain(P, lo, hi)
  <2>1. 1 \in 1..(cuts + 1) /\ cuts + 1 \in 1..(cuts + 1)
    BY <1>2
  <2>2. P[1][1] = lo /\ P[cuts + 1][2] = hi
    BY <1>9, <1>10, <1>13, <2>1
  <2> QED
    BY <1>13, <1>14, <1>16, <1>18, <2>2 DEF Chain
<1>20. Increasing(times) => \A i \in 2..Len(P) : P[i][1] <= P[i][2]
  <2>1. \A i \in 2..Len(P) : i \in 1..(cuts + 1)
    BY <1>2, <1>14
  <2> QED
    BY <1>13, <1>14, <1>17, <2>1
<1> QED
  BY <1>19, <1>20 DEF P

\* The times of the samples of one CPU, or of all, are in order.
LEMMA TimesInOrder ==
  ASSUME NEW C \in SUBSET Int, NEW samples \in Seq(Int \X C), NEW perCpu, NEW cpu,
         \A i, j \in DOMAIN samples : i < j => samples[i][2] <= samples[j][2]
  PROVE  LET times == TimesOf(samples, perCpu, cpu)
         IN  /\ times \in Seq(C) /\ Ascending(times)
             /\ (\A i, j \in DOMAIN samples :
                   i # j /\ (~perCpu \/ samples[i][1] = samples[j][1])
                     => samples[i][2] # samples[j][2]) => Increasing(times)
<1> DEFINE S == {i \in DOMAIN samples : ~perCpu \/ samples[i][1] = cpu}
           mine == InOrder(S)
           times == TimesOf(samples, perCpu, cpu)
<1>1. /\ Len(samples) \in Nat /\ DOMAIN samples = 1..Len(samples)
      /\ \A i \in DOMAIN samples : samples[i] \in Int \X C
  BY SeqFacts
<1>2. S \in SUBSET (0..Len(samples))
  BY <1>1
<1>3. times = [i \in DOMAIN mine |-> samples[mine[i]][2]]
  BY DEF TimesOf
<1>4. \A i \in S : /\ i \in DOMAIN samples /\ samples[i][2] \in C /\ samples[i][2] \in Int
                   /\ i \in Int
                   /\ ~perCpu \/ samples[i][1] = cpu
  <2>1. \A i \in S : i \in DOMAIN samples /\ (~perCpu \/ samples[i][1] = cpu)
    BY Zenon
  <2>2. \A i \in DOMAIN samples : samples[i][2] \in C /\ samples[i][2] \in Int /\ i \in Int
    <3>1. \A x \in Int \X C : x[2] \in C /\ x[2] \in Int
      OBVIOUS
    <3>2. \A i \in DOMAIN samples : i \in Int
      BY <1>1
    <3> QED
      BY <1>1, <3>1, <3>2, Zenon
  <2> QED
    BY <2>1, <2>2, Zenon
<1> HIDE DEF S, times
<1>5. /\ mine \in Seq(S) /\ Len(mine) \in Nat /\ DOMAIN mine = 1..Len(mine)
      /\ \A i, j \in DOMAIN mine : i < j => mine[i] < mine[j]
  BY <1>1, <1>2, InOrderExists
<1> HIDE DEF mine
<1>6. \A i \in 1..Len(mine) : mine[i] \in S
  BY <1>5, SeqFacts
<1>7. times \in [1..Len(mine) -> C]
  BY <1>3, <1>4, <1>5, <1>6
<1>8. times \in Seq(C) /\ DOMAIN times = 1..Len(mine)
  BY <1>5, <1>7, IsASeq
<1>9. \A i \in 1..Len(mine) : times[i] = samples[mine[i]][2]
  BY <1>3, <1>5
<1>10. Ascending(times)
  BY <1>4, <1>5, <1>6, <1>8, <1>9 DEF Ascending
<1>11. ASSUME \A i, j \in DOMAIN samples :
                i # j /\ (~perCpu \/ samples[i][1] = samples[j][1])
                  => samples[i][2] # samples[j][2]
       PROVE  Increasing(times)
  <2> SUFFICES ASSUME NEW i \in 1..Len(mine), NEW j \in 1..Len(mine), i < j
               PROVE  times[i] < times[j]
    BY <1>8 DEF Increasing
  <2>1. /\ mine[i] \in S /\ mine[j] \in S /\ mine[i] < mine[j]
    BY <1>5, <1>6
  <2>2. mine[i] # mine[j]
    BY <1>4, <2>1
  <2>3. samples[mine[i]][2] # samples[mine[j]][2]
    BY <1>4, <1>11, <2>1, <2>2
  <2>4. samples[mine[i]][2] <= samples[mine[j]][2]
    BY <1>4, <2>1
  <2> QED
    BY <1>4, <1>9, <2>1, <2>3, <2>4
<1> QED
  BY <1>8, <1>10, <1>11 DEF times
-----------------------------------------------------------------------------
(* IntersectTimeRanges                                                     *)

\* The elements of a part of a sequence.
LEMMA SubSeqFacts ==
  ASSUME NEW S, NEW s \in Seq(S), NEW a \in Nat \ {0}, NEW b \in Nat, b <= Len(s), a <= b + 1
  PROVE  /\ SubSeq(s, a, b) \in Seq(S) /\ Len(SubSeq(s, a, b)) = b - a + 1
         /\ \A i \in 1..(b - a + 1) : SubSeq(s, a, b)[i] = s[a + i - 1]
<1>1. \A i \in a..b : i \in 1..Len(s)
  OBVIOUS
<1>2. \A i \in a..b : s[i] \in S
  BY <1>1
<1>3. SubSeq(s, a, b) \in Seq(S) /\ Len(SubSeq(s, a, b)) = IF a <= b THEN b - a + 1 ELSE 0
  BY <1>2, SubSeqProperties
<1>4. \A i \in 1..(b - a + 1) : SubSeq(s, a, b)[i] = s[a + i - 1]
  BY <1>2, SubSeqProperties
<1> QED
  BY <1>3, <1>4

\* t is s with the elements of mid for its i-th.
IsPut(t, S, s, i, mid) ==
  /\ t \in Seq(S) /\ Len(t) = Len(s) - 1 + Len(mid)
  /\ \A j \in 1..(i - 1) : t[j] = s[j]
  /\ \A j \in 1..Len(mid) : t[i - 1 + j] = mid[j]
  /\ \A j \in (i + 1)..Len(s) : t[j - 1 + Len(mid)] = s[j]

\* What the assignments to a slice of the list do.
LEMMA PutFacts ==
  ASSUME NEW S, NEW s \in Seq(S), NEW i \in 1..Len(s), NEW mid \in Seq(S)
  PROVE  IsPut(Put(s, i, mid), S, s, i, mid)
<1> DEFINE a == SubSeq(s, 1, i - 1)
           b == SubSeq(s, i + 1, Len(s))
           t == Put(s, i, mid)
           n == Len(s)
           m == Len(mid)
<1>1. n \in Nat /\ m \in Nat /\ i \in 1..n
  OBVIOUS
<1> HIDE DEF n, m
<1>2. a \in Seq(S) /\ Len(a) = i - 1 /\ \A j \in 1..(i - 1) : a[j] = s[j]
  <2>1. 1 \in Nat \ {0} /\ i - 1 \in Nat /\ i - 1 <= Len(s) /\ 1 <= (i - 1) + 1
    BY <1>1 DEF n
  <2>2. /\ a \in Seq(S) /\ Len(a) = (i - 1) - 1 + 1
        /\ \A j \in 1..((i - 1) - 1 + 1) : a[j] = s[1 + j - 1]
    BY <2>1, SubSeqFacts
  <2>3. (i - 1) - 1 + 1 = i - 1 /\ \A j \in 1..(i - 1) : 1 + j - 1 = j
    BY <1>1
  <2> HIDE DEF a
  <2> QED
    BY <2>2, <2>3
<1>3. b \in Seq(S) /\ Len(b) = n - i /\ \A j \in 1..(n - i) : b[j] = s[i + j]
  <2>1. i + 1 \in Nat \ {0} /\ Len(s) \in Nat /\ Len(s) <= Len(s) /\ i + 1 <= Len(s) + 1
    BY <1>1 DEF n
  <2>2. /\ b \in Seq(S) /\ Len(b) = n - (i + 1) + 1
        /\ \A j \in 1..(n - (i + 1) + 1) : b[j] = s[(i + 1) + j - 1]
    BY <2>1, SubSeqFacts DEF n
  <2>3. n - (i + 1) + 1 = n - i /\ \A j \in 1..(n - i) : (i + 1) + j - 1 = i + j
    BY <1>1
  <2> HIDE DEF b
  <2> QED
    BY <2>2, <2>3
<1>4. t = (a \o mid) \o b
  BY DEF Put
<1> HIDE DEF a, b, t
<1> DEFINE c == a \o mid
<1>0. \A u, v \in Seq(S) :
        /\ u \o v \in Seq(S) /\ Len(u \o v) = Len(u) + Len(v)
        /\ \A j \in 1..Len(u) : (u \o v)[j] = u[j]
        /\ \A j \in 1..Len(v) : (u \o v)[Len(u) + j] = v[j]
  BY ConcatFacts
<1>5. /\ c \in Seq(S) /\ Len(c) = Len(a) + Len(mid)
      /\ \A j \in 1..Len(a) : c[j] = a[j]
      /\ \A j \in 1..Len(mid) : c[Len(a) + j] = mid[j]
  BY <1>0, <1>2
<1> HIDE DEF c
<1>6. /\ t \in Seq(S) /\ Len(t) = Len(c) + Len(b)
      /\ \A j \in 1..Len(c) : t[j] = c[j]
      /\ \A j \in 1..Len(b) : t[Len(c) + j] = b[j]
  <2>1. t = c \o b
    BY <1>4 DEF c
  <2> QED
    BY <1>0, <1>3, <1>5, <2>1
<1>7. Len(t) = n - 1 + m
  BY <1>1, <1>2, <1>3, <1>5, <1>6 DEF m
<1>8. \A j \in 1..(i - 1) : t[j] = s[j]
  <2> SUFFICES ASSUME NEW j \in 1..(i - 1) PROVE t[j] = s[j]
    OBVIOUS
  <2>1. j \in 1..Len(a) /\ j \in 1..Len(c)
    BY <1>1, <1>2, <1>5 DEF m
  <2> QED
    BY <1>2, <1>5, <1>6, <2>1
<1>9. \A j \in 1..m : t[i - 1 + j] = mid[j]
  <2> SUFFICES ASSUME NEW j \in 1..m PROVE t[i - 1 + j] = mid[j]
    OBVIOUS
  <2>1. Len(a) + j \in 1..Len(c) /\ Len(a) + j = i - 1 + j
    BY <1>1, <1>2, <1>5 DEF m
  <2> QED
    BY <1>5, <1>6, <2>1 DEF m
<1>10. \A j \in (i + 1)..n : t[j - 1 + m] = s[j]
  <2> SUFFICES ASSUME NEW j \in (i + 1)..n PROVE t[j - 1 + m] = s[j]
    OBVIOUS
  <2>1. j - i \in 1..Len(b) /\ Len(c) + (j - i) = j - 1 + m /\ i + (j - i) = j /\ j - i \in 1..(n - i)
    BY <1>1, <1>2, <1>3, <1>5 DEF m
  <2> QED
    BY <1>3, <1>6, <2>1
<1> QED
  BY <1>6, <1>7, <1>8, <1>9, <1>10 DEF t, n, m, IsPut

\* del new[i]
LEMMA PutNone ==
  ASSUME NEW S, NEW s \in Seq(S), NEW i \in 1..Len(s)
  PROVE  LET t == Put(s, i, <<>>)
         IN  /\ t \in Seq(S) /\ Len(t) = Len(s) - 1 /\ Len(s) \in Nat
             /\ \A j \in 1..Len(t) : t[j] = IF j < i THEN s[j] ELSE s[j + 1]
<1> DEFINE t == Put(s, i, <<>>)
           m == <<>>
<1>1. m \in Seq(S) /\ Len(m) = 0 /\ Len(s) \in Nat
  OBVIOUS
<1> HIDE DEF m
<1>2. /\ t \in Seq(S) /\ Len(t) = Len(s) - 1 + Len(m)
      /\ \A j \in 1..(i - 1) : t[j] = s[j]
      /\ \A j \in (i + 1)..Len(s) : t[j - 1 + Len(m)] = s[j]
  <2>1. IsPut(Put(s, i, m), S, s, i, m)
    BY <1>1, PutFacts
  <2> QED
    BY <2>1 DEF IsPut, m
<1> HIDE DEF t
<1>3. Len(t) = Len(s) - 1
  BY <1>1, <1>2
<1>4. ASSUME NEW j \in 1..Len(t) PROVE t[j] = IF j < i THEN s[j] ELSE s[j + 1]
  <2>1. CASE j < i
    BY <1>2, <2>1
  <2>2. CASE ~(j < i)
    <3>1. j + 1 \in (i + 1)..Len(s) /\ (j + 1) - 1 + Len(m) = j
      BY <1>1, <1>3, <2>2
    <3> QED
      BY <1>2, <2>2, <3>1
  <2> QED
    BY <2>1, <2>2
<1> QED
  BY <1>1, <1>2, <1>3, <1>4 DEF t

\* t is s with x for its i-th.
IsReplaced(t, S, s, i, x) ==
  /\ t \in Seq(S) /\ Len(t) = Len(s) /\ Len(s) \in Nat
  /\ \A j \in 1..Len(t) : t[j] = IF j = i THEN x ELSE s[j]

\* The range at the position is replaced.
LEMMA PutOne ==
  ASSUME NEW S, NEW s \in Seq(S), NEW i \in 1..Len(s), NEW x \in S
  PROVE  IsReplaced(Put(s, i, <<x>>), S, s, i, x)
<1> DEFINE t == Put(s, i, <<x>>)
           m == <<x>>
<1>1. m \in Seq(S) /\ Len(m) = 1 /\ m[1] = x /\ Len(s) \in Nat
  OBVIOUS
<1> HIDE DEF m
<1>2. /\ t \in Seq(S) /\ Len(t) = Len(s) - 1 + Len(m)
      /\ \A j \in 1..(i - 1) : t[j] = s[j]
      /\ \A j \in 1..Len(m) : t[i - 1 + j] = m[j]
      /\ \A j \in (i + 1)..Len(s) : t[j - 1 + Len(m)] = s[j]
  <2>1. IsPut(Put(s, i, m), S, s, i, m)
    BY <1>1, PutFacts
  <2> QED
    BY <2>1 DEF IsPut, m
<1> HIDE DEF t
<1>3. Len(t) = Len(s)
  BY <1>1, <1>2
<1>4. ASSUME NEW j \in 1..Len(t) PROVE t[j] = IF j = i THEN x ELSE s[j]
  <2>1. CASE j < i
    BY <1>2, <2>1
  <2>2. CASE j = i
    <3>1. i - 1 + 1 = j /\ 1 \in 1..Len(m)
      BY <1>1, <2>2
    <3> QED
      BY <1>1, <1>2, <2>2, <3>1
  <2>3. CASE j > i
    <3>1. j \in (i + 1)..Len(s) /\ j - 1 + Len(m) = j
      BY <1>1, <1>3, <2>3
    <3> QED
      BY <1>2, <2>3, <3>1
  <2> QED
    BY <2>1, <2>2, <2>3
<1> QED
  BY <1>1, <1>2, <1>3, <1>4 DEF t, IsReplaced

\* It is replaced by two ranges.
LEMMA PutTwo ==
  ASSUME NEW S, NEW s \in Seq(S), NEW i \in 1..Len(s), NEW x \in S, NEW y \in S
  PROVE  LET t == Put(s, i, <<x, y>>)
         IN  /\ t \in Seq(S) /\ Len(t) = Len(s) + 1 /\ Len(s) \in Nat
             /\ \A j \in 1..Len(t) : t[j] = IF j < i THEN s[j] ELSE IF j = i THEN x
                                            ELSE IF j = i + 1 THEN y ELSE s[j - 1]
<1> DEFINE t == Put(s, i, <<x, y>>)
           m == <<x, y>>
<1>1. m \in Seq(S) /\ Len(m) = 2 /\ m[1] = x /\ m[2] = y /\ Len(s) \in Nat
  OBVIOUS
<1> HIDE DEF m
<1>2. /\ t \in Seq(S) /\ Len(t) = Len(s) - 1 + Len(m)
      /\ \A j \in 1..(i - 1) : t[j] = s[j]
      /\ \A j \in 1..Len(m) : t[i - 1 + j] = m[j]
      /\ \A j \in (i + 1)..Len(s) : t[j - 1 + Len(m)] = s[j]
  <2>1. IsPut(Put(s, i, m), S, s, i, m)
    BY <1>1, PutFacts
  <2> QED
    BY <2>1 DEF IsPut, m
<1> HIDE DEF t
<1>3. Len(t) = Len(s) + 1
  BY <1>1, <1>2
<1>4. ASSUME NEW j \in 1..Len(t)
      PROVE  t[j] = IF j < i THEN s[j] ELSE IF j = i THEN x
                    ELSE IF j = i + 1 THEN y ELSE s[j - 1]
  <2>1. CASE j < i
    BY <1>2, <2>1
  <2>2. CASE j = i
    <3>1. i - 1 + 1 = j /\ 1 \in 1..Len(m)
      BY <1>1, <2>2
    <3> QED
      BY <1>1, <1>2, <2>2, <3>1
  <2>3. CASE j = i + 1
    <3>1. i - 1 + 2 = j /\ 2 \in 1..Len(m)
      BY <1>1, <2>3
    <3> QED
      BY <1>1, <1>2, <2>3, <3>1
  <2>4. CASE j > i + 1
    <3>1. j - 1 \in (i + 1)..Len(s) /\ (j - 1) - 1 + Len(m) = j
      BY <1>1, <1>3, <2>4
    <3>2. t[j] = s[j - 1] /\ ~(j < i) /\ j # i /\ j # i + 1
      BY <1>1, <1>2, <2>4, <3>1
    <3> QED
      BY <3>2
  <2> QED
    BY <2>1, <2>2, <2>3, <2>4
<1> QED
  BY <1>1, <1>2, <1>3, <1>4 DEF t

\* The loop of IntersectTimeRanges, at the at-th of the new ranges and the
\* pos-th of U: the ranges before it divide U up to there.
DoneOk(new, at, U) ==
  /\ \A i \in 1..(at - 1) : /\ new[i][1] <= new[i][2] + 1
                            /\ \E k \in 1..Len(U) : Within(new[i], U[k])
  /\ \A i, j \in 1..(at - 1) : i < j => new[i][2] < new[j][1]
  /\ \A i \in 1..(at - 1) : i + 1 \in 1..(at - 1) => Joined(new[i], new[i + 1], U)
  /\ at > 1 => new[1][1] = U[1][1]

\* Those from it on follow each other without a gap.
RestOk(new, at) ==
  /\ \A i \in at..Len(new) : new[i][1] <= new[i][2] + 1
  /\ \A i \in at..Len(new) : i + 1 \in at..Len(new) => new[i + 1][1] = new[i][2] + 1

\* They go on where the others end, or in the gap before the pos-th of U.
GoesOn(new, pos, at, U) ==
  /\ at = 1 => pos = 1 /\ new[1][1] = U[1][1]
  /\ at > 1 =>
       \/ Within(new[at - 1], U[pos]) /\ new[at][1] = new[at - 1][2] + 1
       \/ /\ pos > 1 /\ Within(new[at - 1], U[pos - 1])
          /\ new[at - 1][2] = U[pos - 1][2]
          /\ new[at - 1][2] < new[at][1] /\ new[at][1] <= U[pos][1]

LoopInv(new, pos, at, U) ==
  /\ new \in Seq(Pairs) /\ new # <<>>
  /\ pos \in Nat /\ at \in 1..(Len(new) + 1)
  /\ DoneOk(new, at, U) /\ RestOk(new, at)
  /\ at <= Len(new) => pos \in 1..Len(U) /\ GoesOn(new, pos, at, U)
  /\ new[Len(new)][2] = U[Len(U)][2]
  /\ at > Len(new) => Within(new[Len(new)], U[Len(U)])

\* Only a first range that is to be removed may be empty.
OthersNotEmpty(new, at, U) ==
  \A i \in 1..Len(new) :
    new[i][1] <= new[i][2] \/ (i = 1 /\ at = 1 /\ new[1][2] < U[1][1])

\* The turns that are left at most.
Turns(new, pos, at, U) ==
  2 * (Len(U) - pos + 1) + (Len(new) - at + 1)
    + (IF new[at][1] > U[pos][2] THEN 0 ELSE 1)

Better(new, pos, at, new2, pos2, at2, U) ==
  /\ LoopInv(new2, pos2, at2, U)
  /\ OthersNotEmpty(new, at, U) => OthersNotEmpty(new2, at2, U)
  /\ at2 <= Len(new2) => Turns(new2, pos2, at2, U) + 1 <= Turns(new, pos, at, U)

\* What is known in the loop.
LEMMA InLoop ==
  ASSUME NEW U, Valid(U), NEW new, NEW pos, NEW at, LoopInv(new, pos, at, U), at <= Len(new)
  PROVE  /\ Len(new) \in Nat \ {0} /\ at \in 1..Len(new) /\ at \in Nat /\ pos \in 1..Len(U)
         /\ Len(U) \in Nat \ {0} /\ DOMAIN U = 1..Len(U)
         /\ \A i \in 1..Len(new) : new[i] \in Pairs /\ new[i][1] \in Int /\ new[i][2] \in Int
         /\ \A i \in 1..Len(U) : U[i][1] \in Int /\ U[i][2] \in Int /\ U[i][1] <= U[i][2]
         /\ \A i, j \in 1..Len(U) : i < j => U[i][2] < U[j][1]
         /\ GoesOn(new, pos, at, U)
         /\ new[at][1] \in Int /\ new[at][2] \in Int
         /\ at > 1 => at - 1 \in 1..Len(new) /\ new[at - 1][1] \in Int /\ new[at - 1][2] \in Int
         /\ U[pos][1] \in Int /\ U[pos][2] \in Int /\ U[pos][1] <= U[pos][2]
<1>1. new \in Seq(Pairs) /\ new # <<>> /\ at \in 1..(Len(new) + 1) /\ pos \in 1..Len(U)
      /\ GoesOn(new, pos, at, U)
  BY DEF LoopInv
<1>2. Len(new) \in Nat \ {0} /\ at \in 1..Len(new) /\ at \in Nat
  BY <1>1, SeqFacts
<1>3. \A i \in 1..Len(new) : new[i] \in Pairs /\ new[i][1] \in Int /\ new[i][2] \in Int
  BY <1>1, SeqFacts DEF Pairs
<1>4. Len(U) \in Nat \ {0} /\ DOMAIN U = 1..Len(U)
  BY SeqFacts DEF Valid
<1>5. /\ \A i \in 1..Len(U) : U[i][1] \in Int /\ U[i][2] \in Int /\ U[i][1] <= U[i][2]
      /\ \A i, j \in 1..Len(U) : i < j => U[i][2] < U[j][1]
  BY <1>4, ValidInOrder
<1>6. at > 1 => at - 1 \in 1..Len(new)
  BY <1>2
<1> QED
  BY <1>1, <1>2, <1>3, <1>4, <1>5, <1>6

\* new start > old end
LEMMA StartsLater ==
  ASSUME NEW U, Valid(U), NEW new, NEW pos, NEW at, LoopInv(new, pos, at, U), at <= Len(new),
         new[at][1] > U[pos][2]
  PROVE  /\ at > 1 /\ Within(new[at - 1], U[pos]) /\ new[at - 1][2] = U[pos][2]
         /\ new[at][1] = U[pos][2] + 1
<1>1. /\ at \in 1..Len(new) /\ at \in Nat /\ pos \in 1..Len(U) /\ Len(U) \in Nat
      /\ Len(new) \in Nat
      /\ \A i \in 1..Len(new) : new[i] \in Pairs /\ new[i][1] \in Int /\ new[i][2] \in Int
      /\ \A i \in 1..Len(U) : U[i][1] \in Int /\ U[i][2] \in Int /\ U[i][1] <= U[i][2]
      /\ GoesOn(new, pos, at, U)
      /\ new[at][1] \in Int /\ U[pos][1] \in Int /\ U[pos][2] \in Int /\ U[pos][1] <= U[pos][2]
  BY InLoop
<1>2. at > 1
  BY <1>1 DEF GoesOn
<1>3. new[at - 1][2] \in Int
  BY <1>2, InLoop
<1>4. ~(new[at][1] <= U[pos][1])
  BY <1>1
<1>5. Within(new[at - 1], U[pos]) /\ new[at][1] = new[at - 1][2] + 1
  BY <1>1, <1>2, <1>4 DEF GoesOn
<1>6. new[at - 1][2] <= U[pos][2]
  BY <1>5 DEF Within
<1>7. new[at - 1][2] = U[pos][2]
  BY <1>1, <1>3, <1>5, <1>6
<1> QED
  BY <1>2, <1>5, <1>7

\* The loop goes on with the next range of U.
LEMMA ToNextOld ==
  ASSUME NEW U, Valid(U), NEW new, NEW pos, NEW at, LoopInv(new, pos, at, U), at <= Len(new),
         new[at][1] > U[pos][2], pos < Len(U)
  PROVE  Better(new, pos, at, new, pos + 1, at, U)
<1>1. /\ at \in 1..Len(new) /\ pos \in 1..Len(U) /\ Len(U) \in Nat /\ Len(new) \in Nat
      /\ \A i \in 1..Len(new) : new[i] \in Pairs /\ new[i][1] \in Int /\ new[i][2] \in Int
      /\ \A i \in 1..Len(U) : U[i][1] \in Int /\ U[i][2] \in Int /\ U[i][1] <= U[i][2]
      /\ \A i, j \in 1..Len(U) : i < j => U[i][2] < U[j][1]
  BY InLoop
<1>2. /\ at > 1 /\ Within(new[at - 1], U[pos]) /\ new[at - 1][2] = U[pos][2]
      /\ new[at][1] = U[pos][2] + 1
  BY StartsLater
<1>3. pos + 1 \in 1..Len(U) /\ (pos + 1) - 1 = pos /\ pos + 1 > 1
  BY <1>1
<1>4. U[pos][2] < U[pos + 1][1]
  BY <1>1, <1>3
<1>5. new[at][1] <= U[pos + 1][1] /\ new[at - 1][2] < new[at][1]
  BY <1>1, <1>2, <1>3, <1>4
<1>6. GoesOn(new, pos + 1, at, U)
  BY <1>1, <1>2, <1>3, <1>5 DEF GoesOn
<1>7. LoopInv(new, pos + 1, at, U)
  BY <1>1, <1>3, <1>6 DEF LoopInv
<1>8. Turns(new, pos + 1, at, U) + 1 <= Turns(new, pos, at, U)
  BY <1>1 DEF Turns
<1> QED
  BY <1>7, <1>8 DEF Better

\* Nothing is left of U: the new ranges that remain are dropped.
LEMMA AfterLastOld ==
  ASSUME NEW U, Valid(U), NEW new, NEW pos, NEW at, LoopInv(new, pos, at, U), at <= Len(new),
         new[at][1] > U[pos][2], pos = Len(U)
  PROVE  Better(new, pos, at, SubSeq(new, 1, at - 1), pos + 1, at, U)
<1> DEFINE t == SubSeq(new, 1, at - 1)
<1>1. /\ at \in 1..Len(new) /\ pos \in 1..Len(U) /\ Len(U) \in Nat /\ Len(new) \in Nat
      /\ at \in Nat
  BY InLoop
<1>2. /\ at > 1 /\ Within(new[at - 1], U[pos]) /\ new[at - 1][2] = U[pos][2]
  BY StartsLater
<1>3. t \in Seq(Pairs) /\ Len(t) = at - 1 /\ \A i \in 1..(at - 1) : t[i] = new[i]
  <2>1. new \in Seq(Pairs) /\ 1 \in Nat \ {0} /\ at - 1 \in Nat /\ at - 1 <= Len(new)
        /\ 1 <= (at - 1) + 1
    BY <1>1 DEF LoopInv
  <2>2. /\ t \in Seq(Pairs) /\ Len(t) = (at - 1) - 1 + 1
        /\ \A i \in 1..((at - 1) - 1 + 1) : t[i] = new[1 + i - 1]
    BY <2>1, SubSeqFacts
  <2>3. (at - 1) - 1 + 1 = at - 1 /\ \A i \in 1..(at - 1) : 1 + i - 1 = i
    BY <1>1
  <2> HIDE DEF t
  <2> QED
    BY <2>2, <2>3
<1> HIDE DEF t
<1>4. t # <<>> /\ at - 1 \in 1..(at - 1) /\ 1 \in 1..(at - 1) /\ at = Len(t) + 1 /\ at > Len(t)
      /\ at \in 1..(Len(t) + 1) /\ pos + 1 \in Nat
  BY <1>1, <1>2, <1>3, SeqFacts
<1>5. DoneOk(t, at, U)
  <2>1. DoneOk(new, at, U)
    BY DEF LoopInv
  <2>2. \A i \in 1..(at - 1) : t[i] = new[i]
    BY <1>3
  <2> QED
    BY <1>4, <2>1, <2>2 DEF DoneOk
<1>6. RestOk(t, at)
  <2>1. at..Len(t) = {}
    BY <1>1, <1>3
  <2> QED
    BY <2>1 DEF RestOk
<1>7. t[Len(t)][2] = U[Len(U)][2] /\ Within(t[Len(t)], U[Len(U)])
  BY <1>2, <1>3, <1>4
<1>8. LoopInv(t, pos + 1, at, U)
  BY <1>3, <1>4, <1>5, <1>6, <1>7 DEF LoopInv
<1>9. OthersNotEmpty(new, at, U) => OthersNotEmpty(t, at, U)
  <2>1. \A i \in 1..Len(t) : i \in 1..Len(new) /\ t[i] = new[i]
    BY <1>1, <1>3
  <2>2. at # 1
    BY <1>2
  <2> QED
    BY <2>1, <2>2 DEF OthersNotEmpty
<1> QED
  BY <1>1, <1>4, <1>8, <1>9 DEF Better, t

\* A new range that ends before the range of U starts is removed.
LEMMA Removed ==
  ASSUME NEW U, Valid(U), NEW new, NEW pos, NEW at, LoopInv(new, pos, at, U), at <= Len(new),
         new[at][2] < U[pos][1]
  PROVE  Better(new, pos, at, Put(new, at, <<>>), pos, at, U)
<1> DEFINE t == Put(new, at, <<>>)
           n == Len(new)
<1>1. /\ at \in 1..n /\ at \in Nat /\ pos \in 1..Len(U) /\ Len(U) \in Nat /\ n \in Nat
      /\ \A i \in 1..n : new[i] \in Pairs /\ new[i][1] \in Int /\ new[i][2] \in Int
      /\ \A i \in 1..Len(U) : U[i][1] \in Int /\ U[i][2] \in Int /\ U[i][1] <= U[i][2]
      /\ \A i, j \in 1..Len(U) : i < j => U[i][2] < U[j][1]
      /\ GoesOn(new, pos, at, U)
      /\ new[at][1] \in Int /\ new[at][2] \in Int
      /\ at > 1 => new[at - 1][1] \in Int /\ new[at - 1][2] \in Int
      /\ U[pos][1] \in Int /\ U[pos][2] \in Int /\ U[pos][1] <= U[pos][2]
  BY InLoop
<1>2. /\ new \in Seq(Pairs) /\ RestOk(new, at) /\ DoneOk(new, at, U)
      /\ new[n][2] = U[Len(U)][2]
  BY DEF LoopInv
<1>3. t \in Seq(Pairs) /\ Len(t) = n - 1
      /\ \A j \in 1..Len(t) : t[j] = IF j < at THEN new[j] ELSE new[j + 1]
  <2>1. new \in Seq(Pairs) /\ at \in 1..Len(new)
    BY <1>1, <1>2
  <2> QED
    BY <2>1, PutNone
<1> HIDE DEF t, n
<1>4. at < n
  <2> SUFFICES ASSUME at = n PROVE FALSE
    BY <1>1
  <2>1. Len(U) \in 1..Len(U)
    BY <1>1
  <2>2. pos = Len(U) \/ U[pos][2] < U[Len(U)][1]
    BY <1>1, <2>1
  <2>3. U[pos][1] <= U[Len(U)][2]
    BY <1>1, <2>1, <2>2
  <2> QED
    BY <1>1, <1>2, <2>1, <2>3
<1>5. /\ at \in 1..Len(t) /\ Len(t) \in 1..Len(t) /\ t # <<>> /\ at \in 1..(Len(t) + 1)
      /\ ~(at > Len(t)) /\ at + 1 \in at..n /\ at \in at..n
  BY <1>1, <1>3, <1>4, SeqFacts
<1>6. /\ new[at + 1][1] = new[at][2] + 1 /\ new[at][1] <= new[at][2] + 1
      /\ t[at] = new[at + 1] /\ t[Len(t)] = new[n]
  <2>1. ~(at < at) /\ ~(Len(t) < at) /\ Len(t) + 1 = n
    BY <1>1, <1>3, <1>4
  <2>2. new[at + 1][1] = new[at][2] + 1 /\ new[at][1] <= new[at][2] + 1
    BY <1>2, <1>5 DEF RestOk, n
  <2> QED
    BY <1>3, <1>5, <2>1, <2>2
<1>7. \A i \in 1..(at - 1) : t[i] = new[i]
  <2>1. \A i \in 1..(at - 1) : i \in 1..Len(t) /\ i < at
    BY <1>1, <1>3, <1>4
  <2> QED
    BY <1>3, <2>1
<1>8. DoneOk(t, at, U)
  <2>1. at > 1 => 1 \in 1..(at - 1)
    BY <1>1
  <2> QED
    BY <1>2, <1>7, <2>1 DEF DoneOk
<1>9. RestOk(t, at)
  <2>1. \A i \in at..Len(t) : i + 1 \in at..n /\ t[i] = new[i + 1]
    <3>1. \A i \in at..Len(t) : i + 1 \in at..n /\ i \in 1..Len(t) /\ ~(i < at)
      BY <1>1, <1>3
    <3> QED
      BY <1>3, <3>1
  <2>2. \A i \in at..Len(t) : i + 1 \in at..Len(t) => (i + 1) + 1 \in at..n
    BY <2>1
  <2> QED
    BY <1>2, <2>1, <2>2 DEF RestOk, n
<1>10. GoesOn(t, pos, at, U)
  <2>1. CASE at = 1
    <3>1. pos = 1 /\ new[1][1] = U[1][1]
      BY <1>1, <2>1 DEF GoesOn
    <3>2. t[1][1] = U[1][1]
      BY <1>1, <1>5, <1>6, <2>1, <3>1
    <3> QED
      BY <2>1, <3>1, <3>2 DEF GoesOn
  <2>2. CASE at > 1
    <3>1. at - 1 \in 1..(at - 1) /\ at - 1 \in 1..n /\ at # 1
      BY <1>1, <2>2
    <3>2. t[at - 1] = new[at - 1]
      BY <1>7, <3>1
    <3>0. new[at - 1][2] \in Int
      BY <1>1, <2>2
    <3>3. ~(Within(new[at - 1], U[pos]) /\ new[at][1] = new[at - 1][2] + 1)
      <4> SUFFICES ASSUME U[pos][1] <= new[at - 1][2], new[at][1] = new[at - 1][2] + 1
                   PROVE  FALSE
        BY DEF Within
      <4>1. new[at][1] <= new[at][2] + 1 /\ new[at][2] < U[pos][1]
        BY <1>6
      <4> QED
        BY <1>1, <3>0, <4>1
    <3>4. /\ pos > 1 /\ Within(new[at - 1], U[pos - 1])
          /\ new[at - 1][2] = U[pos - 1][2]
          /\ new[at - 1][2] < new[at][1] /\ new[at][1] <= U[pos][1]
      BY <1>1, <2>2, <3>3 DEF GoesOn
    <3>5. new[at - 1][2] < t[at][1] /\ t[at][1] <= U[pos][1]
      <4>1. /\ t[at][1] = new[at][2] + 1 /\ new[at][1] <= new[at][2] + 1
            /\ new[at][2] < U[pos][1] /\ new[at - 1][2] < new[at][1]
        BY <1>6, <3>4
      <4>2. new[at][1] \in Int /\ new[at][2] \in Int /\ U[pos][1] \in Int
        BY <1>1
      <4> QED
        BY ONLY <3>0, <4>1, <4>2
    <3> QED
      BY <2>2, <3>1, <3>2, <3>4, <3>5 DEF GoesOn
  <2> QED
    BY <1>1, <2>1, <2>2
<1>11. LoopInv(t, pos, at, U)
  BY <1>1, <1>2, <1>3, <1>5, <1>6, <1>8, <1>9, <1>10 DEF LoopInv
<1>12. OthersNotEmpty(new, at, U) => OthersNotEmpty(t, at, U)
  <2>1. \A i \in 1..Len(t) : /\ i \in 1..n /\ i + 1 \in 1..n /\ i + 1 # 1
                             /\ (i < at => ~(i = 1 /\ at = 1))
    <3>1. Len(t) = n - 1 /\ n \in Nat /\ at \in Nat
      BY <1>1, <1>3
    <3> QED
      BY ONLY <3>1
  <2> QED
    BY <1>3, <2>1 DEF OthersNotEmpty, n
<1>13. Turns(t, pos, at, U) + 1 <= Turns(new, pos, at, U)
  <2>1. ~(new[at][1] > U[pos][2])
    <3>1. new[at][1] <= new[at][2] + 1 /\ new[at][2] < U[pos][1]
      BY <1>6
    <3> QED
      BY <1>1, <3>1
  <2> DEFINE a == 2 * (Len(U) - pos + 1)
             flag == IF t[at][1] > U[pos][2] THEN 0 ELSE 1
  <2>2. a \in Int /\ flag \in {0, 1}
    BY <1>1
  <2>3. Turns(t, pos, at, U) = a + (n - 1 - at + 1) + flag
    BY <1>3 DEF Turns
  <2>4. Turns(new, pos, at, U) = a + (n - at + 1) + 1
    BY <2>1 DEF Turns, n
  <2> HIDE DEF a, flag
  <2> QED
    BY <1>1, <2>2, <2>3, <2>4
<1> QED
  BY <1>11, <1>12, <1>13 DEF Better, t

\* The overlap of the two ranges, cut off at e, continues the division.
LEMMA Overlap ==
  ASSUME NEW U, Valid(U), NEW new, NEW pos, NEW at, LoopInv(new, pos, at, U), at <= Len(new),
         ~(new[at][2] < U[pos][1]), ~(new[at][1] > U[pos][2]),
         NEW start, start = IF new[at][1] < U[pos][1] THEN U[pos][1] ELSE new[at][1],
         NEW e, e = IF new[at][2] > U[pos][2] THEN U[pos][2] ELSE new[at][2]
  PROVE  LET p == <<start, e>>
         IN  /\ start \in Int /\ e \in Int /\ p \in Pairs /\ p[1] = start /\ p[2] = e
             /\ Within(p, U[pos]) /\ start <= e + 1
             /\ at = 1 => start = U[1][1]
             /\ at > 1 => Joined(new[at - 1], p, U)
             /\ \A i \in 1..(at - 1) : new[i][2] < start
             /\ (new[at][1] <= new[at][2] => start <= e)
<1> DEFINE p == <<start, e>>
<1>1. /\ at \in 1..Len(new) /\ at \in Nat /\ pos \in 1..Len(U) /\ Len(U) \in Nat
      /\ Len(new) \in Nat /\ DOMAIN U = 1..Len(U)
      /\ \A i \in 1..Len(new) : new[i] \in Pairs /\ new[i][1] \in Int /\ new[i][2] \in Int
      /\ GoesOn(new, pos, at, U)
  BY InLoop
<1>2. /\ new[at][1] \in Int /\ new[at][2] \in Int
      /\ U[pos][1] \in Int /\ U[pos][2] \in Int /\ U[pos][1] <= U[pos][2]
  BY InLoop
<1>3. new[at][1] <= new[at][2] + 1
  <2>1. at \in at..Len(new)
    BY <1>1
  <2> QED
    BY <2>1 DEF LoopInv, RestOk
<1>4. start \in Int /\ e \in Int
  BY <1>2
<1>5. p \in Pairs /\ p[1] = start /\ p[2] = e
  BY <1>4 DEF Pairs
<1> HIDE DEF p
<1>6. Within(p, U[pos]) /\ start <= e + 1 /\ (new[at][1] <= new[at][2] => start <= e)
  BY ONLY <1>2, <1>3, <1>5, ~(new[at][2] < U[pos][1]), ~(new[at][1] > U[pos][2]),
     start = IF new[at][1] < U[pos][1] THEN U[pos][1] ELSE new[at][1],
     e = IF new[at][2] > U[pos][2] THEN U[pos][2] ELSE new[at][2] DEF Within
<1>7. at = 1 => start = U[1][1]
  <2> SUFFICES ASSUME at = 1 PROVE start = U[1][1]
    OBVIOUS
  <2>1. pos = 1 /\ new[at][1] = U[pos][1]
    BY <1>1 DEF GoesOn
  <2> QED
    BY <1>2, <2>1
<1>8. ASSUME at > 1 PROVE Joined(new[at - 1], p, U) /\ new[at - 1][2] < start
  <2>0. new[at - 1][1] \in Int /\ new[at - 1][2] \in Int
    BY <1>8, InLoop
  <2>1. CASE Within(new[at - 1], U[pos]) /\ new[at][1] = new[at - 1][2] + 1
    <3>1. U[pos][1] <= new[at - 1][2]
      BY <2>1 DEF Within
    <3>2. start = new[at - 1][2] + 1
      BY <1>2, <2>0, <2>1, <3>1
    <3>3. Joined(new[at - 1], p, U)
      BY <1>1, <1>5, <1>6, <2>1, <3>2 DEF Joined
    <3> QED
      BY <2>0, <3>2, <3>3
  <2>2. CASE /\ pos > 1 /\ Within(new[at - 1], U[pos - 1])
             /\ new[at - 1][2] = U[pos - 1][2]
             /\ new[at - 1][2] < new[at][1] /\ new[at][1] <= U[pos][1]
    <3>1. start = U[pos][1]
      BY <1>2, <2>2
    <3>2. new[at - 1][2] < start
      BY <1>2, <2>0, <2>2, <3>1
    <3>3. pos - 1 \in 1..Len(U) /\ (pos - 1) + 1 = pos
      BY <1>1, <2>2
    <3>4. Joined(new[at - 1], p, U)
      BY <1>1, <1>5, <1>6, <2>2, <3>1, <3>3 DEF Joined
    <3> QED
      BY <3>2, <3>4
  <2> QED
    BY <1>1, <1>8, <2>1, <2>2 DEF GoesOn
<1>9. ASSUME NEW i \in 1..(at - 1) PROVE new[i][2] < start
  <2>1. at > 1 /\ at - 1 \in 1..(at - 1) /\ i \in 1..Len(new) /\ at - 1 \in 1..Len(new)
    BY <1>1
  <2>2. new[at - 1][2] < start /\ new[at - 1][1] \in Int /\ new[at - 1][2] \in Int /\ new[i][2] \in Int
    BY <1>1, <1>8, <2>1
  <2>3. i = at - 1 \/ i < at - 1
    BY <1>1
  <2>4. CASE i < at - 1
    <3>1. new[i][2] < new[at - 1][1]
      BY <2>1, <2>4 DEF LoopInv, DoneOk
    <3>2. new[at - 1][1] <= new[at - 1][2] + 1
      BY <2>1 DEF LoopInv, DoneOk
    <3> QED
      BY ONLY <1>4, <2>2, <3>1, <3>2
  <2> QED
    BY <2>2, <2>3, <2>4
<1> QED
  BY <1>4, <1>5, <1>6, <1>7, <1>8, <1>9 DEF p

\* So the ranges up to it are divided.
LEMMA DoneNext ==
  ASSUME NEW U, NEW new, NEW at \in Nat \ {0}, DoneOk(new, at, U), NEW pos \in 1..Len(U),
         NEW t, \A i \in 1..(at - 1) : t[i] = new[i],
         Within(t[at], U[pos]), t[at][1] <= t[at][2] + 1,
         at = 1 => t[at][1] = U[1][1], at > 1 => Joined(new[at - 1], t[at], U),
         \A i \in 1..(at - 1) : new[i][2] < t[at][1]
  PROVE  DoneOk(t, at + 1, U)
<1>1. (at + 1) - 1 = at /\ \A i \in 1..at : i \in 1..(at - 1) \/ i = at
  OBVIOUS
<1>2. \A i \in 1..at : t[i][1] <= t[i][2] + 1 /\ \E k \in 1..Len(U) : Within(t[i], U[k])
  BY <1>1 DEF DoneOk
<1>3. ASSUME NEW i \in 1..at, NEW j \in 1..at, i < j PROVE t[i][2] < t[j][1]
  <2>1. i \in 1..(at - 1)
    BY <1>3
  <2> QED
    BY <1>1, <1>3, <2>1 DEF DoneOk
<1>4. ASSUME NEW i \in 1..at, i + 1 \in 1..at PROVE Joined(t[i], t[i + 1], U)
  <2>1. CASE i + 1 \in 1..(at - 1)
    <3>1. i \in 1..(at - 1)
      BY <2>1
    <3> QED
      BY <2>1, <3>1 DEF DoneOk
  <2>2. CASE i + 1 = at
    <3>1. i = at - 1 /\ at > 1 /\ i \in 1..(at - 1)
      BY <2>2
    <3> QED
      BY <2>2, <3>1
  <2> QED
    BY <1>1, <1>4, <2>1, <2>2
<1>5. t[1][1] = U[1][1]
  <2>1. at = 1 \/ (at > 1 /\ 1 \in 1..(at - 1))
    OBVIOUS
  <2> QED
    BY <2>1 DEF DoneOk
<1> QED
  BY <1>1, <1>2, <1>3, <1>4, <1>5 DEF DoneOk

\* new [start, end] is within old [start, end]
LEMMA Kept ==
  ASSUME NEW U, Valid(U), NEW new, NEW pos, NEW at, LoopInv(new, pos, at, U), at <= Len(new),
         ~(new[at][2] < U[pos][1]), ~(new[at][1] > U[pos][2]), ~(new[at][2] > U[pos][2]),
         NEW start, start = IF new[at][1] < U[pos][1] THEN U[pos][1] ELSE new[at][1]
  PROVE  Better(new, pos, at, Put(new, at, <<<<start, new[at][2]>>>>), pos, at + 1, U)
<1> DEFINE e == new[at][2]
           p == <<start, e>>
           t == Put(new, at, <<p>>)
           n == Len(new)
<1>1. /\ at \in 1..n /\ at \in Nat /\ at \in Nat \ {0} /\ pos \in 1..Len(U) /\ Len(U) \in Nat
      /\ n \in Nat
      /\ \A i \in 1..n : new[i] \in Pairs /\ new[i][1] \in Int /\ new[i][2] \in Int
      /\ \A i \in 1..Len(U) : U[i][1] \in Int /\ U[i][2] \in Int /\ U[i][1] <= U[i][2]
      /\ \A i, j \in 1..Len(U) : i < j => U[i][2] < U[j][1]
  BY InLoop
<1>2. /\ new[at][1] \in Int /\ e \in Int
      /\ U[pos][1] \in Int /\ U[pos][2] \in Int /\ U[pos][1] <= U[pos][2]
  BY InLoop
<1>3. e = IF new[at][2] > U[pos][2] THEN U[pos][2] ELSE new[at][2]
  OBVIOUS
<1>4. /\ start \in Int /\ p \in Pairs /\ p[1] = start /\ p[2] = e
      /\ Within(p, U[pos]) /\ start <= e + 1
      /\ at = 1 => start = U[1][1]
      /\ at > 1 => Joined(new[at - 1], p, U)
      /\ \A i \in 1..(at - 1) : new[i][2] < start
      /\ (new[at][1] <= e => start <= e)
  <2> HIDE DEF e
  <2>1. e = new[at][2]
    BY DEF e
  <2> QED
    BY <1>3, <2>1, Overlap
<1>5. /\ new \in Seq(Pairs) /\ RestOk(new, at) /\ DoneOk(new, at, U)
      /\ new[n][2] = U[Len(U)][2]
  BY DEF LoopInv
<1> HIDE DEF p
<1>6. t \in Seq(Pairs) /\ Len(t) = n /\ \A j \in 1..Len(t) : t[j] = IF j = at THEN p ELSE new[j]
  <2>1. at \in 1..Len(new) /\ p \in Pairs /\ new \in Seq(Pairs)
    BY <1>1, <1>4, <1>5
  <2>2. IsReplaced(Put(new, at, <<p>>), Pairs, new, at, p)
    BY <2>1, PutOne
  <2> QED
    BY <2>2 DEF IsReplaced
<1> HIDE DEF t
<1>7. /\ t[at] = p /\ t # <<>> /\ at + 1 \in 1..(n + 1)
      /\ \A i \in 1..(at - 1) : t[i] = new[i]
      /\ \A i \in (at + 1)..n : t[i] = new[i]
  <2>1. \A i \in 1..(at - 1) : i \in 1..n /\ i # at
    BY <1>1
  <2>2. \A i \in (at + 1)..n : i \in 1..n /\ i # at
    BY <1>1
  <2>3. t # <<>> /\ at + 1 \in 1..(n + 1)
    BY <1>1, <1>6, SeqFacts
  <2> HIDE DEF n
  <2> QED
    BY <1>1, <1>6, <2>1, <2>2, <2>3
<1>8. DoneOk(t, at + 1, U)
  BY <1>1, <1>4, <1>5, <1>7, DoneNext
<1>9. RestOk(t, at + 1)
  <2>1. \A i \in (at + 1)..n : i \in at..n
    BY <1>1
  <2> QED
    BY <1>5, <1>6, <1>7, <2>1 DEF RestOk
<1>10. t[n][2] = U[Len(U)][2]
  <2>1. n \in 1..n
    BY <1>1
  <2>2. t[n][2] = new[n][2]
    <3>1. CASE n = at
      BY <1>4, <1>7, <3>1
    <3>2. CASE n # at
      BY <1>6, <2>1, <3>2
    <3> QED
      BY <3>1, <3>2
  <2> QED
    BY <1>5, <2>2
<1>11. at = n => pos = Len(U)
  <2> SUFFICES ASSUME at = n, pos # Len(U) PROVE FALSE
    OBVIOUS
  <2>1. Len(U) \in 1..Len(U) /\ pos < Len(U)
    BY <1>1
  <2>2. U[pos][2] < U[Len(U)][1] /\ U[Len(U)][1] <= U[Len(U)][2]
        /\ U[Len(U)][1] \in Int /\ U[Len(U)][2] \in Int
    BY <1>1, <2>1
  <2>3. e = U[Len(U)][2]
    BY <1>5
  <2> QED
    BY <1>2, <2>2, <2>3
<1>12. at + 1 > n => Within(t[n], U[Len(U)])
  <2>1. at + 1 > n => at = n
    BY <1>1
  <2> QED
    BY <1>4, <1>7, <1>11, <2>1
<1>13. at + 1 <= n => GoesOn(t, pos, at + 1, U)
  <2> SUFFICES ASSUME at + 1 <= n PROVE GoesOn(t, pos, at + 1, U)
    OBVIOUS
  <2>1. at \in at..n /\ at + 1 \in at..n /\ at + 1 \in (at + 1)..n /\ at + 1 # 1 /\ (at + 1) - 1 = at
    BY <1>1
  <2>2. new[at + 1][1] = new[at][2] + 1
    BY <1>5, <2>1 DEF RestOk
  <2> QED
    BY <1>4, <1>7, <2>1, <2>2 DEF GoesOn
<1>14. LoopInv(t, pos, at + 1, U)
  <2> HIDE DEF n
  <2> QED
    BY <1>1, <1>6, <1>7, <1>8, <1>9, <1>10, <1>12, <1>13 DEF LoopInv
<1>15. OthersNotEmpty(new, at, U) => OthersNotEmpty(t, at + 1, U)
  <2> SUFFICES ASSUME OthersNotEmpty(new, at, U), NEW i \in 1..n PROVE t[i][1] <= t[i][2]
    BY <1>6 DEF OthersNotEmpty
  <2>1. CASE i = at
    <3>1. new[at][1] <= e
      <4>1. ~(at = 1 /\ new[1][2] < U[1][1])
        <5> SUFFICES ASSUME at = 1, e < U[1][1] PROVE FALSE
          OBVIOUS
        <5>1. pos = 1
          BY <1>1 DEF LoopInv, GoesOn
        <5> QED
          BY <1>2, <5>1
      <4> QED
        BY <1>1, <4>1 DEF OthersNotEmpty
    <3> QED
      BY <1>4, <1>7, <2>1, <3>1
  <2>2. CASE i # at
    <3>1. t[i] = new[i] /\ ~(i = 1 /\ at = 1)
      BY <1>6, <2>2
    <3> QED
      BY <3>1 DEF OthersNotEmpty
  <2> QED
    BY <2>1, <2>2
<1>16. at + 1 <= n => Turns(t, pos, at + 1, U) + 1 <= Turns(new, pos, at, U)
  <2> DEFINE a == 2 * (Len(U) - pos + 1)
             f == IF t[at + 1][1] > U[pos][2] THEN 0 ELSE 1
  <2>2. a \in Int /\ f \in {0, 1}
    BY <1>1
  <2>3. Turns(t, pos, at + 1, U) = a + (n - (at + 1) + 1) + f
    BY <1>6 DEF Turns
  <2>4. Turns(new, pos, at, U) = a + (n - at + 1) + 1
    BY DEF Turns
  <2> HIDE DEF a, f, n
  <2> QED
    BY <1>1, <2>2, <2>3, <2>4
<1> QED
  BY <1>6, <1>14, <1>15, <1>16 DEF Better, t, p

\* new end > old end => keep the overlap, insert the remainder
LEMMA Divided ==
  ASSUME NEW U, Valid(U), NEW new, NEW pos, NEW at, LoopInv(new, pos, at, U), at <= Len(new),
         ~(new[at][2] < U[pos][1]), ~(new[at][1] > U[pos][2]), new[at][2] > U[pos][2],
         NEW start, start = IF new[at][1] < U[pos][1] THEN U[pos][1] ELSE new[at][1]
  PROVE  Better(new, pos, at,
                Put(new, at, <<<<start, U[pos][2]>>, <<U[pos][2] + 1, new[at][2]>>>>),
                pos, at + 1, U)
<1> DEFINE e == U[pos][2]
           p == <<start, e>>
           q == <<e + 1, new[at][2]>>
           t == Put(new, at, <<p, q>>)
           n == Len(new)
<1>1. /\ at \in 1..n /\ at \in Nat /\ at \in Nat \ {0} /\ pos \in 1..Len(U) /\ Len(U) \in Nat
      /\ n \in Nat
      /\ \A i \in 1..n : new[i] \in Pairs /\ new[i][1] \in Int /\ new[i][2] \in Int
  BY InLoop
<1>2. /\ new[at][1] \in Int /\ new[at][2] \in Int
      /\ U[pos][1] \in Int /\ e \in Int /\ U[pos][1] <= e
  BY InLoop
<1>3. e = IF new[at][2] > U[pos][2] THEN U[pos][2] ELSE new[at][2]
  OBVIOUS
<1>4. /\ start \in Int /\ p \in Pairs /\ p[1] = start /\ p[2] = e
      /\ Within(p, U[pos]) /\ start <= e + 1
      /\ at = 1 => start = U[1][1]
      /\ at > 1 => Joined(new[at - 1], p, U)
      /\ \A i \in 1..(at - 1) : new[i][2] < start
      /\ (new[at][1] <= new[at][2] => start <= e)
  <2> HIDE DEF e
  <2> QED
    BY <1>3, Overlap
<1>5. /\ new \in Seq(Pairs) /\ RestOk(new, at) /\ DoneOk(new, at, U)
      /\ new[n][2] = U[Len(U)][2]
  BY DEF LoopInv
<1>6. q \in Pairs /\ q[1] = e + 1 /\ q[2] = new[at][2] /\ q[1] <= q[2]
  BY <1>2 DEF Pairs
<1> HIDE DEF p, q
<1>7. /\ t \in Seq(Pairs) /\ Len(t) = n + 1
      /\ \A j \in 1..Len(t) : t[j] = IF j < at THEN new[j] ELSE IF j = at THEN p
                                     ELSE IF j = at + 1 THEN q ELSE new[j - 1]
  <2>1. at \in 1..Len(new) /\ p \in Pairs /\ q \in Pairs /\ new \in Seq(Pairs)
    BY <1>1, <1>4, <1>5, <1>6
  <2> QED
    BY <2>1, PutTwo
<1> HIDE DEF t
<1>8. /\ t[at] = p /\ t[at + 1] = q /\ t # <<>> /\ at + 1 \in 1..(n + 1)
      /\ \A i \in 1..(at - 1) : t[i] = new[i]
      /\ \A i \in (at + 2)..(n + 1) : t[i] = new[i - 1] /\ i - 1 \in (at + 1)..n
  <2>1. \A i \in 1..(at - 1) : i \in 1..(n + 1) /\ i < at
    BY <1>1
  <2>2. \A i \in (at + 2)..(n + 1) :
          /\ i \in 1..(n + 1) /\ ~(i < at) /\ i # at /\ i # at + 1
          /\ i - 1 \in (at + 1)..n
    BY <1>1
  <2>3. t # <<>> /\ at + 1 \in 1..(n + 1)
    BY <1>1, <1>7, SeqFacts
  <2>4. at \in 1..(n + 1) /\ ~(at < at) /\ at + 1 # at /\ ~(at + 1 < at)
    BY <1>1
  <2> HIDE DEF n
  <2> QED
    BY <1>7, <2>1, <2>2, <2>3, <2>4
<1>9. DoneOk(t, at + 1, U)
  BY <1>1, <1>4, <1>5, <1>8, DoneNext
<1>10. RestOk(t, at + 1)
  <2>1. \A i \in (at + 1)..(n + 1) : i = at + 1 \/ i \in (at + 2)..(n + 1)
    BY <1>1
  <2>2. \A i \in (at + 1)..n : i \in at..n
    BY <1>1
  <2>3. \A i \in (at + 1)..(n + 1) : t[i][1] <= t[i][2] + 1
    <3>1. q[1] <= q[2] + 1
      BY <1>2, <1>6
    <3>2. \A i \in at..n : new[i][1] <= new[i][2] + 1
      BY <1>5 DEF RestOk
    <3> QED
      BY <1>8, <2>1, <2>2, <3>1, <3>2
  <2>4. ASSUME NEW i \in (at + 1)..(n + 1), i + 1 \in (at + 1)..(n + 1)
        PROVE  t[i + 1][1] = t[i][2] + 1
    <3>1. i + 1 \in (at + 2)..(n + 1) /\ (i + 1) - 1 = i
      BY <1>1, <2>4
    <3>2. t[i + 1] = new[i] /\ i \in (at + 1)..n /\ i \in at..n
      BY <1>8, <2>2, <3>1
    <3>3. i - 1 \in at..n /\ (i - 1) + 1 = i
      BY <1>1, <3>2
    <3>4. new[i][1] = new[i - 1][2] + 1
      BY <1>5, <3>2, <3>3 DEF RestOk
    <3>5. t[i][2] = new[i - 1][2]
      <4>1. CASE i = at + 1
        <5>1. i - 1 = at
          BY <1>1, <4>1
        <5> QED
          BY <1>6, <1>8, <4>1, <5>1
      <4>2. CASE i \in (at + 2)..(n + 1)
        BY <1>8, <4>2
      <4> QED
        BY <2>1, <4>1, <4>2
    <3> QED
      BY <3>2, <3>4, <3>5
  <2> QED
    BY <1>7, <2>3, <2>4 DEF RestOk
<1>11. t[n + 1][2] = U[Len(U)][2]
  <2>1. CASE n = at
    BY <1>5, <1>6, <1>8, <2>1
  <2>2. CASE n # at
    <3>1. n + 1 \in (at + 2)..(n + 1) /\ (n + 1) - 1 = n
      BY <1>1, <2>2
    <3> QED
      BY <1>5, <1>8, <3>1
  <2> QED
    BY <2>1, <2>2
<1>12. GoesOn(t, pos, at + 1, U)
  <2>1. at + 1 # 1 /\ (at + 1) - 1 = at
    BY <1>1
  <2> QED
    BY <1>4, <1>6, <1>8, <2>1 DEF GoesOn
<1>13. ~(at + 1 > n + 1) /\ at + 1 \in 1..((n + 1) + 1) /\ pos \in Nat /\ at + 1 <= n + 1
  BY <1>1
<1>14. LoopInv(t, pos, at + 1, U)
  <2> HIDE DEF n
  <2> QED
    BY <1>1, <1>7, <1>8, <1>9, <1>10, <1>11, <1>12, <1>13 DEF LoopInv
<1>15. OthersNotEmpty(new, at, U) => OthersNotEmpty(t, at + 1, U)
  <2> SUFFICES ASSUME OthersNotEmpty(new, at, U), NEW i \in 1..(n + 1) PROVE t[i][1] <= t[i][2]
    BY <1>7 DEF OthersNotEmpty
  <2>1. CASE i = at
    <3>1. start <= e
      <4>1. new[at][1] <= new[at][2]
        BY ONLY <1>2, new[at][2] > U[pos][2], ~(new[at][1] > U[pos][2]) DEF e
      <4> QED
        BY <1>4, <4>1
    <3> QED
      BY <1>4, <1>8, <2>1, <3>1
  <2>2. CASE i = at + 1
    BY <1>6, <1>8, <2>2
  <2>3. CASE i \in 1..(at - 1)
    <3>1. t[i] = new[i] /\ i \in 1..n /\ ~(i = 1 /\ at = 1)
      BY <1>1, <1>8, <2>3
    <3> QED
      BY <3>1 DEF OthersNotEmpty
  <2>4. CASE i \in (at + 2)..(n + 1)
    <3>1. t[i] = new[i - 1] /\ i - 1 \in 1..n /\ i - 1 # 1
      BY <1>1, <1>8, <2>4
    <3> QED
      BY <3>1 DEF OthersNotEmpty
  <2>5. i \in 1..(at - 1) \/ i = at \/ i = at + 1 \/ i \in (at + 2)..(n + 1)
    BY <1>1
  <2> QED
    BY <2>1, <2>2, <2>3, <2>4, <2>5
<1>16. Turns(t, pos, at + 1, U) + 1 <= Turns(new, pos, at, U)
  <2> DEFINE a == 2 * (Len(U) - pos + 1)
  <2>1. t[at + 1][1] > U[pos][2] /\ ~(new[at][1] > U[pos][2])
    BY <1>2, <1>6, <1>8
  <2>2. a \in Int
    BY <1>1
  <2>3. Turns(t, pos, at + 1, U) = a + (n + 1 - (at + 1) + 1)
    <3>1. Turns(t, pos, at + 1, U) = a + (Len(t) - (at + 1) + 1) + 0
      BY <2>1 DEF Turns
    <3>2. a + (Len(t) - (at + 1) + 1) + 0 = a + (n + 1 - (at + 1) + 1)
      <4> HIDE DEF a, n
      <4> QED
        BY <1>1, <1>7, <2>2
    <3> QED
      BY <3>1, <3>2
  <2>4. Turns(new, pos, at, U) = a + (n - at + 1) + 1
    BY <2>1 DEF Turns
  <2> HIDE DEF a, n
  <2> QED
    BY <1>1, <2>2, <2>3, <2>4
<1> QED
  BY <1>14, <1>15, <1>16 DEF Better, t, p, q

States(U) ==
  {s \in [new : Seq(Pairs), pos : Nat, newPos : Nat] : LoopInv(s.new, s.pos, s.newPos, U)}

\* Every turn of the loop keeps its invariant and leaves fewer turns.
LEMMA StepBetter ==
  ASSUME NEW U, Valid(U), NEW s \in States(U), s.newPos <= Len(s.new)
  PROVE  LET t == IntersectStep(s, U)
         IN  t \in States(U) /\ Better(s.new, s.pos, s.newPos, t.new, t.pos, t.newPos, U)
<1> DEFINE new == s.new
           pos == s.pos
           at == s.newPos
           t == IntersectStep(s, U)
           n == new[at]
           o == U[pos]
           start == IF n[1] < o[1] THEN o[1] ELSE n[1]
<1>1. s \in [new : Seq(Pairs), pos : Nat, newPos : Nat] /\ LoopInv(new, pos, at, U)
  BY DEF States
<1>2. pos \in 1..Len(U) /\ ~(pos > Len(U)) /\ ~(at > Len(new)) /\ pos + 1 \in Nat /\ at + 1 \in Nat
      /\ Len(U) \in Nat /\ at \in Nat
  BY <1>1, InLoop
<1>3. SUFFICES \E new2, pos2, at2 :
                 /\ pos2 \in Nat /\ at2 \in Nat
                 /\ t = [new |-> new2, pos |-> pos2, newPos |-> at2]
                 /\ Better(new, pos, at, new2, pos2, at2, U)
  <2> SUFFICES ASSUME NEW new2, NEW pos2 \in Nat, NEW at2 \in Nat,
                      t = [new |-> new2, pos |-> pos2, newPos |-> at2],
                      Better(new, pos, at, new2, pos2, at2, U)
               PROVE  t \in States(U) /\ Better(new, pos, at, t.new, t.pos, t.newPos, U)
    OBVIOUS
  <2>1. LoopInv(new2, pos2, at2, U) /\ new2 \in Seq(Pairs)
    BY DEF Better, LoopInv
  <2> HIDE DEF t, new, pos, at
  <2> QED
    BY <2>1 DEF States
<1>4. CASE n[2] < o[1]
  <2>1. t = [s EXCEPT !.new = Put(@, at, <<>>)]
    BY <1>2, <1>4 DEF IntersectStep
  <2>2. t = [new |-> Put(new, at, <<>>), pos |-> pos, newPos |-> at]
    BY <1>1, <2>1
  <2>3. Better(new, pos, at, Put(new, at, <<>>), pos, at, U)
    BY <1>1, <1>2, <1>4, Removed
  <2> QED
    BY <1>1, <2>2, <2>3
<1>5. CASE ~(n[2] < o[1]) /\ n[1] > o[2] /\ pos < Len(U)
  <2>1. t = [s EXCEPT !.pos = @ + 1]
    BY <1>2, <1>5 DEF IntersectStep
  <2>2. t = [new |-> new, pos |-> pos + 1, newPos |-> at]
    BY <1>1, <2>1
  <2>3. Better(new, pos, at, new, pos + 1, at, U)
    BY <1>1, <1>2, <1>5, ToNextOld
  <2> QED
    BY <1>1, <1>2, <2>2, <2>3
<1>6. CASE ~(n[2] < o[1]) /\ n[1] > o[2] /\ ~(pos < Len(U))
  <2>1. t = [s EXCEPT !.pos = @ + 1, !.new = SubSeq(@, 1, at - 1)]
    BY <1>2, <1>6 DEF IntersectStep
  <2>2. t = [new |-> SubSeq(new, 1, at - 1), pos |-> pos + 1, newPos |-> at]
    BY <1>1, <2>1
  <2>3. Better(new, pos, at, SubSeq(new, 1, at - 1), pos + 1, at, U)
    BY <1>1, <1>2, <1>6, AfterLastOld
  <2> QED
    BY <1>1, <1>2, <2>2, <2>3
<1>7. CASE ~(n[2] < o[1]) /\ ~(n[1] > o[2]) /\ n[2] > o[2]
  <2> DEFINE u == Put(new, at, <<<<start, o[2]>>, <<o[2] + 1, n[2]>>>>)
  <2>1. t = [s EXCEPT !.newPos = @ + 1, !.new = u]
    BY <1>2, <1>7 DEF IntersectStep
  <2>2. Better(new, pos, at, u, pos, at + 1, U)
    BY <1>1, <1>2, <1>7, Divided
  <2> HIDE DEF u
  <2>3. t = [new |-> u, pos |-> pos, newPos |-> at + 1]
    BY <1>1, <2>1
  <2> QED
    BY <1>1, <1>2, <2>2, <2>3
<1>8. CASE ~(n[2] < o[1]) /\ ~(n[1] > o[2]) /\ ~(n[2] > o[2])
  <2> DEFINE u == Put(new, at, <<<<start, n[2]>>>>)
  <2>1. t = [s EXCEPT !.newPos = @ + 1, !.new = u]
    BY <1>2, <1>8 DEF IntersectStep
  <2>2. Better(new, pos, at, u, pos, at + 1, U)
    BY <1>1, <1>2, <1>8, Kept
  <2> HIDE DEF u
  <2>3. t = [new |-> u, pos |-> pos, newPos |-> at + 1]
    BY <1>1, <2>1
  <2> QED
    BY <1>1, <1>2, <2>2, <2>3
<1> QED
  BY <1>4, <1>5, <1>6, <1>7, <1>8

\* There are no turns after the last.
LEMMA StepAtEnd ==
  ASSUME NEW U, NEW s \in States(U), ~(s.newPos <= Len(s.new))
  PROVE  IntersectStep(s, U) = s
<1>1. s.newPos \in Nat /\ s.new \in Seq(Pairs) /\ Len(s.new) \in Nat
  BY SeqFacts DEF States
<1>2. s.newPos > Len(s.new)
  BY <1>1
<1> QED
  BY <1>2 DEF IntersectStep

\* The loop starts with its invariant.
LEMMA LoopStarts ==
  ASSUME NEW U, Valid(U), NEW P, Chain(P, U[1][1], U[Len(U)][2])
  PROVE  [new |-> P, pos |-> 1, newPos |-> 1] \in States(U)
<1>1. P \in Seq(Pairs) /\ P # <<>> /\ Len(P) \in Nat \ {0} /\ Len(U) \in Nat \ {0}
  <2>1. P \in Seq(Pairs) /\ P # <<>> /\ U \in Seq(Pairs) /\ U # <<>>
    BY DEF Chain, Valid
  <2> QED
    BY <2>1, SeqFacts
<1>2. 1..(1 - 1) = {} /\ ~(1 > 1) /\ 1 \in 1..(Len(P) + 1) /\ 1 \in 1..Len(U) /\ ~(1 > Len(P))
  BY <1>1
<1>3. DoneOk(P, 1, U) /\ RestOk(P, 1) /\ GoesOn(P, 1, 1, U)
  BY <1>2 DEF DoneOk, RestOk, GoesOn, Chain
<1>4. LoopInv(P, 1, 1, U)
  BY <1>2, <1>3 DEF LoopInv, Chain
<1> QED
  BY <1>1, <1>4 DEF States

\* Its turns keep it.
LEMMA LoopStays ==
  ASSUME NEW U, Valid(U), NEW s \in States(U)
  PROVE  IntersectStep(s, U) \in States(U)
BY StepBetter, StepAtEnd

\* loop has the values before and after each of the n turns of the loop.
IsLoop(loop, n, P, U) ==
  /\ loop[0] = [new |-> P, pos |-> 1, newPos |-> 1]
  /\ \A i \in 1..n : loop[i] = IntersectStep(loop[i - 1], U)
  /\ IntersectTimeRanges(P, U) = loop[n].new

\* The turns that the model gives to the loop, one after the other.
LEMMA LoopTurns ==
  ASSUME NEW U, Len(U) \in Nat, NEW P, Len(P) \in Nat, NEW A,
         [new |-> P, pos |-> 1, newPos |-> 1] \in A,
         \A x \in A : IntersectStep(x, U) \in A,
         NEW n, n = 2 * (Len(P) + Len(U)) + 2
  PROVE  \E loop : IsLoop(loop, n, P, U)
<1> DEFINE start == [new |-> P, pos |-> 1, newPos |-> 1]
           seq == [i \in 1..n |-> i]
           Step(x) == CHOOSE y \in {IntersectStep(v, U) : v \in {x}} : TRUE
           g == [i \in 1..n |-> [x \in A |-> IntersectStep(x, U)]]
           Folds(f) == f = [i \in 0..Len(seq) |-> IF i = 0 THEN start ELSE Step(f[i - 1])]
           loop == CHOOSE f : Folds(f)
<1>1. n \in Nat /\ Len(seq) = n
  OBVIOUS
<1>2. \A x : Step(x) = IntersectStep(x, U)
  OBVIOUS
<1>3. IntersectTimeRanges(P, U) = loop[n].new
  BY <1>1 DEF IntersectTimeRanges, Iterate, Fold
<1> HIDE DEF Step, start
<1>4. g \in [1..n -> [A -> A]] /\ start \in A
  BY DEF start
<1>5. PICK f \in [0..n -> A] : Stepwise(f, n, start, g)
  <2> HIDE DEF g
  <2> QED
    BY <1>1, <1>4, StepByStep, Zenon
<1>6. ASSUME NEW i \in 1..n PROVE f[i] = Step(f[i - 1])
  <2>1. i - 1 \in 0..n
    BY <1>1
  <2>2. f[i - 1] \in A
    BY <2>1
  <2>3. g[i][f[i - 1]] = IntersectStep(f[i - 1], U)
    BY <2>2
  <2> QED
    BY <1>2, <1>5, <2>3 DEF Stepwise
<1> HIDE DEF seq
<1>7. Folds(f)
  <2> DEFINE v(i) == IF i = 0 THEN start ELSE Step(f[i - 1])
  <2>1. \A i \in 0..n : f[i] = v(i)
    BY <1>1, <1>5, <1>6 DEF Stepwise
  <2> HIDE DEF v
  <2>2. f = [i \in 0..n |-> v(i)]
    BY <1>5, <2>1
  <2> QED
    BY <1>1, <2>2 DEF v
<1>8. Folds(loop)
  BY <1>7
<1>9. \A i \in 0..n : loop[i] = IF i = 0 THEN start ELSE Step(loop[i - 1])
  BY <1>1, <1>8
<1> HIDE DEF loop, Folds
<1>10. loop[0] = start /\ \A i \in 1..n : loop[i] = IntersectStep(loop[i - 1], U)
  BY <1>1, <1>2, <1>9
<1> QED
  BY <1>3, <1>10 DEF start, IsLoop

\* The loop ends, with a division of U.
LEMMA IntersectDivides ==
  ASSUME NEW U, Valid(U), NEW P, Chain(P, U[1][1], U[Len(U)][2])
  PROVE  LET L == IntersectTimeRanges(P, U)
         IN  /\ Divides(L, U, Len(U))
             /\ (\A i \in 2..Len(P) : P[i][1] <= P[i][2]) => NoneEmpty(L)
<1> DEFINE n == 2 * (Len(P) + Len(U)) + 2
           start == [new |-> P, pos |-> 1, newPos |-> 1]
           A == States(U)
           strict == \A i \in 2..Len(P) : P[i][1] <= P[i][2]
<1>1. /\ P \in Seq(Pairs) /\ Len(P) \in Nat \ {0} /\ U \in Seq(Pairs)
      /\ Len(U) \in Nat \ {0} /\ DOMAIN U = 1..Len(U)
      /\ \A i \in 1..Len(P) : P[i][1] \in Int /\ P[i][2] \in Int
      /\ \A i \in 1..Len(U) : U[i][1] \in Int /\ U[i][2] \in Int /\ U[i][1] <= U[i][2]
  <2>1. P \in Seq(Pairs) /\ P # <<>> /\ U \in Seq(Pairs) /\ U # <<>>
    BY DEF Chain, Valid
  <2>2. Len(P) \in Nat \ {0} /\ Len(U) \in Nat \ {0} /\ DOMAIN U = 1..Len(U)
    BY <2>1, SeqFacts
  <2>3. \A i \in 1..Len(P) : P[i] \in Pairs
    BY <2>1, SeqFacts
  <2>4. \A i \in 1..Len(U) : U[i][1] \in Int /\ U[i][2] \in Int /\ U[i][1] <= U[i][2]
    BY <2>2, ValidInOrder
  <2> QED
    BY <2>1, <2>2, <2>3, <2>4 DEF Pairs
<1>2. n \in Nat
  BY <1>1
<1>3. start \in A /\ \A x \in A : IntersectStep(x, U) \in A
  BY LoopStarts, LoopStays
<1>4. PICK loop : IsLoop(loop, n, P, U)
  <2>1. Len(P) \in Nat /\ Len(U) \in Nat /\ n = 2 * (Len(P) + Len(U)) + 2
    BY <1>1
  <2> HIDE DEF A, n
  <2> QED
    BY <1>3, <2>1, LoopTurns
<1> HIDE DEF A, start, n
<1>5. /\ loop[0] = start /\ \A i \in 1..n : loop[i] = IntersectStep(loop[i - 1], U)
      /\ IntersectTimeRanges(P, U) = loop[n].new
  BY <1>4 DEF IsLoop, start
<1> DEFINE left(s) == Turns(s.new, s.pos, s.newPos, U)
           Ok(s, i) == /\ s \in A
                       /\ strict => OthersNotEmpty(s.new, s.newPos, U)
                       /\ s.newPos <= Len(s.new) => left(s) + i <= n
           T == {i \in Nat : Ok(loop[i], i)}
<1>6. 0 \in T
  <2>1. /\ start.new = P /\ start.pos = 1 /\ start.newPos = 1
    BY DEF start
  <2>2. strict => OthersNotEmpty(P, 1, U)
    <3> SUFFICES ASSUME strict, NEW i \in 1..Len(P)
                 PROVE  P[i][1] <= P[i][2] \/ (i = 1 /\ P[1][2] < U[1][1])
      BY DEF OthersNotEmpty
    <3>1. CASE i = 1
      <4>1. P[1][1] = U[1][1] /\ 1 \in 1..Len(P)
        BY <1>1 DEF Chain
      <4> QED
        BY <1>1, <3>1, <4>1
    <3>2. CASE i # 1
      BY <1>1, <3>2
    <3> QED
      BY <3>1, <3>2
  <2>3. Turns(P, 1, 1, U) + 0 <= n
    <3> DEFINE b == IF P[1][1] > U[1][2] THEN 0 ELSE 1
    <3>1. b \in {0, 1}
      OBVIOUS
    <3>2. Turns(P, 1, 1, U) = 2 * (Len(U) - 1 + 1) + (Len(P) - 1 + 1) + b
      BY DEF Turns
    <3> HIDE DEF b
    <3> QED
      BY <1>1, <3>1, <3>2 DEF n
  <2> QED
    BY <1>3, <1>5, <2>1, <2>2, <2>3
<1>7. ASSUME NEW k \in 0..(n - 1), k \in T PROVE k + 1 \in T
  <2> DEFINE s == loop[k]
             t == loop[k + 1]
  <2>1. k + 1 \in 1..n /\ (k + 1) - 1 = k /\ k + 1 \in Nat /\ k \in Nat
    BY <1>2
  <2>2. t = IntersectStep(s, U)
    BY <1>5, <2>1
  <2>3. Ok(s, k)
    BY <1>7
  <2> HIDE DEF s, t
  <2>4. CASE s.newPos <= Len(s.new)
    <3>1. t \in A /\ Better(s.new, s.pos, s.newPos, t.new, t.pos, t.newPos, U)
      BY <2>2, <2>3, <2>4, StepBetter DEF A
    <3>2. strict => OthersNotEmpty(t.new, t.newPos, U)
      BY <2>3, <3>1 DEF Better
    <3>3. t.newPos <= Len(t.new) => left(t) + (k + 1) <= n
      <4> SUFFICES ASSUME t.newPos <= Len(t.new) PROVE left(t) + (k + 1) <= n
        OBVIOUS
      <4>1. left(t) + 1 <= left(s) /\ left(s) + k <= n
        BY <2>3, <2>4, <3>1 DEF Better
      <4>2. left(t) \in Int /\ left(s) \in Int
        <5>1. \A r \in A : left(r) \in Int
          <6> SUFFICES ASSUME NEW r \in A PROVE left(r) \in Int
            OBVIOUS
          <6>1. r.new \in Seq(Pairs) /\ r.pos \in Nat /\ r.newPos \in Nat
            BY DEF A, States
          <6>2. Len(r.new) \in Nat
            BY <6>1
          <6> DEFINE b == IF r.new[r.newPos][1] > U[r.pos][2] THEN 0 ELSE 1
          <6>3. b \in {0, 1}
            OBVIOUS
          <6>4. left(r) = 2 * (Len(U) - r.pos + 1) + (Len(r.new) - r.newPos + 1) + b
            BY DEF Turns
          <6> DEFINE x == left(r)
                     l == Len(r.new)
                     p == r.pos
                     q == r.newPos
                     u == Len(U)
          <6>5. u \in Nat /\ l \in Nat /\ p \in Nat /\ q \in Nat
            BY <1>1, <6>1, <6>2
          <6>6. x = 2 * (u - p + 1) + (l - q + 1) + b
            BY <6>4
          <6>7. x \in Int
            <7> HIDE DEF b, left, x, l, p, q, u
            <7> QED
              BY ONLY <6>3, <6>5, <6>6
          <6> QED
            BY <6>7
        <5> HIDE DEF left
        <5> QED
          BY <2>3, <3>1, <5>1
      <4> HIDE DEF left
      <4> QED
        BY <1>2, <2>1, <4>1, <4>2
    <3>4. Ok(t, k + 1)
      BY <3>1, <3>2, <3>3
    <3> QED
      BY <2>1, <3>4 DEF t
  <2>5. CASE ~(s.newPos <= Len(s.new))
    <3>1. t = s
      BY <2>2, <2>3, <2>5, StepAtEnd DEF A
    <3>2. Ok(t, k + 1)
      BY <2>3, <2>5, <3>1
    <3> QED
      BY <2>1, <3>2 DEF t
  <2> QED
    BY <2>4, <2>5
<1>8. n \in T
  <2> HIDE DEF T
  <2>1. n \in 0..n /\ 0 \in Nat
    BY <1>2
  <2> QED
    BY <1>2, <1>6, <1>7, <2>1, Reaches
<1> DEFINE s == loop[n]
           L == s.new
<1>9. Ok(s, n)
  BY <1>8
<1> HIDE DEF s
<1>10. LoopInv(L, s.pos, s.newPos, U) /\ s.newPos \in Nat /\ s.pos \in Nat /\ L \in Seq(Pairs)
  BY <1>9 DEF A, States
<1>11. ~(s.newPos <= Len(L))
  <2> SUFFICES ASSUME s.newPos <= Len(L) PROVE FALSE
    OBVIOUS
  <2>1. left(s) + n <= n
    BY <1>9
  <2>2. s.pos \in 1..Len(U) /\ Len(L) \in Nat
    BY <1>10 DEF LoopInv
  <2> DEFINE b == IF L[s.newPos][1] > U[s.pos][2] THEN 0 ELSE 1
  <2>3. b \in {0, 1}
    OBVIOUS
  <2>4. left(s) = 2 * (Len(U) - s.pos + 1) + (Len(L) - s.newPos + 1) + b
    BY DEF Turns
  <2>5. Len(U) \in Nat /\ s.pos <= Len(U) /\ s.newPos \in Nat /\ s.pos \in Nat /\ n \in Nat
        /\ s.newPos <= Len(L)
    BY <1>1, <1>2, <1>10, <2>2
  <2> DEFINE x == left(s)
             l == Len(L)
             p == s.pos
             q == s.newPos
  <2>6. /\ x + n <= n /\ l \in Nat /\ p \in Nat /\ q \in Nat /\ p <= Len(U) /\ q <= l
        /\ x = 2 * (Len(U) - p + 1) + (l - q + 1) + b
    BY <2>1, <2>2, <2>4, <2>5
  <2> HIDE DEF b, left, L, x, l, p, q
  <2> QED
    BY ONLY <2>3, <2>5, <2>6
<1>12. /\ Len(L) \in Nat \ {0} /\ s.newPos - 1 = Len(L) /\ DOMAIN L = 1..Len(L) /\ L # <<>>
       /\ s.newPos > 1 /\ s.newPos > Len(L)
  <2>1. L # <<>> /\ s.newPos \in 1..(Len(L) + 1)
    BY <1>10 DEF LoopInv
  <2>2. Len(L) \in Nat \ {0} /\ DOMAIN L = 1..Len(L)
    BY <1>10, <2>1, SeqFacts
  <2> HIDE DEF L
  <2> QED
    BY <1>10, <1>11, <2>1, <2>2
<1>13. Divides(L, U, Len(U))
  <2>1. DoneOk(L, s.newPos, U) /\ L[Len(L)][2] = U[Len(U)][2] /\ Within(L[Len(L)], U[Len(U)])
    BY <1>10, <1>12 DEF LoopInv
  <2> HIDE DEF L
  <2> QED
    BY <1>10, <1>12, <2>1 DEF DoneOk, Divides
<1>14. strict => NoneEmpty(L)
  <2>1. strict => OthersNotEmpty(L, s.newPos, U)
    BY <1>9
  <2>2. s.newPos # 1
    BY <1>10, <1>12
  <2> HIDE DEF L, strict
  <2> QED
    BY <1>12, <2>1, <2>2 DEF OthersNotEmpty, NoneEmpty
<1> QED
  BY <1>5, <1>13, <1>14 DEF s

\* Every range of L is a part of one of P.
Inside(q, p) == p[1] <= q[1] /\ q[2] <= p[2]
Finer(L, P) == \A i \in 1..Len(L) : \E k \in 1..Len(P) : Inside(L[i], P[k])

\* Parts of parts are parts.
LEMMA FinerThan ==
  ASSUME NEW L \in Seq(Pairs), NEW M \in Seq(Pairs), NEW P \in Seq(Pairs),
         Finer(L, M), Finer(M, P)
  PROVE  Finer(L, P)
<1> SUFFICES ASSUME NEW i \in 1..Len(L) PROVE \E k \in 1..Len(P) : Inside(L[i], P[k])
  BY DEF Finer
<1>1. PICK j \in 1..Len(M) : Inside(L[i], M[j])
  BY DEF Finer
<1>2. PICK k \in 1..Len(P) : Inside(M[j], P[k])
  BY DEF Finer
<1>3. L[i] \in Pairs /\ M[j] \in Pairs /\ P[k] \in Pairs
  BY SeqFacts
<1> HIDE DEF Pairs
<1>4. /\ L[i][1] \in Int /\ L[i][2] \in Int /\ M[j][1] \in Int /\ M[j][2] \in Int
      /\ P[k][1] \in Int /\ P[k][2] \in Int
  BY <1>3 DEF Pairs
<1>5. Inside(L[i], P[k])
  BY <1>1, <1>2, <1>4 DEF Inside
<1> QED
  BY <1>5

\* No turn of the loop joins ranges.
LEMMA StepFiner ==
  ASSUME NEW U, Valid(U), NEW s \in States(U), s.newPos <= Len(s.new)
  PROVE  Finer(IntersectStep(s, U).new, s.new)
<1> DEFINE new == s.new
           pos == s.pos
           at == s.newPos
           t == IntersectStep(s, U).new
           n == new[at]
           o == U[pos]
           start == IF n[1] < o[1] THEN o[1] ELSE n[1]
<1>1. /\ new \in Seq(Pairs) /\ Len(new) \in Nat /\ at \in 1..Len(new) /\ pos \in 1..Len(U)
      /\ ~(pos > Len(U)) /\ ~(at > Len(new)) /\ Len(U) \in Nat
  <2>1. s \in [new : Seq(Pairs), pos : Nat, newPos : Nat] /\ LoopInv(new, pos, at, U)
    BY DEF States
  <2>2. new \in Seq(Pairs) /\ Len(new) \in Nat /\ at \in 1..Len(new) /\ pos \in 1..Len(U)
    BY <2>1, SeqFacts DEF LoopInv
  <2>3. Len(U) \in Nat
    BY SeqFacts DEF Valid
  <2> QED
    BY <2>2, <2>3
<1>2. /\ \A i \in 1..Len(new) : new[i] \in Pairs /\ new[i][1] \in Int /\ new[i][2] \in Int
      /\ n \in Pairs /\ n[1] \in Int /\ n[2] \in Int
  <2>1. \A i \in 1..Len(new) : new[i] \in Pairs
    BY <1>1, SeqFacts
  <2>2. \A p \in Pairs : p[1] \in Int /\ p[2] \in Int
    BY DEF Pairs
  <2> HIDE DEF new, at
  <2> QED
    BY <1>1, <2>1, <2>2
<1>3. o[1] \in Int /\ o[2] \in Int /\ o[1] <= o[2]
  <2>1. pos \in DOMAIN U
    BY <1>1, SeqFacts DEF Valid
  <2> HIDE DEF pos
  <2> QED
    BY <2>1, ValidInOrder
<1>4. Finer(new, new)
  BY <1>2 DEF Finer, Inside
<1>5. CASE n[2] < o[1]
  <2>1. t = Put(new, at, <<>>)
    <3>1. s.new \in Seq(Pairs) /\ s \in [new : Seq(Pairs), pos : Nat, newPos : Nat]
      BY DEF States
    <3> QED
      BY <1>1, <1>5, <3>1 DEF IntersectStep
  <2> HIDE DEF new, at, t
  <2>2. /\ t \in Seq(Pairs) /\ Len(t) = Len(new) - 1
        /\ \A j \in 1..Len(t) : t[j] = IF j < at THEN new[j] ELSE new[j + 1]
    BY <1>1, <2>1, PutNone
  <2>3. ASSUME NEW j \in 1..Len(t) PROVE \E k \in 1..Len(new) : t[j] = new[k]
    <3>1. j \in 1..Len(new) /\ j + 1 \in 1..Len(new)
      BY <1>1, <2>2
    <3> QED
      BY <2>2, <3>1
  <2>4. \A k \in 1..Len(new) : Inside(new[k], new[k])
    BY <1>2 DEF Inside
  <2> QED
    BY <2>3, <2>4 DEF Finer, t, new
<1>6. CASE ~(n[2] < o[1]) /\ n[1] > o[2] /\ pos < Len(U)
  <2>1. t = new
    <3>1. s \in [new : Seq(Pairs), pos : Nat, newPos : Nat]
      BY DEF States
    <3> QED
      BY <1>1, <1>6, <3>1 DEF IntersectStep
  <2> QED
    BY <1>4, <2>1
<1>7. CASE ~(n[2] < o[1]) /\ n[1] > o[2] /\ ~(pos < Len(U))
  <2>1. t = SubSeq(new, 1, at - 1)
    <3>1. s \in [new : Seq(Pairs), pos : Nat, newPos : Nat]
      BY DEF States
    <3> QED
      BY <1>1, <1>7, <3>1 DEF IntersectStep
  <2>2. at - 1 \in Nat /\ at - 1 <= Len(new) /\ 1 <= (at - 1) + 1 /\ 1 \in Nat \ {0}
    BY <1>1
  <2> HIDE DEF new, at, t
  <2>3. Len(t) = (at - 1) - 1 + 1 /\ \A j \in 1..((at - 1) - 1 + 1) : t[j] = new[1 + j - 1]
    BY <1>1, <2>1, <2>2, SubSeqFacts
  <2>4. \A j \in 1..Len(t) : j \in 1..Len(new) /\ t[j] = new[j]
    BY <1>1, <2>3
  <2>5. \A k \in 1..Len(new) : Inside(new[k], new[k])
    BY <1>2 DEF Inside
  <2> QED
    BY <2>4, <2>5 DEF Finer, t, new
<1>8. CASE ~(n[2] < o[1]) /\ ~(n[1] > o[2]) /\ n[2] > o[2]
  <2> DEFINE x == <<start, o[2]>>
             y == <<o[2] + 1, n[2]>>
  <2>1. t = Put(new, at, <<x, y>>)
    <3>1. s \in [new : Seq(Pairs), pos : Nat, newPos : Nat]
      BY DEF States
    <3> QED
      BY <1>1, <1>8, <3>1 DEF IntersectStep
  <2>2. x \in Pairs /\ y \in Pairs /\ Inside(x, n) /\ Inside(y, n)
    <3>1. start \in Int /\ n[1] <= start
      BY <1>2, <1>3
    <3> HIDE DEF start, n, o
    <3> QED
      BY <1>2, <1>3, <1>8, <3>1 DEF Pairs, Inside
  <2> HIDE DEF new, at, t, x, y
  <2>3. /\ Len(t) = Len(new) + 1
        /\ \A j \in 1..Len(t) : t[j] = IF j < at THEN new[j] ELSE IF j = at THEN x
                                       ELSE IF j = at + 1 THEN y ELSE new[j - 1]
    BY <1>1, <2>1, <2>2, PutTwo
  <2>4. ASSUME NEW j \in 1..Len(t) PROVE \E k \in 1..Len(new) : Inside(t[j], new[k])
    <3>1. CASE j < at
      <4>1. j \in 1..Len(new) /\ t[j] = new[j] /\ Inside(new[j], new[j])
        BY <1>1, <1>2, <2>3, <3>1 DEF Inside
      <4> QED
        BY <4>1
    <3>2. CASE j = at \/ j = at + 1
      <4>1. t[j] = x \/ t[j] = y
        BY <1>1, <2>3, <3>2
      <4> QED
        BY <1>1, <2>2, <4>1 DEF n
    <3>3. CASE ~(j < at) /\ ~(j = at \/ j = at + 1)
      <4>1. j - 1 \in 1..Len(new) /\ t[j] = new[j - 1]
        BY <1>1, <2>3, <3>3
      <4>2. Inside(new[j - 1], new[j - 1])
        BY <1>2, <4>1 DEF Inside
      <4> QED
        BY <4>1, <4>2
    <3> QED
      BY <3>1, <3>2, <3>3
  <2> QED
    BY <2>4 DEF Finer, t, new
<1>9. CASE ~(n[2] < o[1]) /\ ~(n[1] > o[2]) /\ ~(n[2] > o[2])
  <2> DEFINE x == <<start, n[2]>>
  <2>1. t = Put(new, at, <<x>>)
    <3>1. s \in [new : Seq(Pairs), pos : Nat, newPos : Nat]
      BY DEF States
    <3> QED
      BY <1>1, <1>9, <3>1 DEF IntersectStep
  <2>2. x \in Pairs /\ Inside(x, n)
    <3>1. start \in Int /\ n[1] <= start
      BY <1>2, <1>3
    <3> HIDE DEF start, n, o
    <3> QED
      BY <1>2, <1>3, <1>9, <3>1 DEF Pairs, Inside
  <2> HIDE DEF new, at, t, x
  <2>3. IsReplaced(t, Pairs, new, at, x)
    BY <1>1, <2>1, <2>2, PutOne
  <2>4. Len(t) = Len(new) /\ \A j \in 1..Len(t) : t[j] = IF j = at THEN x ELSE new[j]
    BY <1>1, <2>3 DEF IsReplaced
  <2>5. \A j \in 1..Len(t) : Inside(t[j], new[j])
    <3>1. \A j \in 1..Len(new) : Inside(new[j], new[j])
      BY <1>2 DEF Inside
    <3> QED
      BY <2>2, <2>4, <3>1 DEF n
  <2> QED
    BY <2>4, <2>5 DEF Finer, t, new
<1> QED
  BY <1>5, <1>6, <1>7, <1>8, <1>9

\* IntersectTimeRanges only cuts.
LEMMA IntersectFiner ==
  ASSUME NEW U, Valid(U), NEW P, Chain(P, U[1][1], U[Len(U)][2])
  PROVE  Finer(IntersectTimeRanges(P, U), P)
<1> DEFINE n == 2 * (Len(P) + Len(U)) + 2
           start == [new |-> P, pos |-> 1, newPos |-> 1]
           A == States(U)
           B == {s \in A : Finer(s.new, P)}
<1>1. /\ P \in Seq(Pairs) /\ P # <<>> /\ Len(P) \in Nat \ {0} /\ Len(U) \in Nat \ {0}
      /\ \A i \in 1..Len(P) : P[i] \in Pairs
  <2>1. P \in Seq(Pairs) /\ P # <<>> /\ U \in Seq(Pairs) /\ U # <<>>
    BY DEF Chain, Valid
  <2> QED
    BY <2>1, SeqFacts
<1>2. start \in A
  BY LoopStarts
<1>3. \A x \in A : IntersectStep(x, U) \in A /\ Finer(IntersectStep(x, U).new, x.new)
  <2> SUFFICES ASSUME NEW x \in A
               PROVE  IntersectStep(x, U) \in A /\ Finer(IntersectStep(x, U).new, x.new)
    OBVIOUS
  <2>1. CASE x.newPos <= Len(x.new)
    BY <2>1, LoopStays, StepFiner
  <2>2. CASE ~(x.newPos <= Len(x.new))
    <3>1. IntersectStep(x, U) = x
      BY <2>2, StepAtEnd
    <3>2. \A i \in 1..Len(x.new) : x.new[i] \in Pairs
      <4>1. x.new \in Seq(Pairs)
        BY DEF States
      <4> QED
        BY <4>1, SeqFacts
    <3>3. Finer(x.new, x.new)
      BY <3>2 DEF Finer, Inside, Pairs
    <3> QED
      BY <3>1, <3>3
  <2> QED
    BY <2>1, <2>2
<1>4. n \in Nat
  BY <1>1
<1>5. PICK loop : IsLoop(loop, n, P, U)
  <2>1. \A x \in A : IntersectStep(x, U) \in A
    BY <1>3
  <2>2. Len(P) \in Nat /\ Len(U) \in Nat /\ n = 2 * (Len(P) + Len(U)) + 2
    BY <1>1
  <2> HIDE DEF A, n
  <2> QED
    BY <1>2, <2>1, <2>2, LoopTurns
<1> DEFINE T == {i \in Nat : loop[i] \in B}
<1>6. 0 \in T
  <2>1. Finer(P, P)
    BY <1>1 DEF Finer, Inside, Pairs
  <2> HIDE DEF A
  <2> QED
    BY <1>2, <1>5, <2>1 DEF IsLoop
<1>7. ASSUME NEW k \in 0..(n - 1), k \in T PROVE k + 1 \in T
  <2> DEFINE s == loop[k]
             t == loop[k + 1]
  <2>1. k + 1 \in 1..n /\ (k + 1) - 1 = k /\ k + 1 \in Nat
    BY <1>4
  <2> HIDE DEF n
  <2>2. t = IntersectStep(s, U)
    BY <1>5, <2>1 DEF IsLoop
  <2>3. s \in A /\ Finer(s.new, P)
    BY <1>7
  <2> HIDE DEF s, t
  <2>4. t \in A /\ Finer(t.new, s.new)
    BY <1>3, <2>2, <2>3
  <2>5. t.new \in Seq(Pairs) /\ s.new \in Seq(Pairs)
    BY <2>3, <2>4 DEF States
  <2>6. Finer(t.new, P)
    BY <1>1, <2>3, <2>4, <2>5, FinerThan
  <2> QED
    BY <2>1, <2>4, <2>6 DEF t
<1>8. n \in T
  <2> HIDE DEF T, n
  <2>1. n \in 0..n /\ 0 \in Nat
    BY <1>4
  <2> QED
    BY <1>4, <1>6, <1>7, <2>1, Reaches
<1> QED
  BY <1>5, <1>8 DEF IsLoop
-----------------------------------------------------------------------------
(* SplitTimeRangesByTraceDataDensity                                       *)

\* A moment of the ranges is not before the first nor after the last of them.
LEMMA CoveredIsInside ==
  ASSUME NEW U, Valid(U), NEW t \in Covered(U)
  PROVE  t \in Int /\ U[1][1] <= t /\ t <= U[Len(U)][2]
<1>1. /\ U \in Seq(Pairs) /\ Len(U) \in Nat /\ DOMAIN U = 1..Len(U) /\ Len(U) >= 1
  BY SeqFacts DEF Valid
<1>2. /\ \A i \in DOMAIN U : U[i][1] <= U[i][2] /\ U[i][1] \in Int /\ U[i][2] \in Int
      /\ \A i, j \in DOMAIN U : i < j => U[i][2] < U[j][1]
  BY ValidInOrder
<1>3. PICK i \in DOMAIN U : t \in U[i][1]..U[i][2]
  BY DEF Covered, Times
<1>4. t \in Int /\ U[i][1] <= t /\ t <= U[i][2]
  BY <1>2, <1>3
<1>5. 1 \in DOMAIN U /\ Len(U) \in DOMAIN U /\ (i = 1 \/ 1 < i) /\ (i = Len(U) \/ i < Len(U))
  BY <1>1
<1>6. U[1][1] <= U[i][1]
  BY <1>2, <1>5
<1>7. U[i][2] <= U[Len(U)][2]
  BY <1>2, <1>5
<1> QED
  BY <1>2, <1>4, <1>5, <1>6, <1>7

\* The ranges made for the samples of a CPU divide those asked for.
LEMMA SamplesDivide ==
  ASSUME NEW U, Valid(U), NEW times \in Seq(Covered(U)), Ascending(times),
         NEW interval \in Nat \ {0}
  PROVE  /\ Divides(RangesForSamples(U, times, interval), U, Len(U))
         /\ Increasing(times) => NoneEmpty(RangesForSamples(U, times, interval))
<1>1. CASE times = <<>>
  BY <1>1, DividesItself DEF RangesForSamples
<1>2. CASE times # <<>>
  <2> DEFINE n == AtLeast(1, Rounded(Len(times), interval))
             d == Ceiling(Len(times), n)
             P == CalcTimeRangesByCPU(times, d, U[1][1], U[Len(U)][2])
  <2>1. /\ U \in Seq(Pairs) /\ Len(U) \in Nat /\ DOMAIN U = 1..Len(U) /\ Len(U) >= 1 /\ U # <<>>
    BY SeqFacts DEF Valid
  <2>2. U[1][1] \in Int /\ U[Len(U)][2] \in Int
    <3>1. 1 \in DOMAIN U /\ Len(U) \in DOMAIN U
      BY <2>1
    <3> QED
      BY <3>1, ValidInOrder
  <2>3. Len(times) \in Nat \ {0} /\ \A i \in DOMAIN times : times[i] \in Covered(U)
    BY <1>2, SeqFacts
  <2>4. \A i \in DOMAIN times : times[i] \in Int /\ U[1][1] <= times[i] /\ times[i] <= U[Len(U)][2]
    BY <2>3, CoveredIsInside
  <2>5. times \in Seq(Int)
    <3>1. times \in [1..Len(times) -> Int] /\ Len(times) \in Nat
      BY <2>3, <2>4
    <3> QED
      BY <3>1, IsASeq
  <2>6. n \in Nat \ {0}
    <3>1. Rounded(Len(times), interval) \in Int
      BY <2>3, RoundedType
    <3> QED
      BY <3>1 DEF AtLeast
  <2> HIDE DEF n
  <2>7. d \in Nat \ {0}
    <3> DEFINE a == Len(times) + n - 1
    <3>1. a \in Nat /\ a >= n
      BY <2>3, <2>6
    <3>2. a \div n \in Nat
      BY <2>6, <3>1, QuotientTimes
    <3>3. a \div n # 0
      <4> HIDE DEF a
      <4> QED
        BY <2>6, <3>1
    <3> QED
      BY <3>2, <3>3 DEF Ceiling
  <2> HIDE DEF d
  <2>8. /\ Chain(P, U[1][1], U[Len(U)][2])
        /\ Increasing(times) => \A i \in 2..Len(P) : P[i][1] <= P[i][2]
    BY <1>2, <2>2, <2>4, <2>5, <2>7, CalcChain
  <2>9. RangesForSamples(U, times, interval) = IntersectTimeRanges(P, U)
    BY <1>2, <2>1 DEF RangesForSamples, n, d, Last
  <2> HIDE DEF P
  <2> QED
    BY <2>8, <2>9, IntersectDivides
<1> QED
  BY <1>1, <1>2

\* One list for all CPUs, or one for each.
SplitFor(s, cpus, U, samples, perCpu) ==
  /\ \/ DOMAIN s = 1..1 /\ Len(s) = 1
     \/ DOMAIN s = DOMAIN cpus /\ Len(s) = Len(cpus)
  /\ \A i \in DOMAIN s : Divides(s[i], U, Len(U))
  /\ (\A i, j \in DOMAIN samples :
        i # j /\ (~perCpu \/ samples[i][1] = samples[j][1])
          => samples[i][2] # samples[j][2])
     => \A i \in DOMAIN s : NoneEmpty(s[i])

\* So does each list of SplitTimeRangesByTraceDataDensity.
LEMMA DensityDivides ==
  ASSUME NEW U, Valid(U), NEW cpus, cpus # <<>>, NEW S, cpus \in Seq(S), NEW nr \in Nat,
         NEW samples \in Seq(Int \X Covered(U)), NEW perCpu,
         \A i, j \in DOMAIN samples : i < j => samples[i][2] <= samples[j][2],
         NEW minSize \in Nat, NEW minInterval \in Nat, NEW nrJobCpus \in Nat \ {0}
  PROVE  SplitFor(SplitTimeRangesByTraceDataDensity(U, cpus, nr, samples, perCpu,
                    minSize, minInterval, nrJobCpus), cpus, U, samples, perCpu)
<1> DEFINE interval == AtLeast(IF nr > 0 THEN 1 ELSE AtLeast(1, minSize),
                               Rounded(Len(samples), IF nr > 0 THEN nr ELSE nrJobCpus))
           few == \A c \in Range(cpus) :
                    Len(TimesOf(samples, perCpu, c)) < AtLeast(1, minSize)
           times(i) == TimesOf(samples, perCpu, cpus[i])
           one == SplitTimeRangesIntoN(U, AtLeast(1, nr), minInterval)
           made == SplitTimeRangesByTraceDataDensity(U, cpus, nr, samples, perCpu,
                      minSize, minInterval, nrJobCpus)
           distinct == \A i, j \in DOMAIN samples :
                         i # j /\ (~perCpu \/ samples[i][1] = samples[j][1])
                           => samples[i][2] # samples[j][2]
<1>1. made = IF few THEN <<one>>
              ELSE [i \in DOMAIN cpus |-> RangesForSamples(U, times(i), interval)]
  BY DEF SplitTimeRangesByTraceDataDensity
<1>2. interval \in Nat \ {0}
  <2> DEFINE low == IF nr > 0 THEN 1 ELSE AtLeast(1, minSize)
             by == IF nr > 0 THEN nr ELSE nrJobCpus
  <2>1. low \in Nat \ {0} /\ by \in Nat \ {0} /\ Len(samples) \in Int
    BY DEF AtLeast
  <2> HIDE DEF low, by
  <2>2. Rounded(Len(samples), by) \in Int
    BY <2>1, RoundedType
  <2>3. AtLeast(low, Rounded(Len(samples), by)) \in Nat \ {0}
    BY <2>1, <2>2 DEF AtLeast
  <2> QED
    BY <2>3 DEF low, by
<1>3. CASE few
  <2>1. made = <<one>>
    BY <1>1, <1>3
  <2>2. AtLeast(1, nr) \in Nat \ {0}
    BY DEF AtLeast
  <2>3. Divides(one, U, Len(U)) /\ NoneEmpty(one)
    BY <2>2, IntoN
  <2> HIDE DEF one, made
  <2>4. DOMAIN made = 1..1 /\ Len(made) = 1 /\ made[1] = one
    BY <2>1
  <2>5. \A i \in DOMAIN made : Divides(made[i], U, Len(U)) /\ NoneEmpty(made[i])
    <3>1. \A i \in DOMAIN made : i = 1
      BY <2>4
    <3> QED
      BY <2>3, <2>4, <3>1, Zenon
  <2> HIDE DEF distinct
  <2>6. /\ \/ DOMAIN made = 1..1 /\ Len(made) = 1
           \/ DOMAIN made = DOMAIN cpus /\ Len(made) = Len(cpus)
        /\ \A i \in DOMAIN made : Divides(made[i], U, Len(U))
        /\ distinct => \A i \in DOMAIN made : NoneEmpty(made[i])
    BY <2>4, <2>5, Zenon
  <2> QED
    BY <2>6, Zenon DEF made, distinct, SplitFor
<1>4. CASE ~few
  <2>1. made = [i \in DOMAIN cpus |-> RangesForSamples(U, times(i), interval)]
    BY <1>1, <1>4
  <2>2. Covered(U) \in SUBSET Int
    BY CoveredIsInside
  <2>3. ASSUME NEW i \in DOMAIN cpus
        PROVE  /\ times(i) \in Seq(Covered(U)) /\ Ascending(times(i))
               /\ distinct => Increasing(times(i))
    BY <2>2, TimesInOrder
  <2> HIDE DEF times, interval, made, distinct
  <2>4. \A i \in DOMAIN cpus :
          /\ Divides(made[i], U, Len(U))
          /\ distinct => NoneEmpty(made[i])
    BY <1>2, <2>1, <2>3, SamplesDivide
  <2>5. DOMAIN made = DOMAIN cpus /\ DOMAIN cpus = 1..Len(cpus) /\ Len(cpus) \in Nat
    BY <2>1, SeqFacts
  <2>6. Len(made) = Len(cpus)
    BY <2>5
  <2> QED
    BY <2>4, <2>5, <2>6 DEF made, distinct, SplitFor
<1> QED
  BY <1>3, <1>4
-----------------------------------------------------------------------------
(* The shares of the samples.                                              *)

\* Between two cuts, and so in a range made for the samples of a CPU, are at most d + 1
\* of them.
LEMMA FewBetweenCuts ==
  ASSUME NEW lo \in Int, NEW hi \in Int, NEW times \in Seq(Int), times # <<>>,
         Increasing(times), NEW d \in Nat \ {0},
         NEW r \in Pairs,
         NEW k \in 1..Len(CalcTimeRangesByCPU(times, d, lo, hi)),
         Inside(r, CalcTimeRangesByCPU(times, d, lo, hi)[k])
  PROVE  /\ IsFiniteSet({i \in DOMAIN times : times[i] \in Times(r)})
         /\ Cardinality({i \in DOMAIN times : times[i] \in Times(r)}) <= d + 1
<1> DEFINE cuts == (Len(times) - 1) \div d
           P == CalcTimeRangesByCPU(times, d, lo, hi)
           S == {i \in DOMAIN times : times[i] \in Times(r)}
           a == (k - 1) * d
<1>1. /\ Len(times) \in Nat \ {0} /\ DOMAIN times = 1..Len(times)
      /\ \A i \in 1..Len(times) : times[i] \in Int
  BY SeqFacts
<1>2. cuts \in Nat /\ Len(times) - 1 < d * (cuts + 1) /\ d * cuts <= Len(times) - 1
  <2> DEFINE m == Len(times) - 1
  <2>1. m \in Nat
    BY <1>1
  <2> HIDE DEF m
  <2>2. m \div d \in Nat /\ d * (m \div d) <= m /\ m < d * ((m \div d) + 1)
    BY <2>1
  <2> QED
    BY <2>2 DEF m
<1>3. /\ Len(P) = cuts + 1
      /\ k \in 1..(cuts + 1)
      /\ P[k] = <<IF k = 1 THEN lo ELSE times[(k - 1) * d],
                  IF k = cuts + 1 THEN hi ELSE times[k * d] - 1>>
  <2>1. P = [l \in 1..(cuts + 1) |-> <<IF l = 1 THEN lo ELSE times[(l - 1) * d],
                                       IF l = cuts + 1 THEN hi ELSE times[l * d] - 1>>]
    BY DEF CalcTimeRangesByCPU
  <2> HIDE DEF P, cuts
  <2>2. Len(P) = cuts + 1
    BY <1>2, <2>1
  <2>3. k \in 1..(cuts + 1)
    BY <2>2 DEF P
  <2> QED
    BY <2>1, <2>2, <2>3
<1>4. /\ k = 1 \/ times[(k - 1) * d] <= r[1]
      /\ k = cuts + 1 \/ r[2] <= times[k * d] - 1
  <2>1. Inside(r, P[k])
    OBVIOUS
  <2> HIDE DEF P, cuts
  <2> QED
    BY <1>3, <2>1 DEF Inside
<1> HIDE DEF P, cuts
<1>5. k \in 1..(cuts + 1) /\ k - 1 \in Nat /\ k \in Nat /\ cuts \in Nat
  <2>1. k \in 1..(cuts + 1) /\ cuts \in Nat
    BY <1>2, <1>3
  <2> QED
    BY ONLY <2>1
<1>6. a \in Nat /\ k * d = a + d /\ k * d \in Nat
  <2>1. k \in Nat \ {0} /\ k - 1 \in Nat
    BY <1>2, <1>3
  <2>2. (k - 1) * d \in Nat /\ k * d = (k - 1) * d + d
    BY <2>1
  <2> QED
    BY <2>2
<1>7. k # 1 => a \in 1..Len(times)
  <2> SUFFICES ASSUME k # 1 PROVE a \in 1..Len(times)
    OBVIOUS
  <2>1. k - 1 \in 1..cuts
    BY ONLY <1>5, k # 1
  <2>2. 1 <= (k - 1) * d /\ (k - 1) * d <= d * cuts
    <3> DEFINE j == k - 1
    <3>1. j \in 1..cuts /\ cuts \in Nat
      BY <1>2, <2>1
    <3> HIDE DEF j
    <3>2. 1 * d <= j * d /\ j * d <= cuts * d
      <4>1. 1 \in Int /\ j \in Int /\ cuts \in Int /\ 1 <= j /\ j <= cuts /\ d \in Nat
        BY <3>1
      <4> QED
        BY <4>1, MultiplesInOrder
    <3>3. 1 <= j * d /\ j * d <= d * cuts
      BY <3>1, <3>2
    <3> QED
      BY <3>3 DEF j
  <2> DEFINE y == d * cuts
  <2>3. 1 <= a /\ a <= y /\ y <= Len(times) - 1 /\ y \in Int
    BY <1>2, <2>2
  <2> HIDE DEF a, y
  <2> QED
    BY ONLY <1>1, <1>6, <2>3
<1>8. k # cuts + 1 => k * d \in 1..Len(times)
  <2> SUFFICES ASSUME k # cuts + 1 PROVE k * d \in 1..Len(times)
    OBVIOUS
  <2>1. k \in 1..cuts
    BY ONLY <1>5, k # cuts + 1
  <2>2. 1 * d <= k * d /\ k * d <= cuts * d
    <3>1. 1 \in Int /\ k \in Int /\ cuts \in Int /\ 1 <= k /\ k <= cuts /\ d \in Nat
      BY <1>2, <2>1
    <3> QED
      BY <3>1, MultiplesInOrder
  <2> DEFINE y == d * cuts
             z == k * d
  <2>3. 1 <= z /\ z <= y /\ y <= Len(times) - 1 /\ y \in Int /\ z \in Int
    BY <1>2, <1>6, <2>2
  <2> HIDE DEF y, z
  <2>4. z \in 1..Len(times)
    BY ONLY <1>1, <2>3
  <2> QED
    BY <2>4 DEF z
<1>9. k = cuts + 1 => Len(times) <= a + d
  <2> SUFFICES ASSUME k = cuts + 1 PROVE Len(times) <= a + d
    OBVIOUS
  <2>1. k * d = d * (cuts + 1)
    BY <1>2
  <2>2. d * (cuts + 1) \in Int
    BY <1>2
  <2> DEFINE x == d * (cuts + 1)
             y == k * d
  <2> HIDE DEF x, y, a
  <2>3. y = x /\ Len(times) - 1 < x /\ y = a + d /\ x \in Int
    BY <1>2, <1>6, <2>1, <2>2 DEF x, y
  <2> QED
    BY <1>1, <1>6, <2>3
<1> DEFINE b == k * d
<1>10. S \in SUBSET (a..(a + d))
  <2> SUFFICES ASSUME NEW i \in S PROVE i \in a..(a + d)
    OBVIOUS
  <2>1. i \in 1..Len(times) /\ times[i] \in Times(r)
    BY <1>1
  <2>2. r[1] \in Int /\ r[2] \in Int
    BY DEF Pairs
  <2>3. times[i] \in Int /\ r[1] <= times[i] /\ times[i] <= r[2]
    BY <1>1, <2>1, <2>2 DEF Times
  <2>4. \A p, q \in 1..Len(times) : p < q => times[p] < times[q]
    BY <1>1 DEF Increasing
  <2> HIDE DEF S, a, b
  <2>5. a <= i
    <3>1. CASE k = 1
      <4>1. a = 0
        BY <3>1 DEF a
      <4> QED
        BY <2>1, <4>1
    <3>2. CASE k # 1
      <4>1. times[a] <= times[i] /\ a \in 1..Len(times) /\ times[a] \in Int
        <5>1. a \in 1..Len(times) /\ times[a] <= r[1]
          BY <1>4, <1>7, <3>2 DEF a
        <5>2. times[a] \in Int
          BY <1>1, <5>1
        <5> QED
          BY <2>2, <2>3, <5>1, <5>2
      <4>2. ~(i < a)
        BY <2>1, <2>3, <2>4, <4>1
      <4> QED
        BY <1>1, <2>1, <4>1, <4>2
    <3> QED
      BY <3>1, <3>2
  <2>6. i <= a + d
    <3>1. CASE k = cuts + 1
      BY <1>1, <1>6, <1>9, <2>1, <3>1
    <3>2. CASE k # cuts + 1
      <4>1. b \in 1..Len(times) /\ b = a + d /\ r[2] <= times[b] - 1
        BY <1>4, <1>6, <1>8, <3>2 DEF b
      <4>2. times[b] \in Int
        BY <1>1, <4>1
      <4>3. times[i] < times[b]
        BY <2>2, <2>3, <4>1, <4>2
      <4>4. ~(b < i)
        BY <2>1, <2>3, <2>4, <4>1, <4>2, <4>3
      <4> QED
        BY <1>1, <2>1, <4>1, <4>4
    <3> QED
      BY <3>1, <3>2
  <2> QED
    BY <1>1, <1>6, <2>1, <2>5, <2>6
<1>11. IsFiniteSet(a..(a + d)) /\ Cardinality(a..(a + d)) = d + 1
  <2> HIDE DEF a
  <2>1. a + d \in Int /\ a \in Int /\ ~(a > a + d) /\ (a + d) - a + 1 = d + 1
    BY <1>6
  <2> QED
    BY <2>1, FS_Interval
<1> HIDE DEF S
<1>12. IsFiniteSet(S) /\ Cardinality(S) <= Cardinality(a..(a + d))
  BY <1>10, <1>11, FS_Subset
<1> QED
  BY <1>11, <1>12 DEF S

\* The samples of S are as many as times; those in R are no more than the times in R.
Counted(S, times, samples, R) ==
  /\ Len(times) = Cardinality(S) /\ Cardinality(S) \in Nat
  /\ Cardinality({i \in S : samples[i][2] \in R})
       <= Cardinality({k \in DOMAIN times : times[k] \in R})
  /\ Cardinality({i \in S : samples[i][2] \in R}) \in Nat

\* Samples of one CPU, or of all, in a range are as many as their times there.
LEMMA SamplesCounted ==
  ASSUME NEW C \in SUBSET Int, NEW samples \in Seq(Int \X C), NEW perCpu, NEW cpu, NEW R,
         NEW S, S = {i \in DOMAIN samples : ~perCpu \/ samples[i][1] = cpu},
         NEW times, times = TimesOf(samples, perCpu, cpu)
  PROVE  Counted(S, times, samples, R)
<1> DEFINE mine == InOrder(S)
           n == Cardinality(S)
           D == {i \in S : samples[i][2] \in R}
           E == {k \in DOMAIN times : times[k] \in R}
           f == [k \in E |-> mine[k]]
           g == [k \in 1..n |-> mine[k]]
<1>1. S \in SUBSET (0..Len(samples)) /\ Len(samples) \in Nat
  <2>1. Len(samples) \in Nat /\ DOMAIN samples = 1..Len(samples)
    BY SeqFacts
  <2> QED
    BY <2>1
<1>2. /\ mine \in Seq(S) /\ Len(mine) = n /\ DOMAIN mine = 1..n /\ n \in Nat
      /\ \A i, j \in DOMAIN mine : i < j => mine[i] < mine[j]
  BY <1>1, InOrderExists
<1>3. times = [i \in DOMAIN mine |-> samples[mine[i]][2]]
  BY DEF TimesOf
<1> HIDE DEF mine, n
<1>4. \A k \in 1..n : mine[k] \in S /\ mine[k] \in Int
  <2>1. \A k \in 1..n : mine[k] \in S
    BY <1>2, SeqFacts
  <2> QED
    BY <1>1, <2>1
<1>5. DOMAIN times = 1..n /\ Len(times) = n /\ \A k \in 1..n : times[k] = samples[mine[k]][2]
  BY <1>2, <1>3
<1>6. IsFiniteSet(1..n) /\ Cardinality(1..n) = n
  <2>1. 1 \in Int /\ n \in Int /\ n \in Nat /\ n - 1 + 1 = n /\ (1 > n => n = 0)
    BY <1>2
  <2> QED
    BY <2>1, FS_Interval
<1>7. IsFiniteSet(S)
  <2>1. IsFiniteSet(0..Len(samples))
    BY <1>1, FS_Interval
  <2> QED
    BY <1>1, <2>1, FS_Subset
<1>8. g \in Surjection(1..n, S)
  <2>1. g \in [1..n -> S]
    BY <1>4
  <2>2. \A i, j \in 1..n : g[i] = g[j] => i = j
    <3>1. ASSUME NEW i \in 1..n, NEW j \in 1..n, i < j PROVE g[i] # g[j]
      <4>1. mine[i] < mine[j] /\ mine[i] \in Int /\ mine[j] \in Int
        BY <1>2, <1>4, <3>1
      <4>2. g[i] = mine[i] /\ g[j] = mine[j]
        OBVIOUS
      <4> HIDE DEF g
      <4> QED
        BY <4>1, <4>2
    <3>2. \A i, j \in 1..n : i = j \/ i < j \/ j < i
      BY <1>2
    <3> HIDE DEF g
    <3> QED
      BY <3>1, <3>2
  <2> HIDE DEF g
  <2>3. g \in Injection(1..n, S)
    BY <2>1, <2>2 DEF Injection, IsInjective
  <2>4. Cardinality(1..n) = Cardinality(S)
    BY <1>6 DEF n
  <2> DEFINE N == 1..n
  <2> HIDE DEF N
  <2>5. g \in Injection(N, S) /\ Cardinality(N) = Cardinality(S) /\ IsFiniteSet(S)
    BY <1>7, <2>3, <2>4 DEF N
  <2>6. g \in Surjection(N, S)
    BY ONLY <2>5, FS_Injection
  <2> QED
    BY <2>6 DEF N
<1>9. \A i \in S : \E k \in 1..n : mine[k] = i
  BY <1>8 DEF Surjection
<1>10. f \in Surjection(E, D)
  <2>1. \A k \in E : k \in 1..n /\ mine[k] \in D
    BY <1>4, <1>5
  <2>2. f \in [E -> D]
    BY <2>1
  <2>3. ASSUME NEW i \in D PROVE \E k \in E : f[k] = i
    <3>1. PICK k \in 1..n : mine[k] = i
      BY <1>9
    <3>2. k \in E
      BY <1>5, <3>1
    <3> QED
      BY <3>1, <3>2
  <2> HIDE DEF f, E, D
  <2> QED
    BY <2>2, <2>3 DEF Surjection
<1>11. IsFiniteSet(E)
  <2>1. E \in SUBSET (1..n)
    BY <1>5
  <2> HIDE DEF E
  <2> QED
    BY <1>6, <2>1, FS_Subset
<1> HIDE DEF f, E, D
<1>12. Cardinality(D) <= Cardinality(E) /\ IsFiniteSet(D)
  BY <1>10, <1>11, FS_Surjection
<1>13. Cardinality(D) \in Nat
  BY <1>12, FS_CardinalityType
<1> QED
  BY <1>2, <1>5, <1>12, <1>13 DEF n, D, E, Counted

\* No range made for samples gets more than one above the share they were divided into.
LEMMA RangesAreEven ==
  ASSUME NEW U, Valid(U), NEW times \in Seq(Covered(U)), Ascending(times), Increasing(times),
         NEW interval \in Nat \ {0},
         NEW i \in 1..Len(RangesForSamples(U, times, interval))
  PROVE  LET r == RangesForSamples(U, times, interval)[i]
             d == Ceiling(Len(times), AtLeast(1, Rounded(Len(times), interval)))
         IN  /\ d \in Nat
             /\ Cardinality({k \in DOMAIN times : times[k] \in Times(r)}) <= d + 1
<1> DEFINE n == AtLeast(1, Rounded(Len(times), interval))
           d == Ceiling(Len(times), n)
           P == CalcTimeRangesByCPU(times, d, U[1][1], U[Len(U)][2])
           L == RangesForSamples(U, times, interval)
           S == {k \in DOMAIN times : times[k] \in Times(L[i])}
<1>1. Len(times) \in Nat
  BY SeqFacts
<1>2. n \in Nat \ {0}
  <2>1. Rounded(Len(times), interval) \in Int
    BY <1>1, RoundedType
  <2> QED
    BY <2>1 DEF AtLeast
<1> HIDE DEF n
<1>3. d \in Nat
  <2>1. Len(times) + n - 1 \in Nat
    BY <1>1, <1>2
  <2> QED
    BY <1>2, <2>1, QuotientTimes DEF Ceiling
<1>4. CASE times = <<>>
  <2>1. DOMAIN times = {}
    BY <1>4
  <2>2. S = {}
    BY <2>1
  <2>3. Cardinality(S) = 0
    BY <2>2, FS_EmptySet
  <2> HIDE DEF d, S
  <2>4. Cardinality(S) <= d + 1
    BY <1>3, <2>3
  <2> QED
    BY <1>3, <2>4 DEF d, n, S
<1>5. CASE times # <<>>
  <2>1. /\ U \in Seq(Pairs) /\ Len(U) \in Nat /\ DOMAIN U = 1..Len(U) /\ Len(U) >= 1 /\ U # <<>>
    BY SeqFacts DEF Valid
  <2>2. U[1][1] \in Int /\ U[Len(U)][2] \in Int
    <3>1. 1 \in DOMAIN U /\ Len(U) \in DOMAIN U
      BY <2>1
    <3> QED
      BY <3>1, ValidInOrder
  <2>3. Len(times) \in Nat \ {0} /\ \A k \in DOMAIN times : times[k] \in Covered(U)
    BY <1>5, SeqFacts
  <2>4. \A k \in DOMAIN times : times[k] \in Int /\ U[1][1] <= times[k] /\ times[k] <= U[Len(U)][2]
    BY <2>3, CoveredIsInside
  <2>5. times \in Seq(Int)
    <3>1. times \in [1..Len(times) -> Int] /\ Len(times) \in Nat
      BY <2>3, <2>4
    <3> QED
      BY <3>1, IsASeq
  <2>6. d \in Nat \ {0}
    <3> DEFINE a == Len(times) + n - 1
    <3>1. a \in Nat /\ a >= n
      BY <1>2, <2>3
    <3>2. a \div n # 0
      <4> HIDE DEF a
      <4> QED
        BY <1>2, <3>1
    <3> QED
      BY <1>3, <3>2 DEF Ceiling
  <2> HIDE DEF d
  <2>7. Chain(P, U[1][1], U[Len(U)][2])
    BY <1>5, <2>2, <2>4, <2>5, <2>6, CalcChain
  <2>8. L = IntersectTimeRanges(P, U)
    BY <1>5, <2>1 DEF RangesForSamples, n, d, Last
  <2>9. Finer(L, P)
    BY <2>7, <2>8, IntersectFiner
  <2>10. PICK k \in 1..Len(P) : Inside(L[i], P[k])
    <3> HIDE DEF P
    <3> QED
      BY <2>9 DEF Finer
  <2>11. L[i] \in Pairs
    <3>1. Divides(L, U, Len(U))
      BY <2>7, <2>8, IntersectDivides
    <3>2. L \in Seq(Pairs)
      BY <3>1 DEF Divides
    <3> HIDE DEF L
    <3> QED
      BY <3>2, SeqFacts DEF L
  <2> HIDE DEF L
  <2>12. Cardinality({l \in DOMAIN times : times[l] \in Times(L[i])}) <= d + 1
    BY <1>5, <2>2, <2>5, <2>6, <2>10, <2>11, FewBetweenCuts
  <2> QED
    BY <1>3, <2>12 DEF L, d, n
<1> QED
  BY <1>4, <1>5
-----------------------------------------------------------------------------
(* RecombineTimeRanges                                                     *)

Combine(acc, r) ==
  IF acc # <<>> /\ Last(acc)[2] + 1 = r[1]
  THEN [acc EXCEPT ![Len(acc)][2] = r[2]]
  ELSE Append(acc, r)

\* The first k ranges of U, the last of them up to e.
UpTo(U, k, e) == [j \in 1..k |-> IF j = k THEN <<U[k][1], e>> ELSE U[j]]

\* Combining gives a list of ranges.
LEMMA CombineType ==
  ASSUME NEW acc \in Seq(Pairs), NEW r \in Pairs
  PROVE  Combine(acc, r) \in Seq(Pairs)
<1> DEFINE n == Len(acc)
<1>1. n \in Nat /\ DOMAIN acc = 1..n /\ (\A i \in 1..n : acc[i] \in Pairs)
      /\ (acc # <<>> => n \in 1..n)
  BY SeqFacts
<1>2. CASE acc # <<>> /\ Last(acc)[2] + 1 = r[1]
  <2>1. Combine(acc, r) = [acc EXCEPT ![n] = [acc[n] EXCEPT ![2] = r[2]]]
    BY <1>2 DEF Combine
  <2>2. [acc[n] EXCEPT ![2] = r[2]] \in Pairs
    <3> DEFINE a == acc[n][1]
               b == acc[n][2]
               e == r[2]
    <3>1. acc[n] = <<a, b>> /\ a \in Int /\ e \in Int
      <4>1. acc[n] \in Pairs
        BY <1>1, <1>2
      <4> QED
        BY <4>1 DEF Pairs
    <3>2. [acc[n] EXCEPT ![2] = r[2]] = <<a, e>>
      <4>1. [<<a, b>> EXCEPT ![2] = e] = <<a, e>>
        OBVIOUS
      <4> QED
        BY <3>1, <4>1
    <3> HIDE DEF a, b, e
    <3>3. <<a, e>> \in Pairs
      BY <3>1 DEF Pairs
    <3> QED
      BY <3>2, <3>3
  <2> DEFINE x == [acc[n] EXCEPT ![2] = r[2]]
  <2> HIDE DEF x, n
  <2>3. [acc EXCEPT ![n] = x] \in [1..n -> Pairs]
    BY <1>1, <2>2 DEF x
  <2>4. [acc EXCEPT ![n] = x] \in Seq(Pairs)
    BY <1>1, <2>3, IsASeq
  <2> QED
    BY <2>1, <2>4 DEF x
<1>3. CASE ~(acc # <<>> /\ Last(acc)[2] + 1 = r[1])
  <2>1. Combine(acc, r) = Append(acc, r)
    BY <1>3 DEF Combine
  <2> QED
    BY <2>1
<1> QED
  BY <1>2, <1>3

\* So is the beginning of U.
LEMMA UpToType ==
  ASSUME NEW U, Valid(U), NEW k \in DOMAIN U, NEW e \in Int
  PROVE  /\ UpTo(U, k, e) \in Seq(Pairs) /\ Len(UpTo(U, k, e)) = k /\ UpTo(U, k, e) # <<>>
         /\ k \in Nat \ {0} /\ DOMAIN UpTo(U, k, e) = 1..k
         /\ UpTo(U, k, e)[k] = <<U[k][1], e>>
<1> DEFINE s == UpTo(U, k, e)
<1>1. /\ \A i \in DOMAIN U : U[i] \in Pairs /\ U[i][1] \in Int
      /\ Len(U) \in Nat /\ DOMAIN U = 1..Len(U)
  BY ValidInOrder, SeqFacts DEF Valid
<1>2. k \in Nat \ {0} /\ k \in 1..k /\ \A i \in 1..k : i \in DOMAIN U
  BY <1>1
<1>3. s \in [1..k -> Pairs]
  <2>1. \A j \in 1..k : (IF j = k THEN <<U[k][1], e>> ELSE U[j]) \in Pairs
    BY <1>1, <1>2 DEF Pairs
  <2> QED
    BY <2>1 DEF UpTo
<1>4. s[k] = <<U[k][1], e>>
  BY <1>2 DEF UpTo
<1> HIDE DEF s
<1>5. s \in Seq(Pairs) /\ DOMAIN s = 1..k
  BY <1>2, <1>3, IsASeq
<1>6. Len(s) = k
  BY <1>2, <1>5
<1> QED
  BY <1>2, <1>4, <1>5, <1>6, SeqFacts DEF s

\* A range that ends where it began goes on with the next one.
LEMMA CombineSame ==
  ASSUME NEW U, Valid(U), NEW k \in DOMAIN U, NEW e \in Int, NEW r \in Pairs, r[1] = e + 1
  PROVE  Combine(UpTo(U, k, e), r) = UpTo(U, k, r[2])
<1> DEFINE s == UpTo(U, k, e)
           t == UpTo(U, k, r[2])
<1>1. /\ s \in Seq(Pairs) /\ Len(s) = k /\ s # <<>> /\ k \in Nat \ {0} /\ DOMAIN s = 1..k
      /\ s[k] = <<U[k][1], e>>
  BY UpToType
<1>2. Last(s)[2] + 1 = r[1]
  BY <1>1 DEF Last
<1>3. Combine(s, r) = [s EXCEPT ![k] = [s[k] EXCEPT ![2] = r[2]]]
  BY <1>1, <1>2 DEF Combine
<1>4. [s[k] EXCEPT ![2] = r[2]] = <<U[k][1], r[2]>>
  BY <1>1
<1>5. [s EXCEPT ![k] = <<U[k][1], r[2]>>] = t
  BY DEF UpTo
<1> QED
  BY <1>3, <1>4, <1>5

\* The next range of U begins after a gap.
LEMMA CombineNext ==
  ASSUME NEW U, Valid(U), NEW k \in DOMAIN U, k + 1 \in DOMAIN U,
         U[k][2] + 1 # U[k + 1][1],
         NEW r \in Pairs, r[1] = U[k + 1][1]
  PROVE  Combine(UpTo(U, k, U[k][2]), r) = UpTo(U, k + 1, r[2])
<1> DEFINE s == UpTo(U, k, U[k][2])
           t == UpTo(U, k + 1, r[2])
<1>1. /\ \A i \in DOMAIN U : U[i] \in Pairs /\ U[i][1] \in Int /\ U[i][2] \in Int
      /\ Len(U) \in Nat /\ DOMAIN U = 1..Len(U)
  BY ValidInOrder, SeqFacts DEF Valid
<1>2. /\ s \in Seq(Pairs) /\ Len(s) = k /\ s # <<>> /\ k \in Nat \ {0} /\ DOMAIN s = 1..k
      /\ s[k] = <<U[k][1], U[k][2]>>
  <2>1. U[k][2] \in Int
    BY <1>1
  <2> QED
    BY <2>1, UpToType
<1>3. r[2] \in Int /\ r = <<r[1], r[2]>>
  BY DEF Pairs
<1>4. t \in Seq(Pairs) /\ Len(t) = k + 1 /\ DOMAIN t = 1..(k + 1) /\ t[k + 1] = <<U[k + 1][1], r[2]>>
  BY <1>3, UpToType
<1>5. Combine(s, r) = Append(s, r)
  BY <1>2 DEF Combine, Last
<1>6. \A j \in 1..k : s[j] = U[j]
  <2> SUFFICES ASSUME NEW j \in 1..k PROVE s[j] = U[j]
    OBVIOUS
  <2>1. j # k => s[j] = U[j]
    BY DEF UpTo
  <2>2. U[k] = <<U[k][1], U[k][2]>>
    <3>1. U[k] \in Pairs
      BY <1>1
    <3> QED
      BY <3>1 DEF Pairs
  <2> QED
    BY <1>2, <2>1, <2>2
<1>7. \A j \in 1..k : t[j] = U[j]
  <2> SUFFICES ASSUME NEW j \in 1..k PROVE t[j] = U[j]
    OBVIOUS
  <2>1. j \in 1..(k + 1) /\ j # k + 1
    BY <1>2
  <2> QED
    BY <2>1 DEF UpTo
<1> HIDE DEF s, t
<1> DEFINE u == Append(s, r)
<1>8. u \in Seq(Pairs) /\ Len(u) = k + 1 /\ u[k + 1] = r /\ \A j \in 1..k : u[j] = s[j]
  BY <1>2
<1> HIDE DEF u
<1>9. DOMAIN u = 1..(k + 1)
  BY <1>8
<1>10. \A j \in 1..(k + 1) : u[j] = t[j]
  <2>1. \A j \in 1..(k + 1) : j \in 1..k \/ j = k + 1
    BY <1>2
  <2> QED
    BY <1>3, <1>4, <1>6, <1>7, <1>8, <2>1
<1>11. u = t
  BY <1>4, <1>8, <1>9, <1>10
<1> QED
  BY <1>5, <1>11 DEF s, t, u

\* A range of a division is in one range of U only.
LEMMA InOneOnly ==
  ASSUME NEW U, Valid(U), NEW t \in Int, NEW k \in DOMAIN U, NEW l \in DOMAIN U,
         U[k][1] <= t, t <= U[k][2], U[l][1] <= t, t <= U[l][2]
  PROVE  k = l
<1>1. /\ \A i \in DOMAIN U : U[i][1] \in Int /\ U[i][2] \in Int
      /\ \A i, j \in DOMAIN U : i < j => U[i][2] < U[j][1]
      /\ Len(U) \in Nat /\ DOMAIN U = 1..Len(U)
  BY ValidInOrder, SeqFacts DEF Valid
<1>2. k < l \/ l < k \/ k = l
  BY <1>1
<1>3. ~(k < l)
  BY <1>1
<1>4. ~(l < k)
  BY <1>1
<1> QED
  BY <1>2, <1>3, <1>4

\* Put together, a division of ranges with gaps between them is the ranges.
LEMMA Recombined ==
  ASSUME NEW U, Valid(U), \A i \in 2..Len(U) : U[i - 1][2] + 1 # U[i][1],
         NEW L, Divides(L, U, Len(U))
  PROVE  RecombineTimeRanges(L) = U
<1> DEFINE n == Len(L)
           A == Seq(Pairs)
           Step(x, i) == CHOOSE y \in {Combine(v, L[i]) : v \in {x}} : TRUE
           g == [i \in 1..n |-> [x \in A |-> Combine(x, L[i])]]
           Folds(f) == f = [i \in 0..n |-> IF i = 0 THEN <<>> ELSE Step(f[i - 1], i)]
           sum == CHOOSE f : Folds(f)
<1>1. /\ n \in Nat \ {0} /\ DOMAIN L = 1..n /\ n \in DOMAIN L /\ 1 \in DOMAIN L
      /\ \A i \in 1..n : L[i] \in Pairs /\ L[i][1] \in Int /\ L[i][2] \in Int
  BY EndsLast
<1>2. RecombineTimeRanges(L) = sum[n]
  BY DEF RecombineTimeRanges, Fold, Combine
<1>3. \A x, i : Step(x, i) = Combine(x, L[i])
  OBVIOUS
<1>4. g \in [1..n -> [A -> A]]
  BY <1>1, CombineType
<1> HIDE DEF Step, A, n
<1>5. PICK f \in [0..n -> A] : Stepwise(f, n, <<>>, g)
  <2> HIDE DEF g
  <2>1. <<>> \in A
    BY DEF A
  <2> QED
    BY <1>1, <1>4, <2>1, StepByStep, Zenon
<1>6. ASSUME NEW i \in 1..n PROVE f[i] = Step(f[i - 1], i)
  <2>1. i - 1 \in 0..n /\ f[i - 1] \in A
    <3>1. i - 1 \in 0..n
      BY <1>1
    <3> QED
      BY <3>1
  <2>2. g[i][f[i - 1]] = Combine(f[i - 1], L[i])
    BY <2>1
  <2> QED
    BY <1>3, <1>5, <2>2 DEF Stepwise
<1>7. Folds(f)
  <2> DEFINE v(i) == IF i = 0 THEN <<>> ELSE Step(f[i - 1], i)
  <2>1. \A i \in 0..n : i = 0 \/ i \in 1..n
    BY <1>1
  <2>2. \A i \in 0..n : f[i] = v(i)
    BY <1>5, <1>6, <2>1 DEF Stepwise
  <2> HIDE DEF v
  <2>3. f = [i \in 0..n |-> v(i)]
    BY <1>5, <2>2
  <2> QED
    BY <2>3 DEF v
<1>8. Folds(sum)
  BY <1>7
<1>9. \A i \in 0..n : sum[i] = IF i = 0 THEN <<>> ELSE Step(sum[i - 1], i)
  BY <1>8
<1> HIDE DEF sum, Folds
<1>10. sum[0] = <<>> /\ \A i \in 1..n : sum[i] = Combine(sum[i - 1], L[i])
  <2>1. \A i \in 1..n : i \in 0..n /\ i # 0
    BY <1>1
  <2>2. 0 \in 0..n
    BY <1>1
  <2> QED
    BY <1>3, <1>9, <2>1, <2>2
<1>11. /\ \A i \in DOMAIN U : U[i] \in Pairs /\ U[i][1] \in Int /\ U[i][2] \in Int /\ U[i][1] <= U[i][2]
       /\ Len(U) \in Nat \ {0} /\ DOMAIN U = 1..Len(U) /\ 1 \in DOMAIN U /\ Len(U) \in DOMAIN U
  BY ValidInOrder, SeqFacts DEF Valid
<1>12. ASSUME NEW i \in 1..n, NEW k \in DOMAIN U, NEW l \in DOMAIN U,
              Within(L[i], U[k]), Within(L[i], U[l])
       PROVE  k = l
  <2>1. L[i][1] \in Int /\ U[k][1] <= L[i][1] /\ L[i][1] <= U[k][2]
        /\ U[l][1] <= L[i][1] /\ L[i][1] <= U[l][2]
    BY <1>1, <1>12 DEF Within
  <2> QED
    BY <2>1, InOneOnly
<1> DEFINE Ok(i) == \E k \in DOMAIN U : Within(L[i], U[k]) /\ sum[i] = UpTo(U, k, L[i][2])
           T == {i \in Nat : Ok(i)}
<1>13. 1 \in T
  <2>1. PICK k \in DOMAIN U : Within(L[1], U[k])
    BY <1>1, <1>11 DEF Divides
  <2>2. L[1][1] = U[1][1]
    BY DEF Divides
  <2>3. k = 1
    <3>1. U[1][1] \in Int /\ U[k][1] <= U[1][1] /\ U[1][1] <= U[k][2] /\ U[1][1] <= U[1][1]
          /\ U[1][1] <= U[1][2]
      BY <1>11, <2>1, <2>2 DEF Within
    <3> QED
      BY <1>11, <3>1, InOneOnly
  <2>4. sum[1] = Combine(<<>>, L[1])
    <3>1. 1 \in 1..n /\ 1 - 1 = 0
      BY <1>1
    <3> QED
      BY <1>10, <3>1
  <2>5. Combine(<<>>, L[1]) = <<L[1]>>
    BY DEF Combine
  <2>6. L[1] = <<L[1][1], L[1][2]>>
    <3>1. L[1] \in Pairs
      BY <1>1
    <3> QED
      BY <3>1 DEF Pairs
  <2>7. UpTo(U, 1, L[1][2]) = <<<<U[1][1], L[1][2]>>>>
    <3>1. UpTo(U, 1, L[1][2]) = [j \in 1..1 |-> <<U[1][1], L[1][2]>>]
      BY DEF UpTo
    <3> QED
      BY <3>1
  <2> QED
    BY <1>11, <2>1, <2>2, <2>3, <2>4, <2>5, <2>6, <2>7
<1>14. ASSUME NEW i \in 1..(n - 1), i \in T PROVE i + 1 \in T
  <2>1. i + 1 \in 1..n /\ i \in 1..n /\ (i + 1) - 1 = i /\ i + 1 \in Nat
    BY <1>1
  <2>2. PICK k \in DOMAIN U : Within(L[i], U[k]) /\ sum[i] = UpTo(U, k, L[i][2])
    BY <1>14
  <2>3. sum[i + 1] = Combine(sum[i], L[i + 1])
    BY <1>10, <2>1
  <2>4. Joined(L[i], L[i + 1], U)
    BY <1>1, <2>1 DEF Divides
  <2>5. PICK l \in DOMAIN U :
          /\ Within(L[i], U[l])
          /\ \/ Within(L[i + 1], U[l]) /\ L[i + 1][1] = L[i][2] + 1
             \/ /\ l + 1 \in DOMAIN U /\ Within(L[i + 1], U[l + 1])
                /\ L[i][2] = U[l][2] /\ L[i + 1][1] = U[l + 1][1]
    BY <2>4 DEF Joined
  <2>6. k = l
    BY <1>12, <2>1, <2>2, <2>5
  <2>7. L[i + 1] \in Pairs /\ L[i][2] \in Int
    BY <1>1, <2>1
  <2>8. CASE Within(L[i + 1], U[l]) /\ L[i + 1][1] = L[i][2] + 1
    <3>1. sum[i + 1] = UpTo(U, k, L[i + 1][2])
      BY <2>2, <2>3, <2>7, <2>8, CombineSame
    <3> QED
      BY <2>1, <2>6, <2>8, <3>1
  <2>9. CASE /\ l + 1 \in DOMAIN U /\ Within(L[i + 1], U[l + 1])
             /\ L[i][2] = U[l][2] /\ L[i + 1][1] = U[l + 1][1]
    <3>1. U[k][2] + 1 # U[k + 1][1]
      <4>1. k + 1 \in 2..Len(U) /\ (k + 1) - 1 = k
        BY <1>11, <2>6, <2>9
      <4> QED
        BY <4>1
    <3>2. Combine(UpTo(U, k, U[k][2]), L[i + 1]) = UpTo(U, k + 1, L[i + 1][2])
      BY <2>6, <2>7, <2>9, <3>1, CombineNext
    <3> QED
      BY <2>1, <2>2, <2>3, <2>6, <2>9, <3>2
  <2> QED
    BY <2>5, <2>8, <2>9
<1>15. n \in T
  <2> HIDE DEF T
  <2>1. 1 \in Nat /\ n \in 1..n
    BY <1>1
  <2> QED
    BY <1>1, <1>13, <1>14, <2>1, Reaches
<1>16. PICK k \in DOMAIN U : Within(L[n], U[k]) /\ sum[n] = UpTo(U, k, L[n][2])
  BY <1>15
<1>17. L[n][2] = U[Len(U)][2] /\ Within(L[n], U[Len(U)])
  BY DEF Divides, n
<1>18. k = Len(U)
  BY <1>1, <1>11, <1>12, <1>16, <1>17
<1>19. UpTo(U, Len(U), U[Len(U)][2]) = U
  <2> DEFINE m == Len(U)
             s == UpTo(U, m, U[m][2])
  <2>1. s \in Seq(Pairs) /\ DOMAIN s = 1..m /\ Len(s) = m
    BY <1>11, UpToType
  <2>2. \A j \in 1..m : s[j] = U[j]
    <3> SUFFICES ASSUME NEW j \in 1..m PROVE s[j] = U[j]
      OBVIOUS
    <3>1. U[j] = <<U[j][1], U[j][2]>>
      <4>1. U[j] \in Pairs
        BY <1>11
      <4> QED
        BY <4>1 DEF Pairs
    <3> QED
      BY <3>1 DEF UpTo
  <2> HIDE DEF s
  <2>3. U \in Seq(Pairs)
    BY DEF Valid
  <2>4. s = U
    BY <1>11, <2>1, <2>2, <2>3
  <2> QED
    BY <2>4 DEF s
<1> QED
  BY <1>2, <1>16, <1>17, <1>18, <1>19
-----------------------------------------------------------------------------
(* What a division and OpenTimeRangeEnds leave of the moments.             *)

\* Every moment of U is in one of the ranges.
LEMMA NoneMissing ==
  ASSUME NEW U, Valid(U), NEW L, Divides(L, U, Len(U)), NEW t \in Covered(U)
  PROVE  \E i \in DOMAIN L : t \in Times(L[i])
<1> SUFFICES ASSUME \A i \in DOMAIN L : t \notin Times(L[i]) PROVE FALSE
  OBVIOUS
<1> DEFINE n == Len(L)
<1>1. /\ n \in Nat \ {0} /\ DOMAIN L = 1..n /\ n \in DOMAIN L /\ 1 \in DOMAIN L
      /\ \A i \in 1..n : L[i][1] \in Int /\ L[i][2] \in Int
  BY EndsLast
<1>2. /\ \A i \in DOMAIN U : U[i][1] \in Int /\ U[i][2] \in Int /\ U[i][1] <= U[i][2]
      /\ \A i, j \in DOMAIN U : i < j => U[i][2] < U[j][1]
      /\ Len(U) \in Nat /\ DOMAIN U = 1..Len(U)
  BY ValidInOrder, SeqFacts DEF Valid
<1>3. t \in Int /\ U[1][1] <= t /\ t <= U[Len(U)][2]
  BY CoveredIsInside
<1>4. PICK k \in DOMAIN U : U[k][1] <= t /\ t <= U[k][2]
  BY <1>2 DEF Covered, Times
<1>5. \A i \in 1..n : L[i][1] <= t => L[i][2] < t
  BY <1>1, <1>3 DEF Times
<1> DEFINE T == {i \in Nat : L[i][2] < t}
<1>6. 1 \in T
  <2>1. L[1][1] = U[1][1]
    BY DEF Divides
  <2> QED
    BY <1>1, <1>3, <1>5, <2>1
<1> HIDE DEF n
<1>7. ASSUME NEW i \in 1..(n - 1), i \in T PROVE i + 1 \in T
  <2>1. i + 1 \in 1..n /\ i \in 1..n /\ i + 1 \in Nat
    BY <1>1
  <2>2. PICK l \in DOMAIN U :
          /\ Within(L[i], U[l])
          /\ \/ Within(L[i + 1], U[l]) /\ L[i + 1][1] = L[i][2] + 1
             \/ /\ l + 1 \in DOMAIN U /\ Within(L[i + 1], U[l + 1])
                /\ L[i][2] = U[l][2] /\ L[i + 1][1] = U[l + 1][1]
    BY <1>1, <2>1 DEF Divides, Joined
  <2>3. L[i][2] < t /\ L[i][2] \in Int
    BY <1>1, <1>7, <2>1
  <2>4. L[i + 1][1] <= t
    <3>1. CASE L[i + 1][1] = L[i][2] + 1
      BY <1>3, <2>3, <3>1
    <3>2. CASE l + 1 \in DOMAIN U /\ L[i][2] = U[l][2] /\ L[i + 1][1] = U[l + 1][1]
      <4>1. U[l][2] < t
        BY <2>3, <3>2
      <4>2. ~(k < l) /\ k # l
        <5>1. k # l
          BY <1>2, <1>3, <1>4, <4>1
        <5>2. ~(k < l)
          <6>1. /\ U[k][2] \in Int /\ U[l][1] \in Int /\ U[l][2] \in Int /\ U[l][1] <= U[l][2]
            BY <1>2
          <6>2. k < l => U[k][2] < U[l][1]
            BY <1>2
          <6> QED
            BY <1>3, <1>4, <4>1, <6>1, <6>2
        <5> QED
          BY <5>1, <5>2
      <4>3. l + 1 = k \/ l + 1 < k
        BY <1>2, <4>2
      <4>4. U[l + 1][1] <= U[k][1]
        BY <1>2, <3>2, <4>3
      <4>5. U[l + 1][1] \in Int /\ U[k][1] \in Int
        BY <1>2, <3>2
      <4> QED
        BY <1>3, <1>4, <3>2, <4>4, <4>5
    <3> QED
      BY <2>2, <3>1, <3>2
  <2> QED
    BY <1>5, <2>1, <2>4
<1>8. n \in T
  <2> HIDE DEF T
  <2>1. 1 \in Nat /\ n \in 1..n
    BY <1>1
  <2> QED
    BY <1>1, <1>6, <1>7, <2>1, Reaches
<1>9. L[n][2] = U[Len(U)][2]
  BY DEF Divides, n
<1>10. L[n][2] \in Int
  BY <1>1
<1> QED
  BY <1>3, <1>8, <1>9, <1>10

\* No moment is in two of the ranges, and none that is not in U.
LEMMA NoneTwice ==
  ASSUME NEW U, Valid(U), NEW L, Divides(L, U, Len(U)), NEW t,
         NEW i \in DOMAIN L, t \in Times(L[i])
  PROVE  /\ t \in Covered(U)
         /\ \A j \in DOMAIN L : t \in Times(L[j]) => i = j
<1>1. /\ Len(L) \in Nat \ {0} /\ DOMAIN L = 1..Len(L)
      /\ \A j \in DOMAIN L : L[j][1] \in Int /\ L[j][2] \in Int
  BY EndsLast
<1>2. \A j, k \in DOMAIN L : j < k => L[j][2] < L[k][1]
  BY DEF Divides
<1>3. t \in Int /\ L[i][1] <= t /\ t <= L[i][2]
  BY <1>1 DEF Times
<1>4. ASSUME NEW j \in DOMAIN L, t \in Times(L[j]) PROVE i = j
  <2>1. L[j][1] <= t /\ t <= L[j][2]
    BY <1>1, <1>4 DEF Times
  <2>2. ~(i < j) /\ ~(j < i)
    BY <1>1, <1>2, <1>3, <2>1
  <2> QED
    BY <1>1, <2>2
<1>5. t \in Covered(U)
  <2>1. PICK k \in 1..Len(U) : Within(L[i], U[k])
    BY DEF Divides
  <2>2. k \in DOMAIN U /\ U[k][1] \in Int /\ U[k][2] \in Int
    BY ValidInOrder, SeqFacts DEF Valid
  <2>3. t \in U[k][1]..U[k][2]
    BY <1>1, <1>3, <2>1, <2>2 DEF Within
  <2> QED
    BY <2>2, <2>3 DEF Covered, Times
<1> QED
  BY <1>4, <1>5

\* Only the first start and the last end are opened, and only at an end of the recording.
Opens(O, L, lo, hi) ==
  /\ DOMAIN O = DOMAIN L /\ Len(O) = Len(L)
  /\ \A i \in DOMAIN L :
       /\ O[i] \in Int \X Int
       /\ O[i][1] = L[i][1] \/ (i = 1 /\ O[i][1] = None /\ L[i][1] <= lo)
       /\ O[i][2] = L[i][2] \/ (i = Len(L) /\ O[i][2] = None /\ L[i][2] >= hi)

\* OpenTimeRangeEnds does that.
LEMMA EndsOpened ==
  ASSUME NEW L \in Seq(Pairs), L # <<>>, NEW lo, NEW hi
  PROVE  Opens(OpenTimeRangeEnds(L, lo, hi), L, lo, hi)
<1> DEFINE n == Len(L)
           low == IF L[1][1] <= lo THEN [L EXCEPT ![1][1] = None] ELSE L
           O == OpenTimeRangeEnds(L, lo, hi)
<1>1. n \in Nat \ {0} /\ DOMAIN L = 1..n /\ (\A i \in 1..n : L[i] \in Pairs) /\ 1 \in 1..n /\ n \in 1..n
  BY SeqFacts
<1>2. /\ \A p \in Pairs : /\ [p EXCEPT ![1] = None] \in Pairs
                          /\ [p EXCEPT ![1] = None][1] = None
                          /\ [p EXCEPT ![1] = None][2] = p[2]
      /\ \A p \in Pairs : /\ [p EXCEPT ![2] = None] \in Pairs
                          /\ [p EXCEPT ![2] = None][2] = None
                          /\ [p EXCEPT ![2] = None][1] = p[1]
  BY DEF Pairs, None
<1>3. O = IF L[n][2] >= hi THEN [low EXCEPT ![n][2] = None] ELSE low
  BY DEF OpenTimeRangeEnds
<1>4. /\ DOMAIN low = 1..n /\ low \in [1..n -> Pairs]
      /\ \A i \in 1..n : /\ low[i] \in Pairs /\ low[i][2] = L[i][2]
                         /\ low[i][1] = L[i][1] \/ (i = 1 /\ low[i][1] = None /\ L[i][1] <= lo)
  <2>1. CASE L[1][1] <= lo
    <3> DEFINE x == [L[1] EXCEPT ![1] = None]
    <3>1. low = [L EXCEPT ![1] = x]
      BY <2>1
    <3>2. x \in Pairs /\ x[1] = None /\ x[2] = L[1][2]
      <4>1. L[1] \in Pairs
        BY <1>1
      <4> QED
        BY <1>2, <4>1
    <3> HIDE DEF low, x
    <3>3. low[1] = x /\ low \in [1..n -> Pairs] /\ DOMAIN low = 1..n /\ \A i \in 1..n : i # 1 => low[i] = L[i]
      BY <1>1, <3>1, <3>2
    <3> HIDE DEF n
    <3>4. ASSUME NEW i \in 1..n
          PROVE  /\ low[i] \in Pairs /\ low[i][2] = L[i][2]
                 /\ low[i][1] = L[i][1] \/ (i = 1 /\ low[i][1] = None /\ L[i][1] <= lo)
      <4>1. CASE i = 1
        BY <2>1, <3>2, <3>3, <4>1, Zenon
      <4>2. CASE i # 1
        BY <1>1, <3>3, <4>2, Zenon
      <4> QED
        BY <4>1, <4>2
    <3> QED
      BY <3>3, <3>4, Zenon
  <2>2. CASE ~(L[1][1] <= lo)
    <3>1. low = L
      BY <2>2
    <3>2. L \in [1..n -> Pairs]
      BY <1>1
    <3> HIDE DEF low
    <3> QED
      BY <1>1, <3>1, <3>2
  <2> QED
    BY <2>1, <2>2
<1> HIDE DEF low
<1>5. /\ DOMAIN O = 1..n /\ O \in [1..n -> Pairs]
      /\ \A i \in 1..n : /\ O[i] \in Pairs /\ O[i][1] = low[i][1]
                         /\ O[i][2] = L[i][2] \/ (i = n /\ O[i][2] = None /\ L[i][2] >= hi)
  <2>1. CASE L[n][2] >= hi
    <3> DEFINE x == [low[n] EXCEPT ![2] = None]
    <3>1. O = [low EXCEPT ![n] = x]
      BY <1>3, <2>1
    <3>2. x \in Pairs /\ x[2] = None /\ x[1] = low[n][1]
      <4>1. low[n] \in Pairs
        BY <1>1, <1>4
      <4> QED
        BY <1>2, <4>1
    <3> HIDE DEF O, x
    <3>3. O[n] = x /\ O \in [1..n -> Pairs] /\ DOMAIN O = 1..n /\ \A i \in 1..n : i # n => O[i] = low[i]
      BY <1>1, <1>4, <3>1, <3>2
    <3> HIDE DEF n
    <3>4. ASSUME NEW i \in 1..n
          PROVE  /\ O[i] \in Pairs /\ O[i][1] = low[i][1]
                 /\ O[i][2] = L[i][2] \/ (i = n /\ O[i][2] = None /\ L[i][2] >= hi)
      <4>1. CASE i = n
        BY <2>1, <3>2, <3>3, <4>1, Zenon
      <4>2. CASE i # n
        <5>1. O[i] = low[i] /\ low[i] \in Pairs /\ low[i][2] = L[i][2]
          BY <1>4, <3>3, <4>2
        <5> QED
          BY <5>1, Zenon
      <4> QED
        BY <4>1, <4>2
    <3> QED
      BY <3>3, <3>4, Zenon
  <2>2. CASE ~(L[n][2] >= hi)
    <3>1. O = low
      BY <1>3, <2>2
    <3> HIDE DEF O
    <3> QED
      BY <1>1, <1>4, <3>1
  <2> QED
    BY <2>1, <2>2
<1> HIDE DEF O
<1>6. Len(O) = n
  <2> HIDE DEF n
  <2>1. O \in [1..n -> Pairs]
    BY <1>5
  <2>2. O \in Seq(Pairs) /\ DOMAIN O = 1..n
    BY <1>1, <2>1, IsASeq
  <2> QED
    BY <1>1, <2>2
<1>7. Opens(O, L, lo, hi)
  <2>1. Pairs = Int \X Int /\ DOMAIN L = 1..n /\ n = Len(L)
    BY <1>1 DEF Pairs
  <2>2. \A i \in 1..n :
          /\ O[i] \in Pairs
          /\ O[i][1] = L[i][1] \/ (i = 1 /\ O[i][1] = None /\ L[i][1] <= lo)
          /\ O[i][2] = L[i][2] \/ (i = n /\ O[i][2] = None /\ L[i][2] >= hi)
    <3> HIDE DEF n
    <3> QED
      BY <1>4, <1>5, Zenon
  <2> HIDE DEF n
  <2> QED
    BY <1>5, <1>6, <2>1, <2>2, Zenon DEF Opens
<1> QED
  BY <1>7 DEF O
-----------------------------------------------------------------------------
(* The options and the work list.                                          *)

\* The list that is made of the option --time.
LEMMA ParsedTimes ==
  ASSUME NEW lo \in Nat, NEW hi \in Nat,
         NEW option \in Seq((Nat \cup {None}) \X (Nat \cup {None}))
  PROVE  /\ ParseTimeStr(option, lo, hi) \in Seq(Pairs)
         /\ ParseTimeStr(option, lo, hi) # <<>>
         /\ \A i \in DOMAIN ParseTimeStr(option, lo, hi) :
              ParseTimeStr(option, lo, hi)[i][1] \in Nat
<1> DEFINE U == ParseTimeStr(option, lo, hi)
<1>1. CASE option = <<>>
  <2>1. U = <<<<lo, hi>>>>
    BY <1>1 DEF ParseTimeStr
  <2>2. <<lo, hi>> \in Pairs
    BY DEF Pairs
  <2> QED
    BY <2>1, <2>2
<1>2. CASE option # <<>>
  <2> DEFINE from(i) == IF option[i][1] = None THEN lo ELSE option[i][1]
             to(i) == IF option[i][2] = None THEN hi ELSE option[i][2]
             n == Len(option)
  <2>1. U = [i \in DOMAIN option |-> <<from(i), to(i)>>]
    BY <1>2 DEF ParseTimeStr
  <2>2. n \in Nat \ {0} /\ DOMAIN option = 1..n
    BY <1>2, SeqFacts
  <2>3. ASSUME NEW i \in 1..n PROVE from(i) \in Nat /\ to(i) \in Nat
    <3>1. option[i] \in (Nat \cup {None}) \X (Nat \cup {None})
      BY SeqFacts
    <3>2. option[i][1] \in Nat \cup {None} /\ option[i][2] \in Nat \cup {None}
      BY <3>1
    <3> QED
      BY <3>2
  <2> HIDE DEF from, to, U, n
  <2>4. \A i \in 1..n : U[i] = <<from(i), to(i)>> /\ U[i] \in Pairs /\ U[i][1] \in Nat
    BY <2>1, <2>2, <2>3 DEF Pairs
  <2>5. U \in [1..n -> Pairs]
    BY <2>1, <2>2, <2>4
  <2>6. U \in Seq(Pairs) /\ DOMAIN U = 1..n
    BY <2>2, <2>5, IsASeq
  <2>7. U # <<>>
    BY <2>2, <2>6, SeqFacts
  <2> QED
    BY <2>4, <2>6, <2>7 DEF U
<1> QED
  BY <1>1, <1>2

\* Every CPU is in the list once.
CPUsListed ==
  /\ CPUs \in Seq(Int) /\ CPUs # <<>> /\ Len(CPUs) \in Nat /\ DOMAIN CPUs = 1..Len(CPUs)
  /\ \A i, j \in DOMAIN CPUs : CPUs[i] = CPUs[j] => i = j

\* The CPUs are made of valid options.
LEMMA CPUsAreListed ==
  ASSUME opts \in Invocations, ValidCPUs(CPUsOption, opts.nrCpus)
  PROVE  CPUsListed
<1>1. opts.nrCpus \in Nat \ {0} /\ opts.cpus \subseteq Nat \X Nat
  BY InvocationAssumption
<1> SUFFICES /\ CPUs \in Seq(Int) /\ CPUs # <<>>
             /\ \A i, j \in DOMAIN CPUs : CPUs[i] = CPUs[j] => i = j
  BY SeqFacts DEF CPUsListed
<1>2. CASE ~PerCPU
  BY <1>2 DEF CPUs
<1>3. CASE PerCPU /\ opts.cpus = {}
  <2> DEFINE n == opts.nrCpus
             s == [i \in 1..n |-> i - 1]
  <2>1. CPUs = s
    BY <1>3 DEF CPUs
  <2> HIDE DEF n
  <2>2. n \in Nat \ {0}
    BY <1>1 DEF n
  <2>3. s \in [1..n -> Int]
    BY <2>2
  <2> HIDE DEF s
  <2>4. s \in Seq(Int) /\ DOMAIN s = 1..n
    BY <2>2, <2>3, IsASeq
  <2>5. s # <<>>
    BY <2>2, <2>4, SeqFacts
  <2>6. \A i, j \in 1..n : s[i] = s[j] => i = j
    BY <2>2 DEF s
  <2> QED
    BY <2>1, <2>4, <2>5, <2>6
<1>4. CASE PerCPU /\ opts.cpus # {}
  <2> DEFINE S == UNION {s[1]..s[2] : s \in opts.cpus}
             l == InOrder(S)
  <2>1. CPUs = l
    BY <1>4 DEF CPUs, ParseCPUStr
  <2>2. \A s \in opts.cpus : s[1] \in Nat /\ s[2] \in Nat /\ s[1] <= s[2] /\ s[2] < opts.nrCpus
    <3>1. CPUsOption = opts.cpus
      BY <1>4 DEF CPUsOption
    <3>2. \A s \in opts.cpus : s[1] \in Nat /\ s[2] \in Nat
      BY <1>1
    <3> QED
      BY <3>1, <3>2 DEF ValidCPUs
  <2>3. S \in SUBSET (0..opts.nrCpus)
    <3>1. \A s \in opts.cpus : s[1]..s[2] \subseteq 0..opts.nrCpus
      BY <1>1, <2>2
    <3> QED
      BY <3>1
  <2>4. S # {}
    <3>1. PICK s \in opts.cpus : TRUE
      BY <1>4
    <3>2. s[1] \in s[1]..s[2]
      BY <2>2
    <3> QED
      BY <3>2
  <2> HIDE DEF S
  <2>5. /\ l \in Seq(S) /\ Len(l) = Cardinality(S) /\ DOMAIN l = 1..Cardinality(S)
        /\ Cardinality(S) \in Nat /\ \A i, j \in DOMAIN l : i < j => l[i] < l[j]
    <3>1. opts.nrCpus \in Nat
      BY <1>1
    <3> QED
      BY <2>3, <3>1, InOrderExists
  <2> HIDE DEF l
  <2>6. \A i \in DOMAIN l : l[i] \in S /\ l[i] \in Int
    <3>1. \A x \in S : x \in Int
      BY <2>3
    <3>2. \A i \in DOMAIN l : l[i] \in S
      BY <2>5, SeqFacts
    <3> QED
      BY <3>1, <3>2
  <2>7. l \in Seq(Int)
    BY <2>5, <2>6, IsASeq
  <2>8. l # <<>>
    <3>1. Cardinality(S) # 0
      <4>1. IsFiniteSet(S)
        <5>1. IsFiniteSet(0..opts.nrCpus)
          BY <1>1, FS_Interval
        <5> QED
          BY <2>3, <5>1, FS_Subset
      <4> QED
        BY <2>4, <4>1, FS_EmptySet
    <3> QED
      BY <2>5, <2>7, <3>1, SeqFacts
  <2>9. \A i, j \in DOMAIN l : l[i] = l[j] => i = j
    <3> SUFFICES ASSUME NEW i \in DOMAIN l, NEW j \in DOMAIN l, l[i] = l[j] PROVE i = j
      OBVIOUS
    <3>1. ~(i < j) /\ ~(j < i)
      BY <2>5, <2>6
    <3> QED
      BY <2>5, <3>1
  <2> QED
    BY <2>1, <2>7, <2>8, <2>9
<1> QED
  BY <1>2, <1>3, <1>4
-----------------------------------------------------------------------------
(* The invariant of the configuration.                                     *)

\* The ranges are those the user asked for.
Asked(U) ==
  /\ Valid(U) /\ \A i \in DOMAIN U : U[i][1] \in Nat
  /\ U = ParseTimeStr(opts.time, opts.minTime, opts.maxTime)
  /\ ValidCPUs(CPUsOption, opts.nrCpus)

\* One list for all CPUs, or one for each.
ListEach(s) ==
  \/ DOMAIN s = 1..1 /\ Len(s) = 1
  \/ DOMAIN s = DOMAIN CPUs /\ Len(s) = Len(CPUs)

SplitOk(s) ==
  /\ ListEach(s)
  /\ \A i \in DOMAIN s : Divides(s[i], userRanges, Len(userRanges))
  /\ DistinctTimes => \A i \in DOMAIN s : NoneEmpty(s[i])

OpenedOk(o) ==
  /\ DOMAIN o = DOMAIN split /\ Len(o) = Len(split)
  /\ \A i \in DOMAIN o : Opens(o[i], split[i], opts.minTime, opts.maxTime)

Job(c, i) == [cpu |-> CPUs[c], time |-> ListOf(c)[i], dir |-> DirOf(c, i)]

\* Each range of the list of a CPU has its place in the work list.
Placed(w) ==
  /\ Len(w) \in Nat
  /\ \E off \in [DOMAIN CPUs -> Nat] :
       /\ \A c \in DOMAIN CPUs : \A i \in DOMAIN ListOf(c) :
            off[c] + i \in DOMAIN w /\ w[off[c] + i] = Job(c, i)
       /\ \A j \in DOMAIN w :
            \E c \in DOMAIN CPUs : \E i \in DOMAIN ListOf(c) : j = off[c] + i

DivInv ==
  /\ opts \in Invocations
  /\ stage = "split" => Asked(userRanges)
  /\ stage \in {"check", "open", "create", "ready", "self_test"} =>
       Asked(userRanges) /\ SplitOk(split)
  /\ stage = "self_test" => Adjacent(userRanges)
  /\ stage \in {"create", "ready"} => OpenedOk(opened)
  /\ IF stage = "ready" THEN Placed(worklist) ELSE worklist = <<>>

\* What is said of the options only.
LEMMA OptsKept ==
  ASSUME UNCHANGED opts
  PROVE  /\ CPUs' = CPUs /\ CPUsOption' = CPUsOption /\ DistinctTimes' = DistinctTimes
         /\ \A U : Asked(U)' = Asked(U)
BY DEF CPUs, CPUsOption, DistinctTimes, Asked, PerCPU

\* Before the configuration there is nothing to divide.
LEMMA DivInit == Init => DivInv
BY DEF Init, DivInv

\* The ranges are taken from the options and the recording.
LEMMA ExtractKeeps ==
  ASSUME DivInv, Extract
  PROVE  DivInv'
<1> DEFINE U == ParseTimeStr(opts.time, opts.minTime, opts.maxTime)
<1>1. /\ userRanges' = U /\ UNCHANGED <<opts, worklist>> /\ stage = "extract"
      /\ stage' = IF ~ValidTimeRanges(U) THEN "bad_time"
                  ELSE IF ~ValidCPUs(CPUsOption, opts.nrCpus) THEN "bad_cpus"
                  ELSE "split"
  BY DEF Extract
<1>2. opts \in Invocations /\ worklist = <<>>
  BY <1>1 DEF DivInv
<1>3. U \in Seq(Pairs) /\ U # <<>> /\ \A i \in DOMAIN U : U[i][1] \in Nat
  <2>1. /\ opts.minTime \in Nat /\ opts.maxTime \in Nat
        /\ opts.time \in Seq((Nat \cup {None}) \X (Nat \cup {None}))
    BY <1>2, InvocationAssumption
  <2> QED
    BY <2>1, ParsedTimes
<1>4. stage' = "split" => Asked(U)
  BY <1>1, <1>3 DEF Asked, Valid
<1>5. stage' = "split" => Asked(userRanges)'
  <2>1. userRanges' = U /\ opts' = opts
    BY <1>1
  <2>2. CPUsOption' = CPUsOption
    BY <2>1, OptsKept
  <2> HIDE DEF U
  <2> QED
    BY <1>4, <2>1, <2>2 DEF Asked
<1>6. stage' \in {"bad_time", "bad_cpus", "split"}
  BY <1>1
<1> QED
  BY <1>1, <1>2, <1>5, <1>6 DEF DivInv

\* Whichever way they are divided.
LEMMA SplitKeeps ==
  ASSUME DivInv, SplitTimeRanges
  PROVE  DivInv'
<1> DEFINE U == userRanges
           n == Subdivisions
<1>1. /\ stage = "split" /\ stage' = "check" /\ UNCHANGED <<opts, userRanges, worklist>>
  BY DEF SplitTimeRanges
<1>2. opts \in Invocations /\ worklist = <<>> /\ Asked(U) /\ Valid(U)
  BY <1>1 DEF DivInv, Asked
<1>3. CPUsListed
  BY <1>2, CPUsAreListed DEF Asked
<1>4. /\ opts.jobs \in Nat /\ opts.nr \in Nat /\ opts.minInterval \in Nat
      /\ opts.nrJobCpus \in Nat \ {0} /\ opts.interval \in Nat \X (Nat \ {0})
      /\ opts.minSize \in Nat
      /\ opts.samples \in Seq(Int \X Covered(ParseTimeStr(opts.time, opts.minTime, opts.maxTime)))
      /\ \A i, j \in DOMAIN opts.samples :
            i < j => opts.samples[i][2] <= opts.samples[j][2]
  BY <1>2, InvocationAssumption
<1>5. SplitOk(split')
  <2>1. CASE opts.intelPT /\ ~HasInterval
    <3>1. split' = SplitTimeRangesByTraceDataDensity(U, CPUs, opts.nr, opts.samples, PerCPU,
                     opts.minSize, opts.minInterval, opts.nrJobCpus)
      BY <2>1 DEF SplitTimeRanges
    <3>2. opts.samples \in Seq(Int \X Covered(U))
      BY <1>2, <1>4 DEF Asked
    <3>3. CPUs # <<>> /\ CPUs \in Seq(Int)
      BY <1>3 DEF CPUsListed
    <3> HIDE DEF U
    <3>4. SplitFor(split', CPUs, U, opts.samples, PerCPU)
      BY <1>2, <1>4, <3>1, <3>2, <3>3, DensityDivides
    <3> QED
      BY <3>4 DEF SplitFor, SplitOk, ListEach, DistinctTimes, U
  <2>2. CASE ~(opts.intelPT /\ ~HasInterval) /\ n > 0
    <3>1. split' = <<SplitTimeRangesIntoN(U, n, opts.minInterval)>>
      BY <2>2 DEF SplitTimeRanges
    <3>2. n \in Nat \ {0}
      <4>1. JobCount \in Nat
        BY <1>4 DEF JobCount
      <4>2. n \in Nat
        BY <1>4, <4>1 DEF Subdivisions
      <4> QED
        BY <2>2, <4>2
    <3> DEFINE L == SplitTimeRangesIntoN(U, n, opts.minInterval)
    <3> HIDE DEF U, n
    <3>3. Divides(L, U, Len(U)) /\ NoneEmpty(L)
      BY <1>2, <1>4, <3>2, IntoN
    <3> HIDE DEF L
    <3>4. DOMAIN split' = 1..1 /\ Len(split') = 1 /\ split'[1] = L /\ 1..1 = {1}
      BY <3>1 DEF L
    <3> QED
      BY <3>3, <3>4 DEF SplitOk, ListEach, U
  <2>3. CASE ~(opts.intelPT /\ ~HasInterval) /\ ~(n > 0)
    <3>1. split' = <<SplitTimeRangesByInterval(U, opts.interval)>>
      BY <2>3 DEF SplitTimeRanges
    <3>2. HasInterval
      <4>1. JobCount \in Nat \ {0}
        BY <1>4 DEF JobCount
      <4>2. ~HasInterval => n > 0
        BY <1>4, <4>1 DEF Subdivisions
      <4> QED
        BY <2>3, <4>2
    <3>3. opts.interval \in Int \X Int /\ opts.interval[1] \in Nat \ {0}
      BY <1>4, <3>2 DEF HasInterval
    <3> DEFINE L == SplitTimeRangesByInterval(U, opts.interval)
    <3> HIDE DEF U, n
    <3>4. Divides(L, U, Len(U)) /\ NoneEmpty(L)
      BY <1>2, <3>3, ByInterval
    <3> HIDE DEF L
    <3>5. DOMAIN split' = 1..1 /\ Len(split') = 1 /\ split'[1] = L /\ 1..1 = {1}
      BY <3>1 DEF L
    <3> QED
      BY <3>4, <3>5 DEF SplitOk, ListEach, U
  <2> QED
    BY <2>1, <2>2, <2>3
<1>6. SplitOk(split)' /\ Asked(userRanges)'
  <2>1. CPUs' = CPUs /\ CPUsOption' = CPUsOption /\ DistinctTimes' = DistinctTimes
    BY <1>1, OptsKept
  <2> QED
    BY <1>1, <1>2, <1>5, <2>1 DEF SplitOk, ListEach, Asked
<1> QED
  BY <1>1, <1>2, <1>6 DEF DivInv

\* The self test
LEMMA CheckKeeps ==
  ASSUME DivInv, CheckTimeRanges
  PROVE  DivInv'
<1> DEFINE U == userRanges
<1>1. /\ stage = "check" /\ UNCHANGED <<opts, userRanges, split, worklist>>
      /\ stage' = IF \A i \in DOMAIN split : RecombineTimeRanges(split[i]) = U
                  THEN "open" ELSE "self_test"
  BY DEF CheckTimeRanges
<1>2. opts \in Invocations /\ worklist = <<>> /\ Asked(U) /\ SplitOk(split)
  BY <1>1 DEF DivInv
<1>3. stage' = "self_test" => Adjacent(U)
  <2> SUFFICES ASSUME ~Adjacent(U) PROVE \A i \in DOMAIN split : RecombineTimeRanges(split[i]) = U
    BY <1>1
  <2>1. \A i \in 2..Len(U) : U[i - 1][2] + 1 # U[i][1]
    BY DEF Adjacent
  <2>2. Valid(U) /\ \A i \in DOMAIN split : Divides(split[i], U, Len(U))
    BY <1>2 DEF Asked, SplitOk
  <2> HIDE DEF U
  <2> QED
    BY <2>1, <2>2, Recombined
<1>4. CPUs' = CPUs /\ CPUsOption' = CPUsOption /\ DistinctTimes' = DistinctTimes
  BY <1>1, OptsKept
<1>5. SplitOk(split)' /\ Asked(userRanges)' /\ (Adjacent(U) => Adjacent(userRanges)')
  BY <1>1, <1>2, <1>4 DEF SplitOk, ListEach, Asked, Adjacent
<1>6. stage' \in {"open", "self_test"}
  BY <1>1
<1> QED
  BY <1>1, <1>2, <1>3, <1>5, <1>6 DEF DivInv

\* The ends are opened.
LEMMA OpenKeeps ==
  ASSUME DivInv, OpenEnds
  PROVE  DivInv'
<1>1. /\ stage = "open" /\ stage' = "create" /\ UNCHANGED <<opts, userRanges, split, worklist>>
      /\ opened' = [i \in DOMAIN split |->
                      OpenTimeRangeEnds(split[i], opts.minTime, opts.maxTime)]
  BY DEF OpenEnds
<1>2. opts \in Invocations /\ worklist = <<>> /\ Asked(userRanges) /\ SplitOk(split)
  BY <1>1 DEF DivInv
<1>3. DOMAIN opened' = DOMAIN split /\ Len(opened') = Len(split)
  <2>1. Len(split) \in Nat /\ DOMAIN split = 1..Len(split)
    <3>1. CPUsListed
      BY <1>2, CPUsAreListed DEF Asked
    <3> QED
      BY <1>2, <3>1 DEF SplitOk, ListEach, CPUsListed
  <2>2. DOMAIN opened' = DOMAIN split
    BY <1>1
  <2>3. \A n \in Nat : \A x : Len([i \in 1..n |-> OpenTimeRangeEnds(split[i], opts.minTime, opts.maxTime)]) = n
    OBVIOUS
  <2> QED
    BY <1>1, <2>1, <2>2, <2>3
<1>4. \A i \in DOMAIN split : Opens(opened'[i], split[i], opts.minTime, opts.maxTime)
  <2>1. \A i \in DOMAIN split : split[i] \in Seq(Pairs) /\ split[i] # <<>>
    BY <1>2 DEF SplitOk, Divides
  <2> QED
    BY <1>1, <2>1, EndsOpened
<1>5. CPUs' = CPUs /\ CPUsOption' = CPUsOption /\ DistinctTimes' = DistinctTimes
  BY <1>1, OptsKept
<1>6. SplitOk(split)' /\ Asked(userRanges)'
  BY <1>1, <1>2, <1>5 DEF SplitOk, ListEach, Asked
<1>7. OpenedOk(opened)'
  BY <1>1, <1>3, <1>4 DEF OpenedOk
<1> QED
  BY <1>1, <1>2, <1>6, <1>7 DEF DivInv

\* The list a CPU is given is a division with its ends opened.
ListFrom(c, k) ==
  /\ k \in DOMAIN split /\ ListOf(c) = opened[k]
  /\ Divides(split[k], userRanges, Len(userRanges))
  /\ Opens(opened[k], split[k], opts.minTime, opts.maxTime)
  /\ DistinctTimes => NoneEmpty(split[k])
  /\ DOMAIN ListOf(c) = DOMAIN split[k]
  /\ DOMAIN ListOf(c) = 1..Len(split[k]) /\ Len(split[k]) \in Nat

\* Each CPU has such a list.
LEMMA ListsAreDivisions ==
  ASSUME DivInv, stage \in {"create", "ready"}, NEW c \in DOMAIN CPUs
  PROVE  \E k : ListFrom(c, k)
<1>1. Asked(userRanges) /\ SplitOk(split) /\ OpenedOk(opened) /\ opts \in Invocations
  BY DEF DivInv
<1>2. CPUsListed
  BY <1>1, CPUsAreListed DEF Asked
<1> DEFINE k == IF Len(opened) > 1 THEN c ELSE 1
<1>3. k \in DOMAIN split
  <2>1. Len(opened) = Len(split) /\ Len(CPUs) \in Nat /\ DOMAIN CPUs = 1..Len(CPUs) /\ Len(CPUs) >= 1
    BY <1>1, <1>2, SeqFacts DEF OpenedOk, CPUsListed
  <2>2. CASE DOMAIN split = 1..1 /\ Len(split) = 1
    BY <2>1, <2>2
  <2>3. CASE DOMAIN split = DOMAIN CPUs /\ Len(split) = Len(CPUs)
    BY <2>1, <2>3
  <2> QED
    BY <1>1, <2>2, <2>3 DEF SplitOk, ListEach
<1>4. ListOf(c) = opened[k]
  BY DEF ListOf
<1> HIDE DEF k
<1>5. /\ Divides(split[k], userRanges, Len(userRanges)) /\ (DistinctTimes => NoneEmpty(split[k]))
      /\ Opens(opened[k], split[k], opts.minTime, opts.maxTime)
  BY <1>1, <1>3 DEF SplitOk, OpenedOk
<1>6. Len(split[k]) \in Nat /\ DOMAIN split[k] = 1..Len(split[k])
  <2>1. split[k] \in Seq(Pairs)
    BY <1>5 DEF Divides
  <2> QED
    BY <2>1, SeqFacts
<1>7. DOMAIN ListOf(c) = DOMAIN split[k]
  BY <1>4, <1>5 DEF Opens
<1> QED
  BY <1>3, <1>4, <1>5, <1>6, <1>7 DEF ListFrom

\* The work list is made of the lists of the CPUs.
LEMMA CreateKeeps ==
  ASSUME DivInv, CreateWorkList
  PROVE  DivInv'
<1>1. /\ stage = "create" /\ stage' = "ready" /\ UNCHANGED <<opts, userRanges, split, opened>>
      /\ worklist' = FlattenSeq([c \in DOMAIN CPUs |-> [i \in DOMAIN ListOf(c) |-> Job(c, i)]])
  BY DEF CreateWorkList, Job
<1>2. opts \in Invocations /\ Asked(userRanges) /\ SplitOk(split) /\ OpenedOk(opened)
  BY <1>1 DEF DivInv
<1>3. CPUsListed
  BY <1>2, CPUsAreListed DEF Asked
<1> DEFINE S == {Job(c, i) : c \in DOMAIN CPUs, i \in Nat}
           list(c) == [i \in DOMAIN ListOf(c) |-> Job(c, i)]
           ss == [c \in DOMAIN CPUs |-> list(c)]
<1>4. \A c \in DOMAIN CPUs : list(c) \in Seq(S) /\ DOMAIN list(c) = DOMAIN ListOf(c)
  <2> SUFFICES ASSUME NEW c \in DOMAIN CPUs
               PROVE  list(c) \in Seq(S) /\ DOMAIN list(c) = DOMAIN ListOf(c)
    OBVIOUS
  <2>1. PICK k : ListFrom(c, k)
    BY <1>1, ListsAreDivisions
  <2> DEFINE n == Len(split[k])
  <2>2. DOMAIN ListOf(c) = 1..n /\ n \in Nat
    BY <2>1 DEF ListFrom
  <2>3. \A i \in 1..n : i \in Nat /\ Job(c, i) \in S
    BY <2>2
  <2> HIDE DEF S, n
  <2>4. list(c) \in [1..n -> S]
    BY <2>2, <2>3
  <2> HIDE DEF list
  <2>5. list(c) \in Seq(S)
    BY <2>2, <2>4, IsASeq
  <2> QED
    BY <2>5 DEF list
<1> HIDE DEF S
<1>5. ss \in Seq(Seq(S)) /\ ss # <<>> /\ Len(ss) = Len(CPUs) /\ DOMAIN ss = DOMAIN CPUs
  <2>1. Len(CPUs) \in Nat /\ DOMAIN CPUs = 1..Len(CPUs) /\ CPUs \in Seq(Int) /\ CPUs # <<>>
    BY <1>3 DEF CPUsListed
  <2> DEFINE m == Len(CPUs)
  <2>2. m \in Nat \ {0}
    BY <2>1, SeqFacts
  <2> HIDE DEF m
  <2>3. ss \in [1..m -> Seq(S)]
    <3> HIDE DEF list
    <3> QED
      BY <1>4, <2>1 DEF m
  <2> HIDE DEF ss
  <2>4. ss \in Seq(Seq(S)) /\ DOMAIN ss = 1..m
    BY <2>2, <2>3, IsASeq
  <2>5. Len(ss) = m
    BY <2>2, <2>4
  <2>6. ss # <<>>
    BY <2>2, <2>4, <2>5, SeqFacts
  <2> QED
    BY <2>1, <2>4, <2>5, <2>6 DEF m
<1>6. worklist' = FlattenSeq(ss)
  BY <1>1
<1>7. \A c \in DOMAIN CPUs : ss[c] = list(c)
  OBVIOUS
<1> HIDE DEF ss
<1>8. IsFlat(FlattenSeq(ss), ss, S)
  BY <1>5, FlatPlaces
<1> DEFINE w == FlattenSeq(ss)
<1>9. PICK off \in [1..Len(ss) -> Nat] :
        /\ \A c \in DOMAIN ss : \A i \in DOMAIN ss[c] :
             off[c] + i \in DOMAIN w /\ w[off[c] + i] = ss[c][i]
        /\ \A j \in DOMAIN w : \E c \in DOMAIN ss : \E i \in DOMAIN ss[c] : j = off[c] + i
  BY <1>8 DEF IsFlat
<1>10. Len(w) \in Nat
  BY <1>8, SeqFacts DEF IsFlat
<1> HIDE DEF w
<1>11. \A c \in DOMAIN CPUs : DOMAIN ss[c] = DOMAIN ListOf(c)
                              /\ \A i \in DOMAIN ListOf(c) : ss[c][i] = Job(c, i)
  BY <1>7
<1>12. Placed(w)
  <2>1. off \in [DOMAIN CPUs -> Nat]
    BY <1>3, <1>5, <1>9 DEF CPUsListed
  <2>2. \A c \in DOMAIN CPUs : \A i \in DOMAIN ListOf(c) :
          off[c] + i \in DOMAIN w /\ w[off[c] + i] = Job(c, i)
    BY <1>5, <1>9, <1>11, Zenon
  <2>3. \A j \in DOMAIN w : \E c \in DOMAIN CPUs : \E i \in DOMAIN ListOf(c) : j = off[c] + i
    <3> SUFFICES ASSUME NEW j \in DOMAIN w
                 PROVE  \E c \in DOMAIN CPUs : \E i \in DOMAIN ListOf(c) : j = off[c] + i
      OBVIOUS
    <3>1. PICK c \in DOMAIN ss : \E i \in DOMAIN ss[c] : j = off[c] + i
      BY <1>9
    <3>2. PICK i \in DOMAIN ss[c] : j = off[c] + i
      BY <3>1
    <3>3. c \in DOMAIN CPUs /\ i \in DOMAIN ListOf(c)
      BY <1>5, <1>11
    <3> QED
      BY <3>2, <3>3
  <2> QED
    BY <1>10, <2>1, <2>2, <2>3 DEF Placed
<1>13. /\ CPUs' = CPUs /\ CPUsOption' = CPUsOption /\ DistinctTimes' = DistinctTimes
       /\ \A c : ListOf(c)' = ListOf(c)
       /\ \A c, i : Job(c, i)' = Job(c, i)
  <2>1. CPUs' = CPUs /\ CPUsOption' = CPUsOption /\ DistinctTimes' = DistinctTimes
    BY <1>1, OptsKept
  <2>2. \A c : ListOf(c)' = ListOf(c)
    BY <1>1 DEF ListOf
  <2>3. \A c, i : DirOf(c, i)' = DirOf(c, i)
    BY <1>1, <2>1, <2>2 DEF DirOf
  <2> QED
    BY <2>1, <2>2, <2>3 DEF Job
<1>14. Placed(worklist)'
  <2>1. worklist' = w
    BY <1>6 DEF w
  <2> QED
    BY <1>12, <1>13, <2>1 DEF Placed
<1>15. SplitOk(split)' /\ Asked(userRanges)' /\ OpenedOk(opened)'
  BY <1>1, <1>2, <1>13 DEF SplitOk, ListEach, Asked, OpenedOk
<1> QED
  BY <1>1, <1>2, <1>14, <1>15 DEF DivInv

\* The run leaves the configuration alone.
LEMMA ConfigurationStays ==
  ASSUME DivInv, UNCHANGED confVars
  PROVE  DivInv'
<1>1. UNCHANGED <<opts, stage, userRanges, split, opened, worklist>>
  BY DEF confVars
<1>2. /\ CPUs' = CPUs /\ CPUsOption' = CPUsOption /\ DistinctTimes' = DistinctTimes
      /\ \A c : ListOf(c)' = ListOf(c)
      /\ \A c, i : Job(c, i)' = Job(c, i)
  <2>1. CPUs' = CPUs /\ CPUsOption' = CPUsOption /\ DistinctTimes' = DistinctTimes
    BY <1>1, OptsKept
  <2>2. \A c : ListOf(c)' = ListOf(c)
    BY <1>1 DEF ListOf
  <2>3. \A c, i : DirOf(c, i)' = DirOf(c, i)
    BY <1>1, <2>1, <2>2 DEF DirOf
  <2> QED
    BY <2>1, <2>2, <2>3 DEF Job
<1>3. (Placed(worklist) => Placed(worklist)')
  BY <1>1, <1>2 DEF Placed
<1>4. /\ SplitOk(split) => SplitOk(split)'
      /\ Asked(userRanges) => Asked(userRanges)'
      /\ OpenedOk(opened) => OpenedOk(opened)'
      /\ Adjacent(userRanges) => Adjacent(userRanges)'
  BY <1>1, <1>2 DEF SplitOk, ListEach, Asked, OpenedOk, Adjacent
<1> QED
  BY <1>1, <1>3, <1>4 DEF DivInv

\* Every step of the program keeps the invariant.
LEMMA DivKeeps ==
  ASSUME DivInv, [Next]_vars
  PROVE  DivInv'
<1>1. CASE Config
  BY <1>1, ExtractKeeps, SplitKeeps, CheckKeeps, OpenKeeps, CreateKeeps DEF Config
<1>2. CASE UNCHANGED confVars
  BY <1>2, ConfigurationStays
<1> QED
  BY <1>1, <1>2 DEF Next, Running, Ended, vars

\* Both ends of a range of a division are times after the start of the recording's clock.
LEMMA EndsAreTimes ==
  ASSUME NEW U, Asked(U), NEW L, Divides(L, U, Len(U)), NEW i \in DOMAIN L
  PROVE  L[i][1] \in Nat /\ L[i][2] \in Nat
<1>1. PICK k \in 1..Len(U) : Within(L[i], U[k])
  BY DEF Divides
<1>2. k \in DOMAIN U /\ U[k][1] \in Nat
  <2>1. DOMAIN U = 1..Len(U)
    BY SeqFacts DEF Asked, Valid
  <2> QED
    BY <2>1 DEF Asked
<1>3. L[i][1] \in Int /\ L[i][2] \in Int
  BY EndsLast
<1> QED
  BY <1>1, <1>2, <1>3 DEF Within

\* A job reads the times of its range.
LEMMA JobReadsRange ==
  ASSUME NEW j, NEW L, NEW O, NEW i \in DOMAIN L, worklist[j].time = O[i],
         L[i][1] \in Nat, L[i][2] \in Nat, opts.minTime \in Nat, opts.maxTime \in Nat,
         Opens(O, L, opts.minTime, opts.maxTime),
         NEW t \in opts.minTime..opts.maxTime
  PROVE  t \in JobTimes(j) <=> t \in Times(L[i])
<1> DEFINE a == L[i][1]
           b == L[i][2]
           x == O[i][1]
           y == O[i][2]
           lo == opts.minTime
           hi == opts.maxTime
           from == IF x = None THEN lo ELSE x
           to == IF y = None THEN hi ELSE y
<1>1. /\ a \in Nat /\ b \in Nat /\ lo \in Nat /\ hi \in Nat /\ t \in lo..hi
      /\ x = a \/ (x = None /\ a <= lo)
      /\ y = b \/ (y = None /\ b >= hi)
  BY DEF Opens
<1>2. JobTimes(j) = from..to
  BY DEF JobTimes
<1>3. Times(L[i]) = a..b
  BY DEF Times
<1> HIDE DEF a, b, x, y, lo, hi
<1>4. t \in from..to <=> t \in a..b
  BY <1>1 DEF None
<1> QED
  BY <1>2, <1>3, <1>4

\* The places in the work list.
LEMMA PlacesOf ==
  ASSUME DivInv, stage = "ready"
  PROVE  \E off \in [DOMAIN CPUs -> Nat] :
           /\ \A c \in DOMAIN CPUs : \A i \in DOMAIN ListOf(c) :
                off[c] + i \in DOMAIN worklist /\ worklist[off[c] + i] = Job(c, i)
           /\ \A j \in DOMAIN worklist :
                \E c \in DOMAIN CPUs : \E i \in DOMAIN ListOf(c) : j = off[c] + i
BY DEF DivInv, Placed

\* Every moment that was asked for is one job's for each CPU.
LEMMA Partitioned == DivInv => WorkIsPartitioned
<1> SUFFICES ASSUME DivInv, stage = "ready", NEW cpu \in Range(CPUs),
                    NEW t \in opts.minTime..opts.maxTime
             PROVE  Cardinality({j \in DOMAIN worklist : worklist[j].cpu = cpu /\ t \in JobTimes(j)})
                      = IF t \in Covered(userRanges) THEN 1 ELSE 0
  BY DEF WorkIsPartitioned
<1> DEFINE J == {j \in DOMAIN worklist : worklist[j].cpu = cpu /\ t \in JobTimes(j)}
           U == userRanges
<1>1. opts \in Invocations /\ Asked(U) /\ Valid(U)
  BY DEF DivInv, Asked
<1>2. CPUsListed /\ opts.minTime \in Nat /\ opts.maxTime \in Nat
  BY <1>1, CPUsAreListed, InvocationAssumption DEF Asked
<1>3. PICK c \in DOMAIN CPUs : CPUs[c] = cpu
  BY DEF Range
<1>4. PICK k : ListFrom(c, k)
  BY ListsAreDivisions
<1> DEFINE L == split[k]
           O == opened[k]
<1>5. /\ Divides(L, U, Len(U)) /\ Opens(O, L, opts.minTime, opts.maxTime)
      /\ ListOf(c) = O /\ DOMAIN ListOf(c) = DOMAIN L
  BY <1>4 DEF ListFrom
<1>6. PICK off \in [DOMAIN CPUs -> Nat] :
        /\ \A d \in DOMAIN CPUs : \A i \in DOMAIN ListOf(d) :
             off[d] + i \in DOMAIN worklist /\ worklist[off[d] + i] = Job(d, i)
        /\ \A j \in DOMAIN worklist :
             \E d \in DOMAIN CPUs : \E i \in DOMAIN ListOf(d) : j = off[d] + i
  BY PlacesOf
<1> HIDE DEF L, O, U
<1>7. ASSUME NEW i \in DOMAIN L
      PROVE  /\ off[c] + i \in DOMAIN worklist /\ worklist[off[c] + i].cpu = cpu
             /\ t \in JobTimes(off[c] + i) <=> t \in Times(L[i])
  <2> DEFINE j == off[c] + i
  <2>1. j \in DOMAIN worklist /\ worklist[j] = Job(c, i)
    BY <1>5, <1>6
  <2> HIDE DEF j
  <2>2. worklist[j].cpu = cpu /\ worklist[j].time = O[i]
    BY <1>3, <1>5, <2>1 DEF Job
  <2>3. L[i][1] \in Nat /\ L[i][2] \in Nat
    BY <1>1, <1>5, EndsAreTimes
  <2>4. t \in JobTimes(j) <=> t \in Times(L[i])
    BY <1>2, <1>5, <2>2, <2>3, JobReadsRange
  <2> QED
    BY <2>1, <2>2, <2>4 DEF j
<1>8. ASSUME NEW j \in J PROVE \E i \in DOMAIN L : j = off[c] + i /\ t \in Times(L[i])
  <2>1. j \in DOMAIN worklist /\ worklist[j].cpu = cpu /\ t \in JobTimes(j)
    OBVIOUS
  <2>2. PICK d \in DOMAIN CPUs : \E i \in DOMAIN ListOf(d) : j = off[d] + i
    BY <1>6, <2>1
  <2>3. PICK i \in DOMAIN ListOf(d) : j = off[d] + i
    BY <2>2
  <2>4. worklist[j].cpu = CPUs[d]
    <3>1. worklist[j] = Job(d, i)
      BY <1>6, <2>3, Zenon
    <3> QED
      BY <3>1 DEF Job
  <2>5. d = c
    BY <1>2, <1>3, <2>1, <2>4 DEF CPUsListed
  <2> QED
    BY <1>5, <1>7, <2>1, <2>3, <2>5
<1> HIDE DEF J
<1>9. CASE t \in Covered(U)
  <2>1. PICK i \in DOMAIN L : t \in Times(L[i])
    BY <1>1, <1>5, <1>9, NoneMissing
  <2>2. off[c] + i \in J
    BY <1>7, <2>1 DEF J
  <2>3. \A j \in J : j = off[c] + i
    <3> SUFFICES ASSUME NEW j \in J PROVE j = off[c] + i
      OBVIOUS
    <3>1. PICK l \in DOMAIN L : j = off[c] + l /\ t \in Times(L[l])
      BY <1>8
    <3>2. i = l
      BY <1>1, <1>5, <2>1, <3>1, NoneTwice
    <3> QED
      BY <3>1, <3>2
  <2>4. J = {off[c] + i}
    BY <2>2, <2>3
  <2>5. Cardinality(J) = 1
    BY <2>4, FS_Singleton
  <2> QED
    BY <1>9, <2>5 DEF J, U
<1>10. CASE t \notin Covered(U)
  <2>1. \A i \in DOMAIN L : t \notin Times(L[i])
    BY <1>1, <1>5, <1>10, NoneTwice
  <2>2. J = {}
    BY <1>8, <2>1
  <2>3. Cardinality(J) = 0
    BY <2>2, FS_EmptySet
  <2> QED
    BY <1>10, <2>3 DEF J, U
<1> QED
  BY <1>9, <1>10

\* perf script is given no range that ends before it starts.
LEMMA NoneRefused == DivInv => NoEmptyRange
<1> SUFFICES ASSUME DivInv, stage = "ready", DistinctTimes, NEW j \in DOMAIN worklist,
                    worklist[j].time[2] # None
             PROVE  worklist[j].time[1] <= worklist[j].time[2]
  BY DEF NoEmptyRange
<1>1. PICK off \in [DOMAIN CPUs -> Nat] :
        /\ \A c \in DOMAIN CPUs : \A i \in DOMAIN ListOf(c) :
             off[c] + i \in DOMAIN worklist /\ worklist[off[c] + i] = Job(c, i)
        /\ \A x \in DOMAIN worklist :
             \E c \in DOMAIN CPUs : \E i \in DOMAIN ListOf(c) : x = off[c] + i
  BY PlacesOf
<1>2. PICK c \in DOMAIN CPUs : \E i \in DOMAIN ListOf(c) : j = off[c] + i
  BY <1>1
<1>3. PICK i \in DOMAIN ListOf(c) : j = off[c] + i
  BY <1>2
<1>4. worklist[j].time = ListOf(c)[i]
  <2>1. worklist[j] = Job(c, i)
    BY <1>1, <1>3, Zenon
  <2> QED
    BY <2>1 DEF Job
<1>5. PICK k : ListFrom(c, k)
  BY ListsAreDivisions
<1> DEFINE L == split[k]
           O == opened[k]
<1>6. /\ Divides(L, userRanges, Len(userRanges)) /\ Opens(O, L, opts.minTime, opts.maxTime)
      /\ ListOf(c) = O /\ DOMAIN ListOf(c) = DOMAIN L /\ NoneEmpty(L)
  BY <1>5 DEF ListFrom
<1> HIDE DEF L, O
<1>7. L[i][1] \in Nat /\ L[i][2] \in Nat /\ L[i][1] <= L[i][2]
  <2>1. Asked(userRanges)
    BY DEF DivInv
  <2> QED
    BY <1>6, <2>1, EndsAreTimes DEF NoneEmpty
<1>8. /\ O[i][1] = L[i][1] \/ O[i][1] = None
      /\ O[i][2] = L[i][2] \/ O[i][2] = None
  BY <1>6 DEF Opens
<1>9. worklist[j].time = O[i]
  BY <1>4, <1>6
<1>10. O[i][2] # None
  BY <1>9
<1>11. O[i][1] <= O[i][2]
  BY <1>7, <1>8, <1>10 DEF None
<1> QED
  BY <1>9, <1>11

\* Two jobs of one CPU write to the directories of their ranges.
LEMMA NoneShared == DivInv => OwnOutputDir
<1> SUFFICES ASSUME DivInv, NEW x \in DOMAIN worklist, NEW y \in DOMAIN worklist,
                    worklist[x].dir = worklist[y].dir
             PROVE  x = y
  BY DEF OwnOutputDir
<1>1. stage = "ready"
  <2>1. DOMAIN <<>> = {}
    OBVIOUS
  <2> QED
    BY <2>1 DEF DivInv
<1>2. PICK off \in [DOMAIN CPUs -> Nat] :
        /\ \A c \in DOMAIN CPUs : \A i \in DOMAIN ListOf(c) :
             off[c] + i \in DOMAIN worklist /\ worklist[off[c] + i] = Job(c, i)
        /\ \A j \in DOMAIN worklist :
             \E c \in DOMAIN CPUs : \E i \in DOMAIN ListOf(c) : j = off[c] + i
  BY <1>1, PlacesOf
<1>3. PICK c \in DOMAIN CPUs : \E i \in DOMAIN ListOf(c) : x = off[c] + i
  BY <1>2
<1>4. PICK i \in DOMAIN ListOf(c) : x = off[c] + i
  BY <1>3
<1>5. PICK d \in DOMAIN CPUs : \E l \in DOMAIN ListOf(d) : y = off[d] + l
  BY <1>2
<1>6. PICK l \in DOMAIN ListOf(d) : y = off[d] + l
  BY <1>5
<1>7. DirOf(c, i) = DirOf(d, l)
  <2>1. worklist[x] = Job(c, i) /\ worklist[y] = Job(d, l)
    BY <1>2, <1>4, <1>6
  <2> QED
    BY <2>1 DEF Job
<1>8. c = d
  <2>1. DirOf(c, i).cpu = CPUs[c] /\ DirOf(d, l).cpu = CPUs[d]
    BY DEF DirOf
  <2>2. CPUsListed
    BY <1>1, CPUsAreListed DEF DivInv, Asked
  <2> QED
    BY <1>7, <2>1, <2>2 DEF CPUsListed
<1>9. PICK k : ListFrom(c, k)
  BY <1>1, ListsAreDivisions
<1> DEFINE L == split[k]
           O == opened[k]
           n == Len(L)
<1>10. /\ Divides(L, userRanges, Len(userRanges)) /\ Opens(O, L, opts.minTime, opts.maxTime)
       /\ ListOf(c) = O /\ DOMAIN ListOf(c) = 1..n /\ DOMAIN L = 1..n /\ n \in Nat
  BY <1>9 DEF ListFrom
<1> HIDE DEF L, O, n
<1>11. ASSUME NEW m \in 1..n, O[m] = <<None, None>> PROVE n = 1
  <2>1. L[m][1] \in Nat /\ L[m][2] \in Nat
    BY <1>1, <1>10, EndsAreTimes DEF DivInv
  <2>2. O[m][1] = None /\ O[m][2] = None
    BY <1>11
  <2>3. /\ O[m][1] = L[m][1] \/ m = 1
        /\ O[m][2] = L[m][2] \/ m = Len(L)
    BY <1>10 DEF Opens
  <2>4. O[m][1] # L[m][1] /\ O[m][2] # L[m][2]
    BY <2>1, <2>2 DEF None
  <2> QED
    BY <2>3, <2>4 DEF n
<1>12. i \in 1..n /\ l \in 1..n
  BY <1>8, <1>10
<1>13. CASE n = 1
  BY <1>4, <1>6, <1>8, <1>12, <1>13
<1>14. CASE n # 1
  <2>1. O[i] # <<None, None>> /\ O[l] # <<None, None>>
    BY <1>11, <1>12, <1>14
  <2>2. DirOf(c, i).range = i /\ DirOf(c, l).range = l
    BY <1>10, <2>1 DEF DirOf
  <2> QED
    BY <1>4, <1>6, <1>7, <1>8, <2>2
<1> QED
  BY <1>13, <1>14

\* The invariant is what the run checks.
LEMMA DivImplies == DivInv => WorkDivided /\ (stage = "ready" => Len(worklist) \in Nat)
BY Partitioned, NoneRefused, NoneShared DEF WorkDivided, SelfTestSucceeds, DivInv, Placed
-----------------------------------------------------------------------------
(* The invariant of the shares.                                            *)

\* The ranges made for samples stay as they were made.
ByDensity ==
  SplitTimeRangesByTraceDataDensity(userRanges, CPUs, opts.nr, opts.samples, PerCPU,
    opts.minSize, opts.minInterval, opts.nrJobCpus)
SharesInv ==
  stage \in {"check", "open", "create", "ready"} /\ opts.intelPT /\ ~HasInterval
    => split = ByDensity

\* There are none at first.
LEMMA SharesInit == Init => SharesInv
BY DEF Init, SharesInv

\* Only SplitTimeRanges makes them.
LEMMA SharesKept ==
  ASSUME SharesInv, [Next]_vars
  PROVE  SharesInv'
<1>1. CASE SplitTimeRanges
  <2>1. UNCHANGED <<opts, userRanges>>
    BY <1>1 DEF SplitTimeRanges
  <2>2. ByDensity' = ByDensity /\ HasInterval' = HasInterval
    BY <2>1 DEF ByDensity, HasInterval, CPUs, PerCPU
  <2>3. opts.intelPT /\ ~HasInterval => split' = ByDensity
    BY <1>1 DEF SplitTimeRanges, ByDensity
  <2> QED
    BY <2>1, <2>2, <2>3 DEF SharesInv
<1>2. CASE Extract
  <2>1. stage' \in {"bad_time", "bad_cpus", "split"}
    BY <1>2 DEF Extract
  <2> QED
    BY <2>1 DEF SharesInv
<1>3. CASE UNCHANGED <<opts, userRanges, split>> /\ (stage' = stage \/ stage = "check" \/
             stage = "open" \/ stage = "create")
  <2>1. ByDensity' = ByDensity /\ HasInterval' = HasInterval
    BY <1>3 DEF ByDensity, HasInterval, CPUs, PerCPU
  <2> QED
    BY <1>3, <2>1 DEF SharesInv
<1>4. CASE CheckTimeRanges \/ OpenEnds \/ CreateWorkList \/ UNCHANGED confVars
  BY <1>3, <1>4 DEF CheckTimeRanges, OpenEnds, CreateWorkList, confVars
<1> QED
  BY <1>1, <1>2, <1>4 DEF Next, Config, Running, Ended, vars

\* A job reads no more than its range.
LEMMA JobReadsNoMore ==
  ASSUME NEW j, NEW L, NEW O, NEW i \in DOMAIN L, worklist[j].time = O[i],
         L[i][1] \in Nat, L[i][2] \in Nat, opts.minTime \in Nat, opts.maxTime \in Nat,
         Opens(O, L, opts.minTime, opts.maxTime)
  PROVE  JobTimes(j) \subseteq Times(L[i])
<1> DEFINE a == L[i][1]
           b == L[i][2]
           x == O[i][1]
           y == O[i][2]
           lo == opts.minTime
           hi == opts.maxTime
           from == IF x = None THEN lo ELSE x
           to == IF y = None THEN hi ELSE y
<1>1. /\ a \in Nat /\ b \in Nat /\ lo \in Nat /\ hi \in Nat
      /\ x = a \/ (x = None /\ a <= lo)
      /\ y = b \/ (y = None /\ b >= hi)
  BY DEF Opens
<1>2. JobTimes(j) = from..to
  BY DEF JobTimes
<1>3. Times(L[i]) = a..b
  BY DEF Times
<1> HIDE DEF a, b, x, y, lo, hi
<1>4. from \in Nat /\ to \in Nat /\ a <= from /\ to <= b
  BY <1>1 DEF None
<1> HIDE DEF from, to
<1>5. from..to \subseteq a..b
  BY <1>1, <1>4
<1> QED
  BY <1>2, <1>3, <1>5

\* The invariants are what the run checks.
LEMMA SharesImply == DivInv /\ SharesInv => SharesAreEven
<1> DEFINE U == userRanges
           samples == opts.samples
           interval == AtLeast(IF opts.nr > 0 THEN 1 ELSE AtLeast(1, opts.minSize),
                               Rounded(Len(samples),
                                 IF opts.nr > 0 THEN opts.nr ELSE opts.nrJobCpus))
<1> SUFFICES ASSUME DivInv, SharesInv, stage = "ready", DistinctTimes,
                    Len(split) = Len(CPUs), opts.intelPT, ~HasInterval,
                    NEW e \in Range(CPUs),
                    Cardinality(SamplesOf(e)) >= AtLeast(1, opts.minSize),
                    NEW j \in DOMAIN worklist
             PROVE  Cardinality({s \in SamplesOf(worklist[j].cpu) :
                                   samples[s][2] \in JobTimes(j)})
                      <= Share(Cardinality(SamplesOf(worklist[j].cpu))) + 1
  BY DEF SharesAreEven
<1>1. opts \in Invocations /\ Asked(U) /\ Valid(U) /\ SplitOk(split) /\ OpenedOk(opened)
  BY DEF DivInv, Asked
<1>2. CPUsListed /\ opts.minTime \in Nat /\ opts.maxTime \in Nat
  BY <1>1, CPUsAreListed, InvocationAssumption DEF Asked
<1>3. /\ opts.nr \in Nat /\ opts.nrJobCpus \in Nat \ {0} /\ opts.minSize \in Nat
      /\ samples \in Seq(Int \X Covered(U))
      /\ \A a, b \in DOMAIN samples : a < b => samples[a][2] <= samples[b][2]
  <2>1. U = ParseTimeStr(opts.time, opts.minTime, opts.maxTime)
    BY <1>1 DEF Asked
  <2> QED
    BY <1>1, <2>1, InvocationAssumption
<1>4. Covered(U) \in SUBSET Int
  BY <1>1, CoveredIsInside
<1>5. interval \in Nat \ {0}
  <2> DEFINE low == IF opts.nr > 0 THEN 1 ELSE AtLeast(1, opts.minSize)
             by == IF opts.nr > 0 THEN opts.nr ELSE opts.nrJobCpus
  <2>1. low \in Nat \ {0} /\ by \in Nat \ {0} /\ Len(samples) \in Int
    BY <1>3 DEF AtLeast
  <2> HIDE DEF low, by
  <2>2. Rounded(Len(samples), by) \in Int
    BY <2>1, RoundedType
  <2>3. AtLeast(low, Rounded(Len(samples), by)) \in Nat \ {0}
    BY <2>1, <2>2 DEF AtLeast
  <2> QED
    BY <2>3 DEF low, by
<1> HIDE DEF U, samples
<1>6. ASSUME NEW cpu, NEW R
      PROVE  LET t == TimesOf(samples, PerCPU, cpu)
                 S == SamplesOf(cpu)
             IN  /\ t \in Seq(Covered(U)) /\ Ascending(t) /\ Increasing(t)
                 /\ Len(t) = Cardinality(S)
                 /\ Cardinality({s \in S : samples[s][2] \in R})
                      <= Cardinality({k \in DOMAIN t : t[k] \in R})
                 /\ Cardinality({s \in S : samples[s][2] \in R}) \in Nat
                 /\ IsFiniteSet(S)
  <2> DEFINE t == TimesOf(samples, PerCPU, cpu)
             S == SamplesOf(cpu)
  <2>1. S = {s \in DOMAIN samples : ~PerCPU \/ samples[s][1] = cpu}
    BY DEF SamplesOf, samples
  <2>2. \A a, b \in DOMAIN samples :
          a # b /\ (~PerCPU \/ samples[a][1] = samples[b][1]) => samples[a][2] # samples[b][2]
    BY DEF DistinctTimes, samples
  <2> HIDE DEF S
  <2>3. t \in Seq(Covered(U)) /\ Ascending(t) /\ Increasing(t)
    BY <1>3, <1>4, <2>2, TimesInOrder
  <2>4. t = TimesOf(samples, PerCPU, cpu)
    OBVIOUS
  <2> HIDE DEF t
  <2>5. Counted(S, t, samples, R)
    BY <1>3, <1>4, <2>1, <2>4, SamplesCounted
  <2>6. IsFiniteSet(S)
    <3>1. DOMAIN samples = 1..Len(samples) /\ Len(samples) \in Nat
      BY <1>3, SeqFacts
    <3>2. IsFiniteSet(DOMAIN samples)
      BY <3>1, FS_Interval
    <3>3. S \in SUBSET DOMAIN samples
      BY <2>1
    <3> QED
      BY <3>2, <3>3, FS_Subset
  <2> QED
    BY <2>3, <2>5, <2>6 DEF t, S, Counted
<1>7. split = [c \in DOMAIN CPUs |->
                 RangesForSamples(U, TimesOf(samples, PerCPU, CPUs[c]), interval)]
  <2>1. Len(TimesOf(samples, PerCPU, e)) = Cardinality(SamplesOf(e))
    BY <1>6
  <2>2. Cardinality(SamplesOf(e)) \in Nat /\ AtLeast(1, opts.minSize) \in Nat
    <3>1. IsFiniteSet(SamplesOf(e))
      BY <1>6
    <3> QED
      BY <1>3, <3>1, FS_CardinalityType DEF AtLeast
  <2>3. ~(\A c \in Range(CPUs) :
            Len(TimesOf(samples, PerCPU, c)) < AtLeast(1, opts.minSize))
    BY <2>1, <2>2
  <2>4. split = ByDensity
    BY DEF SharesInv
  <2> QED
    BY <2>3, <2>4 DEF ByDensity, SplitTimeRangesByTraceDataDensity, samples, U
<1>8. PICK off \in [DOMAIN CPUs -> Nat] :
        /\ \A c \in DOMAIN CPUs : \A i \in DOMAIN ListOf(c) :
             off[c] + i \in DOMAIN worklist /\ worklist[off[c] + i] = Job(c, i)
        /\ \A x \in DOMAIN worklist :
             \E c \in DOMAIN CPUs : \E i \in DOMAIN ListOf(c) : x = off[c] + i
  BY PlacesOf
<1>9. PICK c \in DOMAIN CPUs : \E i \in DOMAIN ListOf(c) : j = off[c] + i
  BY <1>8
<1>10. PICK i \in DOMAIN ListOf(c) : j = off[c] + i
  BY <1>9
<1>11. worklist[j].cpu = CPUs[c] /\ worklist[j].time = ListOf(c)[i]
  <2>1. worklist[j] = Job(c, i)
    BY <1>8, <1>10, Zenon
  <2> QED
    BY <2>1 DEF Job
<1>12. c \in DOMAIN split /\ ListOf(c) = opened[c]
  <2>1. c \in DOMAIN split
    BY <1>7
  <2>2. Len(opened) = Len(CPUs) /\ DOMAIN CPUs = 1..Len(CPUs) /\ Len(CPUs) \in Nat
    BY <1>1, <1>2 DEF OpenedOk, CPUsListed
  <2>3. Len(opened) > 1 \/ c = 1
    BY <2>2
  <2> QED
    BY <2>1, <2>3 DEF ListOf
<1> DEFINE L == split[c]
           O == opened[c]
           t == TimesOf(samples, PerCPU, CPUs[c])
           S == SamplesOf(CPUs[c])
           d == Ceiling(Len(t), AtLeast(1, Rounded(Len(t), interval)))
<1>13. Divides(L, U, Len(U)) /\ Opens(O, L, opts.minTime, opts.maxTime) /\ i \in DOMAIN L
  <2>1. Divides(L, U, Len(U)) /\ Opens(O, L, opts.minTime, opts.maxTime)
    BY <1>1, <1>12 DEF SplitOk, OpenedOk, U
  <2> QED
    BY <1>12, <2>1 DEF Opens
<1>14. L = RangesForSamples(U, t, interval)
  BY <1>7
<1> HIDE DEF L, O, interval
<1>15. L[i][1] \in Nat /\ L[i][2] \in Nat /\ i \in 1..Len(L)
  <2>1. L[i][1] \in Nat /\ L[i][2] \in Nat
    BY <1>1, <1>13, EndsAreTimes
  <2>2. DOMAIN L = 1..Len(L)
    BY <1>13, SeqFacts DEF Divides
  <2> QED
    BY <1>13, <2>1, <2>2
<1>16. JobTimes(j) \subseteq Times(L[i])
  <2>1. worklist[j].time = O[i]
    BY <1>11, <1>12 DEF O
  <2> QED
    BY <1>2, <1>13, <1>15, <2>1, JobReadsNoMore
<1>17. /\ t \in Seq(Covered(U)) /\ Ascending(t) /\ Increasing(t) /\ Len(t) = Cardinality(S)
       /\ Cardinality({s \in S : samples[s][2] \in Times(L[i])})
            <= Cardinality({k \in DOMAIN t : t[k] \in Times(L[i])})
       /\ Cardinality({s \in S : samples[s][2] \in JobTimes(j)}) \in Nat
       /\ Cardinality({s \in S : samples[s][2] \in Times(L[i])}) \in Nat
       /\ IsFiniteSet(S)
  BY <1>6
<1> HIDE DEF t, S
<1>18. d \in Nat /\ Cardinality({k \in DOMAIN t : t[k] \in Times(L[i])}) <= d + 1
  BY <1>1, <1>5, <1>14, <1>15, <1>17, RangesAreEven
<1>19. Share(Cardinality(S)) = d
  BY <1>17 DEF Share, interval, samples
<1>20. Cardinality({s \in S : samples[s][2] \in JobTimes(j)})
         <= Cardinality({s \in S : samples[s][2] \in Times(L[i])})
  <2> DEFINE X == {s \in S : samples[s][2] \in JobTimes(j)}
             Y == {s \in S : samples[s][2] \in Times(L[i])}
  <2>1. IsFiniteSet(Y)
    <3>1. Y \in SUBSET S
      OBVIOUS
    <3> HIDE DEF Y
    <3> QED
      BY <1>17, <3>1, FS_Subset
  <2>2. X \in SUBSET Y
    BY <1>16
  <2> HIDE DEF X, Y
  <2>3. Cardinality(X) <= Cardinality(Y)
    BY <2>1, <2>2, FS_Subset
  <2> QED
    BY <2>3 DEF X, Y
<1> DEFINE x == Cardinality({s \in S : samples[s][2] \in JobTimes(j)})
           y == Cardinality({s \in S : samples[s][2] \in Times(L[i])})
           z == Cardinality({k \in DOMAIN t : t[k] \in Times(L[i])})
<1>21. z \in Nat
  <2>1. DOMAIN t = 1..Len(t) /\ Len(t) \in Nat
    BY <1>17, SeqFacts
  <2>2. IsFiniteSet(DOMAIN t) /\ {k \in DOMAIN t : t[k] \in Times(L[i])} \in SUBSET DOMAIN t
    BY <2>1, FS_Interval
  <2>3. IsFiniteSet({k \in DOMAIN t : t[k] \in Times(L[i])})
    BY <2>2, FS_Subset
  <2> QED
    BY <2>3, FS_CardinalityType
<1>22. x \in Nat /\ y \in Nat /\ x <= y /\ y <= z /\ z <= d + 1 /\ d \in Nat
  BY <1>17, <1>18, <1>20
<1> HIDE DEF x, y, z, d
<1>23. x <= d + 1
  BY ONLY <1>21, <1>22
<1> QED
  BY <1>11, <1>19, <1>23 DEF x, S, d, samples
-----------------------------------------------------------------------------
(* parallel-perf.py as a whole.                                            *)

\* What the configuration says of the jobs.
ConfInv ==
  /\ opts \in Invocations
  /\ stage \in Refused \cup {"extract", "split", "check", "open", "create", "ready"}
  /\ stage # "ready" => pc = "idle"
  /\ pc # "idle" => nrWork = Len(worklist) /\ nrJobs \in Nat \ {0}

\* At least one job may run.
LEMMA JobCountType == ConfInv => JobCount \in Nat \ {0}
BY InvocationAssumption DEF ConfInv, JobCount

\* Before the configuration.
LEMMA InitInvs == Init => IInv /\ ConfInv
BY InitIInv DEF Init, JobsInit, ConfInv, Refused

\* The configuration leaves the jobs alone.
LEMMA ConfigKeeps ==
  ASSUME IInv, ConfInv, Config
  PROVE  IInv' /\ ConfInv'
<1>1. /\ UNCHANGED <<jobVars, opts>> /\ stage # "ready" /\ UNCHANGED <<pc, nrJobs>>
      /\ stage' \in Refused \cup {"split", "check", "open", "create", "ready"}
  BY DEF Config, Extract, SplitTimeRanges, CheckTimeRanges, OpenEnds,
         CreateWorkList, Refused, jobVars, fixed
<1>2. IInv'
  BY <1>1, StutterKeeps
<1> QED
  BY <1>1, <1>2 DEF ConfInv

\* RunWork is called once, with the work list and the number of jobs.
LEMMA RunKeeps ==
  ASSUME IInv, ConfInv, stage = "ready" => Len(worklist) \in Nat,
         Running(Run) \/ Running(JobsNext)
  PROVE  IInv' /\ ConfInv'
<1>1. stage = "ready" /\ UNCHANGED <<opts, stage, worklist>>
  BY DEF Running, confVars
<1>2. CASE Run
  <2>1. JobCount \in Nat \ {0} /\ Len(worklist) \in Nat
    BY <1>1, JobCountType
  <2>2. CallRunWork(Len(worklist), JobCount, opts.pipeTo)
    BY <1>2 DEF Run
  <2>3. IInv' /\ nrWork' = Len(worklist) /\ nrJobs' = JobCount
    BY <2>1, <2>2, CallKeeps DEF CallRunWork
  <2> QED
    BY <1>1, <2>1, <2>3 DEF ConfInv
<1>3. CASE JobsNext
  <2>1. IInv'
    BY <1>3, JobsNextKeeps
  <2>2. pc # "idle" /\ UNCHANGED <<nrWork, nrJobs>>
    <3>1. pc = "idle" => Work = {}
      BY DEF IInv, StateInv, Work
    <3> QED
      BY <1>3, <3>1
         DEF JobsNext, MainStep, StartJob, StartRaises, StartFrom, BeginPolls,
             PollProducer, PollJob, EndPolls, AllDone, KillNotFinished, Reap,
             ReapNotFinished, KillRunning, ReapRunning, ReturnFalse, Interrupt,
             KillAndRaise, Process, ProducerExits, ConsumerExits, Die, WriteErr,
             fixed
  <2> QED
    BY <1>1, <2>1, <2>2 DEF ConfInv
<1> QED
  BY <1>2, <1>3 DEF Running

\* The invariants are what the runs check.
LEMMA InvsImply == IInv /\ ConfInv /\ DivInv => JobsInv
BY IInvImplies, DivImplies DEF ConfInv, JobsInv, TypeOK

\* The work is divided (lines 403-712 and 769-827): whatever the options and the
\* samples, the self test fails only for ranges without a gap between them, every
\* moment the user asked for is given to exactly one job of every CPU, none to
\* which perf script would refuse, and no two jobs share an output directory.
THEOREM WorkIsDivided == Spec => []WorkDivided
BY DivInit, DivKeeps, DivImplies, PTL DEF Spec

\* Of a recording of Intel PT, no job is given more than one sample above the share of its
\* CPU (lines 490-580), unless two samples have the same time.
THEOREM SharesStayEven == Spec => []SharesAreEven
BY DivInit, DivKeeps, SharesInit, SharesKept, SharesImply, PTL DEF Spec

\* The jobs are run as RunWork's result says, never more at once than the
\* option --jobs allows (lines 192-260 and 829-838).
THEOREM JobsAccounted == Spec => []JobsInv
<1>1. /\ IInv /\ ConfInv /\ (stage = "ready" => Len(worklist) \in Nat) /\ [Next]_vars
      => IInv' /\ ConfInv'
  <2> SUFFICES ASSUME IInv, ConfInv, stage = "ready" => Len(worklist) \in Nat,
                      [Next]_vars
               PROVE  IInv' /\ ConfInv'
    OBVIOUS
  <2>1. CASE UNCHANGED vars
    <3>1. UNCHANGED jobVars /\ UNCHANGED <<opts, stage, worklist, pc, nrWork, nrJobs>>
      BY <2>1 DEF vars, confVars, jobVars, fixed
    <3> QED
      BY <3>1, StutterKeeps DEF ConfInv
  <2> QED
    BY <2>1, ConfigKeeps, RunKeeps DEF Next, Ended
<1>2. DivInv => (stage = "ready" => Len(worklist) \in Nat)
  BY DivImplies
<1> QED
  BY InitInvs, InvsImply, DivInit, DivKeeps, <1>1, <1>2, PTL DEF Spec
=============================================================================
