----------------------------- MODULE VmaRaceProofs -----------------------------
(***************************************************************************)
(* LockInv is inductive, whatever the runs are, and mutual exclusion       *)
(* follows from it: a run in TakeOver has read a pid that was not that of  *)
(* a holder, and nobody became a holder since, because for that it must    *)
(* make the directory, and then the lock is contested.                     *)
(*                                                                         *)
(* What a run does between taking and releasing the lock is nothing to the *)
(* lock: VmaRace implements RunLock, so that its mutual exclusion holds    *)
(* for the whole script.  And a run that has ended left no process behind, *)
(* by following, command by command, which processes live and which of     *)
(* them the run could kill.                                                *)
(***************************************************************************)
EXTENDS VmaRace, TLAPS

-----------------------------------------------------------------------------
(* The lock by itself                                                        *)
USE DEF Taking, Window, TakeOver, Releasing, Ended

\* A run that holds the lock is alive, so that the others leave it the lock.
LEMMA HolderIsAlive ==
  ASSUME LockTypeOK, NEW r \in Runs, Holds(r)
  PROVE  Lives(r)
BY DEF LockTypeOK, Holds, Lives

LEMMA LockInitEstablishes == LockInit => LockInv
<1> SUFFICES ASSUME LockInit PROVE LockInv
  OBVIOUS
<1>1. LockTypeOK
  <2>1. at \in [Runs -> {"out"}] /\ dir \in BOOLEAN /\ contested \in BOOLEAN
    BY DEF LockInit
  <2>2. old \in [Runs -> {0}] /\ cleanups \in [Runs -> {0}] /\ owner = 0
    BY DEF LockInit
  <2> QED
    BY <2>1, <2>2 DEF LockTypeOK
<1>2. \A r \in Runs : at[r] = "out" /\ owner # r
  BY RunsAssumption DEF LockInit
<1>3. owner # 0 => dir
  BY DEF LockInit
<1>4. \A r \in Runs : at[r] \notin Taking /\ ~Holds(r)
  BY <1>2 DEF Holds
<1>5. \A r \in Runs : at[r] \notin {"in", "relpid", "probe"} \cup Releasing
  BY <1>2
<1> QED
  BY <1>1, <1>2, <1>3, <1>4, <1>5 DEF LockInv

LEMMA BeginPreserves ==
  ASSUME LockInv, NEW r \in Runs, Begin(r)
  PROVE  LockInv'
BY DEF LockInv, LockTypeOK, Holds, Begin, Moves

LEMMA MakeDirPreserves ==
  ASSUME LockInv, NEW r \in Runs, MakeDir(r)
  PROVE  LockInv'
<1>1. CASE dir
  BY <1>1 DEF LockInv, LockTypeOK, Holds, MakeDir, MadeWithin, Moves
<1>2. CASE ~dir
  <2>1. /\ at' = [at EXCEPT ![r] = "record"] /\ at[r] = "mkdir" /\ dir'
        /\ UNCHANGED <<owner, old, cleanups>>
    BY <1>2 DEF MakeDir, Moves
  <2>2. owner = 0 /\ \A q \in Runs : owner # q
    BY <1>2, RunsAssumption DEF LockInv, LockTypeOK
  <2>3. /\ contested' \in BOOLEAN
        /\ ~contested' => ~contested /\ \A q \in Runs \ {r} : at[q] \notin Window
    BY <1>2 DEF MakeDir, MadeWithin, LockInv, LockTypeOK
  <2> QED
    BY <2>1, <2>2, <2>3 DEF LockInv, LockTypeOK, Holds
<1> QED
  BY <1>1, <1>2

LEMMA ReadOldPreserves ==
  ASSUME LockInv, NEW r \in Runs, ReadOld(r)
  PROVE  LockInv'
BY DEF LockInv, LockTypeOK, Holds, ReadOld, ReadEarly, Moves

LEMMA ProbeActivePreserves ==
  ASSUME LockInv, NEW r \in Runs, ProbeActive(r)
  PROVE  LockInv'
BY DEF LockInv, LockTypeOK, Holds, ProbeActive, Fails, Moves

LEMMA ProbeStalePreserves ==
  ASSUME LockInv, NEW r \in Runs, ProbeStale(r)
  PROVE  LockInv'
BY HolderIsAlive DEF LockInv, LockTypeOK, Holds, ProbeStale, Moves

LEMMA RemovePidPreserves ==
  ASSUME LockInv, NEW r \in Runs, RemovePid(r)
  PROVE  LockInv'
BY RunsAssumption DEF LockInv, LockTypeOK, Holds, RemovePid, Moves

LEMMA RemoveDirPreserves ==
  ASSUME LockInv, NEW r \in Runs, RemoveDir(r)
  PROVE  LockInv'
BY DEF LockInv, LockTypeOK, Holds, RemoveDir, Moves

LEMMA MakeAgainPreserves ==
  ASSUME LockInv, NEW r \in Runs, MakeAgain(r)
  PROVE  LockInv'
<1>1. CASE dir
  BY <1>1 DEF LockInv, LockTypeOK, Holds, MakeAgain, MadeWithin, Fails, Moves
<1>2. CASE ~dir
  <2>1. /\ at' = [at EXCEPT ![r] = "record"] /\ at[r] = "again" /\ dir'
        /\ UNCHANGED <<owner, old, cleanups>>
    BY <1>2 DEF MakeAgain, Moves
  <2>2. owner = 0 /\ \A q \in Runs : owner # q
    BY <1>2, RunsAssumption DEF LockInv, LockTypeOK
  <2>3. /\ contested' \in BOOLEAN
        /\ ~contested' => ~contested /\ \A q \in Runs \ {r} : at[q] \notin Window
    BY <1>2 DEF MakeAgain, MadeWithin, LockInv, LockTypeOK
  <2> QED
    BY <2>1, <2>2, <2>3 DEF LockInv, LockTypeOK, Holds
<1> QED
  BY <1>1, <1>2

LEMMA RecordPreserves ==
  ASSUME LockInv, NEW r \in Runs, Record(r)
  PROVE  LockInv'
BY DEF LockInv, LockTypeOK, Holds, Record, Fails, Moves

LEMMA EndPreserves ==
  ASSUME LockInv, NEW r \in Runs, NEW n \in 1..2, End(r, n) \/ Leave(r)
  PROVE  LockInv'
BY DEF LockInv, LockTypeOK, Holds, End, Leave, Moves

LEMMA InterruptPreserves ==
  ASSUME LockInv, NEW r \in Runs, Interrupt(r)
  PROVE  LockInv'
BY DEF LockInv, LockTypeOK, Holds, Interrupt

LEMMA ReleasePreserves ==
  ASSUME LockInv, NEW r \in Runs, Release(r)
  PROVE  LockInv'
<1>1. CASE Test(r)
  BY <1>1 DEF LockInv, LockTypeOK, Holds, Test, CleanedUp, Moves
<1>2. CASE ReleasePid(r)
  BY <1>2, RunsAssumption DEF LockInv, LockTypeOK, Holds, ReleasePid, Moves
<1>3. CASE ReleaseDir(r)
  BY <1>3, RunsAssumption DEF LockInv, LockTypeOK, Holds, ReleaseDir, CleanedUp
<1> QED
  BY <1>1, <1>2, <1>3 DEF Release

LEMMA KillPreserves ==
  ASSUME LockInv, NEW r \in Runs, Kill(r)
  PROVE  LockInv'
BY DEF LockInv, LockTypeOK, Holds, Kill, Lives

\* The lock's state is of its type and as LockInv says, for any number of runs that begin, are
\* signalled and are killed at any moment (run_vma_lock_fault_race.sh:43-60).
THEOREM LockInductive == LockSpec => []LockInv
<1>1. LockInv /\ [LockNext]_lockVars => LockInv'
  <2> SUFFICES ASSUME LockInv, [LockNext]_lockVars
               PROVE  LockInv'
    OBVIOUS
  <2>1. CASE UNCHANGED lockVars
    BY <2>1 DEF lockVars, LockInv, LockTypeOK, Holds
  <2>2. CASE LockNext
    <3> PICK r \in Runs :
          \/ Begin(r) \/ Take(r) \/ (\E n \in 1..2 : End(r, n)) \/ Leave(r)
          \/ Interrupt(r) \/ Release(r) \/ Kill(r)
      BY <2>2 DEF LockNext
    <3>1. CASE Take(r)
      BY <3>1, MakeDirPreserves, ReadOldPreserves, ProbeActivePreserves, ProbeStalePreserves,
         RemovePidPreserves, RemoveDirPreserves, MakeAgainPreserves, RecordPreserves
         DEF Take
    <3>2. CASE Leave(r) \/ \E n \in 1..2 : End(r, n)
      BY <3>2, EndPreserves
    <3> QED
      BY <3>1, <3>2, BeginPreserves, InterruptPreserves, ReleasePreserves, KillPreserves
  <2> QED
    BY <2>1, <2>2
<1> QED
  BY LockInitEstablishes, <1>1, PTL DEF LockSpec

\* Two runs have the lock together only if one of them made the directory while the other,
\* having read the pid of a dead run, was about to remove it (or had, or read it too early).
THEOREM LockExcludes == LockSpec => []MutualExclusion
<1>1. LockInv => MutualExclusion
  BY DEF LockInv, MutualExclusion
<1> QED
  BY LockInductive, <1>1, PTL

HIDE DEF Taking, Window, TakeOver, Releasing, Ended
-----------------------------------------------------------------------------
(* The lock in the whole script                                              *)
LEMMA RunStepsAreLockSteps ==
  ASSUME NEW r \in Runs, RunSteps(r)
  PROVE  [LockNext]_lockVars
<1>1. CASE \/ ClearGo(r) \/ StartWork(r) \/ NoteWork(r) \/ StartTrace(r) \/ NoteTrace(r)
           \/ ReleaseWork(r) \/ WatchEnd(r) \/ StopTrace(r) \/ WaitTrace(r)
           \/ KillWork(r) \/ KillTrace(r)
  BY <1>1 DEF ClearGo, StartWork, NoteWork, StartTrace, NoteTrace, ReleaseWork, WatchEnd,
              StopTrace, WaitTrace, KillWork, KillTrace, Keeps
<1>2. CASE Check(r) \/ AwaitReady(r) \/ WatchHit(r) \/ Report(r)
  <2>1. UNCHANGED lockVars \/ End(r, 1) \/ End(r, 2)
    BY <1>2 DEF Check, AwaitReady, WatchHit, Report, Keeps, Ends
  <2> QED
    BY <2>1 DEF LockNext
<1>3. CASE WaitHelper(r)
  BY <1>3 DEF WaitHelper, LockNext
<1> QED
  BY <1>1, <1>2, <1>3 DEF RunSteps

LEMMA OthersKeepTheLock ==
  ASSUME NEW r \in Runs,
         WorkGoes(r) \/ WorkEnds(r) \/ WorkHits(r) \/ HelperSteps(r) \/ HelperFails(r)
  PROVE  UNCHANGED lockVars
<1>1. CASE WorkGoes(r) \/ WorkEnds(r) \/ WorkHits(r)
  BY <1>1 DEF WorkGoes, WorkEnds, WorkHits, Worlds
<1>2. CASE HelperSteps(r) \/ HelperFails(r)
  BY <1>2 DEF HelperSteps, HelperFails, StopTracing, Filter, StartTracing, WriteReady, SetTrap,
              ReadLine, HelperExits, HelperTermed, Helps
<1> QED
  BY <1>1, <1>2

LEMMA SignalsAreLockSteps ==
  ASSUME NEW r \in Runs, Signal(r) \/ SignalTaking(r) \/ KillRun(r) \/ LockStep(r)
  PROVE  LockNext
<1>1. Signal(r) => End(r, 2)
  BY DEF Signal, Ends
<1>2. SignalTaking(r) => Interrupt(r)
  BY DEF SignalTaking
<1>3. KillRun(r) => Kill(r)
  BY DEF KillRun
<1>4. LockStep(r) => Begin(r) \/ Take(r) \/ Release(r)
  BY DEF LockStep
<1> QED
  BY <1>1, <1>2, <1>3, <1>4 DEF LockNext

LEMMA StepIsLockStep ==
  ASSUME [RaceNext]_<<lockVars, raceVars>>
  PROVE  [LockNext]_lockVars
<1>1. CASE RaceNext
  BY <1>1, RunStepsAreLockSteps, OthersKeepTheLock, SignalsAreLockSteps DEF RaceNext
<1>2. CASE UNCHANGED <<lockVars, raceVars>>
  BY <1>2
<1> QED
  BY <1>1, <1>2

\* Every behaviour of the scripts is one of their lock (run_vma_lock_fault_race.sh:29-65).
THEOREM ImplementsRunLock == RaceSpec => LockSpec
<1>1. RaceInit => LockInit
  BY DEF RaceInit
<1>2. [RaceNext]_<<lockVars, raceVars>> => [LockNext]_lockVars
  BY StepIsLockStep
<1> QED
  BY <1>1, <1>2, PTL DEF RaceSpec, LockSpec

\* No two runs have the lock, whatever their workloads, helpers and signals do and however
\* many take it at the same time, unless the lock was contested.
THEOREM RaceExcludes == RaceSpec => []MutualExclusion
BY ImplementsRunLock, LockExcludes, PTL

-----------------------------------------------------------------------------
(* The processes                                                             *)
USE DEF Taking, Window, TakeOver, Releasing, Ended

NotBegun == {"out"} \cup Taking
Left     == Releasing \cup {"over"}

\* What lives, by the next command of a run that has the lock.
Knows(r) ==
  /\ stage[r] \in {"check", "clear", "startWork", "stopTrace", "waitTrace", "report"} =>
       ~WorkLives(r)
  /\ stage[r] \in {"check", "clear", "startWork", "noteWork", "startTrace", "report"} =>
       ~HelperLives(r)
  /\ stage[r] \in {"startTrace", "noteTrace", "ready", "go", "watch"} => "work" \in noted[r]
  /\ stage[r] \in {"ready", "go", "watch", "stopTrace", "waitTrace"} => "trace" \in noted[r]
  /\ stage[r] = "killWork" /\ WorkLives(r) => "work" \in noted[r] \/ caught[r] = "noteWork"
  /\ stage[r] \in {"killTrace", "waitHelper"} /\ WorkLives(r) => caught[r] = "noteWork"
  /\ stage[r] \in {"killWork", "killTrace", "waitHelper"} /\ HelperLives(r) =>
       "trace" \in noted[r] \/ caught[r] = "noteTrace"

ProcessTypes ==
  /\ at \in [Runs -> NotBegun \cup {"in"} \cup Left \cup {"dead"}]
  /\ stage \in [Runs -> Stages]
  /\ noted \in [Runs -> SUBSET {"work", "trace"}]
  /\ work \in [Runs -> {"none", "waiting", "running", "ended"}]
  /\ helper \in [Runs -> SettingUp \cup {"none", "untrapped", "reading", "leaving", "cut", "ended"}]
  /\ caught \in [Runs -> Between \cup {"none", "elsewhere"}]

StageInv(r) ==
  /\ at[r] \in NotBegun => stage[r] = "check"
  /\ at[r] \in NotBegun \cup {"in"} => Knows(r)
  /\ at[r] \in Left => /\ WorkLives(r) => caught[r] = "noteWork"
                       /\ HelperLives(r) => caught[r] = "noteTrace"

ProcessInv == ProcessTypes /\ \A r \in Runs : StageInv(r)

LEMMA ProcessInit == RaceInit => ProcessInv
<1> SUFFICES ASSUME RaceInit PROVE ProcessInv
  OBVIOUS
<1>1. ProcessTypes
  BY DEF RaceInit, LockInit, Idle, ProcessTypes, NotBegun, Left, Stages, SettingUp, Between
<1>2. \A r \in Runs : StageInv(r)
  BY DEF RaceInit, LockInit, Idle, StageInv, Knows, WorkLives, HelperLives, NotBegun, Left
<1> QED
  BY <1>1, <1>2 DEF ProcessInv

\* The steps of workloads and helpers start nothing.
LEMMA ProcessesEndOnly ==
  ASSUME ProcessInv, NEW r \in Runs,
         WorkGoes(r) \/ WorkEnds(r) \/ WorkHits(r) \/ HelperSteps(r) \/ HelperFails(r)
  PROVE  ProcessInv'
<1>1. at' = at /\ stage' = stage /\ noted' = noted /\ caught' = caught
  <2>1. UNCHANGED lockVars
    BY OthersKeepTheLock
  <2>2. UNCHANGED ownVars
    BY DEF WorkGoes, WorkEnds, WorkHits, Worlds, HelperSteps, HelperFails, StopTracing, Filter,
           StartTracing, WriteReady, SetTrap, ReadLine, HelperExits, HelperTermed, Helps
  <2> QED
    BY <2>1, <2>2 DEF lockVars, ownVars
<1>2. CASE WorkGoes(r) \/ WorkEnds(r) \/ WorkHits(r)
  <2>1. helper' = helper
    BY <1>2 DEF WorkGoes, WorkEnds, WorkHits, Worlds
  <2>2. /\ work' \in [Runs -> {"none", "waiting", "running", "ended"}]
        /\ \A q \in Runs : (WorkLives(q))' => WorkLives(q)
    BY <1>2 DEF ProcessInv, ProcessTypes, WorkGoes, WorkEnds, WorkHits, WorkLives
  <2>3. \A q \in Runs : (HelperLives(q))' <=> HelperLives(q)
    BY <2>1 DEF HelperLives
  <2>4. ProcessTypes'
    BY <1>1, <2>1, <2>2 DEF ProcessInv, ProcessTypes
  <2> QED
    BY <1>1, <2>2, <2>3, <2>4 DEF ProcessInv, StageInv, Knows
<1>3. CASE HelperSteps(r) \/ HelperFails(r)
  <2>1. work' = work
    BY <1>3 DEF HelperSteps, HelperFails, StopTracing, Filter, StartTracing, WriteReady, SetTrap,
                ReadLine, HelperExits, HelperTermed, Helps
  <2>2. /\ HelperLives(r)
        /\ \E next \in SettingUp \cup {"untrapped", "reading", "leaving", "cut", "ended"} :
             helper' = [helper EXCEPT ![r] = next]
    BY <1>3 DEF HelperSteps, HelperFails, StopTracing, Filter, StartTracing, WriteReady, SetTrap,
                ReadLine, HelperExits, HelperTermed, HelperGoes, HelperTo, HelperLives, SettingUp
  <2>3. /\ helper' \in [Runs -> SettingUp \cup
                          {"none", "untrapped", "reading", "leaving", "cut", "ended"}]
        /\ \A q \in Runs : (HelperLives(q))' => HelperLives(q)
    BY <2>2 DEF ProcessInv, ProcessTypes, HelperLives
  <2>4. \A q \in Runs : (WorkLives(q))' <=> WorkLives(q)
    BY <2>1 DEF WorkLives
  <2>5. ProcessTypes'
    BY <1>1, <2>1, <2>3 DEF ProcessInv, ProcessTypes
  <2> QED
    BY <1>1, <2>3, <2>4, <2>5 DEF ProcessInv, StageInv, Knows
<1> QED
  BY <1>2, <1>3

\* A lock step of a run touches no process, and leads to the first command or to the end.
LEMMA LockStepsStartNothing ==
  ASSUME ProcessInv, NEW r \in Runs, LockStep(r) \/ KillRun(r)
  PROVE  ProcessInv'
<1>1. UNCHANGED <<stage, noted, work, helper, caught>>
  BY DEF LockStep, KillRun, raceVars, ownVars, processVars
<1>2. \A q \in Runs : /\ (WorkLives(q))' <=> WorkLives(q)
                      /\ (HelperLives(q))' <=> HelperLives(q)
  BY <1>1 DEF WorkLives, HelperLives
<1>3. /\ at' \in [Runs -> NotBegun \cup {"in"} \cup Left \cup {"dead"}]
      /\ \A q \in Runs : q # r => at'[q] = at[q]
      /\ at[r] \in NotBegun \/ (at[r] \in Left /\ at'[r] \in Left) \/ at'[r] = "dead"
  <2>1. at \in [Runs -> NotBegun \cup {"in"} \cup Left \cup {"dead"}]
    BY DEF ProcessInv, ProcessTypes
  <2>2. CASE Begin(r) \/ Take(r)
    <3>1. CASE Begin(r) \/ MakeDir(r) \/ ReadOld(r)
      BY <2>1, <3>1 DEF Begin, MakeDir, ReadOld, Moves, NotBegun, Left
    <3>2. CASE ProbeActive(r) \/ ProbeStale(r) \/ RemovePid(r) \/ RemoveDir(r)
      BY <2>1, <3>2 DEF ProbeActive, ProbeStale, RemovePid, RemoveDir, Fails, Moves, NotBegun, Left
    <3>3. CASE MakeAgain(r) \/ Record(r)
      BY <2>1, <3>3 DEF MakeAgain, Record, Fails, Moves, NotBegun, Left
    <3> QED
      BY <2>2, <3>1, <3>2, <3>3 DEF Take
  <2>3. CASE Release(r)
    BY <2>1, <2>3 DEF Release, Test, ReleasePid, ReleaseDir, CleanedUp, Moves, Left
  <2>4. CASE KillRun(r)
    BY <2>1, <2>4 DEF KillRun, Kill, NotBegun, Left
  <2> QED
    BY <2>2, <2>3, <2>4 DEF LockStep
<1>4. ProcessTypes'
  BY <1>1, <1>3 DEF ProcessInv, ProcessTypes
<1>5. ASSUME NEW q \in Runs PROVE StageInv(q)'
  <2>1. StageInv(q) /\ (Knows(q)' <=> Knows(q))
    BY <1>1, <1>2 DEF ProcessInv, Knows
  <2>2. CASE at'[q] = at[q]
    BY <1>1, <1>2, <2>1, <2>2 DEF StageInv
  <2>3. CASE q = r /\ at[r] \in NotBegun
    <3>1. stage[r] = "check" /\ Knows(r)
      BY <2>1, <2>3 DEF StageInv
    <3>2. ~WorkLives(r) /\ ~HelperLives(r)
      BY <3>1 DEF Knows
    <3> QED
      BY <1>1, <1>2, <2>1, <2>3, <3>1, <3>2 DEF StageInv
  <2>4. CASE q = r /\ at[r] \in Left /\ at'[r] \in Left
    BY <1>1, <1>2, <2>1, <2>4 DEF StageInv, NotBegun, Left
  <2>5. CASE q = r /\ at'[r] = "dead"
    BY <2>5 DEF StageInv, NotBegun, Left
  <2> QED
    BY <1>3, <2>2, <2>3, <2>4, <2>5
<1> QED
  BY <1>4, <1>5 DEF ProcessInv

\* It is enough to look at the run that takes the step.
Apart(r) ==
  \A q \in Runs : q # r =>
    /\ at'[q] = at[q] /\ stage'[q] = stage[q] /\ noted'[q] = noted[q]
    /\ caught'[q] = caught[q] /\ work'[q] = work[q] /\ helper'[q] = helper[q]

LEMMA OwnStep ==
  ASSUME ProcessInv, NEW r \in Runs, Apart(r), ProcessTypes', StageInv(r)'
  PROVE  ProcessInv'
<1>1. ASSUME NEW q \in Runs, q # r PROVE StageInv(q)'
  <2>1. StageInv(q)
    BY DEF ProcessInv
  <2> QED
    BY <1>1, <2>1 DEF Apart, StageInv, Knows, WorkLives, HelperLives
<1> QED
  BY <1>1 DEF ProcessInv

LEMMA SignalKeeps ==
  ASSUME ProcessInv, NEW r \in Runs, Signal(r)
  PROVE  ProcessInv'
<1>1. /\ at' = at /\ at[r] = "in" /\ work' = work /\ helper' = helper /\ noted' = noted
      /\ stage' = [stage EXCEPT ![r] = "killWork"]
      /\ caught' = [caught EXCEPT ![r] = IF stage[r] \in Between THEN stage[r] ELSE "elsewhere"]
      /\ caught[r] = "none"
  BY DEF Signal, Trouble, Ends, End, To, processVars
<1>2. ProcessTypes' /\ Apart(r)
  BY <1>1 DEF ProcessInv, ProcessTypes, Apart, Stages, Between
<1>3. Knows(r) /\ stage[r] \in Stages
  BY <1>1 DEF ProcessInv, ProcessTypes, StageInv
<1>4. ((WorkLives(r))' <=> WorkLives(r)) /\ ((HelperLives(r))' <=> HelperLives(r))
  BY <1>1 DEF WorkLives, HelperLives
<1>5. stage'[r] = "killWork" /\ noted'[r] = noted[r] /\ at'[r] = "in"
      /\ caught'[r] = IF stage[r] \in Between THEN stage[r] ELSE "elsewhere"
  BY <1>1, <1>2 DEF ProcessInv, ProcessTypes
<1>6. WorkLives(r) => "work" \in noted[r] \/ caught'[r] = "noteWork"
  BY <1>1, <1>3, <1>5 DEF Knows, Stages, Between
<1>7. HelperLives(r) => "trace" \in noted[r] \/ caught'[r] = "noteTrace"
  BY <1>1, <1>3, <1>5 DEF Knows, Stages, Between
<1>8. StageInv(r)'
  BY <1>4, <1>5, <1>6, <1>7 DEF StageInv, Knows, NotBegun, Left
<1> QED
  BY <1>2, <1>8, OwnStep

LEMMA SignalTakingKeeps ==
  ASSUME ProcessInv, NEW r \in Runs, SignalTaking(r)
  PROVE  ProcessInv'
<1>1. /\ at' = [at EXCEPT ![r] = "test"] /\ at[r] \in NotBegun /\ work' = work /\ helper' = helper
      /\ noted' = noted /\ stage' = stage
      /\ caught' = [caught EXCEPT ![r] = "elsewhere"]
  BY DEF SignalTaking, Interrupt, processVars, NotBegun
<1>2. ProcessTypes' /\ Apart(r)
  BY <1>1 DEF ProcessInv, ProcessTypes, Apart, Between, Left
<1>3. ~WorkLives(r) /\ ~HelperLives(r)
  BY <1>1 DEF ProcessInv, StageInv, Knows
<1>4. ~(WorkLives(r))' /\ ~(HelperLives(r))'
  BY <1>1, <1>3 DEF WorkLives, HelperLives
<1>5. at'[r] = "test"
  BY <1>1 DEF ProcessInv, ProcessTypes
<1>6. StageInv(r)'
  BY <1>4, <1>5 DEF StageInv, NotBegun, Left
<1> QED
  BY <1>2, <1>6, OwnStep

LEMMA PreparingKeeps ==
  ASSUME ProcessInv, NEW r \in Runs, Check(r) \/ ClearGo(r)
  PROVE  ProcessInv'
<1>1. at' = at /\ at[r] = "in" /\ caught' = caught
  BY DEF Check, ClearGo, Ends, End, Keeps, Turn, lockVars
<1>2. Knows(r)
  BY <1>1 DEF ProcessInv, StageInv
<1>3. CASE Check(r)
  <2>1. ProcessTypes' /\ Apart(r)
    BY <1>1, <1>3 DEF ProcessInv, ProcessTypes, Apart, Check, Ends, To, Turn, Stages, SettingUp,
       processVars
  <2>2. Knows(r)'
    BY <1>1, <1>2, <1>3 DEF ProcessInv, ProcessTypes, Knows, Check, Ends, To, Turn, WorkLives,
       HelperLives, SettingUp, processVars
  <2>3. StageInv(r)'
    BY <1>1, <2>2 DEF StageInv, NotBegun, Left
  <2> QED
    BY <2>1, <2>3, OwnStep
<1>4. CASE ClearGo(r)
  <2>1. ProcessTypes' /\ Apart(r)
    BY <1>1, <1>4 DEF ProcessInv, ProcessTypes, Apart, ClearGo, Ends, To, Turn, Stages, SettingUp,
       processVars
  <2>2. Knows(r)'
    BY <1>1, <1>2, <1>4 DEF ProcessInv, ProcessTypes, Knows, ClearGo, Ends, To, Turn, WorkLives,
       HelperLives, SettingUp, processVars
  <2>3. StageInv(r)'
    BY <1>1, <2>2 DEF StageInv, NotBegun, Left
  <2> QED
    BY <2>1, <2>3, OwnStep
<1> QED
  BY <1>3, <1>4

LEMMA StartingKeeps ==
  ASSUME ProcessInv, NEW r \in Runs, StartWork(r) \/ NoteWork(r) \/ StartTrace(r) \/ NoteTrace(r)
  PROVE  ProcessInv'
<1>1. at' = at /\ at[r] = "in" /\ caught' = caught
  BY DEF StartWork, NoteWork, StartTrace, NoteTrace, Ends, End, Keeps, Turn, lockVars
<1>2. Knows(r)
  BY <1>1 DEF ProcessInv, StageInv
<1>3. CASE StartWork(r)
  <2>1. ProcessTypes' /\ Apart(r)
    BY <1>1, <1>3 DEF ProcessInv, ProcessTypes, Apart, StartWork, Ends, To, Turn, Stages, SettingUp,
       processVars
  <2>2. Knows(r)'
    BY <1>1, <1>2, <1>3 DEF ProcessInv, ProcessTypes, Knows, StartWork, Ends, To, Turn, WorkLives,
       HelperLives, SettingUp, processVars
  <2>3. StageInv(r)'
    BY <1>1, <2>2 DEF StageInv, NotBegun, Left
  <2> QED
    BY <2>1, <2>3, OwnStep
<1>4. CASE NoteWork(r)
  <2>1. ProcessTypes' /\ Apart(r)
    BY <1>1, <1>4 DEF ProcessInv, ProcessTypes, Apart, NoteWork, Ends, To, Turn, Stages, SettingUp,
       processVars
  <2>2. Knows(r)'
    BY <1>1, <1>2, <1>4 DEF ProcessInv, ProcessTypes, Knows, NoteWork, Ends, To, Turn, WorkLives,
       HelperLives, SettingUp, processVars
  <2>3. StageInv(r)'
    BY <1>1, <2>2 DEF StageInv, NotBegun, Left
  <2> QED
    BY <2>1, <2>3, OwnStep
<1>5. CASE StartTrace(r)
  <2>1. ProcessTypes' /\ Apart(r)
    BY <1>1, <1>5 DEF ProcessInv, ProcessTypes, Apart, StartTrace, Ends, To, Turn, Stages, SettingUp,
       processVars
  <2>2. Knows(r)'
    BY <1>1, <1>2, <1>5 DEF ProcessInv, ProcessTypes, Knows, StartTrace, Ends, To, Turn, WorkLives,
       HelperLives, SettingUp, processVars
  <2>3. StageInv(r)'
    BY <1>1, <2>2 DEF StageInv, NotBegun, Left
  <2> QED
    BY <2>1, <2>3, OwnStep
<1>6. CASE NoteTrace(r)
  <2>1. ProcessTypes' /\ Apart(r)
    BY <1>1, <1>6 DEF ProcessInv, ProcessTypes, Apart, NoteTrace, Ends, To, Turn, Stages, SettingUp,
       processVars
  <2>2. Knows(r)'
    BY <1>1, <1>2, <1>6 DEF ProcessInv, ProcessTypes, Knows, NoteTrace, Ends, To, Turn, WorkLives,
       HelperLives, SettingUp, processVars
  <2>3. StageInv(r)'
    BY <1>1, <2>2 DEF StageInv, NotBegun, Left
  <2> QED
    BY <2>1, <2>3, OwnStep
<1> QED
  BY <1>3, <1>4, <1>5, <1>6

LEMMA WatchingKeeps ==
  ASSUME ProcessInv, NEW r \in Runs, AwaitReady(r) \/ ReleaseWork(r) \/ WatchHit(r)
  PROVE  ProcessInv'
<1>1. at' = at /\ at[r] = "in" /\ caught' = caught
  BY DEF AwaitReady, ReleaseWork, WatchHit, Ends, End, Keeps, Turn, lockVars
<1>2. Knows(r)
  BY <1>1 DEF ProcessInv, StageInv
<1>3. CASE AwaitReady(r)
  <2>1. ProcessTypes' /\ Apart(r)
    BY <1>1, <1>3 DEF ProcessInv, ProcessTypes, Apart, AwaitReady, Ends, To, Turn, Stages, SettingUp,
       processVars
  <2>2. Knows(r)'
    BY <1>1, <1>2, <1>3 DEF ProcessInv, ProcessTypes, Knows, AwaitReady, Ends, To, Turn, WorkLives,
       HelperLives, SettingUp, processVars
  <2>3. StageInv(r)'
    BY <1>1, <2>2 DEF StageInv, NotBegun, Left
  <2> QED
    BY <2>1, <2>3, OwnStep
<1>4. CASE ReleaseWork(r)
  <2>1. ProcessTypes' /\ Apart(r)
    BY <1>1, <1>4 DEF ProcessInv, ProcessTypes, Apart, ReleaseWork, Ends, To, Turn, Stages, SettingUp,
       processVars
  <2>2. Knows(r)'
    BY <1>1, <1>2, <1>4 DEF ProcessInv, ProcessTypes, Knows, ReleaseWork, Ends, To, Turn, WorkLives,
       HelperLives, SettingUp, processVars
  <2>3. StageInv(r)'
    BY <1>1, <2>2 DEF StageInv, NotBegun, Left
  <2> QED
    BY <2>1, <2>3, OwnStep
<1>5. CASE WatchHit(r)
  <2>1. ProcessTypes' /\ Apart(r)
    BY <1>1, <1>5 DEF ProcessInv, ProcessTypes, Apart, WatchHit, Ends, To, Turn, Stages, SettingUp,
       processVars
  <2>2. Knows(r)'
    BY <1>1, <1>2, <1>5 DEF ProcessInv, ProcessTypes, Knows, WatchHit, Ends, To, Turn, WorkLives,
       HelperLives, SettingUp, processVars
  <2>3. StageInv(r)'
    BY <1>1, <2>2 DEF StageInv, NotBegun, Left
  <2> QED
    BY <2>1, <2>3, OwnStep
<1> QED
  BY <1>3, <1>4, <1>5

LEMMA StoppingKeeps ==
  ASSUME ProcessInv, NEW r \in Runs, WatchEnd(r) \/ StopTrace(r) \/ WaitTrace(r) \/ Report(r)
  PROVE  ProcessInv'
<1>1. at' = at /\ at[r] = "in" /\ caught' = caught
  BY DEF WatchEnd, StopTrace, WaitTrace, Report, Ends, End, Keeps, Turn, lockVars
<1>2. Knows(r)
  BY <1>1 DEF ProcessInv, StageInv
<1>3. CASE WatchEnd(r)
  <2>1. ProcessTypes' /\ Apart(r)
    BY <1>1, <1>3 DEF ProcessInv, ProcessTypes, Apart, WatchEnd, Ends, To, Turn, Stages, SettingUp,
       processVars
  <2>2. Knows(r)'
    BY <1>1, <1>2, <1>3 DEF ProcessInv, ProcessTypes, Knows, WatchEnd, Ends, To, Turn, WorkLives,
       HelperLives, SettingUp, processVars
  <2>3. StageInv(r)'
    BY <1>1, <2>2 DEF StageInv, NotBegun, Left
  <2> QED
    BY <2>1, <2>3, OwnStep
<1>4. CASE StopTrace(r)
  <2>1. ProcessTypes' /\ Apart(r)
    BY <1>1, <1>4 DEF ProcessInv, ProcessTypes, Apart, StopTrace, Ends, To, Turn, Stages, SettingUp,
       processVars
  <2>2. Knows(r)'
    BY <1>1, <1>2, <1>4 DEF ProcessInv, ProcessTypes, Knows, StopTrace, Ends, To, Turn, WorkLives,
       HelperLives, SettingUp, processVars
  <2>3. StageInv(r)'
    BY <1>1, <2>2 DEF StageInv, NotBegun, Left
  <2> QED
    BY <2>1, <2>3, OwnStep
<1>5. CASE WaitTrace(r)
  <2>1. ProcessTypes' /\ Apart(r)
    BY <1>1, <1>5 DEF ProcessInv, ProcessTypes, Apart, WaitTrace, Ends, To, Turn, Stages, SettingUp,
       processVars
  <2>2. Knows(r)'
    BY <1>1, <1>2, <1>5 DEF ProcessInv, ProcessTypes, Knows, WaitTrace, Ends, To, Turn, WorkLives,
       HelperLives, SettingUp, processVars
  <2>3. StageInv(r)'
    BY <1>1, <2>2 DEF StageInv, NotBegun, Left
  <2> QED
    BY <2>1, <2>3, OwnStep
<1>6. CASE Report(r)
  <2>1. ProcessTypes' /\ Apart(r)
    BY <1>1, <1>6 DEF ProcessInv, ProcessTypes, Apart, Report, Ends, To, Turn, Stages, SettingUp,
       processVars
  <2>2. Knows(r)'
    BY <1>1, <1>2, <1>6 DEF ProcessInv, ProcessTypes, Knows, Report, Ends, To, Turn, WorkLives,
       HelperLives, SettingUp, processVars
  <2>3. StageInv(r)'
    BY <1>1, <2>2 DEF StageInv, NotBegun, Left
  <2> QED
    BY <2>1, <2>3, OwnStep
<1> QED
  BY <1>3, <1>4, <1>5, <1>6

LEMMA CleaningUpKeeps ==
  ASSUME ProcessInv, NEW r \in Runs, KillWork(r) \/ KillTrace(r)
  PROVE  ProcessInv'
<1>1. at' = at /\ at[r] = "in" /\ caught' = caught
  BY DEF KillWork, KillTrace, Ends, End, Keeps, Turn, lockVars
<1>2. Knows(r)
  BY <1>1 DEF ProcessInv, StageInv
<1>3. CASE KillWork(r)
  <2>1. ProcessTypes' /\ Apart(r)
    BY <1>1, <1>3 DEF ProcessInv, ProcessTypes, Apart, KillWork, Ends, To, Turn, Stages, SettingUp,
       processVars
  <2>2. Knows(r)'
    BY <1>1, <1>2, <1>3 DEF ProcessInv, ProcessTypes, Knows, KillWork, Ends, To, Turn, WorkLives,
       HelperLives, SettingUp, processVars
  <2>3. StageInv(r)'
    BY <1>1, <2>2 DEF StageInv, NotBegun, Left
  <2> QED
    BY <2>1, <2>3, OwnStep
<1>4. CASE KillTrace(r)
  <2>1. ProcessTypes' /\ Apart(r)
    BY <1>1, <1>4 DEF ProcessInv, ProcessTypes, Apart, KillTrace, Ends, To, Turn, Stages, SettingUp,
       processVars
  <2>2. Knows(r)'
    BY <1>1, <1>2, <1>4 DEF ProcessInv, ProcessTypes, Knows, KillTrace, Ends, To, Turn, WorkLives,
       HelperLives, SettingUp, processVars
  <2>3. StageInv(r)'
    BY <1>1, <2>2 DEF StageInv, NotBegun, Left
  <2> QED
    BY <2>1, <2>3, OwnStep
<1> QED
  BY <1>3, <1>4

LEMMA WaitHelperKeeps ==
  ASSUME ProcessInv, NEW r \in Runs, WaitHelper(r)
  PROVE  ProcessInv'
<1>1. /\ at' = [at EXCEPT ![r] = "test"] /\ at[r] = "in" /\ stage[r] = "waitHelper"
      /\ "trace" \in noted[r] => ~HelperLives(r)
      /\ UNCHANGED <<stage, noted, work, helper, caught>>
  BY DEF WaitHelper, Leave, Moves, Turn, raceVars
<1>2. ProcessTypes' /\ Apart(r)
  BY <1>1 DEF ProcessInv, ProcessTypes, Apart, Left
<1>3. Knows(r)
  BY <1>1 DEF ProcessInv, StageInv
<1>4. /\ WorkLives(r) => caught[r] = "noteWork"
      /\ HelperLives(r) => caught[r] = "noteTrace"
  BY <1>1, <1>3 DEF Knows
<1>5. at'[r] = "test"
  BY <1>1 DEF ProcessInv, ProcessTypes
<1>6. StageInv(r)'
  BY <1>1, <1>4, <1>5 DEF StageInv, NotBegun, Left, WorkLives, HelperLives
<1> QED
  BY <1>2, <1>6, OwnStep

LEMMA ProcessStep ==
  ASSUME ProcessInv, [RaceNext]_<<lockVars, raceVars>>
  PROVE  ProcessInv'
<1>1. ASSUME NEW r \in Runs, RunSteps(r) PROVE ProcessInv'
  BY <1>1, PreparingKeeps, StartingKeeps, WatchingKeeps, StoppingKeeps, CleaningUpKeeps,
     WaitHelperKeeps DEF RunSteps
<1>2. CASE UNCHANGED <<lockVars, raceVars>>
  BY <1>2 DEF lockVars, raceVars, ProcessInv, ProcessTypes, StageInv, Knows, WorkLives, HelperLives
<1>3. CASE RaceNext
  BY <1>1, <1>3, ProcessesEndOnly, LockStepsStartNothing, SignalKeeps, SignalTakingKeeps
     DEF RaceNext
<1> QED
  BY <1>2, <1>3

-----------------------------------------------------------------------------
(* The tracing                                                               *)
\* Where a helper has got to once it has said that it traces.
Past == {"untrapped", "reading", "leaving", "cut", "ended"}
Before == {"check", "clear", "startWork", "noteWork", "startTrace"}

\* The directory of the run is its own.
OwnDir(r) == \A q \in Runs \ {r} : outdir[q] # outdir[r]

\* What a file, the stage or the workload say of the run's helper.
ReadyInv(r) ==
  /\ stage[r] \in Before => helper[r] = "none"
  /\ OwnDir(r) =>
       \/ helper[r] \in Past
       \/ /\ stage[r] # "go" /\ work[r] # "running"
          /\ \A name \in {"ready", "go", "hit"} : File(r, name) \notin files

\* The kernel's tracing while the run has the lock.
Directed(r) ==
  /\ helper[r] \in {"filtered", "tracing", "untrapped", "reading"} =>
       /\ tracing.filter = r
       /\ \A i \in DOMAIN tracing.pipe : tracing.pipe[i] = r /\ r \in hitBy
  /\ \/ helper[r] \in {"tracing", "untrapped"}
     \/ helper[r] = "reading" /\ r \notin termed /\ readEnds
     => tracing.on
  /\ File(r, "hit") \in files => r \in hitBy

TraceInv(r) ==
  /\ ReadyInv(r)
  /\ Undisturbed(r) =>
       /\ at[r] = "in" => Directed(r)
       /\ result[r] = "hit" => r \in hitBy

WorldTypes ==
  /\ <<outdir, readEnds>> \in Settings
  /\ termed \subseteq {r \in Runs : HelperLives(r)}
  /\ tracing \in [on : BOOLEAN, filter : Runs \cup {0}, pipe : Seq(Runs)]
  /\ hitBy \subseteq Runs
  /\ result \in [Runs -> {"none", "hit", "none seen"}]

TypesInv == LockInv /\ ProcessInv /\ WorldTypes

\* The steps of a run and those that end it.
ShellSteps(r) == RunSteps(r) \/ Signal(r) \/ SignalTaking(r) \/ KillRun(r) \/ LockStep(r)

LEMMA RaceSteps ==
  ASSUME RaceNext
  PROVE  \E r \in Runs :
           \/ ShellSteps(r) \/ WorkGoes(r) \/ WorkEnds(r) \/ WorkHits(r)
           \/ HelperSteps(r) \/ HelperFails(r)
BY DEF RaceNext, ShellSteps

LEMMA ShellFrame ==
  ASSUME NEW r \in Runs, ShellSteps(r)
  PROVE  /\ UNCHANGED <<outdir, readEnds, tracing, hitBy>>
         /\ files' \in {files, files \ {File(r, "go")}, files \cup {File(r, "go")}}
<1>1. CASE \/ Check(r) \/ ClearGo(r) \/ StartWork(r) \/ NoteWork(r) \/ StartTrace(r)
           \/ NoteTrace(r) \/ AwaitReady(r) \/ ReleaseWork(r)
  BY <1>1 DEF Check, ClearGo, StartWork, NoteWork, StartTrace, NoteTrace, AwaitReady, ReleaseWork,
              Keeps, Ends, fixedVars, worldVars
<1>2. CASE \/ WatchHit(r) \/ WatchEnd(r) \/ StopTrace(r) \/ WaitTrace(r) \/ Report(r)
           \/ KillWork(r) \/ KillTrace(r) \/ WaitHelper(r)
  BY <1>2 DEF WatchHit, WatchEnd, StopTrace, WaitTrace, Report, KillWork, KillTrace, WaitHelper,
              Keeps, Ends, fixedVars, worldVars, raceVars
<1>3. CASE Signal(r) \/ SignalTaking(r) \/ KillRun(r) \/ LockStep(r)
  BY <1>3 DEF Signal, SignalTaking, KillRun, LockStep, Ends, fixedVars, worldVars, raceVars
<1> QED
  BY <1>1, <1>2, <1>3 DEF ShellSteps, RunSteps

LEMMA WorkFrame ==
  ASSUME ProcessInv, NEW r \in Runs, WorkGoes(r) \/ WorkEnds(r) \/ WorkHits(r)
  PROVE  /\ UNCHANGED <<at, contested, stage, noted, result, caught, helper, termed, outdir,
                        readEnds, files>>
         /\ \A q \in Runs : q # r => work'[q] = work[q]
<1>1. UNCHANGED <<lockVars, ownVars, helper, termed, fixedVars, files>>
  BY DEF WorkGoes, WorkEnds, WorkHits, Worlds, worldVars
<1>2. work' = work \/ \E w : work' = [work EXCEPT ![r] = w]
  BY DEF WorkGoes, WorkEnds, WorkHits
<1> QED
  BY <1>1, <1>2 DEF lockVars, ownVars, fixedVars, ProcessInv, ProcessTypes

LEMMA HelperFrame ==
  ASSUME NEW r \in Runs, HelperSteps(r) \/ HelperFails(r)
  PROVE  /\ UNCHANGED <<at, contested, stage, noted, result, caught, work, outdir,
                        readEnds, hitBy>>
         /\ HelperLives(r)
         /\ \E next : helper' = [helper EXCEPT ![r] = next]
<1>1. UNCHANGED <<lockVars, ownVars, work, hitBy, fixedVars>>
  BY DEF HelperSteps, HelperFails, StopTracing, Filter, StartTracing, WriteReady, SetTrap,
         ReadLine, HelperExits, HelperTermed, Helps
<1>2. HelperLives(r)
  BY DEF HelperSteps, HelperFails, StopTracing, Filter, StartTracing, WriteReady, SetTrap,
         ReadLine, HelperExits, HelperTermed, HelperGoes, HelperLives, SettingUp
<1>3. \E next : helper' = [helper EXCEPT ![r] = next]
  BY DEF HelperSteps, HelperFails, StopTracing, Filter, StartTracing, WriteReady, SetTrap,
         ReadLine, HelperExits, HelperTermed, HelperGoes, HelperTo
<1> QED
  BY <1>1, <1>2, <1>3 DEF lockVars, ownVars, fixedVars

\* A lock that was contested stays so.
LEMMA ContestedForGood ==
  ASSUME ProcessInv, contested, [RaceNext]_<<lockVars, raceVars>>
  PROVE  contested'
<1>1. ASSUME NEW r \in Runs, RunSteps(r) \/ Signal(r) PROVE UNCHANGED contested
  <2>1. UNCHANGED lockVars \/ Leave(r) \/ End(r, 1) \/ End(r, 2)
    <3>1. CASE \/ ClearGo(r) \/ StartWork(r) \/ NoteWork(r) \/ StartTrace(r) \/ NoteTrace(r)
               \/ ReleaseWork(r) \/ WatchEnd(r) \/ StopTrace(r) \/ WaitTrace(r)
               \/ KillWork(r) \/ KillTrace(r)
      BY <3>1 DEF ClearGo, StartWork, NoteWork, StartTrace, NoteTrace, ReleaseWork, WatchEnd,
                  StopTrace, WaitTrace, KillWork, KillTrace, Keeps
    <3>2. CASE Check(r) \/ AwaitReady(r) \/ WatchHit(r) \/ Report(r) \/ Signal(r) \/ WaitHelper(r)
      BY <3>2 DEF Check, AwaitReady, WatchHit, Report, Signal, WaitHelper, Keeps, Ends
    <3> QED
      BY <1>1, <3>1, <3>2 DEF RunSteps
  <2> QED
    BY <2>1 DEF lockVars, Leave, End
<1>2. ASSUME NEW r \in Runs, SignalTaking(r) \/ KillRun(r) PROVE UNCHANGED contested
  BY <1>2 DEF SignalTaking, KillRun, Interrupt, Kill
<1>3. ASSUME NEW r \in Runs, LockStep(r) PROVE contested'
  <2>1. CASE Begin(r)
    BY <2>1 DEF Begin
  <2>2. CASE Take(r)
    BY <2>2 DEF Take, MakeDir, ReadOld, ProbeActive, ProbeStale, RemovePid, RemoveDir, MakeAgain,
                Record, MadeWithin, ReadEarly
  <2>3. CASE Release(r)
    BY <2>3 DEF Release, Test, ReleasePid, ReleaseDir
  <2> QED
    BY <1>3, <2>1, <2>2, <2>3 DEF LockStep
<1>4. CASE UNCHANGED <<lockVars, raceVars>>
  BY <1>4 DEF lockVars
<1> QED
  BY <1>1, <1>2, <1>3, <1>4, RaceSteps, WorkFrame, HelperFrame DEF ShellSteps

\* What disturbs a run is never undone.
LEMMA DisturbedForGood ==
  ASSUME ProcessInv, [RaceNext]_<<lockVars, raceVars>>, NEW r \in Runs, Undisturbed(r)'
  PROVE  Undisturbed(r)
<1>1. outdir' = outdir
  BY RaceSteps, ShellFrame, WorkFrame, HelperFrame DEF raceVars
<1>2. ASSUME NEW q \in Runs, NEW s \in Runs, ShellSteps(s)
      PROVE  caught[q] = "noteTrace" => caught'[q] = "noteTrace"
  <2>1. CASE RunSteps(s)
    BY <2>1 DEF RunSteps, Check, ClearGo, StartWork, NoteWork, StartTrace, NoteTrace,
       AwaitReady, ReleaseWork, WatchHit, WatchEnd, StopTrace, WaitTrace, Report, KillWork,
       KillTrace, WaitHelper, raceVars
  <2>2. CASE Signal(s) \/ SignalTaking(s)
    <3>1. caught[s] = "none" /\ \E c : caught' = [caught EXCEPT ![s] = c]
      BY <2>2 DEF Signal, SignalTaking, Trouble
    <3> QED
      BY <3>1 DEF ProcessInv, ProcessTypes
  <2>3. CASE KillRun(s) \/ LockStep(s)
    BY <2>3 DEF KillRun, LockStep, ownVars, raceVars
  <2> QED
    BY <1>2, <2>1, <2>2, <2>3 DEF ShellSteps
<1>3. ASSUME NEW q \in Runs, NEW s \in Runs, ShellSteps(s) PROVE at[q] = "dead" => at'[q] = "dead"
  <2>1. UNCHANGED at \/ (at[s] # "dead" /\ \E a : at' = [at EXCEPT ![s] = a])
    <3>1. CASE RunSteps(s)
      BY <3>1 DEF RunSteps, Check, ClearGo, StartWork, NoteWork, StartTrace, NoteTrace,
         AwaitReady, ReleaseWork, WatchHit, WatchEnd, StopTrace, WaitTrace, Report, KillWork,
         KillTrace, WaitHelper, Keeps, Ends, End, Leave, Moves, lockVars
    <3>2. CASE Signal(s) \/ SignalTaking(s) \/ KillRun(s)
      BY <3>2 DEF Signal, SignalTaking, KillRun, Ends, End, Interrupt, Kill, Lives
    <3>3. CASE LockStep(s)
      BY <3>3 DEF LockStep, Begin, Take, MakeDir, ReadOld, ProbeActive, ProbeStale, RemovePid,
         RemoveDir, MakeAgain, Record, Release, Test, ReleasePid, ReleaseDir, CleanedUp,
         Fails, Moves
    <3> QED
      BY <1>3, <3>1, <3>2, <3>3 DEF ShellSteps
  <2> QED
    BY <2>1 DEF ProcessInv, ProcessTypes
<1>4. \A q \in Runs : /\ at[q] = "dead" => at'[q] = "dead"
                      /\ caught[q] = "noteTrace" => caught'[q] = "noteTrace"
  <2>1. CASE UNCHANGED <<lockVars, raceVars>>
    BY <2>1 DEF lockVars, raceVars
  <2>2. CASE RaceNext
    BY <2>2, <1>2, <1>3, RaceSteps, WorkFrame, HelperFrame
  <2> QED
    BY <2>1, <2>2
<1> QED
  BY <1>1, <1>4, ContestedForGood DEF Undisturbed

-----------------------------------------------------------------------------
LEMMA WorldTypesInit == RaceInit => WorldTypes
<1> SUFFICES ASSUME RaceInit PROVE WorldTypes
  OBVIOUS
<1>1. <<outdir, readEnds>> \in Settings
  BY PairsAssumption DEF RaceInit
<1> QED
  BY <1>1 DEF RaceInit, Idle, WorldTypes

LEMMA AppendInSeq ==
  ASSUME NEW S, NEW s \in Seq(S), NEW e \in S
  PROVE  Append(s, e) \in Seq(S)
OBVIOUS

LEMMA TailInSeq ==
  ASSUME NEW S, NEW s \in Seq(S), s # <<>>
  PROVE  /\ Tail(s) \in Seq(S) /\ 1 \in DOMAIN s
         /\ \A i \in DOMAIN Tail(s) : i + 1 \in DOMAIN s /\ Tail(s)[i] = s[i + 1]
OBVIOUS

LEMMA PipeIsSequence ==
  ASSUME WorldTypes
  PROVE  tracing.pipe \in Seq(Runs)
<1> DEFINE P == Seq(Runs)
<1>1. tracing \in [on : BOOLEAN, filter : Runs \cup {0}, pipe : P]
  BY DEF WorldTypes
<1> HIDE DEF P
<1>2. tracing.pipe \in P
  BY <1>1
<1> QED
  BY <1>2 DEF P

LEMMA WorldTypesStep ==
  ASSUME ProcessInv, WorldTypes, [RaceNext]_<<lockVars, raceVars>>
  PROVE  WorldTypes'
<1>1. ASSUME NEW r \in Runs, ShellSteps(r) PROVE WorldTypes'
  <2>1. UNCHANGED <<outdir, readEnds, tracing, hitBy>>
    BY <1>1, ShellFrame
  <2>2. result' \in [Runs -> {"none", "hit", "none seen"}]
    <3>1. \/ result' = result
          \/ \E x \in {"none", "hit", "none seen"} : result' = [result EXCEPT ![r] = x]
      <4>1. CASE RunSteps(r)
        BY <4>1 DEF RunSteps, Check, ClearGo, StartWork, NoteWork, StartTrace, NoteTrace,
           AwaitReady, ReleaseWork, WatchHit, WatchEnd, StopTrace, WaitTrace, Report, KillWork,
           KillTrace, WaitHelper, raceVars
      <4>2. CASE Signal(r) \/ SignalTaking(r) \/ KillRun(r) \/ LockStep(r)
        BY <4>2 DEF Signal, SignalTaking, KillRun, LockStep, ownVars, raceVars
      <4> QED
        BY <1>1, <4>1, <4>2 DEF ShellSteps
    <3> QED
      BY <3>1 DEF WorldTypes
  <2>3. termed' \subseteq {q \in Runs : HelperLives(q)'}
    <3>1. \/ helper' = helper /\ termed' \in {termed, termed \cup {r}}
             /\ (r \in termed' => r \in termed \/ HelperLives(r))
          \/ termed' = termed /\ helper' = [helper EXCEPT ![r] = "begun"]
      <4>1. CASE RunSteps(r)
        BY <4>1 DEF RunSteps, Check, ClearGo, StartWork, NoteWork, StartTrace, NoteTrace,
           AwaitReady, ReleaseWork, WatchHit, WatchEnd, StopTrace, WaitTrace, Report, KillWork,
           KillTrace, WaitHelper, raceVars, processVars
      <4>2. CASE Signal(r) \/ SignalTaking(r) \/ KillRun(r) \/ LockStep(r)
        BY <4>2 DEF Signal, SignalTaking, KillRun, LockStep, processVars, raceVars
      <4> QED
        BY <1>1, <4>1, <4>2 DEF ShellSteps
    <3>2. termed \subseteq {q \in Runs : HelperLives(q)}
      BY DEF WorldTypes
    <3>3. CASE helper' = helper
      BY <3>1, <3>2, <3>3 DEF HelperLives
    <3>4. CASE termed' = termed /\ helper' = [helper EXCEPT ![r] = "begun"]
      <4>1. \A q \in Runs : HelperLives(q) => HelperLives(q)'
        BY <3>4 DEF HelperLives, ProcessInv, ProcessTypes
      <4> QED
        BY <3>2, <3>4, <4>1
    <3> QED
      BY <3>1, <3>3, <3>4
  <2> QED
    BY <2>1, <2>2, <2>3 DEF WorldTypes
<1>2. ASSUME NEW r \in Runs, WorkGoes(r) \/ WorkEnds(r) \/ WorkHits(r) PROVE WorldTypes'
  <2>1. UNCHANGED <<outdir, readEnds, result, helper, termed>>
    BY <1>2, WorkFrame
  <2>2. hitBy' \subseteq Runs
    BY <1>2 DEF WorkGoes, WorkEnds, WorkHits, worldVars, WorldTypes
  <2>3. tracing' \in [on : BOOLEAN, filter : Runs \cup {0}, pipe : Seq(Runs)]
    <3>1. Append(tracing.pipe, r) \in Seq(Runs)
      BY PipeIsSequence, AppendInSeq
    <3>2. tracing' = tracing \/ tracing' = [tracing EXCEPT !.pipe = Append(@, r)]
      BY <1>2 DEF WorkGoes, WorkEnds, WorkHits, worldVars
    <3> QED
      BY <3>1, <3>2 DEF WorldTypes
  <2> QED
    BY <2>1, <2>2, <2>3 DEF WorldTypes, HelperLives
<1>3. ASSUME NEW r \in Runs, HelperSteps(r) \/ HelperFails(r) PROVE WorldTypes'
  <2>1. UNCHANGED <<outdir, readEnds, result, hitBy>>
    BY <1>3, HelperFrame
  <2>2. tracing' \in [on : BOOLEAN, filter : Runs \cup {0}, pipe : Seq(Runs)]
    <3>1. CASE ReadLine(r)
      <4>1. Tail(tracing.pipe) \in Seq(Runs)
        BY <3>1, PipeIsSequence, TailInSeq DEF ReadLine
      <4>2. tracing' = [tracing EXCEPT !.pipe = Tail(@)]
        BY <3>1 DEF ReadLine
      <4> QED
        BY <4>1, <4>2 DEF WorldTypes
    <3>2. CASE StopTracing(r) \/ Filter(r) \/ StartTracing(r)
      <4>1. \/ \E b \in BOOLEAN : tracing' = [tracing EXCEPT !.on = b]
            \/ tracing' = [tracing EXCEPT !.filter = r, !.pipe = <<>>]
        BY <3>2 DEF StopTracing, Filter, StartTracing
      <4>2. <<>> \in Seq(Runs)
        OBVIOUS
      <4> QED
        BY <4>1, <4>2 DEF WorldTypes
    <3>3. CASE WriteReady(r) \/ SetTrap(r) \/ HelperExits(r) \/ HelperTermed(r) \/ HelperFails(r)
      BY <3>3 DEF WriteReady, SetTrap, HelperExits, HelperTermed, HelperFails, WorldTypes
    <3> QED
      BY <1>3, <3>1, <3>2, <3>3 DEF HelperSteps
  <2>3. termed' \subseteq {q \in Runs : HelperLives(q)'}
    <3>1. \/ termed' = termed \ {r} /\ \E next : helper' = [helper EXCEPT ![r] = next]
          \/ /\ termed' = termed
             /\ \E next \in {"off", "filtered", "tracing", "untrapped", "reading", "leaving"} :
                  helper' = [helper EXCEPT ![r] = next]
      BY <1>3 DEF HelperSteps, HelperFails, StopTracing, Filter, StartTracing, WriteReady, SetTrap,
         ReadLine, HelperExits, HelperTermed, HelperGoes, HelperTo
    <3>2. \A q \in Runs : q # r => helper'[q] = helper[q]
      BY <3>1 DEF ProcessInv, ProcessTypes
    <3>3. r \in termed' => HelperLives(r)'
      BY <3>1 DEF HelperLives, ProcessInv, ProcessTypes
    <3> QED
      BY <3>1, <3>2, <3>3 DEF WorldTypes, HelperLives
  <2> QED
    BY <2>1, <2>2, <2>3 DEF WorldTypes
<1>4. CASE UNCHANGED <<lockVars, raceVars>>
  BY <1>4 DEF raceVars, WorldTypes, HelperLives
<1> QED
  BY <1>1, <1>2, <1>3, <1>4, RaceSteps

LEMMA ReadyInit ==
  ASSUME RaceInit, NEW r \in Runs
  PROVE  TraceInv(r)
BY DEF RaceInit, LockInit, Idle, TraceInv, ReadyInv, Directed, Before, Past

LEMMA FilesApart ==
  ASSUME NEW r \in Runs, NEW q \in Runs, q # r, OwnDir(r), NEW x, NEW y
  PROVE  File(q, x) # File(r, y)
BY DEF OwnDir, File

\* The run itself goes on only when its helper has said that it traces.
LEMMA ShellKeepsReady ==
  ASSUME ProcessInv, NEW r \in Runs, NEW q \in Runs, ReadyInv(r), ShellSteps(q)
  PROVE  ReadyInv(r)'
<1>1. outdir' = outdir /\ files' \in {files, files \ {File(q, "go")}, files \cup {File(q, "go")}}
  BY ShellFrame
<1>2. CASE q # r
  <2>1. stage'[r] = stage[r] /\ work'[r] = work[r] /\ helper'[r] = helper[r]
    <3>1. CASE RunSteps(q)
      BY <1>2, <3>1 DEF RunSteps, Check, ClearGo, StartWork, NoteWork, StartTrace, NoteTrace,
         AwaitReady, ReleaseWork, WatchHit, WatchEnd, StopTrace, WaitTrace, Report, KillWork,
         KillTrace, WaitHelper, raceVars, processVars, Ends, To, ProcessInv, ProcessTypes
    <3>2. CASE Signal(q) \/ SignalTaking(q) \/ KillRun(q) \/ LockStep(q)
      BY <1>2, <3>2 DEF Signal, SignalTaking, KillRun, LockStep, processVars, raceVars,
         Ends, To, ownVars, ProcessInv, ProcessTypes
    <3> QED
      BY <3>1, <3>2 DEF ShellSteps
  <2> QED
    BY <1>1, <1>2, <2>1, FilesApart DEF ReadyInv, OwnDir, File
<1>3. CASE q = r
  <2> USE DEF ProcessInv, ProcessTypes
  <2>1. CASE \/ Check(r) \/ ClearGo(r) \/ StartWork(r) \/ NoteWork(r)
    BY <2>1 DEF ReadyInv, OwnDir, File, Past, Before, Check, ClearGo, StartWork, NoteWork,
       Turn, Ends, To, Keeps, fixedVars, processVars, worldVars
  <2>2. CASE StartTrace(r) \/ NoteTrace(r)
    BY <2>2 DEF ReadyInv, OwnDir, File, Past, Before, StartTrace, NoteTrace, Turn, To,
       Keeps, fixedVars, processVars, worldVars
  <2>3. CASE AwaitReady(r) \/ ReleaseWork(r) \/ WatchHit(r) \/ WatchEnd(r)
    BY <2>3 DEF ReadyInv, OwnDir, File, Past, Before, AwaitReady, ReleaseWork, WatchHit, WatchEnd,
       Turn, Ends, To, Keeps, fixedVars, processVars, worldVars
  <2>4. CASE StopTrace(r) \/ WaitTrace(r) \/ Report(r)
    BY <2>4 DEF ReadyInv, OwnDir, File, Past, Before, StopTrace, WaitTrace, Report, Turn, Ends, To,
       Keeps, fixedVars, processVars, worldVars
  <2>5. CASE KillWork(r) \/ KillTrace(r) \/ WaitHelper(r)
    BY <2>5 DEF ReadyInv, OwnDir, File, Past, Before, KillWork, KillTrace, WaitHelper, Turn, To,
       Keeps, fixedVars, processVars, worldVars, raceVars
  <2>6. CASE Signal(r) \/ SignalTaking(r) \/ KillRun(r) \/ LockStep(r)
    BY <2>6 DEF ReadyInv, OwnDir, File, Past, Before, Signal, SignalTaking, KillRun, LockStep,
       Ends, To, fixedVars, processVars, ownVars, worldVars, raceVars
  <2> QED
    BY <1>3, <2>1, <2>2, <2>3, <2>4, <2>5, <2>6 DEF ShellSteps, RunSteps
<1> QED
  BY <1>2, <1>3

LEMMA OthersKeepReady ==
  ASSUME ProcessInv, NEW r \in Runs, NEW q \in Runs, ReadyInv(r),
         WorkGoes(q) \/ WorkEnds(q) \/ WorkHits(q) \/ HelperSteps(q) \/ HelperFails(q)
  PROVE  ReadyInv(r)'
<1> USE DEF ProcessInv, ProcessTypes
<1>1. CASE WorkGoes(q) \/ WorkEnds(q) \/ WorkHits(q)
  <2>1. UNCHANGED <<stage, helper, outdir, files>>
    BY <1>1, WorkFrame
  <2>2. OwnDir(r) /\ work'[r] = "running" => work[r] = "running" \/ File(r, "go") \in files
    BY <1>1, FilesApart DEF WorkGoes, WorkEnds, WorkHits
  <2> QED
    BY <2>1, <2>2 DEF ReadyInv, OwnDir, File
<1>2. CASE HelperSteps(q) \/ HelperFails(q)
  <2>1. UNCHANGED <<stage, work, outdir>> /\ HelperLives(q)
    BY <1>2, HelperFrame
  <2>2. CASE q # r
    <3>1. helper'[r] = helper[r]
      BY <1>2, <2>2, HelperFrame
    <3>2. files' \in {files, files \cup {File(q, "ready")}, files \cup {File(q, "hit")}}
      BY <1>2 DEF HelperSteps, HelperFails, StopTracing, Filter, StartTracing, WriteReady, SetTrap,
         ReadLine, HelperExits, HelperTermed
    <3> QED
      BY <2>1, <2>2, <3>1, <3>2, FilesApart DEF ReadyInv, OwnDir, File
  <2>3. CASE q = r
    <3>1. helper[r] # "none"
      BY <2>1, <2>3 DEF HelperLives
    <3>2. helper'[r] \in Past \/ (files' = files /\ helper[r] \notin Past /\ helper'[r] \notin Past)
      BY <1>2, <2>3 DEF HelperSteps, HelperFails, StopTracing, Filter, StartTracing,
         WriteReady, SetTrap, ReadLine, HelperExits, HelperTermed, HelperGoes, HelperTo, Past,
         SettingUp
    <3> QED
      BY <2>1, <3>1, <3>2 DEF ReadyInv, OwnDir, File
  <2> QED
    BY <2>2, <2>3
<1> QED
  BY <1>1, <1>2

\* Beside an undisturbed run that has the lock no helper lives but its own.
LEMMA NoOtherHelper ==
  ASSUME LockInv, ProcessInv, NEW r \in Runs, at[r] = "in", Undisturbed(r),
         NEW q \in Runs, q # r
  PROVE  at[q] # "in" /\ ~HelperLives(q)
<1>1. at[q] # "in"
  BY DEF LockInv, Undisturbed
<1>2. at[q] # "dead" /\ caught[q] # "noteTrace"
  BY DEF Undisturbed
<1>3. at[q] \in NotBegun \cup Left /\ StageInv(q)
  BY <1>1, <1>2 DEF ProcessInv, ProcessTypes
<1>4. CASE at[q] \in NotBegun
  BY <1>1, <1>3, <1>4 DEF StageInv, Knows
<1>5. CASE at[q] \in Left
  BY <1>1, <1>2, <1>3, <1>5 DEF StageInv
<1> QED
  BY <1>1, <1>3, <1>4, <1>5

\* A run enters the lock before its helper has begun.
LEMMA EntersClean ==
  ASSUME ProcessInv, NEW r \in Runs, ReadyInv(r), OwnDir(r), [RaceNext]_<<lockVars, raceVars>>,
         at[r] # "in", at'[r] = "in"
  PROVE  Directed(r)'
<1>1. PICK q \in Runs : LockStep(q)
  <2>1. at' # at
    OBVIOUS
  <2>2. PICK q \in Runs : ShellSteps(q)
    BY <2>1, RaceSteps, WorkFrame, HelperFrame DEF lockVars
  <2>3. ASSUME RunSteps(q) \/ Signal(q) \/ SignalTaking(q) \/ KillRun(q) PROVE FALSE
    <3>1. \/ at' = at
          \/ \E s \in {"test", "dead"} : at' = [at EXCEPT ![q] = s]
      <4>1. CASE RunSteps(q)
        BY <4>1 DEF RunSteps, Check, ClearGo, StartWork, NoteWork, StartTrace, NoteTrace,
           AwaitReady, ReleaseWork, WatchHit, WatchEnd, StopTrace, WaitTrace, Report, KillWork,
           KillTrace, WaitHelper, Keeps, Ends, End, Leave, Moves, lockVars
      <4>2. CASE Signal(q) \/ SignalTaking(q) \/ KillRun(q)
        BY <4>2 DEF Signal, SignalTaking, KillRun, Ends, End, Interrupt, Kill
      <4> QED
        BY <2>3, <4>1, <4>2
    <3> QED
      BY <3>1 DEF ProcessInv, ProcessTypes
  <2> QED
    BY <2>2, <2>3 DEF ShellSteps
<1>2. UNCHANGED raceVars
  BY <1>1 DEF LockStep
<1>3. at[r] \in NotBegun
  <2>1. at[q] # "in" /\ at'[q] \in NotBegun \cup {"in"} => at[q] \in NotBegun
    BY <1>1 DEF LockStep, Begin, Take, MakeDir, ReadOld, ProbeActive, ProbeStale, RemovePid,
       RemoveDir, MakeAgain, Record, Release, Test, ReleasePid, ReleaseDir, CleanedUp, Fails,
       Moves, NotBegun, ProcessInv, ProcessTypes
  <2>2. q # r => at'[r] = at[r]
    BY <1>1 DEF LockStep, Begin, Take, MakeDir, ReadOld, ProbeActive, ProbeStale, RemovePid,
       RemoveDir, MakeAgain, Record, Release, Test, ReleasePid, ReleaseDir, CleanedUp, Fails,
       Moves, ProcessInv, ProcessTypes
  <2> QED
    BY <2>1, <2>2
<1>4. helper[r] = "none"
  BY <1>3 DEF ProcessInv, StageInv, ReadyInv, Before
<1>5. File(r, "hit") \notin files
  BY <1>4 DEF ReadyInv, Past
<1> QED
  BY <1>2, <1>4, <1>5 DEF Directed, raceVars, File

LEMMA ShellKeepsDirected ==
  ASSUME ProcessInv, NEW r \in Runs, NEW q \in Runs, OwnDir(r), Directed(r), ReadyInv(r),
         at[r] = "in", at'[r] = "in", WorldTypes, ShellSteps(q)
  PROVE  Directed(r)'
<1>1. /\ UNCHANGED <<outdir, readEnds, tracing, hitBy>>
      /\ files' \in {files, files \ {File(q, "go")}, files \cup {File(q, "go")}}
  BY ShellFrame
<1>2. File(r, "hit")' \in files' => File(r, "hit") \in files
  BY <1>1 DEF File
<1>3. \/ helper'[r] = helper[r]
      \/ helper'[r] = "begun"
  <2>1. helper' = helper \/ helper' = [helper EXCEPT ![q] = "begun"]
    <3>1. CASE RunSteps(q)
      BY <3>1 DEF RunSteps, Check, ClearGo, StartWork, NoteWork, StartTrace, NoteTrace,
         AwaitReady, ReleaseWork, WatchHit, WatchEnd, StopTrace, WaitTrace, Report, KillWork,
         KillTrace, WaitHelper, raceVars, processVars
    <3>2. CASE Signal(q) \/ SignalTaking(q) \/ KillRun(q) \/ LockStep(q)
      BY <3>2 DEF Signal, SignalTaking, KillRun, LockStep, processVars, raceVars
    <3> QED
      BY <3>1, <3>2 DEF ShellSteps
  <2> QED
    BY <2>1 DEF ProcessInv, ProcessTypes
<1>4. termed \subseteq termed'
  BY DEF ShellSteps, RunSteps, Check, ClearGo, StartWork, NoteWork, StartTrace, NoteTrace,
     AwaitReady, ReleaseWork, WatchHit, WatchEnd, StopTrace, WaitTrace, Report, KillWork,
     KillTrace, WaitHelper, Signal, SignalTaking, KillRun, LockStep, raceVars, processVars
<1> QED
  BY <1>1, <1>2, <1>3, <1>4 DEF Directed

LEMMA WorkKeepsDirected ==
  ASSUME ProcessInv, WorldTypes, NEW r \in Runs, NEW q \in Runs, Directed(r),
         WorkGoes(q) \/ WorkEnds(q) \/ WorkHits(q)
  PROVE  Directed(r)'
<1>1. UNCHANGED <<helper, termed, outdir, readEnds, files>>
  BY WorkFrame
<1>2. CASE WorkGoes(q) \/ WorkEnds(q)
  BY <1>1, <1>2 DEF WorkGoes, WorkEnds, worldVars, Directed, File
<1>3. CASE WorkHits(q)
  <2>1. hitBy' = hitBy \cup {q} /\ tracing'.on = tracing.on /\ tracing'.filter = tracing.filter
    BY <1>3 DEF WorkHits, WorldTypes
  <2>2. tracing.filter = r =>
          \/ tracing'.pipe = tracing.pipe
          \/ q = r /\ tracing'.pipe = Append(tracing.pipe, r)
    BY <1>3 DEF WorkHits, WorldTypes
  <2>3. \A i \in DOMAIN Append(tracing.pipe, r) :
          \/ Append(tracing.pipe, r)[i] = r
          \/ i \in DOMAIN tracing.pipe /\ Append(tracing.pipe, r)[i] = tracing.pipe[i]
    BY PipeIsSequence
  <2> QED
    BY <1>1, <2>1, <2>2, <2>3 DEF Directed, File
<1> QED
  BY <1>2, <1>3

LEMMA HelperKeepsDirected ==
  ASSUME ProcessInv, WorldTypes, NEW r \in Runs, Directed(r), HelperSteps(r) \/ HelperFails(r)
  PROVE  Directed(r)'
<1> USE DEF ProcessInv, ProcessTypes, Directed, File, HelperGoes, HelperTo, Helps, fixedVars
<1> HIDE DEF ProcessInv
<1>0. helper \in [Runs -> SettingUp \cup
                            {"none", "untrapped", "reading", "leaving", "cut", "ended"}]
  BY DEF ProcessInv
<1>1. CASE StopTracing(r)
  BY <1>0, <1>1 DEF StopTracing
<1>2. CASE Filter(r)
  <2>1. tracing'.filter = r /\ tracing'.pipe = <<>>
    BY <1>2 DEF Filter, WorldTypes
  <2>2. helper'[r] = "filtered" /\ UNCHANGED <<files, outdir, hitBy>>
    BY <1>0, <1>2 DEF Filter
  <2>3. \A i \in DOMAIN tracing'.pipe : FALSE
    BY <2>1
  <2> QED
    BY <2>1, <2>2, <2>3
<1>3. CASE StartTracing(r)
  BY <1>0, <1>3 DEF StartTracing, WorldTypes
<1>4. CASE WriteReady(r) \/ SetTrap(r)
  BY <1>0, <1>4 DEF WriteReady, SetTrap
<1>5. CASE ReadLine(r)
  <2>1. 1 \in DOMAIN tracing.pipe
    BY <1>5, PipeIsSequence, TailInSeq DEF ReadLine
  <2>2. r \in hitBy
    BY <1>5, <2>1 DEF ReadLine
  <2> QED
    BY <1>0, <1>5, <2>2 DEF ReadLine
<1>6. CASE HelperExits(r) \/ HelperFails(r)
  BY <1>0, <1>6 DEF HelperExits, HelperFails
<1>7. CASE HelperTermed(r)
  <2>1. UNCHANGED <<files, outdir, hitBy, readEnds>>
    BY <1>7 DEF HelperTermed
  <2>2. CASE helper[r] = "reading"
    <3>1. tracing'.filter = tracing.filter /\ tracing'.pipe = tracing.pipe
      BY <1>7, <2>2 DEF HelperTermed, WorldTypes
    <3>2. helper'[r] = IF readEnds THEN "ended" ELSE "reading"
      BY <1>0, <1>7, <2>2 DEF HelperTermed
    <3> QED
      BY <2>1, <2>2, <3>1, <3>2
  <2>3. CASE helper[r] # "reading"
    BY <1>0, <1>7, <2>1, <2>3 DEF HelperTermed
  <2> QED
    BY <2>2, <2>3
<1> QED
  BY <1>1, <1>2, <1>3, <1>4, <1>5, <1>6, <1>7 DEF HelperSteps

\* A run says that it saw a hit when it finds the file.
LEMMA SaysWhatItFinds ==
  ASSUME ProcessInv, WorldTypes, NEW r \in Runs, [RaceNext]_<<lockVars, raceVars>>,
         result'[r] = "hit"
  PROVE  result[r] = "hit" \/ (at[r] = "in" /\ File(r, "hit") \in files)
<1>1. CASE result' = result
  BY <1>1
<1>2. ASSUME result' # result PROVE \E q \in Runs : WatchHit(q) \/ Report(q)
  <2>1. PICK q \in Runs : ShellSteps(q)
    BY <1>2, RaceSteps, WorkFrame, HelperFrame DEF raceVars
  <2> QED
    BY <1>2, <2>1 DEF ShellSteps, RunSteps, Check, ClearGo, StartWork, NoteWork, StartTrace,
       NoteTrace, AwaitReady, ReleaseWork, WatchEnd, StopTrace, WaitTrace, KillWork, KillTrace,
       WaitHelper, Signal, SignalTaking, KillRun, LockStep, ownVars, raceVars
<1>3. ASSUME NEW q \in Runs, WatchHit(q) \/ Report(q)
      PROVE  result[r] = "hit" \/ (at[r] = "in" /\ File(r, "hit") \in files)
  <2>1. /\ at[q] = "in"
        /\ File(q, "hit") \in files => result' = [result EXCEPT ![q] = "hit"]
        /\ File(q, "hit") \notin files => result' = [result EXCEPT ![q] = "none seen"]
    BY <1>3 DEF WatchHit, Report, Turn
  <2> QED
    BY <2>1 DEF WorldTypes
<1> QED
  BY <1>1, <1>2, <1>3

LEMMA TraceStep ==
  ASSUME LockInv, ProcessInv, WorldTypes, NEW r \in Runs, TraceInv(r),
         [RaceNext]_<<lockVars, raceVars>>
  PROVE  TraceInv(r)'
<1>1. ReadyInv(r)'
  <2>1. CASE UNCHANGED <<lockVars, raceVars>>
    BY <2>1 DEF TraceInv, ReadyInv, OwnDir, File, raceVars
  <2> QED
    BY <2>1, RaceSteps, ShellKeepsReady, OthersKeepReady DEF TraceInv
<1>2. ASSUME Undisturbed(r)', at'[r] = "in" PROVE Directed(r)'
  <2>1. Undisturbed(r) /\ OwnDir(r)
    BY <1>2, DisturbedForGood DEF Undisturbed, OwnDir
  <2>2. CASE at[r] # "in"
    BY <1>2, <2>1, <2>2, EntersClean DEF TraceInv
  <2>3. CASE at[r] = "in"
    <3>1. Directed(r) /\ ReadyInv(r)
      BY <2>1, <2>3 DEF TraceInv
    <3>2. CASE UNCHANGED <<lockVars, raceVars>>
      BY <3>1, <3>2 DEF Directed, File, raceVars
    <3>3. ASSUME NEW q \in Runs, HelperSteps(q) \/ HelperFails(q) PROVE Directed(r)'
      <4>1. q = r
        BY <2>1, <2>3, <3>3, NoOtherHelper, HelperFrame
      <4> QED
        BY <3>1, <3>3, <4>1, HelperKeepsDirected
    <3> QED
      BY <1>2, <2>1, <2>3, <3>1, <3>2, <3>3, RaceSteps, ShellKeepsDirected, WorkKeepsDirected
  <2> QED
    BY <2>2, <2>3
<1>3. ASSUME Undisturbed(r)', result'[r] = "hit" PROVE r \in hitBy'
  <2>1. Undisturbed(r)
    BY <1>3, DisturbedForGood
  <2>2. r \in hitBy
    BY <1>3, <2>1, SaysWhatItFinds DEF TraceInv, Directed
  <2>3. hitBy \subseteq hitBy'
    <3>1. ASSUME NEW q \in Runs, WorkGoes(q) \/ WorkEnds(q) \/ WorkHits(q)
          PROVE  hitBy \subseteq hitBy'
      BY <3>1 DEF WorkGoes, WorkEnds, WorkHits, worldVars
    <3> QED
      BY <3>1, RaceSteps, ShellFrame, HelperFrame DEF raceVars
  <2> QED
    BY <2>2, <2>3
<1> QED
  BY <1>1, <1>2, <1>3 DEF TraceInv

\* The tracing is on only for a helper that lives or was cut short.
HelperTraces == tracing.on => \E r \in Runs : HelperLives(r) \/ helper[r] = "cut"

LEMMA HelperTracesStep ==
  ASSUME ProcessInv, WorldTypes, HelperTraces, [RaceNext]_<<lockVars, raceVars>>
  PROVE  HelperTraces'
<1> DEFINE Traces(q) == HelperLives(q) \/ helper[q] = "cut"
<1>1. CASE UNCHANGED <<lockVars, raceVars>>
  BY <1>1 DEF HelperTraces, HelperLives, raceVars
<1>2. ASSUME NEW r \in Runs, ShellSteps(r) PROVE HelperTraces'
  <2>1. helper' = helper \/ helper' = [helper EXCEPT ![r] = "begun"]
    <3>1. CASE RunSteps(r)
      BY <3>1 DEF RunSteps, Check, ClearGo, StartWork, NoteWork, StartTrace, NoteTrace,
         AwaitReady, ReleaseWork, WatchHit, WatchEnd, StopTrace, WaitTrace, Report, KillWork,
         KillTrace, WaitHelper, raceVars, processVars
    <3>2. CASE Signal(r) \/ SignalTaking(r) \/ KillRun(r) \/ LockStep(r)
      BY <3>2 DEF Signal, SignalTaking, KillRun, LockStep, processVars, raceVars
    <3> QED
      BY <1>2, <3>1, <3>2 DEF ShellSteps
  <2>2. \A q \in Runs : Traces(q) => Traces(q)'
    BY <2>1 DEF HelperLives, ProcessInv, ProcessTypes
  <2>3. tracing' = tracing
    BY <1>2, ShellFrame
  <2> QED
    BY <2>2, <2>3 DEF HelperTraces
<1>3. ASSUME NEW r \in Runs, WorkGoes(r) \/ WorkEnds(r) \/ WorkHits(r) PROVE HelperTraces'
  <2>1. helper' = helper
    BY <1>3, WorkFrame
  <2>2. tracing'.on = tracing.on
    BY <1>3 DEF WorkGoes, WorkEnds, WorkHits, worldVars, WorldTypes
  <2> QED
    BY <2>1, <2>2 DEF HelperTraces, HelperLives
<1>4. ASSUME NEW r \in Runs, HelperSteps(r) \/ HelperFails(r) PROVE HelperTraces'
  <2>1. \/ Traces(r)'
        \/ tracing'.on = FALSE
    <3>1. CASE HelperExits(r) \/ HelperTermed(r)
      <4>1. \/ tracing' = [tracing EXCEPT !.on = FALSE]
            \/ \E next \in {"reading", "cut"} : helper' = [helper EXCEPT ![r] = next]
        BY <3>1 DEF HelperExits, HelperTermed, HelperTo
      <4>2. CASE tracing' = [tracing EXCEPT !.on = FALSE]
        BY <4>2 DEF WorldTypes
      <4>3. CASE \E next \in {"reading", "cut"} : helper' = [helper EXCEPT ![r] = next]
        BY <4>3 DEF HelperLives, ProcessInv, ProcessTypes
      <4> QED
        BY <4>1, <4>2, <4>3
    <3>2. CASE \/ HelperFails(r) \/ StopTracing(r) \/ Filter(r) \/ StartTracing(r) \/ WriteReady(r)
               \/ SetTrap(r) \/ ReadLine(r)
      <4>1. \E next \in {"cut", "off", "filtered", "tracing", "untrapped", "reading", "leaving"} :
              helper' = [helper EXCEPT ![r] = next]
        BY <3>2 DEF HelperFails, StopTracing, Filter, StartTracing, WriteReady, SetTrap, ReadLine,
                    HelperGoes, HelperTo
      <4> QED
        BY <4>1 DEF HelperLives, ProcessInv, ProcessTypes
    <3> QED
      BY <1>4, <3>1, <3>2 DEF HelperSteps
  <2> QED
    BY <2>1 DEF HelperTraces
<1> QED
  BY <1>1, <1>2, <1>3, <1>4, RaceSteps

RaceInv ==
  /\ LockInv /\ ProcessInv /\ WorldTypes /\ HelperTraces
  /\ \A r \in Runs : TraceInv(r)

LEMMA RaceInvHolds == RaceSpec => []RaceInv
<1>1. RaceInit => /\ ProcessInv /\ WorldTypes /\ HelperTraces
                  /\ \A r \in Runs : TraceInv(r)
  <2>1. RaceInit => HelperTraces
    BY DEF RaceInit, LockInit, Idle, HelperTraces
  <2> QED
    BY <2>1, ProcessInit, WorldTypesInit, ReadyInit
<1>2. LockInv /\ LockInv' /\ RaceInv /\ [RaceNext]_<<lockVars, raceVars>> => RaceInv'
  <2> SUFFICES ASSUME LockInv', RaceInv, [RaceNext]_<<lockVars, raceVars>>
               PROVE  RaceInv'
    OBVIOUS
  <2>1. \A r \in Runs : TraceInv(r)'
    BY TraceStep DEF RaceInv
  <2>2. ProcessInv' /\ WorldTypes' /\ HelperTraces'
    BY ProcessStep, WorldTypesStep, HelperTracesStep DEF RaceInv
  <2> QED
    BY <2>1, <2>2 DEF RaceInv
<1>3. RaceInit /\ LockInv => RaceInv
  BY <1>1 DEF RaceInv
<1>4. RaceSpec => []LockInv
  BY ImplementsRunLock, LockInductive, PTL
<1> QED
  BY <1>2, <1>3, <1>4, PTL DEF RaceSpec

\* Of any number of runs, each in a directory of its own, and while the lock is not contested:
\* the run that has the lock releases its workload only when the kernel traces that, and the
\* hit it reports is not one of another's workload (run_vma_lock_fault_race.sh:100-158,
\* trace_vma_lock_shard.sh:45-105).
THEOREM RunsKeptApart == RaceSpec => []RunsExcluded
<1>1. RaceInv => RaceTypeOK
  BY PipeIsSequence DEF RaceInv, RaceTypeOK, LockInv, ProcessInv, ProcessTypes, WorldTypes
<1>2. RaceInv => HitIsOwn
  BY DEF RaceInv, TraceInv, HitIsOwn
<1>3. RaceInv => TracedWhileRunning
  <2> SUFFICES ASSUME RaceInv, NEW r \in Runs, Undisturbed(r), work[r] = "running", HelperLives(r),
                      helper[r] # "leaving", helper[r] = "reading" => r \notin termed /\ readEnds
               PROVE  tracing.on /\ tracing.filter = r
    BY DEF TracedWhileRunning
  <2>1. ReadyInv(r) /\ StageInv(r) /\ OwnDir(r)
    BY DEF RaceInv, TraceInv, ProcessInv, Undisturbed, OwnDir
  <2>2. helper[r] \in {"untrapped", "reading"}
    BY <2>1 DEF ReadyInv, Past, HelperLives
  <2>3. at[r] = "in"
    <3>1. at[r] \in NotBegun \cup {"in"} \cup Left
      BY DEF RaceInv, ProcessInv, ProcessTypes, Undisturbed
    <3>2. at[r] \notin NotBegun
      BY <2>1 DEF StageInv, Knows
    <3>3. at[r] \notin Left
      BY <2>1 DEF StageInv, WorkLives
    <3> QED
      BY <3>1, <3>2, <3>3
  <2> QED
    BY <2>2, <2>3 DEF RaceInv, TraceInv, Directed
<1>4. RaceInv => LockInv /\ MutualExclusion
  BY DEF RaceInv, LockInv, MutualExclusion
<1>5. RaceInv => RunsExcluded
  BY <1>1, <1>2, <1>3, <1>4 DEF RunsExcluded
<1> QED
  BY <1>5, RaceInvHolds, PTL

\* When all runs have ended, no process that a clean-up knew of is left, and the kernel's
\* tracing is off unless a helper died before it had set its trap (cleanup of both scripts).
THEOREM RunsCleanUp == RaceSpec => []CleanupComplete
<1>1. RaceInv => CleanupComplete
  <2>1. RaceInv => NoneLeftBehind
    BY DEF RaceInv, ProcessInv, StageInv, NoneLeftBehind, Left
  <2>2. RaceInv => HelperTraces
    BY DEF RaceInv
  <2> QED
    BY <2>1, <2>2 DEF CleanupComplete, HelperTraces
<1> QED
  BY <1>1, RaceInvHolds, PTL

=============================================================================
