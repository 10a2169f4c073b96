-------------------------------- MODULE VmaRace --------------------------------
(***************************************************************************)
(* A run of run_vma_lock_fault_race.sh that has the lock (RunLock): it     *)
(* starts the workload, which waits for the file workload.go, and the      *)
(* helper trace_vma_lock_shard.sh, which directs the kernel's tracing at   *)
(* the workload and writes trace.ready; then the run releases the workload *)
(* and watches for had_reader.hit, which the helper writes when it reads a *)
(* hit, until the workload ends.  The directory of the files is a          *)
(* parameter of the run, and nothing removes what is left in it.           *)
(*                                                                         *)
(* INT and TERM are handled between two commands: by a clean-up that stops *)
(* the processes whose pids the run has noted.  A helper that is sent TERM *)
(* before it sets its trap dies at once; after that it stops the tracing,  *)
(* and whether its read then ends or goes on depends on the shell          *)
(* (readEnds).  A signal during a clean-up, the build, the sysctl and its  *)
(* value after the run, the files of traces and what else is traced are    *)
(* left out: an event is a hit, and a workload has at most one.            *)
(*                                                                         *)
(* A definition named X_Y is a deliberately wrong variant of X, kept to    *)
(* see which property notices.                                             *)
(***************************************************************************)
EXTENDS RunLock, Sequences

CONSTANTS
  Settings,   \* pairs of the directories of the runs and readEnds
  MaxTroubles \* bounds the runs that are signalled or killed, by readEnds

ASSUME PairsAssumption == \A s \in Settings : s = <<s[1], s[2]>>

VARIABLES
  stage,      \* the next command of a run that has the lock
  outdir,     \* OUTDIR of each run
  noted,      \* WORKLOAD_PID and TRACE_PID: which of the two a run has
  work,       \* the workload of each run
  helper,     \* the helper of each run
  termed,     \* helpers that were sent TERM and did not look at it yet
  files,      \* the pairs of directory and file
  tracing,    \* is it on, for which workload, and the lines that were not read
  hitBy,      \* workloads that had a hit
  result,     \* what each run said
  caught,     \* where each run was signalled
  readEnds    \* does the shell's read end when a trap has run?

raceVars ==
  <<stage, outdir, noted, work, helper, termed, files, tracing, hitBy, result, caught, readEnds>>
ownVars == <<stage, noted, result, caught>>
processVars == <<work, helper, termed>>
worldVars == <<files, tracing, hitBy>>
fixedVars == <<outdir, readEnds>>

Idle ==
  /\ noted = [r \in Runs |-> {}]
  /\ work = [r \in Runs |-> "none"]
  /\ helper = [r \in Runs |-> "none"]
  /\ termed = {}
  /\ files = {}
  /\ tracing = [on |-> FALSE, filter |-> 0, pipe |-> <<>>]
  /\ hitBy = {}
  /\ result = [r \in Runs |-> "none"]
  /\ caught = [r \in Runs |-> "none"]
RaceInit ==
  /\ LockInit /\ Idle
  /\ stage = [r \in Runs |-> "check"]
  /\ \E s \in Settings : outdir = s[1] /\ readEnds = s[2]

WorkLives(r) == work[r] \in {"waiting", "running"}
HelperLives(r) == helper[r] \notin {"none", "cut", "ended"}
File(r, name) == <<outdir[r], name>>

\* The run has the lock, is not cleaning up, and its next command is one of from.
Turn(r, from) == at[r] = "in" /\ stage[r] = from
To(r, next) == stage' = [stage EXCEPT ![r] = next]
Keeps == UNCHANGED <<lockVars, fixedVars>>

\* fail, exit and signals: the lock is told how often the traps will run.
Ends(r, n) == To(r, "killWork") /\ End(r, n) /\ UNCHANGED fixedVars
-----------------------------------------------------------------------------
(* The run                                                                   *)
\* The binary, the sysctl and the formats of the events.
Check(r) ==
  /\ Turn(r, "check")
  /\ \/ To(r, "clear") /\ Keeps
     \/ Ends(r, 1)
  /\ UNCHANGED <<noted, result, caught, processVars, worldVars>>
ClearGo(r) ==
  /\ Turn(r, "clear") /\ To(r, "startWork") /\ Keeps
  /\ files' = files \ {File(r, "go")}
  /\ UNCHANGED <<noted, result, caught, processVars, tracing, hitBy>>
StartWork(r) ==
  /\ Turn(r, "startWork") /\ To(r, "noteWork") /\ Keeps
  /\ work' = [work EXCEPT ![r] = "waiting"]
  /\ UNCHANGED <<noted, result, caught, helper, termed, worldVars>>
NoteWork(r) ==
  /\ Turn(r, "noteWork") /\ To(r, "startTrace") /\ Keeps
  /\ noted' = [noted EXCEPT ![r] = @ \cup {"work"}]
  /\ UNCHANGED <<result, caught, processVars, worldVars>>
StartTrace(r) ==
  /\ Turn(r, "startTrace") /\ To(r, "noteTrace") /\ Keeps
  /\ helper' = [helper EXCEPT ![r] = "begun"]
  /\ UNCHANGED <<noted, result, caught, work, termed, worldVars>>
NoteTrace(r) ==
  /\ Turn(r, "noteTrace") /\ To(r, "ready") /\ Keeps
  /\ noted' = [noted EXCEPT ![r] = @ \cup {"trace"}]
  /\ UNCHANGED <<result, caught, processVars, worldVars>>

\* Fifty looks at the file; the run fails if the helper has gone or time is up.
AwaitReady(r) ==
  /\ Turn(r, "ready")
  /\ IF File(r, "ready") \in files THEN To(r, "go") /\ Keeps ELSE Ends(r, 1)
  /\ UNCHANGED <<noted, result, caught, processVars, worldVars>>
ReleaseWork_AtOnce(r) ==
  /\ Turn(r, "ready") /\ To(r, "watch") /\ Keeps
  /\ files' = files \cup {File(r, "go")}
  /\ UNCHANGED <<noted, result, caught, processVars, tracing, hitBy>>
ReleaseWork(r) ==
  /\ Turn(r, "go") /\ To(r, "watch") /\ Keeps
  /\ files' = files \cup {File(r, "go")}
  /\ UNCHANGED <<noted, result, caught, processVars, tracing, hitBy>>

WatchHit(r) ==
  /\ Turn(r, "watch") /\ WorkLives(r) /\ File(r, "hit") \in files
  /\ Ends(r, 2)
  /\ result' = [result EXCEPT ![r] = "hit"]
  /\ UNCHANGED <<noted, caught, processVars, worldVars>>
WatchEnd(r) ==
  /\ Turn(r, "watch") /\ ~WorkLives(r) /\ To(r, "stopTrace") /\ Keeps
  /\ noted' = [noted EXCEPT ![r] = @ \ {"work"}]
  /\ UNCHANGED <<result, caught, processVars, worldVars>>
StopTrace(r) ==
  /\ Turn(r, "stopTrace") /\ To(r, "waitTrace") /\ Keeps
  /\ termed' = IF HelperLives(r) THEN termed \cup {r} ELSE termed
  /\ UNCHANGED <<noted, result, caught, work, helper, worldVars>>
WaitTrace(r) ==
  /\ Turn(r, "waitTrace") /\ ~HelperLives(r) /\ To(r, "report") /\ Keeps
  /\ noted' = [noted EXCEPT ![r] = @ \ {"trace"}]
  /\ UNCHANGED <<result, caught, processVars, worldVars>>
Report(r) ==
  /\ Turn(r, "report") /\ Ends(r, 1)
  /\ result' = [result EXCEPT ![r] = IF File(r, "hit") \in files THEN "hit" ELSE "none seen"]
  /\ UNCHANGED <<noted, caught, processVars, worldVars>>
-----------------------------------------------------------------------------
(* cleanup                                                                   *)
KillWork(r) ==
  /\ Turn(r, "killWork") /\ To(r, "killTrace") /\ Keeps
  /\ work' = IF "work" \in noted[r] /\ WorkLives(r) THEN [work EXCEPT ![r] = "ended"] ELSE work
  /\ UNCHANGED <<noted, result, caught, helper, termed, worldVars>>
KillTrace(r) ==
  /\ Turn(r, "killTrace") /\ To(r, "waitHelper") /\ Keeps
  /\ termed' = IF "trace" \in noted[r] /\ HelperLives(r) THEN termed \cup {r} ELSE termed
  /\ UNCHANGED <<noted, result, caught, work, helper, worldVars>>
WaitHelper(r) ==
  /\ Turn(r, "waitHelper")
  /\ "trace" \in noted[r] => ~HelperLives(r)
  /\ Leave(r)
  /\ UNCHANGED raceVars

\* INT or TERM, at most once for a run.
Between == {"noteWork", "noteTrace"}   \* a process is started, its pid not noted
Trouble(r) ==
  /\ caught[r] = "none"
  /\ Cardinality({q \in Runs : caught[q] # "none" \/ at[q] = "dead"}) < MaxTroubles[readEnds]
Signal(r) ==
  /\ Trouble(r) /\ at[r] = "in" /\ cleanups[r] = 0
  /\ Ends(r, 2)
  /\ caught' = [caught EXCEPT ![r] = IF stage[r] \in Between THEN stage[r] ELSE "elsewhere"]
  /\ UNCHANGED <<noted, result, processVars, worldVars>>
SignalTaking(r) ==
  /\ Trouble(r) /\ Interrupt(r)
  /\ caught' = [caught EXCEPT ![r] = "elsewhere"]
  /\ UNCHANGED <<stage, noted, result, processVars, worldVars, fixedVars>>
\* The processes of a run that is killed go on.
KillRun(r) ==
  /\ Trouble(r) /\ Kill(r)
  /\ UNCHANGED <<ownVars, processVars, worldVars, fixedVars>>

LockStep(r) ==
  /\ Begin(r) \/ Take(r) \/ Release(r)
  /\ UNCHANGED raceVars
-----------------------------------------------------------------------------
(* The workload                                                              *)
Worlds == UNCHANGED <<lockVars, ownVars, helper, termed, fixedVars>>
WorkGoes(r) ==
  /\ work[r] = "waiting" /\ File(r, "go") \in files
  /\ work' = [work EXCEPT ![r] = "running"]
  /\ Worlds /\ UNCHANGED worldVars
\* It may fail before it waits.
WorkEnds(r) ==
  /\ WorkLives(r)
  /\ work' = [work EXCEPT ![r] = "ended"]
  /\ Worlds /\ UNCHANGED worldVars
WorkHits(r) ==
  /\ work[r] = "running" /\ r \notin hitBy
  /\ hitBy' = hitBy \cup {r}
  /\ tracing' = IF tracing.on /\ tracing.filter = r THEN [tracing EXCEPT !.pipe = Append(@, r)]
                ELSE tracing
  /\ Worlds /\ UNCHANGED <<work, files>>
-----------------------------------------------------------------------------
(* The helper                                                                *)
HelperTo(r, next) == helper' = [helper EXCEPT ![r] = next]
HelperGoes(r, from, next) == helper[r] = from /\ r \notin termed /\ HelperTo(r, next)
Helps == UNCHANGED <<lockVars, ownVars, work, hitBy, fixedVars>>

StopTracing(r) ==
  /\ HelperGoes(r, "begun", "off") /\ Helps /\ UNCHANGED <<termed, files>>
  /\ tracing' = [tracing EXCEPT !.on = FALSE]
\* The filters, and then the trace is cleared.
Filter(r) ==
  /\ HelperGoes(r, "off", "filtered") /\ Helps /\ UNCHANGED <<termed, files>>
  /\ tracing' = [tracing EXCEPT !.filter = r, !.pipe = <<>>]
StartTracing(r) ==
  /\ HelperGoes(r, "filtered", "tracing") /\ Helps /\ UNCHANGED <<termed, files>>
  /\ tracing' = [tracing EXCEPT !.on = TRUE]
WriteReady(r) ==
  /\ HelperGoes(r, "tracing", "untrapped") /\ Helps /\ UNCHANGED <<termed, tracing>>
  /\ files' = files \cup {File(r, "ready")}
SetTrap(r) ==
  /\ HelperGoes(r, "untrapped", "reading") /\ Helps /\ UNCHANGED <<termed, files, tracing>>
SettingUp == {"begun", "off", "filtered", "tracing"}
HelperFails(r) ==
  /\ helper[r] \in SettingUp
  /\ HelperTo(r, "cut") /\ Helps
  /\ termed' = termed \ {r}
  /\ UNCHANGED <<files, tracing>>

\* A line is read by whoever comes first, and is a hit.
ReadLine(r) ==
  /\ tracing.pipe # <<>>
  /\ HelperGoes(r, "reading", "leaving") /\ Helps /\ UNCHANGED termed
  /\ tracing' = [tracing EXCEPT !.pipe = Tail(@)]
  /\ files' = files \cup {File(r, "hit")}
HelperExits(r) ==
  /\ helper[r] = "leaving"
  /\ HelperTo(r, "ended") /\ Helps
  /\ termed' = termed \ {r}
  /\ tracing' = [tracing EXCEPT !.on = FALSE]
  /\ UNCHANGED files

HelperTermed(r) ==
  /\ r \in termed /\ helper[r] \in SettingUp \cup {"untrapped", "reading"}
  /\ termed' = termed \ {r}
  /\ IF helper[r] = "reading"
     THEN /\ tracing' = [tracing EXCEPT !.on = FALSE]
          /\ HelperTo(r, IF readEnds THEN "ended" ELSE "reading")
     ELSE HelperTo(r, "cut") /\ UNCHANGED tracing
  /\ Helps /\ UNCHANGED files
-----------------------------------------------------------------------------
RunSteps(r) ==
  \/ Check(r) \/ ClearGo(r) \/ StartWork(r) \/ NoteWork(r) \/ StartTrace(r) \/ NoteTrace(r)
  \/ AwaitReady(r) \/ ReleaseWork(r) \/ WatchHit(r) \/ WatchEnd(r)
  \/ StopTrace(r) \/ WaitTrace(r) \/ Report(r)
  \/ KillWork(r) \/ KillTrace(r) \/ WaitHelper(r)
HelperSteps(r) ==
  \/ StopTracing(r) \/ Filter(r) \/ StartTracing(r) \/ WriteReady(r) \/ SetTrap(r)
  \/ ReadLine(r) \/ HelperExits(r) \/ HelperTermed(r)

RaceNext ==
  \E r \in Runs :
    \/ LockStep(r) \/ RunSteps(r) \/ Signal(r) \/ SignalTaking(r) \/ KillRun(r)
    \/ WorkGoes(r) \/ WorkEnds(r) \/ WorkHits(r) \/ HelperSteps(r) \/ HelperFails(r)

\* As long as a shell or the workload can go on, one of them does; a workload that runs ends
\* after its rounds.
Progress(r) ==
  \/ (Take(r) \/ Release(r)) /\ UNCHANGED raceVars
  \/ RunSteps(r) \/ HelperSteps(r)
  \/ WorkGoes(r) \/ (work[r] = "running" /\ WorkEnds(r))
RaceFairness == WF_<<lockVars, raceVars>>(\E r \in Runs : Progress(r))

RaceSpec == RaceInit /\ [][RaceNext]_<<lockVars, raceVars>> /\ RaceFairness
-----------------------------------------------------------------------------
(* Properties                                                                *)
Stages ==
  {"check", "clear", "startWork", "noteWork", "startTrace", "noteTrace", "ready", "go", "watch",
   "stopTrace", "waitTrace", "report", "killWork", "killTrace", "waitHelper"}

RaceTypeOK ==
  /\ LockTypeOK
  /\ stage \in [Runs -> Stages] /\ <<outdir, readEnds>> \in Settings
  /\ noted \in [Runs -> SUBSET {"work", "trace"}]
  /\ work \in [Runs -> {"none", "waiting", "running", "ended"}]
  /\ helper \in [Runs -> SettingUp \cup {"none", "untrapped", "reading", "leaving", "cut", "ended"}]
  /\ termed \subseteq {r \in Runs : HelperLives(r)}
  /\ tracing.on \in BOOLEAN /\ tracing.filter \in Runs \cup {0} /\ tracing.pipe \in Seq(Runs)
  /\ hitBy \subseteq Runs
  /\ result \in [Runs -> {"none", "hit", "none seen"}]
  /\ caught \in [Runs -> Between \cup {"none", "elsewhere"}]

\* The lock was not contested, and no other run has the same directory or has left its
\* helper behind.
Undisturbed(r) ==
  /\ ~contested
  /\ \A q \in Runs : at[q] # "dead"
  /\ \A q \in Runs \ {r} : outdir[q] # outdir[r] /\ caught[q] # "noteTrace"

\* A run that says it saw a hit had one: the line is not one of a workload before it.
HitIsOwn == \A r \in Runs : Undisturbed(r) /\ result[r] = "hit" => r \in hitBy

\* A workload runs only while the tracing is on and directed at it, until its helper ends.
TracedWhileRunning ==
  \A r \in Runs : Undisturbed(r) /\ work[r] = "running" /\ HelperLives(r) /\ helper[r] # "leaving"
                    /\ (helper[r] = "reading" => r \notin termed /\ readEnds) =>
                  tracing.on /\ tracing.filter = r

\* run_vma_lock_fault_race.sh: no two runs have the lock, and no run's helper and hits are
\* mixed up with another's, unless the lock was contested: then both can happen.
RunsExcluded ==
  LockInv /\ MutualExclusion /\ RaceTypeOK /\ HitIsOwn /\ TracedWhileRunning

\* A run that has ended left no process behind, unless a signal came just after it had
\* started that and before it noted the pid; and when all have ended the tracing is off,
\* unless a helper ended before it had set its trap.
NoneLeftBehind ==
  \A r \in Runs : at[r] = "over" =>
    /\ WorkLives(r) => caught[r] = "noteWork"
    /\ HelperLives(r) => caught[r] = "noteTrace"
CleanupComplete ==
  /\ NoneLeftBehind
  /\ (\A r \in Runs : at[r] \in {"out", "over"} /\ ~HelperLives(r)) /\ tracing.on =>
       \E r \in Runs : helper[r] = "cut"

\* The runs that were begun end, if the shell's read ends when the helper is sent TERM and
\* no two runs share the directory that the workload waits for its file in.
RunEnds ==
  readEnds /\ (\A r, q \in Runs : outdir[r] = outdir[q] => r = q) =>
    []<>(\A r \in Runs : at[r] \in {"out"} \cup Ended)
=============================================================================
