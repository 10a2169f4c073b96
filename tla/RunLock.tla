-------------------------------- MODULE RunLock --------------------------------
(***************************************************************************)
(* The lock directory of run_vma_lock_fault_race.sh.  A run makes the      *)
(* directory and writes its pid into it; a run that finds the directory    *)
(* reads the pid, gives up if that process is alive, and otherwise removes *)
(* the directory and makes it again.  When a run ends, its traps remove    *)
(* the directory if the pid in it is its own: once, and once more if a     *)
(* signal or a hit made it clean up before it exits.                       *)
(*                                                                         *)
(* Each command is a step, rm -rf two: the pid file and the directory,     *)
(* which stays if it is not empty.  A run may be killed (Kill), and the    *)
(* pid of a dead run may belong to another process by then (Probe).        *)
(***************************************************************************)
EXTENDS Integers, FiniteSets

CONSTANT Runs   \* the invocations of the script; each runs once

ASSUME RunsAssumption == 0 \notin Runs

VARIABLES
  dir,        \* does the directory exist?
  owner,      \* the pid in it, by its run; 0: no pid file
  at,         \* the next command of each run
  old,        \* OLD_PID of each run; 0: empty
  cleanups,   \* how often each run still has to clean up, once it ends
  contested   \* has a run made the directory while another was about to take it over?

lockVars == <<dir, owner, at, old, cleanups, contested>>

TakeOver  == {"rmpid", "rmdir", "again", "record"}
Window    == {"probe"} \cup TakeOver   \* the old pid is read, the run's own not written
Taking    == {"mkdir", "read"} \cup Window
Releasing == {"test", "relpid", "reldir"}
Ended     == {"over", "dead"}

LockInit ==
  /\ dir = FALSE /\ owner = 0
  /\ at = [r \in Runs |-> "out"]
  /\ old = [r \in Runs |-> 0]
  /\ cleanups = [r \in Runs |-> 0]
  /\ contested = FALSE

Lives(r) == r \in Runs /\ at[r] \notin {"out"} \cup Ended

Moves(r, from, to) == at[r] = from /\ at' = [at EXCEPT ![r] = to]

\* fail: the run exits, and cleans up for it.
Fails(r, from) == Moves(r, from, "test") /\ cleanups' = [cleanups EXCEPT ![r] = 1]
-----------------------------------------------------------------------------
\* What a run in Window has read of the lock is no longer so once another makes the directory,
\* and what is read of a directory whose maker has not yet written its pid is not so for long.
MadeWithin(r) ==
  contested' = (contested \/ (~dir /\ \E q \in Runs \ {r} : at[q] \in Window))
ReadEarly == contested' = (contested \/ \E q \in Runs : at[q] = "record")

Begin(r) ==
  /\ Moves(r, "out", "mkdir")
  /\ UNCHANGED <<dir, owner, old, cleanups, contested>>

MakeDir(r) ==
  /\ IF dir THEN Moves(r, "mkdir", "read") ELSE Moves(r, "mkdir", "record")
  /\ dir' = TRUE /\ MadeWithin(r)
  /\ UNCHANGED <<owner, old, cleanups>>

ReadOld(r) ==
  /\ Moves(r, "read", "probe")
  /\ old' = [old EXCEPT ![r] = owner] /\ ReadEarly
  /\ UNCHANGED <<dir, owner, cleanups>>

\* kill -0: the owner, or, if that is dead, a process with its pid.
ProbeActive(r) ==
  /\ old[r] # 0
  /\ Fails(r, "probe")
  /\ UNCHANGED <<dir, owner, old, contested>>
ProbeStale(r) ==
  /\ Moves(r, "probe", "rmpid")
  /\ ~Lives(old[r])
  /\ UNCHANGED <<dir, owner, old, cleanups, contested>>

RemovePid(r) ==
  /\ Moves(r, "rmpid", "rmdir")
  /\ owner' = 0
  /\ UNCHANGED <<dir, old, cleanups, contested>>

RemoveDir(r) ==
  /\ Moves(r, "rmdir", "again")
  /\ dir' = (dir /\ owner # 0)
  /\ UNCHANGED <<owner, old, cleanups, contested>>

MakeAgain(r) ==
  /\ IF dir THEN Fails(r, "again")
            ELSE Moves(r, "again", "record") /\ UNCHANGED cleanups
  /\ dir' = TRUE /\ MadeWithin(r)
  /\ UNCHANGED <<owner, old>>

\* The redirection fails if the directory is gone again.
Record(r) ==
  /\ IF dir THEN Moves(r, "record", "in") /\ owner' = r /\ UNCHANGED cleanups
            ELSE Fails(r, "record") /\ UNCHANGED owner
  /\ UNCHANGED <<dir, old, contested>>
-----------------------------------------------------------------------------
\* The run comes to its end, and by and by to the lock.
End(r, n) ==
  /\ at[r] = "in" /\ cleanups[r] = 0
  /\ cleanups' = [cleanups EXCEPT ![r] = n]
  /\ UNCHANGED <<dir, owner, at, old, contested>>
Leave(r) ==
  /\ Moves(r, "in", "test")
  /\ cleanups[r] > 0
  /\ UNCHANGED <<dir, owner, old, cleanups, contested>>

\* INT or TERM while the lock is being taken.
Interrupt(r) ==
  /\ at[r] \in Taking
  /\ at' = [at EXCEPT ![r] = "test"]
  /\ cleanups' = [cleanups EXCEPT ![r] = 2]
  /\ UNCHANGED <<dir, owner, old, contested>>

CleanedUp(r) ==
  /\ at' = [at EXCEPT ![r] = IF cleanups[r] > 1 THEN "test" ELSE "over"]
  /\ cleanups' = [cleanups EXCEPT ![r] = @ - 1]

Test(r) ==
  /\ at[r] = "test"
  /\ IF dir /\ owner = r THEN Moves(r, "test", "relpid") /\ UNCHANGED cleanups
                         ELSE CleanedUp(r)
  /\ UNCHANGED <<dir, owner, old, contested>>

ReleasePid(r) ==
  /\ Moves(r, "relpid", "reldir")
  /\ owner' = 0
  /\ UNCHANGED <<dir, old, cleanups, contested>>

ReleaseDir(r) ==
  /\ at[r] = "reldir"
  /\ CleanedUp(r)
  /\ dir' = (dir /\ owner # 0)
  /\ UNCHANGED <<owner, old, contested>>

Kill(r) ==
  /\ Lives(r)
  /\ at' = [at EXCEPT ![r] = "dead"]
  /\ UNCHANGED <<dir, owner, old, cleanups, contested>>
-----------------------------------------------------------------------------
Take(r) ==
  \/ MakeDir(r) \/ ReadOld(r) \/ ProbeActive(r) \/ ProbeStale(r)
  \/ RemovePid(r) \/ RemoveDir(r) \/ MakeAgain(r) \/ Record(r)
Release(r) == Test(r) \/ ReleasePid(r) \/ ReleaseDir(r)

LockNext ==
  \E r \in Runs :
    \/ Begin(r) \/ Take(r) \/ (\E n \in 1..2 : End(r, n)) \/ Leave(r)
    \/ Interrupt(r) \/ Release(r) \/ Kill(r)

LockSpec == LockInit /\ [][LockNext]_lockVars
-----------------------------------------------------------------------------
LockTypeOK ==
  /\ dir \in BOOLEAN /\ contested \in BOOLEAN
  /\ owner \in Runs \cup {0}
  /\ at \in [Runs -> {"out", "in"} \cup Taking \cup Releasing \cup Ended]
  /\ old \in [Runs -> Runs \cup {0}]
  /\ cleanups \in [Runs -> 0..2]

\* Two runs have the lock together only if one made the directory, which another had removed
\* or was about to, or read no pid in it because its maker had not written that yet: no run
\* takes over a lock whose owner lives, and none removes one that is not its own.
MutualExclusion ==
  ~contested => \A r, q \in Runs : at[r] = "in" /\ at[q] = "in" => r = q

\* Whose the lock is, from the moment its pid is in it until that is removed.
Holds(r) == owner = r /\ at[r] \in {"in", "test", "relpid"}

\* What a run has seen of the lock excludes that another holds it.
LockInv ==
  /\ LockTypeOK
  /\ owner # 0 => dir
  /\ \A r \in Runs : at[r] \in Releasing => cleanups[r] # 0
  /\ \A r \in Runs : at[r] \in {"out", "reldir"} \cup Taking => owner # r
  /\ ~contested =>
       /\ \A r, q \in Runs : at[r] = "record" /\ at[q] \in Window => r = q
       /\ \A r \in Runs : at[r] \in {"in", "relpid"} => owner = r
       /\ \A r, q \in Runs : at[r] = "probe" /\ Holds(q) => old[r] = q
       /\ \A r, q \in Runs : at[r] \in TakeOver => ~Holds(q)
=============================================================================
