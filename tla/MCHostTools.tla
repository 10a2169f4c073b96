------------------------------ MODULE MCHostTools ------------------------------
(* The tools around the tests, each on its own machine: the virtual machine of the host *)
(* (QemuInstance), two runs of the VMA lock race (VmaRace), three of them at their lock *)
(* alone (RunLock), and the loop mount of a test (LoopMount).                           *)
EXTENDS QemuInstance, VmaRace

VARIABLES tool, lm

hostVars == <<tool, vars, lockVars, raceVars, lm>>

\* Each run a directory of its own, or all the same and a shell whose read goes on.
Directories == {<<[r \in Runs |-> r], TRUE>>, <<[r \in Runs |-> 1], FALSE>>}

OneTrouble == [ends \in BOOLEAN |-> IF ends THEN 1 ELSE 0]

Mount == INSTANCE LoopMount WITH Users <- {1, 2}, Retries <- [verify |-> 2, cleanup |-> 1]

NoRace == Idle /\ stage = [r \in Runs |-> "check"] /\ outdir = [r \in Runs |-> r] /\ readEnds = TRUE
NoMount == lm = [pc |-> "none"]

\* The runs begin in the order of their numbers, which are nothing else.  At the lock alone
\* two of them at most take it at the same time, of three; with the rest of the script there
\* are two, the third has no processes, and a contested lock is not followed further.
InOrder == \A r \in {2, 3} : at[r] # "out" => at[r - 1] # "out"
TwoTaking == \E r \in Runs : at[r] \notin Taking
TwoOnly == at[3] = "out" /\ ~contested

\* Of the virtual machine: starts that overlap any other command, with one pid; or reused and
\* stale pids, and stops and cleanups that overlap one another.
OnePid == \A p \in Pids : proc[p] # "other" /\ (p # 1 => proc[p] = "free")
StartsAlone ==
  \A c, d \in Commands : c # d /\ pc[c] # "idle" /\ pc[d] # "idle" => op[c] # "start"

HostInit ==
  /\ Init
  /\ \/ tool \in {"qemu", "pids"} /\ LockInit /\ NoRace /\ NoMount
     \/ tool = "race"  /\ RaceInit /\ NoMount
     \/ tool = "lock"  /\ LockInit /\ NoRace /\ NoMount
     \/ tool = "mount" /\ LockInit /\ NoRace /\ Mount!MountInit

HostNext ==
  /\ tool' = tool
  /\ \/ tool = "qemu"  /\ Next /\ OnePid' /\ UNCHANGED <<lockVars, raceVars, lm>>
     \/ tool = "pids"  /\ Next /\ StartsAlone' /\ UNCHANGED <<lockVars, raceVars, lm>>
     \/ tool = "race"  /\ RaceNext /\ InOrder' /\ TwoOnly' /\ UNCHANGED <<vars, lm>>
     \/ tool = "lock"  /\ LockNext /\ InOrder' /\ TwoTaking' /\ UNCHANGED <<vars, raceVars, lm>>
     \/ tool = "mount" /\ Mount!MountNext /\ UNCHANGED <<vars, lockVars, raceVars>>

HostSpec == HostInit /\ [][HostNext]_hostVars /\ Fairness /\ RaceFairness

\* The clean-ups of run_vma_lock_fault_race.sh and loop_mount.py: wherever the set-up or
\* the body came to its end, what was started is stopped, unmounted, detached and removed.
SetupsUndone ==
  /\ tool = "race" => CleanupComplete
  /\ tool = "mount" => Mount!MountTypeOK /\ Mount!MountReleased

\* The commands of qemu_start_ubuntu.sh that stop an instance, and runs of the race, end.
CommandsEnd == StopReturns /\ (tool = "race" => RunEnds)
=============================================================================
