----------------------------- MODULE QemuInstance -----------------------------
(***************************************************************************)
(* One virtual machine instance as the commands start, stop and cleanup of *)
(* qemu_start_ubuntu.sh manage it: its directory with the disk images and  *)
(* instance.env, its pid file, its sockets and the QEMU process behind     *)
(* them.  Commands are invoked from several terminals; a command is the    *)
(* sequence of its file and process operations, and any may overlap.       *)
(* status changes nothing and is left out; so are the ports, which are     *)
(* always the same for one name, the log, the images' data, and pid files  *)
(* given to stop, which instance.env overrides if it exists.               *)
(*                                                                         *)
(* QEMU and the process table are external: QEMU refuses to start while    *)
(* another one has the images or the ports of the instance, writes its pid *)
(* file and sockets when it starts and removes them when it exits; killed  *)
(* the hard way it leaves them (Crashes).  A pid that is free may be taken *)
(* by an unrelated process (PidReuse), which the caller may or may not be  *)
(* allowed to kill.  The script has set -e: a command that fails ends it.  *)
(*                                                                         *)
(* A definition named X_Y is a deliberately wrong variant of X, kept to    *)
(* see which property notices.                                             *)
(***************************************************************************)
EXTENDS Integers, FiniteSets

CONSTANTS
  Commands,    \* invocations that may be in progress at the same time
  PidPaths,    \* pid file paths that start is called with (--pid-file)
  DefaultPath, \* <instance dir>/qemu.pid; the other paths are elsewhere
  MaxPid,      \* pids are 1..MaxPid; bounds the model
  Crashes, PidReuse, DryRuns   \* what may happen

ASSUME InstanceAssumption ==
  /\ DefaultPath \in PidPaths /\ "none" \notin PidPaths
  /\ MaxPid \in Nat \ {0}
  /\ Crashes \in BOOLEAN
  /\ PidReuse \in BOOLEAN /\ DryRuns \in BOOLEAN

VARIABLES
  seeded,     \* does the instance directory with its images exist?
  meta,       \* VM_PID_FILE of instance.env; "none": no such file
  pidFile,    \* what each pid file holds; 0: no such file
  sockets,    \* the pid listening on the QGA and QMP sockets; 0: nobody
  proc,       \* process table: "free", "qemu" or "other"
  qemuPath,   \* the -pidfile of each QEMU; of what is none, DefaultPath
  signalled,  \* pids that were sent SIGTERM
  pc,         \* control of each command
  op, path, dry, pid,  \* its name, PID_FILE, DRY_RUN and the pid it has read
  beside,     \* starts that another command went on beside, since their check
  crossed     \* the QEMUs of such starts, and those that a start with another
              \* pid file went on beside

diskVars == <<seeded, meta, pidFile, sockets>>
procVars == <<proc, qemuPath, signalled>>
crossVars == <<beside, crossed>>
vars == <<diskVars, procVars, pc, op, path, dry, pid, crossVars>>

Pids == 1..MaxPid
NoPid == 0

Init ==
  /\ seeded = FALSE
  /\ meta = "none"
  /\ pidFile = [p \in PidPaths |-> NoPid]
  /\ sockets = NoPid
  /\ proc = [p \in Pids |-> "free"]
  /\ qemuPath = [p \in Pids |-> DefaultPath]
  /\ signalled = {}
  /\ pc = [c \in Commands |-> "idle"]
  /\ op = [c \in Commands |-> "start"]
  /\ path = [c \in Commands |-> DefaultPath]
  /\ dry = [c \in Commands |-> FALSE]
  /\ pid = [c \in Commands |-> NoPid]
  /\ beside = {} /\ crossed = {}

Alive(p) == p # NoPid /\ proc[p] # "free"

Running == {p \in Pids : proc[p] = "qemu"}

Goes(c, from, to) == pc[c] = from /\ pc' = [pc EXCEPT ![c] = to]

\* The variables of a command, or of the stop that a cleanup calls, end with it.
Settles(c) ==
  /\ op' = IF pc'[c] = "idle" THEN [op EXCEPT ![c] = "start"] ELSE op
  /\ IF pc'[c] \in {"idle", "remove"}
     THEN /\ path' = [path EXCEPT ![c] = DefaultPath]
          /\ dry' = [dry EXCEPT ![c] = FALSE]
          /\ pid' = [pid EXCEPT ![c] = NoPid]
     ELSE UNCHANGED <<path, dry, pid>>
-----------------------------------------------------------------------------
(* start_instance, from the parsed options on.                             *)

StartBegin(c) ==
  /\ Goes(c, "idle", "check")
  /\ op' = [op EXCEPT ![c] = "start"]
  /\ \E p \in PidPaths : path' = [path EXCEPT ![c] = p]
  /\ \E d \in {FALSE, DryRuns} : dry' = [dry EXCEPT ![c] = d]
  /\ UNCHANGED <<diskVars, procVars, pid>>

StartCheck(c) ==
  /\ IF Alive(pidFile[path[c]]) THEN Goes(c, "check", "idle")
                                ELSE Goes(c, "check", "seed")
  /\ UNCHANGED <<diskVars, procVars>> /\ Settles(c)

EnsureSeeded(c) ==
  /\ Goes(c, "seed", "meta")
  /\ seeded' = TRUE
  /\ UNCHANGED <<meta, pidFile, sockets, procVars>> /\ Settles(c)

\* The base images are missing; or, when the instance's are there, the shared directory is,
\* or the mode is unknown.
SeedFails(c) ==
  /\ Goes(c, "seed", "idle")
  /\ seeded' \in {seeded, TRUE}
  /\ UNCHANGED <<meta, pidFile, sockets, procVars>> /\ Settles(c)

WriteMetadata_DefaultPid(c) ==
  /\ Goes(c, "meta", "sockets")
  /\ UNCHANGED <<seeded, meta, pidFile, sockets, procVars>> /\ Settles(c)
WriteMetadata(c) ==
  /\ Goes(c, "meta", "sockets")
  /\ meta' = path[c]
  /\ UNCHANGED <<seeded, pidFile, sockets, procVars>> /\ Settles(c)

RemoveSockets(c) ==
  /\ IF dry[c] THEN Goes(c, "sockets", "idle") ELSE Goes(c, "sockets", "launch")
  /\ sockets' = NoPid
  /\ UNCHANGED <<seeded, meta, pidFile, procVars>> /\ Settles(c)

\* QEMU comes up; the command now only copies its output to the log.
Launch(c) ==
  /\ Goes(c, "launch", "idle")
  /\ Running = {} /\ seeded
  /\ \E p \in Pids :
       /\ proc[p] = "free"
       /\ proc' = [proc EXCEPT ![p] = "qemu"]
       /\ qemuPath' = [qemuPath EXCEPT ![p] = path[c]]
       /\ pidFile' = [pidFile EXCEPT ![path[c]] = p]
       /\ sockets' = p
       /\ signalled' = signalled \ {p}
  /\ UNCHANGED <<seeded, meta>> /\ Settles(c)

\* QEMU exits at once: the images or ports are in use, or it finds another
\* fault in its command line.
LaunchFails(c) ==
  /\ Goes(c, "launch", "idle")
  /\ UNCHANGED <<diskVars, procVars>> /\ Settles(c)
-----------------------------------------------------------------------------
(* stop_instance, also as cleanup calls it: AfterStop is where it leads.    *)

StopPath == IF meta = "none" THEN DefaultPath ELSE meta

AfterStop(c) == IF op[c] = "cleanup" THEN "remove" ELSE "idle"

StopBegin(c) ==
  /\ Goes(c, "idle", "load")
  /\ op' = [op EXCEPT ![c] = "stop"]
  /\ UNCHANGED <<diskVars, procVars, path, dry, pid>>

\* load_instance_metadata_if_present.
StopLoad(c) ==
  /\ Goes(c, "load", "read")
  /\ path' = [path EXCEPT ![c] = StopPath]
  /\ UNCHANGED <<diskVars, procVars, op, dry, pid>>

\* Is there a pid file?  And what is in it, if it is still there?
StopRead(c) ==
  /\ IF pidFile[path[c]] = NoPid THEN Goes(c, "read", AfterStop(c))
                                 ELSE Goes(c, "read", "cat")
  /\ UNCHANGED <<diskVars, procVars>> /\ Settles(c)
StopCat(c) ==
  /\ IF pidFile[path[c]] = NoPid
     THEN Goes(c, "cat", AfterStop(c)) /\ Settles(c)
     ELSE /\ Goes(c, "cat", "ps")
          /\ pid' = [pid EXCEPT ![c] = pidFile[path[c]]]
          /\ UNCHANGED <<op, path, dry>>
  /\ UNCHANGED <<diskVars, procVars>>

StopPs(c) ==
  /\ IF Alive(pid[c]) THEN Goes(c, "ps", "kill") ELSE Goes(c, "ps", "rm")
  /\ UNCHANGED <<diskVars, procVars>> /\ Settles(c)

StopKill_Skipped(c) ==
  /\ Goes(c, "kill", "wait")
  /\ UNCHANGED <<diskVars, procVars>> /\ Settles(c)
StopKill(c) ==
  /\ Alive(pid[c])
  /\ Goes(c, "kill", "wait")
  /\ signalled' = signalled \cup {pid[c]}
  /\ UNCHANGED <<diskVars, proc, qemuPath>> /\ Settles(c)

\* The process has ended since, or it is somebody else's: the command fails.
KillFails(c) ==
  /\ Goes(c, "kill", AfterStop(c))
  /\ proc[pid[c]] \in {"free", "other"}
  /\ UNCHANGED <<diskVars, procVars>> /\ Settles(c)

StopWait_Never(c) ==
  /\ Goes(c, "wait", "rm")
  /\ UNCHANGED <<diskVars, procVars>> /\ Settles(c)
StopWait(c) ==
  /\ Goes(c, "wait", "rm")
  /\ ~Alive(pid[c])
  /\ UNCHANGED <<diskVars, procVars>> /\ Settles(c)

StopRemove(c) ==
  /\ Goes(c, "rm", AfterStop(c))
  /\ pidFile' = [pidFile EXCEPT ![path[c]] = NoPid]
  /\ sockets' = NoPid
  /\ UNCHANGED <<seeded, meta, procVars>> /\ Settles(c)
-----------------------------------------------------------------------------
\* cleanup_instance, after the confirmation.  It looks at the default pid file
\* only; the stop it calls reads instance.env.
CleanupBegin(c) ==
  /\ IF pidFile[DefaultPath] # NoPid THEN Goes(c, "idle", "load")
                                     ELSE Goes(c, "idle", "remove")
  /\ op' = [op EXCEPT ![c] = "cleanup"]
  /\ UNCHANGED <<diskVars, procVars, path, dry, pid>>

CleanupRemove(c) ==
  /\ Goes(c, "remove", "idle")
  /\ seeded' = FALSE
  /\ meta' = "none"
  /\ pidFile' = [pidFile EXCEPT ![DefaultPath] = NoPid]
  /\ sockets' = NoPid
  /\ UNCHANGED <<procVars>> /\ Settles(c)
-----------------------------------------------------------------------------
(* The processes.                                                          *)

\* QEMU ends by itself or by SIGTERM and removes its pid file and sockets.
QemuExits(p) ==
  /\ proc[p] = "qemu"
  /\ proc' = [proc EXCEPT ![p] = "free"]
  /\ pidFile' = [pidFile EXCEPT ![qemuPath[p]] = IF @ = p THEN NoPid ELSE @]
  /\ sockets' = IF sockets = p THEN NoPid ELSE sockets
  /\ signalled' = signalled \ {p}
  /\ qemuPath' = [qemuPath EXCEPT ![p] = DefaultPath]
  /\ UNCHANGED <<seeded, meta, pc, op, path, dry, pid>>

QemuCrashes(p) ==
  /\ Crashes
  /\ proc[p] = "qemu"
  /\ proc' = [proc EXCEPT ![p] = "free"]
  /\ sockets' = IF sockets = p THEN NoPid ELSE sockets
  /\ signalled' = signalled \ {p}
  /\ qemuPath' = [qemuPath EXCEPT ![p] = DefaultPath]
  /\ UNCHANGED <<seeded, meta, pidFile, pc, op, path, dry, pid>>

OtherStarts(p) ==
  /\ PidReuse
  /\ proc[p] = "free"
  /\ proc' = [proc EXCEPT ![p] = "other"]
  /\ UNCHANGED <<diskVars, qemuPath, signalled, pc, op, path, dry, pid>>

OtherExits(p) ==
  /\ proc[p] = "other"
  /\ proc' = [proc EXCEPT ![p] = "free"]
  /\ signalled' = signalled \ {p}
  /\ UNCHANGED <<diskVars, qemuPath, pc, op, path, dry, pid>>

Command(c) ==
  \/ StartCheck(c) \/ EnsureSeeded(c) \/ SeedFails(c) \/ WriteMetadata(c)
  \/ RemoveSockets(c) \/ Launch(c) \/ LaunchFails(c)
  \/ StopLoad(c) \/ StopRead(c) \/ StopCat(c) \/ StopPs(c) \/ StopKill(c)
  \/ KillFails(c) \/ StopWait(c) \/ StopRemove(c)
  \/ CleanupRemove(c)

CommandStep(c) ==
  StartBegin(c) \/ StopBegin(c) \/ CleanupBegin(c) \/ Command(c)
ProcessStep(p) ==
  QemuExits(p) \/ QemuCrashes(p) \/ OtherStarts(p) \/ OtherExits(p)

\* A start that has found no QEMU, and a command that has done nothing yet.
PastCheck == {"seed", "meta", "sockets", "launch"}
Waiting   == {"idle", "check", "load"}

\* What the commands cannot see of one another.
Crossing ==
  /\ beside' = {c \in Commands : pc'[c] \in PastCheck
                   /\ (c \in beside \/ \E d \in Commands \ {c} : pc'[d] \notin Waiting)}
  /\ crossed' = {p \in Running' :
       \/ p \in crossed
       \/ p \notin Running /\ \E c \in beside : pc[c] = "launch" /\ pc'[c] = "idle"
       \/ \E c \in Commands : pc'[c] \in PastCheck /\ path'[c] # qemuPath'[p]}

Next ==
  /\ \/ \E c \in Commands : CommandStep(c)
     \/ \E p \in Pids : ProcessStep(p)
  /\ Crossing

\* A command that was invoked runs to its end, and QEMU obeys SIGTERM; nobody
\* has to invoke a command.
Fairness ==
  /\ \A c \in Commands : WF_vars(Command(c) /\ Crossing)
  /\ \A p \in Pids : WF_vars(p \in signalled /\ QemuExits(p) /\ Crossing)

Spec == Init /\ [][Next]_vars /\ Fairness
-----------------------------------------------------------------------------
StartSteps   == {"check"} \cup PastCheck
StopSteps    == {"load", "read", "cat", "ps", "kill", "wait", "rm"}
StepsOf(name) ==
  CASE name = "start" -> StartSteps
    [] name = "stop" -> StopSteps
    [] name = "cleanup" -> StopSteps \cup {"remove"}

\* Every variable has its type, and a command is at one of its own steps.
TypeOK ==
  /\ seeded \in BOOLEAN
  /\ meta \in PidPaths \cup {"none"}
  /\ pidFile \in [PidPaths -> Pids \cup {NoPid}]
  /\ sockets \in Pids \cup {NoPid}
  /\ proc \in [Pids -> {"free", "qemu", "other"}]
  /\ qemuPath \in [Pids -> PidPaths]
  /\ signalled \subseteq Pids
  /\ op \in [Commands -> {"start", "stop", "cleanup"}]
  /\ DOMAIN pc = Commands
  /\ \A c \in Commands : pc[c] \in {"idle"} \cup StepsOf(op[c])
  /\ path \in [Commands -> PidPaths]
  /\ dry \in [Commands -> BOOLEAN]
  /\ pid \in [Commands -> Pids \cup {NoPid}]
  /\ beside \subseteq Commands /\ crossed \subseteq Running

\* While no command is in progress, instance.env describes the QEMU that runs: its pid file
\* holds its pid and its sockets are reachable (usage, line 69).  Not so if its start and
\* another command were beside one another, if a start with another pid file has been, which
\* does not see that it runs (337-344), or if a cleanup has removed the instance under it.
RunningIsDescribed ==
  (\A c \in Commands : pc[c] = "idle") =>
    \A p \in Running \ crossed :
      /\ pidFile[qemuPath[p]] = p
      /\ seeded => meta = qemuPath[p] /\ sockets = p

\* The state of the instance's files is well-formed and describes what runs.
InstanceInv == TypeOK /\ RunningIsDescribed

\* cleanup removes the files of an instance that does not run (usage, line 40), unless that
\* has another pid file than the default one, which is all cleanup looks at (492), or was
\* crossed: whatever else stops, cleans up, crashes and takes pids.
CleanupStopsFirst ==
  [][seeded /\ ~seeded' => \A p \in Running : p \in crossed \/ qemuPath[p] # DefaultPath]_vars

\* Every stop and cleanup that was begun comes to its end, unless unrelated processes, or
\* QEMUs that come up beside it, take pids again and again (the loop of lines 411-413).
StopReturns ==
  <>[](crossed = {} /\ \A p \in Pids : proc[p] # "other") =>
    \A c \in Commands : pc[c] \in StopSteps ~> pc[c] = "idle"
=============================================================================
