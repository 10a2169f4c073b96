-------------------------- MODULE QemuInstanceProofs --------------------------
(***************************************************************************)
(* InstanceInv and CleanupStopsFirst, for any number of commands that      *)
(* overlap as they like, of pid files and of pids, with crashes, reused    *)
(* pids and dry runs.                                                      *)
(*                                                                         *)
(* A QEMU that was not crossed (Clean) came up when no other command had   *)
(* begun to look at anything; and a start with its pid file is refused     *)
(* while it runs.  So no start goes on beside it (Exclusive), and a stop   *)
(* or cleanup reads its pid file and waits for it, unless it has a pid     *)
(* file of its own and its directory is already gone (Aims).               *)
(***************************************************************************)
EXTENDS QemuInstance, TLAPS

Looking == {"read", "cat", "ps", "kill", "wait", "rm"}
Clean == Running \ crossed

\* Where the files of a QEMU are, or that they are gone but for its pid file.
Shown(p) ==
  /\ pidFile[qemuPath[p]] = p
  /\ seeded => meta = qemuPath[p] /\ sockets = p
  /\ ~seeded => meta = "none" /\ qemuPath[p] # DefaultPath

Exclusive(c) ==
  /\ pc[c] \in PastCheck => Clean = {}
  /\ pc[c] \in PastCheck /\ c \notin beside => \A d \in Commands \ {c} : pc[d] \in Waiting
  /\ pc[c] \in {"sockets", "launch"} /\ c \notin beside => meta = path[c]

Aims(c, p) ==
  /\ pc[c] \in Looking /\ path[c] # qemuPath[p] => ~seeded
  /\ pc[c] \in {"ps", "kill", "wait"} /\ path[c] = qemuPath[p] => pid[c] = p
  /\ pc[c] = "rm" => path[c] # qemuPath[p]
  /\ pc[c] = "remove" => qemuPath[p] # DefaultPath

CommandInv(c) == Exclusive(c) /\ \A p \in Clean : Aims(c, p)

QemuInv ==
  /\ TypeOK
  /\ \A p \in Clean : Shown(p)
  /\ \A c \in Commands : CommandInv(c)

LEMMA InvImplies == QemuInv => InstanceInv
BY DEF QemuInv, Shown, Clean, InstanceInv, RunningIsDescribed

LEMMA InitEstablishes == Init => QemuInv
<1> SUFFICES ASSUME Init PROVE QemuInv
  OBVIOUS
<1>1. Running = {} /\ Clean = {}
  BY DEF Init, Running, Clean
<1>2. TypeOK
  BY <1>1, InstanceAssumption DEF Init, TypeOK, NoPid
<1> QED
  BY <1>1, <1>2 DEF Init, QemuInv, CommandInv, Exclusive, PastCheck
-----------------------------------------------------------------------------
(* Types, and what the steps of a command leave alone                        *)
USE DEF PastCheck, Waiting, StartSteps, StopSteps

\* The commands' own variables.
LocalOK ==
  /\ op \in [Commands -> {"start", "stop", "cleanup"}]
  /\ DOMAIN pc = Commands
  /\ \A c \in Commands : pc[c] \in {"idle"} \cup StepsOf(op[c])
  /\ path \in [Commands -> PidPaths]
  /\ dry \in [Commands -> BOOLEAN]
  /\ pid \in [Commands -> Pids \cup {NoPid}]

LEMMA KeepsLocal ==
  ASSUME LocalOK, NEW c \in Commands, Settles(c), NEW x \in {"idle"} \cup StepsOf(op[c]),
         pc' = [pc EXCEPT ![c] = x]
  PROVE  LocalOK'
<1>1. /\ path' \in [Commands -> PidPaths]
      /\ dry' \in [Commands -> BOOLEAN]
      /\ pid' \in [Commands -> Pids \cup {NoPid}]
  <2>1. CASE pc'[c] \in {"idle", "remove"}
    BY <2>1, InstanceAssumption DEF LocalOK, Settles
  <2>2. CASE pc'[c] \notin {"idle", "remove"}
    BY <2>2 DEF LocalOK, Settles
  <2> QED
    BY <2>1, <2>2
<1>2. op' = IF x = "idle" THEN [op EXCEPT ![c] = "start"] ELSE op
  BY DEF LocalOK, Settles
<1>3. op' \in [Commands -> {"start", "stop", "cleanup"}] /\ DOMAIN pc' = Commands
  BY <1>2 DEF LocalOK
<1>4. \A d \in Commands : pc'[d] \in {"idle"} \cup StepsOf(op'[d])
  BY <1>2 DEF LocalOK
<1> QED
  BY <1>1, <1>3, <1>4 DEF LocalOK

\* A step that goes on with the command.
Goings(c) ==
  \/ StartCheck(c) \/ EnsureSeeded(c) \/ SeedFails(c) \/ WriteMetadata(c)
  \/ RemoveSockets(c) \/ Launch(c) \/ LaunchFails(c)
  \/ StopRead(c) \/ StopPs(c) \/ StopKill(c)
  \/ KillFails(c) \/ StopWait(c) \/ StopRemove(c) \/ CleanupRemove(c)

LEMMA GoingsKeep ==
  ASSUME LocalOK, NEW c \in Commands, Goings(c)
  PROVE  Settles(c) /\ \E x \in {"idle"} \cup StepsOf(op[c]) : pc' = [pc EXCEPT ![c] = x]
<1>1. op[c] \in {"start", "stop", "cleanup"} /\ pc[c] \in {"idle"} \cup StepsOf(op[c])
  BY DEF LocalOK
<1>2. CASE StartCheck(c) \/ EnsureSeeded(c) \/ SeedFails(c) \/ WriteMetadata(c)
           \/ RemoveSockets(c) \/ Launch(c) \/ LaunchFails(c)
  BY <1>1, <1>2 DEF StartCheck, EnsureSeeded, SeedFails, WriteMetadata, RemoveSockets, Launch,
     LaunchFails, Goes, StepsOf
<1>3. CASE StopRead(c) \/ StopPs(c) \/ StopKill(c) \/ KillFails(c) \/ StopWait(c)
           \/ StopRemove(c) \/ CleanupRemove(c)
  BY <1>1, <1>3 DEF StopRead, StopPs, StopKill, KillFails, StopWait, StopRemove, CleanupRemove,
     Goes, AfterStop, StepsOf
<1> QED
  BY <1>2, <1>3 DEF Goings

LEMMA LocalStep ==
  ASSUME TypeOK, NEW c \in Commands, CommandStep(c)
  PROVE  LocalOK'
<1>0. LocalOK
  BY DEF TypeOK, LocalOK
<1>1. CASE StartBegin(c)
  <2>1. PICK p \in PidPaths : path' = [path EXCEPT ![c] = p]
    BY <1>1 DEF StartBegin
  <2>2. PICK d \in {FALSE, DryRuns} : dry' = [dry EXCEPT ![c] = d]
    BY <1>1 DEF StartBegin
  <2>3. path' \in [Commands -> PidPaths]
    BY <1>0, <2>1 DEF LocalOK
  <2>4. dry' \in [Commands -> BOOLEAN]
    BY <1>0, <2>2, InstanceAssumption, Zenon DEF LocalOK
  <2>5. /\ op' \in [Commands -> {"start", "stop", "cleanup"}] /\ DOMAIN pc' = Commands
        /\ \A e \in Commands : pc'[e] \in {"idle"} \cup StepsOf(op'[e])
    BY <1>0, <1>1 DEF LocalOK, StartBegin, Goes, StepsOf
  <2> QED
    BY <1>0, <1>1, <2>3, <2>4, <2>5 DEF LocalOK, StartBegin
<1>2. CASE StopBegin(c) \/ CleanupBegin(c)
  BY <1>0, <1>2 DEF LocalOK, StopBegin, CleanupBegin, Goes, StepsOf
<1>3. CASE StopLoad(c)
  <2>1. StopPath \in PidPaths
    BY InstanceAssumption DEF TypeOK, StopPath
  <2>2. op[c] \in {"stop", "cleanup"}
    BY <1>0, <1>3 DEF LocalOK, StopLoad, Goes, StepsOf
  <2>3. /\ path' \in [Commands -> PidPaths] /\ UNCHANGED <<op, dry, pid>>
        /\ pc' = [pc EXCEPT ![c] = "read"]
    BY <1>0, <1>3, <2>1 DEF LocalOK, StopLoad, Goes
  <2> QED
    BY <1>0, <2>2, <2>3 DEF LocalOK, StepsOf
<1>4. CASE StopCat(c)
  <2>1. op[c] \in {"stop", "cleanup"} /\ pidFile[path[c]] \in Pids \cup {NoPid}
    BY <1>0, <1>4 DEF TypeOK, LocalOK, StopCat, Goes, StepsOf
  <2>2. CASE pidFile[path[c]] = NoPid
    <3>1. Settles(c) /\ pc' = [pc EXCEPT ![c] = AfterStop(c)]
      BY <1>4, <2>2 DEF StopCat, Goes
    <3>2. AfterStop(c) \in {"idle"} \cup StepsOf(op[c])
      BY <2>1 DEF AfterStop, StepsOf
    <3> QED
      BY <1>0, <3>1, <3>2, KeepsLocal
  <2>3. CASE pidFile[path[c]] # NoPid
    BY <1>0, <1>4, <2>1, <2>3 DEF LocalOK, StopCat, Goes, StepsOf
  <2> QED
    BY <2>2, <2>3
<1>5. CASE Goings(c)
  BY <1>0, <1>5, GoingsKeep, KeepsLocal
<1> QED
  BY <1>1, <1>2, <1>3, <1>4, <1>5 DEF CommandStep, Command, Goings

LEMMA TypeStep ==
  ASSUME TypeOK, Next
  PROVE  TypeOK'
<1>1. crossed' \subseteq Running' /\ beside' \subseteq Commands
  BY DEF Next, Crossing
<1>2. ASSUME NEW c \in Commands, CommandStep(c) PROVE TypeOK'
  <2>1. LocalOK' /\ path[c] \in PidPaths /\ pid[c] \in Pids \cup {NoPid}
    BY <1>2, LocalStep DEF TypeOK
  <2>2. /\ seeded' \in BOOLEAN /\ meta' \in PidPaths \cup {"none"}
        /\ pidFile' \in [PidPaths -> Pids \cup {NoPid}]
        /\ sockets' \in Pids \cup {NoPid}
        /\ proc' \in [Pids -> {"free", "qemu", "other"}]
        /\ qemuPath' \in [Pids -> PidPaths]
        /\ signalled' \subseteq Pids
    <3>1. CASE Launch(c) \/ StopKill(c)
      BY <2>1, <3>1 DEF TypeOK, Launch, StopKill, Alive, diskVars
    <3>2. CASE StopLoad(c) \/ StopRead(c) \/ StopCat(c) \/ StopPs(c) \/ KillFails(c) \/ StopWait(c)
               \/ StopRemove(c) \/ CleanupRemove(c) \/ StartBegin(c) \/ StopBegin(c)
               \/ CleanupBegin(c)
      BY <3>2, InstanceAssumption DEF TypeOK, StopLoad, StopRead, StopCat, StopPs, KillFails,
         StopWait, StopRemove, CleanupRemove, StartBegin, StopBegin, CleanupBegin, diskVars,
         procVars, NoPid
    <3>3. CASE StartCheck(c) \/ EnsureSeeded(c) \/ SeedFails(c) \/ WriteMetadata(c)
               \/ RemoveSockets(c) \/ LaunchFails(c)
      BY <2>1, <3>3 DEF TypeOK, StartCheck, EnsureSeeded, SeedFails, WriteMetadata,
         RemoveSockets, LaunchFails, diskVars, procVars, NoPid
    <3> QED
      BY <1>2, <3>1, <3>2, <3>3 DEF CommandStep, Command
  <2> QED
    BY <1>1, <2>1, <2>2 DEF TypeOK, LocalOK
<1>3. ASSUME NEW p \in Pids, ProcessStep(p) PROVE TypeOK'
  <2>1. UNCHANGED <<seeded, meta, pc, op, path, dry, pid>>
    BY <1>3 DEF ProcessStep, QemuExits, QemuCrashes, OtherStarts, OtherExits, diskVars
  <2>2. /\ pidFile' \in [PidPaths -> Pids \cup {NoPid}]
        /\ sockets' \in Pids \cup {NoPid}
        /\ proc' \in [Pids -> {"free", "qemu", "other"}]
        /\ qemuPath' \in [Pids -> PidPaths]
        /\ signalled' \subseteq Pids
    BY <1>3, InstanceAssumption DEF TypeOK, ProcessStep, QemuExits, QemuCrashes, OtherStarts,
       OtherExits, diskVars, NoPid
  <2> QED
    BY <1>1, <2>1, <2>2 DEF TypeOK
<1> QED
  BY <1>2, <1>3 DEF Next
-----------------------------------------------------------------------------
(* The steps of a command, seen by the others                                *)
LEMMA Frame ==
  ASSUME TypeOK, NEW c \in Commands, CommandStep(c), NEW d \in Commands, d # c
  PROVE  pc'[d] = pc[d] /\ path'[d] = path[d] /\ pid'[d] = pid[d]
<1>1. LocalOK
  BY DEF TypeOK, LocalOK
<1>2. CASE Goings(c)
  <2>1. Settles(c) /\ \E x : pc' = [pc EXCEPT ![c] = x]
    BY <1>1, <1>2, GoingsKeep
  <2> QED
    BY <1>1, <2>1 DEF LocalOK, Settles
<1>3. CASE StartBegin(c)
  <2>1. \E p : path' = [path EXCEPT ![c] = p]
    BY <1>3 DEF StartBegin
  <2> QED
    BY <1>1, <1>3, <2>1 DEF LocalOK, StartBegin, Goes
<1>4. CASE StopBegin(c) \/ CleanupBegin(c) \/ StopLoad(c)
  BY <1>1, <1>4 DEF LocalOK, StopBegin, CleanupBegin, StopLoad, Goes
<1>5. CASE StopCat(c)
  BY <1>1, <1>5 DEF LocalOK, StopCat, Goes, Settles
<1> QED
  BY <1>2, <1>3, <1>4, <1>5 DEF CommandStep, Command, Goings

\* Only a launch brings a QEMU up, and what is clean stays clean as long as it runs.
LEMMA NoNewQemu ==
  ASSUME TypeOK, Crossing, NEW c \in Commands, CommandStep(c), ~Launch(c)
  PROVE  Running' = Running /\ qemuPath' = qemuPath /\ Clean' \subseteq Clean
<1>1. UNCHANGED <<proc, qemuPath>>
  BY DEF CommandStep, Command, StartBegin, StopBegin, CleanupBegin, StartCheck, EnsureSeeded,
     SeedFails, WriteMetadata, RemoveSockets, LaunchFails, StopLoad, StopRead, StopCat, StopPs,
     StopKill, KillFails, StopWait, StopRemove, CleanupRemove, procVars
<1> QED
  BY <1>1 DEF Running, Crossing, Clean

LEMMA Others ==
  ASSUME QemuInv, Crossing, NEW c \in Commands, CommandStep(c),
         Clean' \subseteq Clean, qemuPath' = qemuPath,
         seeded' => seeded \/ Clean = {},
         pc[c] \in Waiting => meta' = meta,
         NEW d \in Commands, d # c
  PROVE  CommandInv(d)'
<1>1. pc'[d] = pc[d] /\ path'[d] = path[d] /\ pid'[d] = pid[d]
  BY Frame DEF QemuInv
<1>2. CommandInv(d) /\ DOMAIN pc = Commands
  BY DEF QemuInv, TypeOK
<1>3. pc'[d] \in PastCheck /\ d \notin beside' =>
        d \notin beside /\ \A e \in Commands \ {d} : pc'[e] \in Waiting
  BY DEF Crossing
<1>4. Exclusive(d)'
  <2>1. pc'[d] \in PastCheck => Clean' = {}
    BY <1>1, <1>2 DEF CommandInv, Exclusive
  <2>2. pc'[d] \in {"sockets", "launch"} /\ d \notin beside' => meta' = path'[d]
    BY <1>1, <1>2, <1>3 DEF CommandInv, Exclusive
  <2> QED
    BY <1>3, <2>1, <2>2 DEF Exclusive
<1>5. ASSUME NEW p \in Clean' PROVE Aims(d, p)'
  <2>1. Aims(d, p) /\ seeded' => seeded
    BY <1>2, <1>5 DEF CommandInv
  <2> QED
    BY <1>1, <1>2, <1>5, <2>1 DEF CommandInv, Aims
<1> QED
  BY <1>4, <1>5 DEF CommandInv

\* What is left to show of a step of c that is not a launch.
LEMMA StepOf ==
  ASSUME QemuInv, Next, Crossing, NEW c \in Commands, CommandStep(c), ~Launch(c),
         seeded' => seeded \/ Clean = {},
         pc[c] \in Waiting => meta' = meta,
         \A p \in Clean' : Shown(p)' /\ Aims(c, p)',
         pc'[c] \in PastCheck => Clean' = {},
         pc'[c] \in {"sockets", "launch"} /\ c \notin beside' => meta' = path'[c]
  PROVE  QemuInv'
<1>1. TypeOK'
  BY TypeStep DEF QemuInv
<1>2. Clean' \subseteq Clean /\ qemuPath' = qemuPath
  BY NoNewQemu DEF QemuInv
<1>3. \A d \in Commands : d # c => CommandInv(d)'
  BY <1>2, Others
<1>4. Exclusive(c)'
  BY DEF Exclusive, Crossing
<1> QED
  BY <1>1, <1>3, <1>4 DEF QemuInv, CommandInv
-----------------------------------------------------------------------------
(* start                                                                     *)
LEMMA StartCheckKeeps ==
  ASSUME QemuInv, Next, Crossing, NEW c \in Commands, StartCheck(c)
  PROVE  QemuInv'
<1>1. CommandStep(c) /\ ~Launch(c) /\ DOMAIN pc = Commands
  BY DEF QemuInv, TypeOK, CommandStep, Command, StartCheck, Launch, Goes
<1>2. Running' = Running /\ qemuPath' = qemuPath /\ Clean' \subseteq Clean
  BY <1>1, NoNewQemu DEF QemuInv
<1>3. UNCHANGED diskVars /\ pc'[c] = IF Alive(pidFile[path[c]]) THEN "idle" ELSE "seed"
  BY <1>1 DEF StartCheck, Goes
<1>4. ASSUME pc'[c] = "seed" PROVE Clean' = {}
  <2> SUFFICES ASSUME NEW p \in Clean' PROVE FALSE
    OBVIOUS
  <2>1. path' = path
    BY <1>4 DEF StartCheck, Settles
  <2>2. path[c] = qemuPath[p]
    BY <1>2, <1>4, <2>1 DEF Clean, Crossing
  <2>3. pidFile[path[c]] = p /\ p \in Running
    BY <1>2, <2>2 DEF QemuInv, Shown, Clean
  <2>4. Alive(p)
    BY <2>3 DEF Running, Alive, Pids, NoPid
  <2> QED
    BY <1>3, <1>4, <2>3, <2>4
<1>5. \A p \in Clean' : Shown(p)' /\ Aims(c, p)'
  BY <1>2, <1>3 DEF QemuInv, Shown, Aims, Looking, diskVars
<1> QED
  BY <1>1, <1>3, <1>4, <1>5, StepOf DEF diskVars

\* Past its check a start finds no clean QEMU, and none comes up until it launches its own.
LEMMA StartGoesOn ==
  ASSUME QemuInv, Next, Crossing, NEW c \in Commands,
         \/ EnsureSeeded(c) \/ SeedFails(c) \/ WriteMetadata(c) \/ RemoveSockets(c)
         \/ LaunchFails(c)
  PROVE  QemuInv'
<1>1. CommandStep(c) /\ ~Launch(c) /\ DOMAIN pc = Commands
  <2>1. CASE EnsureSeeded(c) \/ SeedFails(c) \/ WriteMetadata(c) \/ RemoveSockets(c)
    BY <2>1 DEF QemuInv, TypeOK, CommandStep, Command, EnsureSeeded, SeedFails, WriteMetadata,
       RemoveSockets, Launch, Goes
  <2>2. CASE LaunchFails(c)
    <3>1. proc' = proc
      BY <2>2 DEF LaunchFails, procVars
    <3>2. ~Launch(c)
      BY <3>1 DEF QemuInv, TypeOK, Launch
    <3> QED
      BY <2>2, <3>2 DEF QemuInv, TypeOK, CommandStep, Command
  <2> QED
    BY <2>1, <2>2
<1>2. Clean' \subseteq Clean
  BY <1>1, NoNewQemu DEF QemuInv
<1>3. pc[c] \in PastCheck /\ Clean = {}
  BY <1>1 DEF EnsureSeeded, SeedFails, WriteMetadata, RemoveSockets, LaunchFails, Goes, QemuInv,
     CommandInv, Exclusive
<1>4. pc'[c] \in {"sockets", "launch"} /\ c \notin beside' => meta' = path'[c]
  <2>1. CASE WriteMetadata(c)
    BY <1>1, <2>1 DEF WriteMetadata, Goes, Settles
  <2>2. CASE RemoveSockets(c)
    <3>1. pc[c] = "sockets" /\ pc'[c] \in {"idle", "launch"} /\ meta' = meta
      BY <1>1, <2>2 DEF RemoveSockets, Goes
    <3>2. pc'[c] = "launch" => path' = path
      BY <2>2 DEF RemoveSockets, Settles
    <3>3. c \notin beside' /\ pc'[c] = "launch" => c \notin beside
      BY DEF Crossing
    <3> QED
      BY <3>1, <3>2, <3>3 DEF QemuInv, CommandInv, Exclusive
  <2>3. CASE EnsureSeeded(c) \/ SeedFails(c) \/ LaunchFails(c)
    BY <1>1, <2>3 DEF EnsureSeeded, SeedFails, LaunchFails, Goes
  <2> QED
    BY <2>1, <2>2, <2>3
<1> QED
  BY <1>1, <1>2, <1>3, <1>4, StepOf

\* A QEMU that comes up is clean only if nobody else is beyond its first look.
LEMMA LaunchKeeps ==
  ASSUME QemuInv, Next, Crossing, NEW c \in Commands, Launch(c)
  PROVE  QemuInv'
<1>1. TypeOK'
  BY TypeStep DEF QemuInv
<1>2. /\ pc[c] = "launch" /\ pc'[c] = "idle" /\ meta' = meta /\ seeded /\ seeded'
      /\ Running = {} /\ CommandInv(c) /\ CommandStep(c)
  BY DEF QemuInv, TypeOK, Launch, Goes, CommandStep, Command
<1>3. PICK p \in Pids :
        /\ proc' = [proc EXCEPT ![p] = "qemu"]
        /\ qemuPath' = [qemuPath EXCEPT ![p] = path[c]]
        /\ pidFile' = [pidFile EXCEPT ![path[c]] = p]
        /\ sockets' = p
  BY DEF Launch
<1>4. Running' = {p} /\ qemuPath'[p] = path[c] /\ pidFile'[path[c]] = p
  BY <1>2, <1>3 DEF QemuInv, TypeOK, Running
<1>5. CASE c \in beside
  <2>1. Clean' = {}
    BY <1>2, <1>4, <1>5 DEF Clean, Crossing
  <2>2. ASSUME NEW d \in Commands PROVE Exclusive(d)'
    <3>1. CASE d = c
      BY <1>2, <3>1 DEF Exclusive
    <3>2. CASE d # c
      <4>1. pc'[d] = pc[d] /\ path'[d] = path[d] /\ Exclusive(d)
        BY <1>2, <3>2, Frame DEF QemuInv, CommandInv
      <4>2. pc'[d] \in PastCheck /\ d \notin beside' =>
              d \notin beside /\ \A e \in Commands \ {d} : pc'[e] \in Waiting
        BY DEF Crossing
      <4> QED
        BY <1>2, <2>1, <4>1, <4>2 DEF Exclusive
    <3> QED
      BY <3>1, <3>2
  <2> QED
    BY <1>1, <2>1, <2>2 DEF QemuInv, CommandInv
<1>6. CASE c \notin beside
  <2>1. \A d \in Commands : pc'[d] \in Waiting
    <3>1. \A d \in Commands \ {c} : pc[d] \in Waiting
      BY <1>2, <1>6 DEF CommandInv, Exclusive
    <3> QED
      BY <1>2, <3>1, Frame DEF QemuInv
  <2>2. \A d \in Commands : CommandInv(d)'
    BY <2>1 DEF CommandInv, Exclusive, Aims, Looking
  <2>3. meta = path[c]
    BY <1>2, <1>6 DEF CommandInv, Exclusive
  <2>4. Shown(p)'
    BY <1>2, <1>3, <1>4, <2>3 DEF Shown
  <2> QED
    BY <1>1, <1>4, <2>2, <2>4 DEF QemuInv, Clean
<1> QED
  BY <1>5, <1>6
-----------------------------------------------------------------------------
(* stop and cleanup                                                          *)
LEMMA Begins ==
  ASSUME QemuInv, Next, Crossing, NEW c \in Commands,
         StartBegin(c) \/ StopBegin(c) \/ CleanupBegin(c)
  PROVE  QemuInv'
<1>1. /\ CommandStep(c) /\ ~Launch(c) /\ UNCHANGED diskVars
      /\ pc'[c] \in {"check", "load"} \/ (CleanupBegin(c) /\ pc'[c] = "remove")
      /\ CleanupBegin(c) /\ pc'[c] = "remove" => pidFile[DefaultPath] = NoPid
  BY DEF QemuInv, TypeOK, CommandStep, StartBegin, StopBegin, CleanupBegin, Launch, Goes
<1>2. qemuPath' = qemuPath /\ Clean' \subseteq Clean
  BY <1>1, NoNewQemu DEF QemuInv
<1>3. ASSUME NEW p \in Clean' PROVE Shown(p)' /\ Aims(c, p)'
  <2>1. Shown(p) /\ p # NoPid
    BY <1>2, <1>3 DEF QemuInv, Clean, Running, Pids, NoPid
  <2>2. Shown(p)'
    BY <1>1, <1>2, <2>1 DEF Shown, diskVars
  <2>3. pc'[c] = "remove" => qemuPath[p] # DefaultPath
    BY <1>1, <2>1 DEF Shown
  <2> QED
    BY <1>1, <1>2, <2>2, <2>3 DEF Aims, Looking
<1> QED
  BY <1>1, <1>3, StepOf DEF diskVars

\* The steps of a stop that leave the files alone: what it knows of a clean QEMU.
LEMMA StopGoesOn ==
  ASSUME QemuInv, Next, Crossing, NEW c \in Commands,
         \/ StopLoad(c) \/ StopRead(c) \/ StopCat(c) \/ StopPs(c) \/ StopKill(c)
         \/ KillFails(c) \/ StopWait(c)
  PROVE  QemuInv'
<1> USE DEF Looking
<1>1. CommandStep(c) /\ ~Launch(c) /\ UNCHANGED diskVars /\ DOMAIN pc = Commands
  BY DEF QemuInv, TypeOK, CommandStep, Command, StopLoad, StopRead, StopCat, StopPs, StopKill,
     KillFails, StopWait, Launch, Goes
<1>2. qemuPath' = qemuPath /\ Clean' \subseteq Clean /\ Running' = Running
  BY <1>1, NoNewQemu DEF QemuInv
<1>3. pc'[c] \notin PastCheck
  BY <1>1 DEF StopLoad, StopRead, StopCat, StopPs, StopKill, KillFails, StopWait, Goes, AfterStop
<1>4. ASSUME NEW p \in Clean' PROVE Shown(p)' /\ Aims(c, p)'
  <2>1. /\ Shown(p) /\ Aims(c, p) /\ p # NoPid /\ proc[p] = "qemu" /\ Alive(p)
        /\ path \in [Commands -> PidPaths] /\ pid \in [Commands -> Pids \cup {NoPid}]
    BY <1>2, <1>4 DEF QemuInv, TypeOK, CommandInv, Clean, Running, Pids, NoPid, Alive
  <2>2. Shown(p)'
    BY <1>1, <1>2, <2>1 DEF Shown, diskVars
  <2>3. seeded' = seeded
    BY <1>1 DEF diskVars
  <2>4. CASE StopLoad(c)
    <3>1. pc'[c] = "read" /\ path'[c] = StopPath
      BY <1>1, <2>1, <2>4 DEF StopLoad, Goes
    <3>2. seeded => StopPath = qemuPath[p]
      BY <2>1, InstanceAssumption DEF Shown, StopPath, QemuInv, TypeOK
    <3> QED
      BY <1>2, <2>2, <2>3, <3>1, <3>2 DEF Aims
  <2>5. CASE StopRead(c) \/ StopCat(c)
    <3>1. pc[c] \in Looking /\ (path[c] # qemuPath[p] => ~seeded)
      BY <2>1, <2>5 DEF Aims, StopRead, StopCat, Goes
    <3>2. CASE pidFile[path[c]] = NoPid
      <4>1. pc'[c] \in {"idle", "remove"}
        BY <1>1, <2>5, <3>2 DEF StopRead, StopCat, Goes, AfterStop
      <4>2. qemuPath[p] # DefaultPath
        BY <2>1, <3>1, <3>2 DEF Shown
      <4> QED
        BY <1>2, <2>2, <4>1, <4>2 DEF Aims
    <3>3. CASE pidFile[path[c]] # NoPid
      <4>1. /\ path' = path /\ pc'[c] \in {"cat", "ps"}
            /\ pc'[c] = "ps" => pid'[c] = pidFile[path[c]]
        BY <1>1, <2>1, <2>5, <3>3 DEF StopRead, StopCat, Goes, Settles
      <4> QED
        BY <1>2, <2>1, <2>2, <2>3, <3>1, <4>1 DEF Aims, Shown
    <3> QED
      BY <3>2, <3>3
  <2>6. CASE StopPs(c) \/ StopKill(c) \/ StopWait(c)
    <3>1. path' = path /\ pid' = pid
      BY <1>1, <2>6 DEF StopPs, StopKill, StopWait, Settles, Goes
    <3>2. /\ pc[c] \in {"ps", "kill", "wait"} /\ pc'[c] \in {"kill", "wait", "rm"}
          /\ pc'[c] = "rm" => ~Alive(pid[c])
      BY <1>1, <2>6 DEF StopPs, StopKill, StopWait, Goes
    <3> QED
      BY <1>2, <2>1, <2>2, <2>3, <3>1, <3>2 DEF Aims
  <2>7. CASE KillFails(c)
    <3>1. pc[c] = "kill" /\ pc'[c] \in {"idle", "remove"} /\ proc[pid[c]] # "qemu"
      BY <1>1, <2>7 DEF KillFails, Goes, AfterStop
    <3>2. qemuPath[p] # DefaultPath
      BY <2>1, <3>1 DEF Aims, Shown
    <3> QED
      BY <1>2, <2>2, <3>1, <3>2 DEF Aims
  <2> QED
    BY <2>4, <2>5, <2>6, <2>7
<1>5. pc'[c] \notin {"sockets", "launch"}
  BY <1>3
<1> QED
  BY <1>1, <1>3, <1>4, <1>5, StepOf DEF diskVars

LEMMA Removes ==
  ASSUME QemuInv, Next, Crossing, NEW c \in Commands, StopRemove(c) \/ CleanupRemove(c)
  PROVE  QemuInv'
<1> USE DEF Looking
<1>1. /\ CommandStep(c) /\ ~Launch(c)
      /\ pc[c] \in {"rm", "remove"} /\ pc'[c] \in {"idle", "remove"}
      /\ seeded' => seeded
  BY DEF QemuInv, TypeOK, CommandStep, Command, StopRemove, CleanupRemove, Launch, Goes, AfterStop
<1>2. qemuPath' = qemuPath /\ Clean' \subseteq Clean
  BY <1>1, NoNewQemu DEF QemuInv
<1>3. ASSUME NEW p \in Clean' PROVE Shown(p)' /\ Aims(c, p)'
  <2>1. /\ Shown(p) /\ Aims(c, p) /\ qemuPath[p] \in PidPaths
        /\ pidFile \in [PidPaths -> Pids \cup {NoPid}]
    BY <1>2, <1>3 DEF QemuInv, TypeOK, CommandInv, Clean, Running
  <2>2. qemuPath[p] # DefaultPath
    BY <1>1, <2>1 DEF Aims, Shown
  <2>3. CASE StopRemove(c)
    <3>1. path[c] # qemuPath[p] /\ ~seeded
      BY <2>1, <2>3 DEF Aims, StopRemove, Goes
    <3>2. pidFile'[qemuPath[p]] = pidFile[qemuPath[p]] /\ UNCHANGED <<seeded, meta>>
      BY <2>1, <2>3, <3>1 DEF StopRemove
    <3> QED
      BY <1>1, <1>2, <2>1, <2>2, <3>1, <3>2 DEF Aims, Shown
  <2>4. CASE CleanupRemove(c)
    <3>1. /\ pidFile'[qemuPath[p]] = pidFile[qemuPath[p]]
          /\ ~seeded' /\ meta' = "none"
      BY <2>1, <2>2, <2>4 DEF CleanupRemove
    <3> QED
      BY <1>1, <1>2, <2>1, <2>2, <3>1 DEF Aims, Shown
  <2> QED
    BY <2>3, <2>4
<1> QED
  BY <1>1, <1>3, StepOf

\* Processes only free what they have, or take a pid that is free.
LEMMA ProcessesKeep ==
  ASSUME QemuInv, Next, Crossing, NEW p \in Pids, ProcessStep(p)
  PROVE  QemuInv'
<1>1. TypeOK'
  BY TypeStep DEF QemuInv
<1>2. UNCHANGED <<pc, path, pid, meta, seeded>>
  BY DEF ProcessStep, QemuExits, QemuCrashes, OtherStarts, OtherExits, diskVars
<1>3. /\ Running' \subseteq Running /\ p \notin Running'
      /\ \A q \in Running' : qemuPath'[q] = qemuPath[q]
  BY DEF QemuInv, TypeOK, Running, ProcessStep, QemuExits, QemuCrashes, OtherStarts, OtherExits
<1>4. Clean' \subseteq Clean
  BY <1>3 DEF Clean, Crossing
<1>5. ASSUME NEW q \in Clean' PROVE Shown(q)'
  <2>1. q # p /\ q \in Running' /\ Shown(q) /\ qemuPath'[q] = qemuPath[q] /\ qemuPath[q] \in PidPaths
    BY <1>3, <1>4, <1>5 DEF QemuInv, TypeOK, Clean, Running
  <2>2. seeded => sockets' = sockets
    BY <2>1 DEF Shown, ProcessStep, QemuExits, QemuCrashes, OtherStarts, OtherExits, diskVars
  <2>3. pidFile'[qemuPath[q]] = pidFile[qemuPath[q]]
    BY <2>1 DEF Shown, QemuInv, TypeOK, ProcessStep, QemuExits, QemuCrashes, OtherStarts, OtherExits,
       diskVars
  <2> QED
    BY <1>2, <2>1, <2>2, <2>3 DEF Shown
<1>6. ASSUME NEW c \in Commands PROVE CommandInv(c)'
  <2>1. Exclusive(c)'
    <3>1. pc'[c] \in PastCheck /\ c \notin beside' => c \notin beside
      BY DEF Crossing
    <3> QED
      BY <1>2, <1>4, <3>1 DEF QemuInv, CommandInv, Exclusive
  <2>2. ASSUME NEW q \in Clean' PROVE Aims(c, q)'
    BY <1>2, <1>3, <1>4, <2>2 DEF QemuInv, CommandInv, Aims, Clean
  <2> QED
    BY <2>1, <2>2 DEF CommandInv
<1> QED
  BY <1>1, <1>5, <1>6 DEF QemuInv
-----------------------------------------------------------------------------
LEMMA StepKeeps ==
  ASSUME QemuInv, [Next]_vars
  PROVE  QemuInv'
<1>1. CASE UNCHANGED vars
  BY <1>1 DEF vars, diskVars, procVars, crossVars, QemuInv, TypeOK, Shown, CommandInv, Exclusive,
     Aims, Clean, Running
<1>2. CASE Next
  <2>1. Crossing
    BY <1>2 DEF Next
  <2>2. ASSUME NEW c \in Commands, CommandStep(c) PROVE QemuInv'
    BY <1>2, <2>1, <2>2, StartCheckKeeps, StartGoesOn, LaunchKeeps, Begins, StopGoesOn, Removes
       DEF CommandStep, Command
  <2> QED
    BY <1>2, <2>1, <2>2, ProcessesKeep DEF Next
<1> QED
  BY <1>1, <1>2

LEMMA QemuInductive == Spec => []QemuInv
<1>1. QemuInv /\ [Next]_vars => QemuInv'
  BY StepKeeps
<1> QED
  BY InitEstablishes, <1>1, PTL DEF Spec

\* While no command is in progress, instance.env describes the QEMU that runs, whatever crashed
\* and whoever took its pid, unless it was crossed (usage of qemu_start_ubuntu.sh, line 69).
THEOREM InstanceIsDescribed == Spec => []InstanceInv
BY QemuInductive, InvImplies, PTL

\* cleanup removes the images of no QEMU that runs with the default pid file and was not
\* crossed, however many starts, stops and cleanups overlap (usage, line 40).
THEOREM CleanupNeverUnderQemu == Spec => CleanupStopsFirst
<1>1. ASSUME QemuInv, [Next]_vars, seeded, ~seeded'
      PROVE  \A p \in Running : p \in crossed \/ qemuPath[p] # DefaultPath
  <2>1. PICK c \in Commands : CleanupRemove(c)
    BY <1>1 DEF Next, CommandStep, Command, ProcessStep, StartBegin, StopBegin, CleanupBegin,
       StartCheck, EnsureSeeded, SeedFails, WriteMetadata, RemoveSockets, Launch, LaunchFails,
       StopLoad, StopRead, StopCat, StopPs, StopKill, KillFails, StopWait, StopRemove, QemuExits,
       QemuCrashes, OtherStarts, OtherExits, vars, diskVars
  <2> QED
    BY <1>1, <2>1 DEF QemuInv, CommandInv, Aims, Clean, CleanupRemove, Goes
<1>2. QemuInv /\ [Next]_vars =>
        [seeded /\ ~seeded' => \A p \in Running : p \in crossed \/ qemuPath[p] # DefaultPath]_vars
  BY <1>1
<1> QED
  BY QemuInductive, <1>2, PTL DEF Spec, CleanupStopsFirst
=============================================================================
