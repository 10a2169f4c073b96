--------------------------- MODULE ArtifactPressure ---------------------------
(***************************************************************************)
(* The loop of run_inline_artifact_pressure (utils/artifact_pressure.py):  *)
(* group after group one artifact is written to a temporary file by a      *)
(* child process and put in place of the old one by two renames, while the *)
(* old one is held mapped; then the held mapping and the new file are      *)
(* verified, a batch of artifacts is fsynced, and artifacts that were      *)
(* fsynced often enough get fs-verity.                                     *)
(*                                                                         *)
(* Every group writes one new file, so a file is called by its group.  The *)
(* file system under test may damage a file at any moment (Damage).  What  *)
(* may raise is given by the constant Faults.  Churn, garbage collection   *)
(* and memory pressure run beside the loop and touch none of its files;    *)
(* the prefill before it and the sync and cache drop inside it change      *)
(* nothing the loop reads.  The eviction of lines 784-790 needs more       *)
(* artifacts than there are names, so it never happens.                    *)
(*                                                                         *)
(* A definition named X_Y is a deliberately wrong variant of X, kept to    *)
(* see which property notices.                                             *)
(***************************************************************************)
EXTENDS Integers, Sequences, FiniteSets, SequencesExt

CONSTANTS
  Groups,            \* cfg.groups
  Artifacts,         \* the artifact names, cfg.app_count * artifacts_per_app
  Candidates,        \* names for which _is_verity_candidate holds
  VerifyEvery,       \* cfg.verify_every_groups
  FsyncWorkerCount, FsyncBatchWidth,   \* cfg.fsync_*
  MinFsyncPasses,    \* cfg.verity_min_fsync_passes
  KeepSuccessFiles,  \* cfg.keep_success_files
  Faults,            \* the steps that may raise
  DamageAllowed      \* may the file system under test damage a file?

FaultNames == {"hold", "writer", "replace", "evidence", "verify", "fsync", "verity",
               "sync"}

ASSUME PressureAssumption ==
  /\ Groups \in Nat \ {0}
  /\ IsFiniteSet(Artifacts)
  /\ Candidates \subseteq Artifacts
  /\ VerifyEvery \in Nat
  /\ FsyncWorkerCount \in Nat /\ FsyncBatchWidth \in Nat
  /\ MinFsyncPasses \in Nat
  /\ KeepSuccessFiles \in BOOLEAN
  /\ Faults \subseteq FaultNames
  /\ DamageAllowed \in BOOLEAN

VARIABLES
  final,       \* final[a]: the file under the artifact's name; 0: none
  tmp, backup, \* the same for the two other names of the current group
  whole,       \* files whose writer finished
  damaged,     \* [header, elsewhere]: the files damaged there
  fsyncs,      \* how often each file was fsynced by a batch
  verity,      \* files with fs-verity
  state,       \* state[a]: what the loop knows of a; recipe 0: no entry
  known,       \* the keys of state, in the order they were added
  pc, group, artifact,   \* the loop
  held,        \* the file that held maps, and old_recipe; 0: None
  eligible,    \* eligible paths of the batch that the loop has still to reach
  verifiedFiles, verityEnabled, corruptLabel,   \* summary
  outcome,     \* "running", "returned" or "raised"
  workDir      \* does work_dir still exist?

fileVars == <<final, tmp, backup, whole, damaged, fsyncs, verity>>
summaryVars == <<verifiedFiles, verityEnabled, corruptLabel>>
endVars == <<outcome, workDir>>
vars == <<fileVars, state, known, pc, group, artifact, held, eligible,
          summaryVars, endVars>>

Gens == 1..Groups
NoFile == 0
NotHeld == [file |-> NoFile, recipe |-> 0]
NoState == [recipe |-> 0, passes |-> 0, enabled |-> FALSE]
-----------------------------------------------------------------------------
(* Which artifacts are fsynced together, and which of them are given       *)
(* fs-verity afterwards.                                                   *)

Smaller(m, n) == IF m < n THEN m ELSE n

\* The elements of paths at the given positions, in their order.
AtPositions(paths, positions) ==
  [n \in 1..Cardinality(positions) |->
     paths[CHOOSE i \in positions : Cardinality({j \in positions : j <= i}) = n]]

\* The first occurrence of every path but the focus.
Others(focus, paths) ==
  AtPositions(paths, {i \in DOMAIN paths :
                        paths[i] # focus /\ \A j \in 1..(i - 1) : paths[j] # paths[i]})

Rotated(others, round) ==
  LET shift == round % Len(others)
  IN  SubSeq(others, shift + 1, Len(others)) \o SubSeq(others, 1, shift)

\* plan_fsync_batch: the focus first, then the others, starting one further
\* every round; at most workerCount of them.
PlanBatch(focus, paths, workerCount, batchWidth, round) ==
  LET others == Others(focus, paths)
      turned == IF others = <<>> THEN others ELSE Rotated(others, round)
      width  == IF batchWidth > 0 THEN batchWidth ELSE workerCount
      batch  == <<focus>> \o SubSeq(turned, 1, Smaller(width - 1, Len(turned)))
  IN  IF workerCount <= 0 THEN <<>>
      ELSE SubSeq(batch, 1, Smaller(workerCount, Len(batch)))

ShouldEnableVerity(candidate, passes, minPasses) ==
  candidate /\ passes >= minPasses
-----------------------------------------------------------------------------
Init ==
  /\ final = [a \in Artifacts |-> NoFile]
  /\ tmp = NoFile /\ backup = NoFile
  /\ whole = {}
  /\ damaged = [header |-> {}, elsewhere |-> {}]
  /\ fsyncs = [g \in Gens |-> 0]
  /\ verity = {}
  /\ state = [a \in Artifacts |-> NoState] /\ known = <<>>
  /\ pc = "group" /\ group = 0 /\ artifact \in Artifacts
  /\ held = NotHeld
  /\ eligible = {}
  /\ verifiedFiles = 0 /\ verityEnabled = 0 /\ corruptLabel = FALSE
  /\ outcome = "running" /\ workDir = TRUE

\* An exception that reaches the outer finally.
Escapes(step) ==
  /\ step \in Faults
  /\ outcome' = "raised"
  /\ pc' = "finally"
  /\ UNCHANGED workDir
-----------------------------------------------------------------------------
MoreGroups == group < Groups

\* The next group chooses an artifact and opens and maps its old file.
BeginGroup ==
  /\ pc = "group"
  /\ MoreGroups
  /\ group' = group + 1
  /\ \E a \in Artifacts :
       /\ artifact' = a
       /\ held' = IF state[a].recipe # 0
                  THEN [file |-> final[a], recipe |-> state[a].recipe]
                  ELSE NotHeld
  /\ pc' = "write"
  /\ UNCHANGED <<fileVars, state, known, eligible, summaryVars, endVars>>

HoldRaises ==
  /\ pc = "group"
  /\ MoreGroups
  /\ group' = group + 1
  /\ \E a \in Artifacts : state[a].recipe # 0 /\ artifact' = a
  /\ Escapes("hold")
  /\ UNCHANGED <<fileVars, state, known, held, eligible, summaryVars>>

LoopEnds ==
  /\ pc = "group"
  /\ ~MoreGroups
  /\ outcome' = "returned" /\ pc' = "finally"
  /\ UNCHANGED <<fileVars, state, known, group, artifact, held, eligible,
                 summaryVars, workDir>>

\* _write_artifact_tmp: the child has written, flushed and synced the file.
WriteTmp ==
  /\ pc = "write"
  /\ tmp' = group
  /\ whole' = whole \cup {group}
  /\ pc' = "backup"
  /\ UNCHANGED <<final, backup, damaged, fsyncs, verity, state, known, group,
                 artifact, held, eligible, summaryVars, endVars>>

\* Whether _save_exception_evidence or _save_process_failure_evidence returns.
EvidenceSaved == {TRUE, "evidence" \notin Faults}

\* The handlers save the evidence, then set the label, then raise; a failure
\* to save leaves the label empty.
LabelAndRaise ==
  /\ corruptLabel' \in EvidenceSaved
  /\ UNCHANGED <<verifiedFiles, verityEnabled>>
  /\ outcome' = "raised" /\ pc' = "finally"

\* The child is killed by a signal or exits 101, with the file half written.
WriterDies ==
  /\ pc = "write"
  /\ "writer" \in Faults
  /\ tmp' \in {NoFile, group}
  /\ LabelAndRaise
  /\ UNCHANGED <<final, backup, whole, damaged, fsyncs, verity, state, known,
                 group, artifact, held, eligible, workDir>>

RenameBackup_Unlink ==
  /\ pc = "backup"
  /\ final' = [final EXCEPT ![artifact] = NoFile]
  /\ UNCHANGED backup
  /\ pc' = "final"
  /\ UNCHANGED <<tmp, whole, damaged, fsyncs, verity, state, known, group,
                 artifact, held, eligible, summaryVars, endVars>>
RenameBackup ==
  /\ pc = "backup"
  /\ IF state[artifact].recipe # 0
     THEN /\ backup' = final[artifact]
          /\ final' = [final EXCEPT ![artifact] = NoFile]
     ELSE UNCHANGED <<backup, final>>
  /\ pc' = "final"
  /\ UNCHANGED <<tmp, whole, damaged, fsyncs, verity, state, known, group,
                 artifact, held, eligible, summaryVars, endVars>>

RenameFinal ==
  /\ pc = "final"
  /\ final' = [final EXCEPT ![artifact] = tmp]
  /\ tmp' = NoFile
  /\ pc' = "unlink"
  /\ UNCHANGED <<backup, whole, damaged, fsyncs, verity, state, known, group,
                 artifact, held, eligible, summaryVars, endVars>>

UnlinkBackup ==
  /\ pc = "unlink"
  /\ backup' = NoFile
  /\ pc' = "state"
  /\ UNCHANGED <<final, tmp, whole, damaged, fsyncs, verity, state, known,
                 group, artifact, held, eligible, summaryVars, endVars>>

\* A rename, a sync of the directory or the unlink raises.
ReplaceRaises ==
  /\ pc \in {"backup", "final", "unlink", "state"}
  /\ "replace" \in Faults
  /\ LabelAndRaise
  /\ UNCHANGED <<fileVars, state, known, group, artifact, held, eligible, workDir>>

\* The new entry starts with no sync passes and without verity.
NewEntry_KeepsPasses ==
  [recipe |-> group, passes |-> state[artifact].passes, enabled |-> FALSE]
NewEntry_KeepsRecipe ==
  [recipe |-> IF state[artifact].recipe # 0 THEN state[artifact].recipe ELSE group,
   passes |-> 0, enabled |-> FALSE]
NewEntry_KeepsVerity ==
  [recipe |-> group, passes |-> 0, enabled |-> state[artifact].enabled]
NewEntry == [recipe |-> group, passes |-> 0, enabled |-> FALSE]

UpdateState ==
  /\ pc = "state"
  /\ state' = [state EXCEPT ![artifact] = NewEntry]
  /\ known' = IF Contains(known, artifact) THEN known ELSE Append(known, artifact)
  /\ pc' = "verifyHeld"
  /\ UNCHANGED <<fileVars, group, artifact, held, eligible, summaryVars, endVars>>

\* A verification that fails sets the label and returns the summary.
Corrupt ==
  /\ corruptLabel' = TRUE
  /\ outcome' = "returned" /\ pc' = "finally"
  /\ UNCHANGED <<verifiedFiles, verityEnabled, workDir, held>>

\* The mapping is compared with the recipe noted for the artifact when the
\* group began; _verify_mmap looks at the length and the header only.
VerifyHeld ==
  /\ pc = "verifyHeld"
  /\ IF held.file \in damaged.header \/ held.file # held.recipe
     THEN Corrupt
     ELSE held' = NotHeld /\ pc' = "verify" /\ UNCHANGED <<summaryVars, endVars>>
  /\ UNCHANGED <<fileVars, state, known, group, artifact, eligible>>

VerifyDue == VerifyEvery > 0 /\ group % VerifyEvery = 0

VerifyPath ==
  /\ pc = "verify"
  /\ IF /\ VerifyDue
        /\ \/ final[artifact] \in damaged.header \cup damaged.elsewhere
           \/ final[artifact] # group
     THEN Corrupt
     ELSE /\ verifiedFiles' = verifiedFiles + (IF VerifyDue THEN 1 ELSE 0)
          /\ pc' = "fsync"
          /\ UNCHANGED <<held, verityEnabled, corruptLabel, endVars>>
  /\ UNCHANGED <<fileVars, state, known, group, artifact, eligible>>

\* A read, or the copy that is kept of what differs, raises: no label is set.
VerifyRaises ==
  /\ \/ pc = "verifyHeld" /\ held # NotHeld
     \/ pc = "verify" /\ VerifyDue
  /\ Escapes("verify")
  /\ UNCHANGED <<fileVars, state, known, group, artifact, held, eligible,
                 summaryVars>>

Batch == PlanBatch(artifact, known, FsyncWorkerCount, FsyncBatchWidth, group)

\* _run_fsync_batch and the loop of advance_verity_fsync_batch.
FsyncBatchOnce ==
  /\ pc = "fsync"
  /\ LET paths == ToSet(Batch)
         passesOf(a) == state[a].passes + 1
     IN  /\ fsyncs' = [g \in Gens |->
              fsyncs[g] + (IF \E a \in paths : final[a] = g THEN 1 ELSE 0)]
         /\ state' = [a \in Artifacts |->
              IF a \in paths THEN [state[a] EXCEPT !.passes = passesOf(a)]
                             ELSE state[a]]
         /\ eligible' = {a \in paths :
              /\ ~state[a].enabled
              /\ ShouldEnableVerity(a \in Candidates, passesOf(a),
                                    MinFsyncPasses)}
  /\ pc' = "verity"
  /\ UNCHANGED <<final, tmp, backup, whole, damaged, verity, known, group,
                 artifact, held, summaryVars, endVars>>

\* One of the threads of the batch raises; the others may have synced.
FsyncRaises ==
  /\ pc = "fsync"
  /\ Batch # <<>>
  /\ Escapes("fsync")
  /\ \E done \in SUBSET ToSet(Batch) :
       fsyncs' = [g \in Gens |->
         fsyncs[g] + (IF \E a \in done : final[a] = g THEN 1 ELSE 0)]
  /\ UNCHANGED <<final, tmp, backup, whole, damaged, verity, state, known,
                 group, artifact, held, eligible, summaryVars>>

\* The eligible paths come in the order of the batch.
NextEligible(a) ==
  \E i \in DOMAIN Batch :
    Batch[i] = a /\ \A j \in 1..(i - 1) : Batch[j] \notin eligible

\* enable_fsverity of the next eligible path, and the note of it.
EnableVerity ==
  /\ pc = "verity"
  /\ \E a \in eligible :
       /\ NextEligible(a)
       /\ verity' = verity \cup {final[a]}
       /\ state' = [state EXCEPT ![a].enabled = TRUE]
       /\ eligible' = eligible \ {a}
  /\ verityEnabled' = verityEnabled + 1
  /\ UNCHANGED <<final, tmp, backup, whole, damaged, fsyncs, known, pc, group,
                 artifact, held, verifiedFiles, corruptLabel, endVars>>

\* The tool fails, or it succeeds and the check of the flag fails.
EnableVerityRaises ==
  /\ pc = "verity"
  /\ \E a \in eligible :
       NextEligible(a) /\ verity' \in {verity, verity \cup {final[a]}}
  /\ Escapes("verity")
  /\ UNCHANGED <<final, tmp, backup, whole, damaged, fsyncs, state, known,
                 group, artifact, held, eligible, summaryVars>>

GroupDone ==
  /\ pc = "verity" /\ eligible = {}
  /\ pc' = "group"
  /\ UNCHANGED <<fileVars, state, known, group, artifact, held, eligible,
                 summaryVars, endVars>>

\* The file system's sync or the drop of the caches raises.
SyncRaises ==
  /\ pc = "verity" /\ eligible = {}
  /\ Escapes("sync")
  /\ UNCHANGED <<fileVars, state, known, group, artifact, held, eligible,
                 summaryVars>>

Finally ==
  /\ pc = "finally"
  /\ workDir' = (KeepSuccessFiles \/ corruptLabel)
  /\ pc' = "over"
  /\ UNCHANGED <<fileVars, state, known, group, artifact, held, eligible,
                 summaryVars, outcome>>

\* The file system under test damages a file (one at most).
Damage ==
  /\ DamageAllowed
  /\ pc # "over"
  /\ damaged.header \cup damaged.elsewhere = {}   \* bounds the model
  /\ \E g \in whole, where \in {"header", "elsewhere"} :
       damaged' = [damaged EXCEPT ![where] = @ \cup {g}]
  /\ UNCHANGED <<final, tmp, backup, whole, fsyncs, verity, state, known, pc,
                 group, artifact, held, eligible, summaryVars, endVars>>

Over == pc = "over" /\ UNCHANGED vars

Next ==
  \/ BeginGroup \/ HoldRaises \/ LoopEnds
  \/ WriteTmp \/ WriterDies
  \/ RenameBackup \/ RenameFinal \/ UnlinkBackup \/ ReplaceRaises
  \/ UpdateState \/ VerifyHeld \/ VerifyPath \/ VerifyRaises
  \/ FsyncBatchOnce \/ FsyncRaises
  \/ EnableVerity \/ EnableVerityRaises
  \/ GroupDone \/ SyncRaises \/ Finally \/ Damage \/ Over

Spec == Init /\ [][Next]_vars
-----------------------------------------------------------------------------
\* Every variable has its type.
TypeOK ==
  /\ final \in [Artifacts -> Gens \cup {NoFile}]
  /\ tmp \in Gens \cup {NoFile} /\ backup \in Gens \cup {NoFile}
  /\ whole \subseteq Gens
  /\ damaged \in [header: SUBSET Gens, elsewhere: SUBSET Gens]
  /\ fsyncs \in [Gens -> 0..Groups]
  /\ verity \subseteq Gens
  /\ state \in [Artifacts -> [recipe: 0..Groups, passes: 0..Groups,
                              enabled: BOOLEAN]]
  /\ known \in Seq(Artifacts)
  /\ eligible \subseteq Artifacts
  /\ pc \in {"group", "write", "backup", "final", "unlink", "state",
             "verifyHeld", "verify", "fsync", "verity", "finally", "over"}
  /\ group \in 0..Groups /\ artifact \in Artifacts
  /\ held \in [file: Gens \cup {NoFile}, recipe: 0..Groups]
  /\ verifiedFiles \in 0..Groups /\ verityEnabled \in 0..Groups
  /\ corruptLabel \in BOOLEAN
  /\ outcome \in {"running", "returned", "raised"}
  /\ workDir \in BOOLEAN

\* An artifact that was once written is there, whole, under its name or under
\* the backup name of the current group, whatever raises (lines 694-700).
ArtifactNeverLost ==
  \A a \in Artifacts :
    state[a].recipe # 0 =>
      \E g \in whole :
        /\ g >= state[a].recipe
        /\ g = final[a] \/ (a = artifact /\ g = backup)

\* Outside the replacement of an artifact its entry in state describes the file
\* under its name, so that a held mapping and a batch mean what they say.
StateDescribesFiles ==
  \A a \in Artifacts :
    a # artifact \/ pc \in {"group", "verifyHeld", "verify", "fsync", "verity"} =>
      final[a] = state[a].recipe

\* Only a file that was itself fsynced by enough batches gets fs-verity; the
\* passes of the file it replaced do not count (lines 728-731, 394).
VerityOnlyAfterPasses ==
  \A g \in verity : fsyncs[g] >= MinFsyncPasses

\* summary.verity_enabled counts the files with fs-verity, up to one whose
\* enabling raised.
VerityAccounted ==
  verityEnabled = Cardinality(verity) - (IF outcome = "raised" THEN 1 ELSE 0)
    \/ verityEnabled = Cardinality(verity)

\* What is on disk, in the state and in the summary fits together at every step
\* (run_artifact_pressure).
ArtifactInv ==
  /\ TypeOK
  /\ ArtifactNeverLost /\ StateDescribesFiles
  /\ VerityOnlyAfterPasses /\ VerityAccounted

\* A batch has the group's file first and as many others as workers and width
\* allow, each once: no sync counts twice (lines 434-461).
BatchIsFull ==
  pc = "fsync" =>
    LET width == IF FsyncBatchWidth > 0 THEN Smaller(FsyncBatchWidth, Len(known))
                 ELSE Len(known)
    IN  /\ Len(Batch) = Smaller(FsyncWorkerCount, width)
        /\ \A i, j \in 1..Len(Batch) : Batch[i] = Batch[j] => i = j
        /\ Batch # <<>> => Batch[1] = artifact

\* Between two groups the file under a name has fs-verity exactly if its name is
\* a candidate's and enough batches have synced this very file, at least one,
\* whatever became of the files it replaced (lines 411-431, 728-731). How soon
\* that is depends on the artifacts the groups draw.
VerityFollowsSyncs ==
  pc = "group" =>
    \A a \in Artifacts :
      final[a] # NoFile =>
        (final[a] \in verity <=> /\ a \in Candidates
                                /\ fsyncs[final[a]] > 0
                                /\ fsyncs[final[a]] >= MinFsyncPasses)

\* Both, for every group of a run.
SyncsReachFiles == BatchIsFull /\ VerityFollowsSyncs

\* A summary with the label means that the file system damaged a file: the
\* harness never compares a file with the recipe of another one (lines 680-689,
\* 734-748).
OnlyDamageReported ==
  outcome = "returned" /\ corruptLabel =>
    damaged.header \cup damaged.elsewhere # {}
=============================================================================
