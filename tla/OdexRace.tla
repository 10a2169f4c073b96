------------------------------ MODULE OdexRace -------------------------------
(***************************************************************************)
(* One variant of the odex-like producer/consumer race test                *)
(* (utils/odexlike_pc.py): a producer thread replaces a file generation    *)
(* after generation by write, fsync and two renames; a consumer thread,    *)
(* released at a chosen phase of each generation, opens the file, maps it, *)
(* validates it, holds the mapping to the end of the generation and        *)
(* validates it again; the main thread joins both.                         *)
(*                                                                         *)
(* Files are inodes: base, tmp and backup are directory entries (0: no     *)
(* such entry), pages[i][p] is the generation whose page image is at page  *)
(* p of inode i (0: none), flen[i] is the length of i in pages, the tail   *)
(* counting as one.  Every generation creates one new file under a new     *)
(* name, so the inode created by generation g is called g.                 *)
(*                                                                         *)
(* What the harness is there to survive is in the model as an environment: *)
(* the file system under test may damage a file (Damage), a system call    *)
(* may fail (ProducerFault, MapFault, OpenFault).  Each is switched on by  *)
(* a constant.                                                             *)
(*                                                                         *)
(* A definition named X_Y is a deliberately wrong variant of X, kept to    *)
(* see which property notices.                                             *)
(***************************************************************************)
EXTENDS PhaseTimeline

CONSTANTS
  Generations,      \* cfg.generations
  PageCount,        \* cfg.page_count
  HasTail,          \* cfg.tail_bytes > 0
  ProducerFaults,   \* may a call of the producer raise?
  MapFaults,        \* may fstat or mmap of the consumer raise?
  OpenFaults,       \* may os.open of the consumer raise other than ENOENT?
  DamageAllowed     \* may the file system under test damage a file?

ASSUME ConfigAssumption ==
  /\ Generations \in Nat \ {0}
  /\ PageCount \in Nat \ {0}
  /\ HasTail \in BOOLEAN /\ ProducerFaults \in BOOLEAN
  /\ MapFaults \in BOOLEAN /\ OpenFaults \in BOOLEAN
  /\ DamageAllowed \in BOOLEAN

VARIABLES
  cfg,         \* the VariantConfig fields that steer the consumer; constant
  base, tmp, backup, pages, flen,  \* the variant's directory and its files
  damaged,     \* inodes the file system under test has damaged
  stop,        \* stop_event
  pdone,       \* producer_done
  ppc, pgen, pslot, hadOld,        \* producer: control, loop variable, ...
  producerGenerations, producerError,
  cpc, cgen, snapGen, fd,          \* consumer: control, loop variable, ...
  passes, enoentRetries, mismatches,
  missed,      \* number of "missed_target" log records
  mpc,         \* main thread of run_variant
  pressure     \* is the pressure worker running?

fsVars   == <<base, tmp, backup, pages, flen>>
prodVars == <<pdone, ppc, pgen, pslot, hadOld, producerGenerations,
              producerError>>
consVars == <<cpc, cgen, snapGen, fd, passes, enoentRetries, mismatches,
              missed>>
mainVars == <<mpc, pressure>>
vars == <<tlVars, cfg, fsVars, damaged, stop, prodVars, consVars, mainVars>>

Gens   == 1..Generations
Pages  == 1..PageCount
NoFile == 0

PhaseSlotTotal == PageCount + 6
Slots          == 0..(PhaseSlotTotal - 1)
TerminalSlot   == PhaseSlotTotal - 1

\* The slots of phase_name_for_slot that are not page writes.
FsyncTmp         == PageCount + 1
PreRenameBackup  == PageCount + 2
PostRenameBackup == PageCount + 3
PostRenameBase   == PageCount + 4
PostUnlinkBackup == PageCount + 5

ConsumerTargetSlot(gen) ==
  IF cfg.mode = "fixed" THEN cfg.launch % PhaseSlotTotal
                        ELSE (cfg.launch + gen - 1) % PhaseSlotTotal

FullLength == PageCount + (IF HasTail THEN 1 ELSE 0)

\* What validate_mapping accepts: the full length and one generation's image
\* in every page; its checksums are what tells damage from content.
Complete(i) ==
  /\ flen[i] = FullLength
  /\ \E g \in Gens : pages[i] = [p \in Pages |-> g]

ValidMapping(i) == Complete(i) /\ i \notin damaged
-----------------------------------------------------------------------------
Init ==
  /\ TimelineInit
  /\ cfg \in [mode: {"fixed", "sweep"}, launch: Slots,
              writer: {"buffered", "mmap"}]
  /\ base = NoFile /\ tmp = NoFile /\ backup = NoFile
  /\ pages = [i \in Gens |-> [p \in Pages |-> 0]]
  /\ flen = [i \in Gens |-> 0]
  /\ damaged = {}
  /\ stop = FALSE
  /\ pdone = FALSE
  /\ ppc = "loop" /\ pgen = 0 /\ pslot = 0 /\ hadOld = FALSE
  /\ producerGenerations = 0 /\ producerError = FALSE
  /\ cpc = "loop" /\ cgen = 0 /\ snapGen = 0 /\ fd = NoFile
  /\ passes = 0 /\ enoentRetries = 0 /\ mismatches = 0 /\ missed = 0
  /\ mpc = "join"
  /\ pressure \in BOOLEAN
-----------------------------------------------------------------------------
(* The producer.  pslot is the slot it publishes next; the work that       *)
(* precedes the publication of that slot is the action of the same name.   *)

\* range(1, cfg.generations + 1) is exhausted after generation gen.
LastGeneration(gen) == gen = Generations

ProducerLoop ==
  /\ ppc = "loop"
  /\ IF LastGeneration(pgen) \/ stop
     THEN ppc' = "markDone" /\ UNCHANGED <<pgen, pslot>>
     ELSE ppc' = "work" /\ pgen' = pgen + 1 /\ pslot' = 0
  /\ UNCHANGED <<tlVars, cfg, fsVars, damaged, stop, pdone, hadOld,
                 producerGenerations, producerError, consVars, mainVars>>

\* The producer's work before slot, which changes the directory or a file.
Work(slot) ==
  /\ ppc = "work"
  /\ pslot = slot
  /\ ppc' = "publish"
  /\ UNCHANGED <<tlVars, cfg, damaged, stop, pdone, pgen, pslot,
                 producerGenerations, producerError, consVars, mainVars>>

BeginGeneration ==
  /\ Work(0)
  /\ hadOld' = (base # NoFile)
  /\ UNCHANGED fsVars

\* The file that os.open(O_CREAT | O_TRUNC) gives the writer: the name has the
\* generation in it, so it is a new one.
WrittenFile_InPlace == IF base # NoFile THEN base ELSE pgen
WrittenFile == pgen

\* The open before the first page, in the mmap writer with ftruncate to the
\* final size; then the image of page p is stored.
WritePage(p) ==
  /\ Work(p)
  /\ tmp' = WrittenFile
  /\ pages' = [pages EXCEPT ![WrittenFile][p] = pgen]
  /\ flen' = [flen EXCEPT ![WrittenFile] =
                IF cfg.writer = "mmap" THEN FullLength ELSE p]
  /\ UNCHANGED <<base, backup, hadOld>>

WriteTailAndFsync ==
  /\ Work(FsyncTmp)
  /\ flen' = [flen EXCEPT ![tmp] = FullLength]
  /\ UNCHANGED <<base, tmp, backup, pages, hadOld>>

FsyncDir ==
  /\ Work(PreRenameBackup)
  /\ UNCHANGED <<fsVars, hadOld>>

RenameBackup_Unlink ==
  /\ Work(PostRenameBackup)
  /\ base' = NoFile
  /\ UNCHANGED <<tmp, backup, pages, flen, hadOld>>
RenameBackup ==
  /\ Work(PostRenameBackup)
  /\ IF hadOld THEN backup' = base /\ base' = NoFile
               ELSE UNCHANGED <<base, backup>>
  /\ UNCHANGED <<tmp, pages, flen, hadOld>>

RenameBase ==
  /\ Work(PostRenameBase)
  /\ base' = tmp
  /\ tmp' = NoFile
  /\ UNCHANGED <<backup, pages, flen, hadOld>>

UnlinkBackup ==
  /\ Work(PostUnlinkBackup)
  /\ backup' = IF hadOld THEN NoFile ELSE backup   \* it exists if had_old
  /\ UNCHANGED <<base, tmp, pages, flen, hadOld>>

PublishSlot ==
  /\ ppc = "publish"
  /\ Publish(pgen, pslot)
  /\ IF pslot = TerminalSlot
     THEN ppc' = "generationDone" /\ UNCHANGED pslot
     ELSE ppc' = "work" /\ pslot' = pslot + 1
  /\ UNCHANGED <<cfg, fsVars, damaged, stop, pdone, pgen, hadOld,
                 producerGenerations, producerError, consVars, mainVars>>

GenerationDone ==
  /\ ppc = "generationDone"
  /\ producerGenerations' = pgen
  /\ ppc' = "loop"
  /\ UNCHANGED <<tlVars, cfg, fsVars, damaged, stop, pdone, pgen, pslot,
                 hadOld, producerError, consVars, mainVars>>

\* An OSError of a system call, or of the log in the same file system,
\* before or after the work of a slot: except and finally of _producer.
ProducerFault ==
  /\ ProducerFaults
  /\ ppc \in {"work", "publish", "generationDone"}
  /\ producerError' = TRUE
  /\ stop' = TRUE
  /\ ppc' = "markDone"
  /\ UNCHANGED <<tlVars, cfg, fsVars, damaged, pdone, pgen, pslot, hadOld,
                 producerGenerations, consVars, mainVars>>

ProducerMarkDone ==
  /\ ppc = "markDone"
  /\ MarkDone
  /\ ppc' = "setDone"
  /\ UNCHANGED <<cfg, fsVars, damaged, stop, pdone, pgen, pslot, hadOld,
                 producerGenerations, producerError, consVars, mainVars>>

ProducerSetDone ==
  /\ ppc = "setDone"
  /\ pdone' = TRUE
  /\ ppc' = "exit"
  /\ UNCHANGED <<tlVars, cfg, fsVars, damaged, stop, pgen, pslot, hadOld,
                 producerGenerations, producerError, consVars, mainVars>>

ProducerStep ==
  \/ ProducerLoop \/ BeginGeneration
  \/ \E p \in Pages : WritePage(p)
  \/ WriteTailAndFsync \/ FsyncDir \/ RenameBackup \/ RenameBase
  \/ UnlinkBackup \/ PublishSlot \/ GenerationDone
  \/ ProducerMarkDone \/ ProducerSetDone
-----------------------------------------------------------------------------
(* The consumer.                                                           *)

\* What no step of the consumer changes but its stop_event.set().
ConsumerFrame == UNCHANGED <<tlVars, cfg, fsVars, damaged, prodVars, mainVars>>

ConsumerLoop ==
  /\ cpc = "loop"
  /\ IF LastGeneration(cgen) \/ stop
     THEN cpc' = "exit" /\ UNCHANGED cgen
     ELSE cpc' = "waitTarget" /\ cgen' = cgen + 1
  /\ UNCHANGED <<snapGen, fd, passes, enoentRetries, mismatches, missed, stop>>
  /\ ConsumerFrame

WaitTarget ==
  /\ cpc = "waitTarget"
  /\ ReachedAtLeast(cgen, ConsumerTargetSlot(cgen))
  /\ snapGen' = tlGen
  /\ cpc' = "check"
  /\ UNCHANGED <<cgen, fd, passes, enoentRetries, mismatches, missed, stop>>
  /\ ConsumerFrame

\* The generation will not come: it was not reached and the producer is done.
NeverComes_DoneOnly == pdone
NeverComes == snapGen < cgen /\ pdone

CheckSnapshot ==
  /\ cpc = "check"
  /\ \/ NeverComes /\ cpc' = "exit" /\ UNCHANGED missed
     \/ ~NeverComes /\ snapGen > cgen /\ cpc' = "loop" /\ missed' = missed + 1
     \/ ~NeverComes /\ snapGen <= cgen /\ cpc' = "open" /\ UNCHANGED missed
  /\ UNCHANGED <<cgen, snapGen, fd, passes, enoentRetries, mismatches, stop>>
  /\ ConsumerFrame

OpenBase ==
  /\ cpc = "open"
  /\ IF base = NoFile
     THEN /\ enoentRetries' = enoentRetries + 1
          /\ cpc' = "waitAbsent"
          /\ UNCHANGED fd
     ELSE /\ fd' = base
          /\ cpc' = "validate"
          /\ UNCHANGED enoentRetries
  /\ UNCHANGED <<cgen, snapGen, passes, mismatches, missed, stop>>
  /\ ConsumerFrame

\* Any other OSError of os.open is outside the try block: the thread dies
\* and nothing is recorded in the result.
OpenFault ==
  /\ OpenFaults
  /\ cpc = "open"
  /\ cpc' = "exit"
  /\ UNCHANGED <<cgen, snapGen, fd, passes, enoentRetries, mismatches, missed,
                 stop>>
  /\ ConsumerFrame

GenerationOver == ReachedAtLeast(cgen, TerminalSlot)

WaitAbsent ==
  /\ cpc = "waitAbsent"
  /\ GenerationOver
  /\ cpc' = "loop"
  /\ UNCHANGED <<cgen, snapGen, fd, passes, enoentRetries, mismatches, missed,
                 stop>>
  /\ ConsumerFrame

\* The except branch: count the mismatch, stop the run, close the file.
FailValidation ==
  /\ mismatches' = mismatches + 1
  /\ stop' = TRUE
  /\ cpc' = "exit"
  /\ fd' = NoFile
  /\ UNCHANGED passes

Validate ==
  /\ cpc = "validate"
  /\ IF ValidMapping(fd)
     THEN passes' = passes + 1 /\ cpc' = "hold"
          /\ UNCHANGED <<fd, mismatches, stop>>
     ELSE FailValidation
  /\ UNCHANGED <<cgen, snapGen, enoentRetries, missed>>
  /\ ConsumerFrame

\* fstat or mmap raise inside the try block.
MapFault ==
  /\ MapFaults
  /\ cpc = "validate"
  /\ FailValidation
  /\ UNCHANGED <<cgen, snapGen, enoentRetries, missed>>
  /\ ConsumerFrame

HoldMapping ==
  /\ cpc = "hold"
  /\ GenerationOver
  /\ cpc' = "validateHeld"
  /\ UNCHANGED <<cgen, snapGen, fd, passes, enoentRetries, mismatches, missed,
                 stop>>
  /\ ConsumerFrame

ValidateHeld ==
  /\ cpc = "validateHeld"
  /\ IF ValidMapping(fd)
     THEN /\ passes' = passes + 1
          /\ fd' = NoFile
          /\ cpc' = "loop"
          /\ UNCHANGED <<mismatches, stop>>
     ELSE FailValidation
  /\ UNCHANGED <<cgen, snapGen, enoentRetries, missed>>
  /\ ConsumerFrame

ConsumerStep ==
  \/ ConsumerLoop \/ WaitTarget \/ CheckSnapshot \/ OpenBase \/ WaitAbsent
  \/ Validate \/ HoldMapping \/ ValidateHeld
-----------------------------------------------------------------------------
(* The main thread, the pressure worker, the file system under test.       *)

JoinThreads ==
  /\ mpc = "join"
  /\ ppc = "exit" /\ cpc = "exit"
  /\ stop' = TRUE
  /\ mpc' = "joinPressure"
  /\ UNCHANGED <<tlVars, cfg, fsVars, damaged, prodVars, consVars, pressure>>

\* join(timeout=1.0): the worker has ended or the timeout passes.
ReturnResult ==
  /\ mpc = "joinPressure"
  /\ mpc' = "returned"
  /\ UNCHANGED <<tlVars, cfg, fsVars, damaged, stop, prodVars, consVars,
                 pressure>>

\* The worker ends when it sees stop_event, or early on MemoryError.
PressureExit ==
  /\ pressure
  /\ pressure' = FALSE
  /\ UNCHANGED <<tlVars, cfg, fsVars, damaged, stop, prodVars, consVars, mpc>>

\* The defect the test hunts for: the content of a finished file changes.
Damage ==
  /\ DamageAllowed
  /\ \E i \in Gens \ damaged :
       /\ i \in {base, backup, fd}
       /\ damaged' = damaged \cup {i}
  /\ UNCHANGED <<tlVars, cfg, fsVars, stop, prodVars, consVars, mainVars>>

Terminated == mpc = "returned" /\ UNCHANGED vars

Next ==
  \/ ProducerStep \/ ProducerFault
  \/ ConsumerStep \/ OpenFault \/ MapFault
  \/ JoinThreads \/ ReturnResult \/ PressureExit
  \/ Damage
  \/ Terminated

\* Threads run: a step a thread can take forever is taken.  Nothing makes a
\* call fail, a file be damaged, or the worker meet a MemoryError.
Fairness ==
  /\ WF_vars(ProducerStep)
  /\ WF_vars(ConsumerStep)
  /\ WF_vars(JoinThreads \/ ReturnResult)

Spec == Init /\ [][Next]_vars /\ Fairness
-----------------------------------------------------------------------------
(* Properties.                                                             *)

FlagsType ==
  /\ tlDone \in BOOLEAN /\ pdone \in BOOLEAN /\ stop \in BOOLEAN
  /\ hadOld \in BOOLEAN /\ producerError \in BOOLEAN /\ pressure \in BOOLEAN

FilesType ==
  /\ base \in Gens \cup {NoFile} /\ tmp \in Gens \cup {NoFile}
  /\ backup \in Gens \cup {NoFile}
  /\ pages \in [Gens -> [Pages -> Gens \cup {0}]]
  /\ flen \in [Gens -> 0..FullLength]
  /\ damaged \subseteq Gens

ProducerType ==
  /\ tlGen \in 0..Generations /\ tlSlot \in Slots \cup {-1}
  /\ ppc \in {"loop", "work", "publish", "generationDone", "markDone",
              "setDone", "exit"}
  /\ pgen \in 0..Generations /\ pslot \in Slots
  /\ producerGenerations \in 0..Generations

ConsumerType ==
  /\ cpc \in {"loop", "waitTarget", "check", "open", "waitAbsent",
              "validate", "hold", "validateHeld", "exit"}
  /\ cgen \in 0..Generations /\ snapGen \in 0..Generations
  /\ fd \in Gens \cup {NoFile}
  /\ passes \in Nat /\ enoentRetries \in Nat
  /\ mismatches \in Nat /\ missed \in Nat

MainType ==
  /\ cfg \in [mode: {"fixed", "sweep"}, launch: Slots,
              writer: {"buffered", "mmap"}]
  /\ mpc \in {"join", "joinPressure", "returned"}

TypeOK == FlagsType /\ FilesType /\ ProducerType /\ ConsumerType /\ MainType

\* Whatever the consumer has mapped, at any phase of the replacement it is
\* steered to, is a whole file of one generation: validate_mapping never
\* reports a mismatch that the replacement protocol itself has produced.
HeldMappingComplete == fd # NoFile => Complete(fd)

\* The base name is missing only before the first generation has been renamed
\* into place, or between the two renames of a later one; the consumer's
\* ENOENT branch is taken nowhere else.
BaseGapWindow ==
  base = NoFile => \/ tlGen <= 1
                   \/ tlSlot \in {PreRenameBackup, PostRenameBackup}

\* Once a generation is finished, a whole file at least as new stays linked
\* under the base name or the backup name, whatever call fails.
FinishedGenerationKept ==
  producerGenerations > 0 =>
    \E i \in {base, backup} \ {NoFile} :
      i >= producerGenerations /\ Complete(i)

\* The replacement is safe at each of its steps, for the consumer and for the
\* next run (write_odexlike_generation).
ReplacementSafe ==
  HeldMappingComplete /\ BaseGapWindow /\ FinishedGenerationKept

\* The steering works: a consumer released in generation cgen maps that
\* generation or the one before, and not the one before if its target lies
\* after the second rename.
SteeredToPhase ==
  cpc \in {"validate", "hold", "validateHeld"} /\ snapGen = cgen =>
    /\ fd >= cgen - 1
    /\ ConsumerTargetSlot(cgen) >= PostRenameBase => fd >= cgen

\* The second validation of an old generation's mapping happens after that
\* file has lost its last name: held across rename and unlink, as intended.
HeldAcrossUnlink ==
  cpc = "validateHeld" /\ snapGen = cgen /\ fd < cgen =>
    fd \notin {base, backup}

\* Both validations see the file they are meant for (odexlike_pc.py:550-601).
ValidatesWhatItTargets == SteeredToPhase /\ HeldAcrossUnlink

\* A result without an error accounts for every generation: the producer has
\* written them all, and the consumer has validated each twice, met ENOENT in
\* it, or missed it.
CleanResultAccounted ==
  mpc = "returned" /\ ~producerError /\ mismatches = 0 =>
    /\ producerGenerations = Generations
    /\ passes + 2 * (enoentRetries + missed) = 2 * Generations

\* run_variant returns: neither of the two threads it joins without a timeout
\* waits forever.
RunReturns == <>(mpc = "returned")

\* A file that a name other than tmp, or the consumer's mapping, reaches is
\* never written again.
FrozenOnceVisible ==
  [][\A i \in {base, backup, fd} \ {NoFile} :
       pages'[i] = pages[i] /\ flen'[i] = flen[i]]_vars

\* The generation whose whole content file i has; -1 if it has none.
View(i) == IF i = NoFile THEN 0 ELSE IF Complete(i) THEN pages[i][1] ELSE -1

\* The protocol implements a file that is replaced as a whole.
Abstract == INSTANCE ReplacedFile
              WITH shown  <- View(base),
                   newest <- View(IF base # NoFile THEN base ELSE backup),
                   held   <- View(fd)
ReplacesAsAWhole == Abstract!Spec
-----------------------------------------------------------------------------
(* The inductive invariant behind the safety properties.                   *)

\* The producer is inside a generation, and has done the work before slot.
Inside == ppc \in {"work", "publish"}
Past(slot) == pslot > slot \/ (pslot = slot /\ ppc = "publish")

\* The file of generation i as the writer leaves it.
Whole(i) ==
  /\ i \in Gens
  /\ flen[i] = FullLength
  /\ \A p \in Pages : pages[i][p] = i

\* The four forms of the directory, in the order of a generation's slots.
DirOld  == base = pgen - 1 /\ backup = NoFile
DirGap  == base = NoFile   /\ backup = pgen - 1
DirBoth == base = pgen     /\ backup = pgen - 1
DirNew  == base = pgen     /\ backup = NoFile

DirectoryInv ==
  /\ ppc \in {"loop", "generationDone"} => DirNew
  /\ Inside =>
       /\ pgen > 0
       /\ ~Past(PostRenameBackup) => DirOld
       /\ Past(PostRenameBackup) /\ ~Past(PostRenameBase) => DirGap
       /\ Past(PostRenameBase) /\ ~Past(PostUnlinkBackup) => DirBoth
       /\ Past(PostUnlinkBackup) => DirNew
       /\ Past(0) => (hadOld <=> pgen > 1)
  /\ ppc = "generationDone" => pgen > 0
  /\ DirOld \/ DirGap \/ DirBoth \/ DirNew

\* The file being written is nobody else's, and is whole when it is renamed.
TmpInv ==
  Inside /\ ~Past(PostRenameBase) =>
    /\ fd # pgen
    /\ Past(1) => tmp = pgen
    /\ \A p \in Pages : Past(p) => pages[pgen][p] = pgen
    /\ Past(FsyncTmp) => flen[pgen] = FullLength

ReachableFilesWhole ==
  \A i \in {base, backup, fd} \ {NoFile} : Whole(i) /\ i <= pgen

TimelineInv ==
  /\ ppc = "loop" => tlGen = pgen
  /\ ppc = "generationDone" => tlGen = pgen /\ tlSlot = TerminalSlot
  /\ Inside => \/ pslot = 0 /\ tlGen = pgen - 1
               \/ pslot > 0 /\ tlGen = pgen /\ tlSlot = pslot - 1
  /\ tlGen > 1 /\ ppc = "loop" => tlSlot = TerminalSlot
  /\ tlGen > 1 /\ Inside /\ pslot = 0 => tlSlot = TerminalSlot
  /\ BaseGapWindow

FinishedInv ==
  /\ ppc = "loop" => producerGenerations = pgen
  /\ Inside \/ ppc = "generationDone" => producerGenerations = pgen - 1
  /\ producerGenerations <= pgen
  /\ producerGenerations = pgen => DirNew

IInv ==
  /\ TypeOK
  /\ DirectoryInv
  /\ TmpInv
  /\ ReachableFilesWhole
  /\ TimelineInv
  /\ FinishedInv
=============================================================================
