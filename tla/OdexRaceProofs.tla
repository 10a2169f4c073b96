---------------------------- MODULE OdexRaceProofs ----------------------------
(***************************************************************************)
(* The safety of the odex-like race test, for every number of generations  *)
(* and pages, every launch slot and mode, both writers, and every fault    *)
(* the model has.                                                          *)
(***************************************************************************)
EXTENDS OdexRace, TLAPS

\* The slot numbers and the file length are numbers of the expected size.
LEMMA SizeFacts ==
  /\ PageCount \in Nat \ {0}
  /\ Generations \in Nat \ {0}
  /\ FullLength \in Nat
  /\ FullLength >= PageCount
  /\ TerminalSlot = PageCount + 5
  /\ Slots = 0..(PageCount + 5)
BY ConfigAssumption
DEF FullLength, TerminalSlot, PhaseSlotTotal, Slots

\* The producer starts with an empty directory, so the invariant holds.
LEMMA InitIInv == Init => IInv
<1> SUFFICES ASSUME Init PROVE IInv
  OBVIOUS
<1>1. TypeOK
  <2> USE SizeFacts DEF Init, TimelineInit, Gens, Pages, NoFile
  <2>1. FlagsType
    BY DEF FlagsType
  <2>2. FilesType
    BY DEF FilesType
  <2>3. ProducerType
    BY DEF ProducerType
  <2>4. ConsumerType
    BY DEF ConsumerType
  <2>5. MainType
    BY DEF MainType
  <2> QED
    BY <2>1, <2>2, <2>3, <2>4, <2>5 DEF TypeOK
<1>2. DirectoryInv
  BY DEF Init, DirectoryInv, Inside, DirNew, NoFile
<1>3. TmpInv /\ ReachableFilesWhole
  BY DEF Init, TmpInv, Inside, ReachableFilesWhole
<1>4. TimelineInv
  BY DEF Init, TimelineInit, TimelineInv, Inside, BaseGapWindow
<1>5. FinishedInv
  BY DEF Init, FinishedInv, Inside, DirNew, NoFile
<1> QED
  BY <1>1, <1>2, <1>3, <1>4, <1>5 DEF IInv


-----------------------------------------------------------------------------
(* Type correctness is inductive by itself.                                *)

\* What the steps of the consumer, those of the producer, and those of the main thread and of the
\* environment, leave alone.
LEMMA ConsumerLeaves ==
  ConsumerStep \/ OpenFault \/ MapFault =>
    UNCHANGED <<tlVars, cfg, fsVars, damaged, prodVars, mainVars>>
BY DEF ConsumerStep, ConsumerLoop, WaitTarget, CheckSnapshot, OpenBase,
       OpenFault, WaitAbsent, Validate, MapFault, HoldMapping, ValidateHeld,
       FailValidation, ConsumerFrame

LEMMA MainLeaves ==
  JoinThreads \/ ReturnResult \/ PressureExit \/ Damage \/ Terminated =>
    UNCHANGED <<tlVars, cfg, fsVars, prodVars, consVars>>
BY DEF JoinThreads, ReturnResult, PressureExit, Damage, Terminated, vars

LEMMA ProducerLeaves ==
  ProducerStep \/ ProducerFault => UNCHANGED <<cfg, damaged, consVars, mainVars>>
BY DEF ProducerStep, ProducerLoop, BeginGeneration, WritePage,
       WriteTailAndFsync, FsyncDir, RenameBackup, RenameBase, UnlinkBackup,
       PublishSlot, GenerationDone, ProducerFault, ProducerMarkDone,
       ProducerSetDone, Work

LEMMA FlagsStep == FlagsType /\ [Next]_vars => FlagsType'
BY DEF FlagsType, Next, ProducerStep, ProducerLoop, BeginGeneration,
       WritePage, WriteTailAndFsync, FsyncDir, RenameBackup, RenameBase,
       UnlinkBackup, PublishSlot, Publish, GenerationDone, ProducerFault,
       ProducerMarkDone, MarkDone, ProducerSetDone, Work,
       ConsumerStep, ConsumerLoop, WaitTarget, CheckSnapshot, OpenBase,
       OpenFault, WaitAbsent, Validate, MapFault, HoldMapping, ValidateHeld,
       FailValidation, ConsumerFrame, JoinThreads, ReturnResult, PressureExit,
       Damage, Terminated, vars, tlVars, prodVars, mainVars

LEMMA ProducerTypeStep ==
  TypeOK /\ (ProducerStep \/ ProducerFault) => FilesType' /\ ProducerType'
<1> SUFFICES ASSUME TypeOK, ProducerStep \/ ProducerFault
             PROVE  FilesType' /\ ProducerType'
  OBVIOUS
<1> USE SizeFacts DEF TypeOK, FilesType, ProducerType, Gens, Pages, NoFile,
        tlVars, fsVars
<1>1. CASE ProducerLoop
  BY <1>1 DEF ProducerLoop, LastGeneration
<1>2. CASE BeginGeneration
  BY <1>2 DEF BeginGeneration, Work
<1>3. ASSUME NEW p \in Pages, WritePage(p)
      PROVE  FilesType' /\ ProducerType'
  <2>1. p \in 0..FullLength /\ FullLength \in 0..FullLength
    OBVIOUS
  <2>2. FilesType'
    <3>1. flen' \in [Gens -> 0..FullLength]
      BY <1>3, <2>1 DEF WritePage, WrittenFile
    <3>2. pages' \in [Gens -> [Pages -> Gens \cup {0}]]
      BY <1>3 DEF WritePage, WrittenFile
    <3>3. /\ base' \in Gens \cup {NoFile} /\ tmp' \in Gens \cup {NoFile}
          /\ backup' \in Gens \cup {NoFile} /\ damaged' \subseteq Gens
      BY <1>3 DEF WritePage, Work, WrittenFile
    <3> QED
      BY <3>1, <3>2, <3>3
  <2>3. ProducerType'
    BY <1>3 DEF WritePage, Work
  <2> QED
    BY <2>2, <2>3
<1>4. CASE WriteTailAndFsync
  <2>1. FullLength \in 0..FullLength
    OBVIOUS
  <2>2. flen' \in [Gens -> 0..FullLength]
    BY <1>4, <2>1 DEF WriteTailAndFsync
  <2> QED
    BY <1>4, <2>2 DEF WriteTailAndFsync, Work
<1>5. CASE FsyncDir \/ RenameBackup \/ RenameBase \/ UnlinkBackup
  BY <1>5 DEF FsyncDir, RenameBackup, RenameBase, UnlinkBackup, Work
<1>6. CASE PublishSlot
  BY <1>6 DEF PublishSlot, Publish
<1>7. CASE GenerationDone \/ ProducerFault \/ ProducerMarkDone \/ ProducerSetDone
  BY <1>7 DEF GenerationDone, ProducerFault, ProducerMarkDone, MarkDone,
              ProducerSetDone
<1> QED
  BY <1>1, <1>2, <1>3, <1>4, <1>5, <1>6, <1>7 DEF ProducerStep

LEMMA ConsumerTypeStep ==
  TypeOK /\ (ConsumerStep \/ OpenFault \/ MapFault) => ConsumerType'
<1> SUFFICES ASSUME TypeOK, ConsumerStep \/ OpenFault \/ MapFault
             PROVE  ConsumerType'
  OBVIOUS
<1> USE SizeFacts DEF TypeOK, FilesType, ProducerType, ConsumerType, Gens,
        NoFile
<1>1. CASE ConsumerLoop
  BY <1>1 DEF ConsumerLoop, LastGeneration
<1>2. CASE WaitTarget
  BY <1>2 DEF WaitTarget
<1>3. CASE CheckSnapshot
  BY <1>3 DEF CheckSnapshot
<1>4. CASE OpenBase
  BY <1>4 DEF OpenBase
<1>5. CASE WaitAbsent \/ HoldMapping
  BY <1>5 DEF WaitAbsent, HoldMapping
<1>6. CASE Validate
  BY <1>6 DEF Validate, FailValidation
<1>7. CASE ValidateHeld
  BY <1>7 DEF ValidateHeld, FailValidation
<1>8. CASE OpenFault
  <2>1. /\ cpc' = "exit"
        /\ UNCHANGED <<cgen, snapGen, fd, passes, enoentRetries, mismatches,
                       missed>>
    BY <1>8, Zenon DEF OpenFault
  <2> QED
    BY <2>1
<1>9. CASE MapFault
  <2>1. FailValidation /\ UNCHANGED <<cgen, snapGen, enoentRetries, missed>>
    BY <1>9, Zenon DEF MapFault
  <2> QED
    BY <2>1 DEF FailValidation
<1> QED
  BY <1>1, <1>2, <1>3, <1>4, <1>5, <1>6, <1>7, <1>8, <1>9 DEF ConsumerStep

LEMMA TypeStep == TypeOK /\ [Next]_vars => TypeOK'
<1> SUFFICES ASSUME TypeOK, [Next]_vars PROVE TypeOK'
  OBVIOUS
<1>1. FlagsType'
  BY FlagsStep DEF TypeOK
<1>2. (FilesType /\ ProducerType /\ ConsumerType /\ MainType)'
  <2> USE DEF TypeOK, FilesType, ProducerType, ConsumerType, MainType,
              Gens, Pages, tlVars, fsVars, prodVars, consVars, mainVars
  <2>1. CASE ProducerStep \/ ProducerFault
    BY <2>1, ProducerTypeStep, ProducerLeaves
  <2>2. CASE ConsumerStep \/ OpenFault \/ MapFault
    BY <2>2, ConsumerTypeStep, ConsumerLeaves
  <2>3. CASE JoinThreads \/ ReturnResult \/ PressureExit \/ Damage \/ Terminated
    <3>1. damaged' \subseteq Gens
      BY <2>3 DEF JoinThreads, ReturnResult, PressureExit, Damage, Terminated,
                  vars
    <3>2. MainType'
      BY <2>3 DEF JoinThreads, ReturnResult, PressureExit, Damage, Terminated,
                  vars
    <3> QED
      BY <2>3, <3>1, <3>2, MainLeaves
  <2>4. CASE UNCHANGED vars
    BY <2>4 DEF vars
  <2> QED
    BY <2>1, <2>2, <2>3, <2>4 DEF Next
<1> QED
  BY <1>1, <1>2 DEF TypeOK

\* Every variable keeps its type.
THEOREM TypeCorrect == Spec => []TypeOK
<1>1. Init => TypeOK
  BY InitIInv DEF IInv
<1> QED
  BY <1>1, TypeStep, PTL DEF Spec
-----------------------------------------------------------------------------
(* The inductive step.                                                     *)

\* A step that touches neither the producer nor the directory, and after
\* which the consumer holds nothing, what it held, or the base file.
LEMMA OthersStep ==
  ASSUME IInv, TypeOK',
         UNCHANGED <<tlVars, base, tmp, backup, pages, flen, prodVars>>,
         fd' \in {fd, base, NoFile}
  PROVE  IInv'
<1> USE DEF tlVars, prodVars, IInv
<1>1. DirectoryInv' /\ FinishedInv' /\ TimelineInv'
  BY DEF DirectoryInv, FinishedInv, TimelineInv, BaseGapWindow, Inside, Past,
         DirOld, DirGap, DirBoth, DirNew
<1>2. ReachableFilesWhole'
  BY DEF ReachableFilesWhole, Whole
<1>3. Inside /\ ~Past(PostRenameBase) => base # pgen
  BY SizeFacts DEF DirectoryInv, DirOld, DirGap, Inside, Past, TypeOK,
     ProducerType, NoFile, PostRenameBackup, PostRenameBase
<1>4. TmpInv'
  BY <1>3, SizeFacts DEF TmpInv, Inside, Past, DirectoryInv, TypeOK, ProducerType, NoFile
<1> QED
  BY <1>1, <1>2, <1>4

LEMMA ConsumerKeepsIInv ==
  ASSUME IInv, ConsumerStep \/ OpenFault \/ MapFault
  PROVE  fd' \in {fd, base, NoFile}
<1>1. CASE OpenFault
  BY <1>1, Zenon DEF OpenFault
<1>2. CASE MapFault
  BY <1>2, Zenon DEF MapFault, FailValidation
<1>3. CASE ConsumerStep
  BY <1>3 DEF ConsumerStep, ConsumerLoop, WaitTarget, CheckSnapshot, OpenBase,
              WaitAbsent, Validate, HoldMapping, ValidateHeld, FailValidation
<1> QED
  BY <1>1, <1>2, <1>3

\* What a work action of the producer has in common with the next one.
LEMMA WorkFacts ==
  ASSUME NEW slot, Work(slot)
  PROVE  /\ ppc = "work" /\ pslot = slot /\ ppc' = "publish"
         /\ UNCHANGED <<tlGen, tlSlot, pgen, pslot, producerGenerations, fd,
                        cpc, cgen>>
BY DEF Work, tlVars, consVars

LEMMA BeginKeepsIInv ==
  ASSUME IInv, TypeOK', BeginGeneration
  PROVE  IInv'
<1> USE SizeFacts DEF IInv, TypeOK, ProducerType, Gens, NoFile
<1>1. ppc = "work" /\ pslot = 0 /\ ppc' = "publish"
  BY DEF BeginGeneration, Work
<1>2. UNCHANGED <<tlGen, tlSlot, pgen, pslot, producerGenerations, fd,
                  base, tmp, backup, pages, flen>>
  BY DEF BeginGeneration, Work, tlVars, consVars, fsVars
<1>3. base = pgen - 1
  BY <1>1 DEF DirectoryInv, Inside, Past, DirOld, PostRenameBackup
<1>4. hadOld' <=> pgen > 1
  <2>1. hadOld' <=> base # NoFile
    BY Zenon DEF BeginGeneration
  <2>2. pgen > 0
    BY <1>1 DEF DirectoryInv, Inside
  <2> QED
    BY <1>3, <2>1, <2>2
<1>5. DirectoryInv'
  BY <1>1, <1>2, <1>4 DEF DirectoryInv, Inside, Past, DirOld, DirGap, DirBoth,
     DirNew, PostRenameBackup, PostRenameBase, PostUnlinkBackup
<1>6. TmpInv'
  BY <1>1, <1>2 DEF TmpInv, Inside, Past, Pages, FsyncTmp, PostRenameBase
<1>7. ReachableFilesWhole'
  BY <1>2 DEF ReachableFilesWhole, Whole
<1>8. TimelineInv' /\ FinishedInv'
  BY <1>1, <1>2, <1>3 DEF TimelineInv, FinishedInv, Inside, BaseGapWindow, DirNew
<1> QED
  BY <1>5, <1>6, <1>7, <1>8

LEMMA WritePageKeepsIInv ==
  ASSUME IInv, TypeOK', NEW p \in Pages, WritePage(p)
  PROVE  IInv'
<1> USE SizeFacts DEF IInv, TypeOK, ProducerType, Gens, NoFile
<1>1. /\ ppc = "work" /\ pslot = p /\ ppc' = "publish"
      /\ p \in 1..PageCount
  BY DEF WritePage, Work, Pages
<1>2. UNCHANGED <<tlGen, tlSlot, pgen, pslot, producerGenerations, fd,
                  base, backup, hadOld>>
  BY DEF WritePage, Work, tlVars, consVars
<1>3. DirOld /\ pgen > 0 /\ pgen \in Gens
  BY <1>1 DEF DirectoryInv, Inside, Past, PostRenameBackup
<1>4. /\ tmp' = pgen
      /\ pages' = [pages EXCEPT ![pgen][p] = pgen]
      /\ \A i \in Gens : i # pgen => pages'[i] = pages[i] /\ flen'[i] = flen[i]
  BY <1>3 DEF WritePage, WrittenFile, FilesType
<1>5. DirectoryInv'
  BY <1>1, <1>2, <1>3 DEF DirectoryInv, Inside, Past, DirOld, DirGap, DirBoth,
     DirNew, PostRenameBackup, PostRenameBase, PostUnlinkBackup
<1>6. fd # pgen /\ base # pgen /\ backup # pgen
  BY <1>1, <1>3 DEF TmpInv, Inside, Past, PostRenameBase, DirOld
<1>7. TmpInv'
  <2>1. \A q \in Pages : Past(q)' => pages'[pgen][q] = pgen
    BY <1>1, <1>2, <1>3, <1>4 DEF TmpInv, Inside, Past, PostRenameBase,
       FilesType, Pages
  <2> QED
    BY <2>1, <1>1, <1>2, <1>4, <1>6 DEF TmpInv, Inside, Past, FsyncTmp
<1>8. ReachableFilesWhole'
  BY <1>2, <1>4, <1>6 DEF ReachableFilesWhole, Whole
<1>9. TimelineInv' /\ FinishedInv'
  BY <1>1, <1>2 DEF TimelineInv, FinishedInv, Inside, BaseGapWindow, DirNew
<1> QED
  BY <1>5, <1>7, <1>8, <1>9

LEMMA TailKeepsIInv ==
  ASSUME IInv, TypeOK', WriteTailAndFsync
  PROVE  IInv'
<1> USE SizeFacts DEF IInv, TypeOK, ProducerType, Gens, NoFile
<1>1. ppc = "work" /\ pslot = FsyncTmp /\ ppc' = "publish"
  BY DEF WriteTailAndFsync, Work
<1>2. UNCHANGED <<tlGen, tlSlot, pgen, pslot, producerGenerations, fd,
                  base, tmp, backup, pages, hadOld>>
  BY DEF WriteTailAndFsync, Work, tlVars, consVars
<1>3. DirOld /\ pgen > 0 /\ pgen \in Gens /\ tmp = pgen /\ fd # pgen
  BY <1>1 DEF DirectoryInv, TmpInv, Inside, Past, PostRenameBackup,
     PostRenameBase, FsyncTmp
<1>4. /\ flen'[pgen] = FullLength
      /\ \A i \in Gens : i # pgen => flen'[i] = flen[i]
  BY <1>3 DEF WriteTailAndFsync, FilesType
<1>5. DirectoryInv'
  BY <1>1, <1>2, <1>3 DEF DirectoryInv, Inside, Past, DirOld, DirGap, DirBoth,
     DirNew, PostRenameBackup, PostRenameBase, PostUnlinkBackup, FsyncTmp
<1>6. TmpInv'
  BY <1>1, <1>2, <1>3, <1>4 DEF TmpInv, Inside, Past, FsyncTmp,
     PostRenameBase, Pages
<1>7. ReachableFilesWhole'
  BY <1>2, <1>3, <1>4 DEF ReachableFilesWhole, Whole, DirOld
<1>8. TimelineInv' /\ FinishedInv'
  BY <1>1, <1>2 DEF TimelineInv, FinishedInv, Inside, BaseGapWindow, DirNew,
     FsyncTmp
<1> QED
  BY <1>5, <1>6, <1>7, <1>8

LEMMA RenamesKeepIInv ==
  ASSUME IInv, TypeOK', FsyncDir \/ RenameBackup \/ RenameBase \/ UnlinkBackup
  PROVE  IInv'
<1> USE SizeFacts DEF IInv, TypeOK, ProducerType, Gens, NoFile
<1> USE DEF FsyncTmp, PreRenameBackup, PostRenameBackup, PostRenameBase,
            PostUnlinkBackup
<1>1. /\ ppc = "work" /\ ppc' = "publish"
      /\ pslot \in PreRenameBackup..PostUnlinkBackup
      /\ UNCHANGED <<tlGen, tlSlot, pgen, pslot, producerGenerations, fd,
                     pages, flen, hadOld>>
  BY DEF FsyncDir, RenameBackup, RenameBase, UnlinkBackup, Work, tlVars,
         consVars, fsVars
<1>2. Inside /\ Inside' /\ pgen > 0 /\ pgen \in Gens /\ (hadOld <=> pgen > 1)
  BY <1>1 DEF Inside, DirectoryInv, Past
<1>3. pslot # PostRenameBackup /\ pslot # PostRenameBase
      /\ pslot # PostUnlinkBackup => UNCHANGED <<base, tmp, backup>>
  BY DEF FsyncDir, RenameBackup, RenameBase, UnlinkBackup, Work, fsVars
<1>4. CASE pslot = PreRenameBackup
  <2>1. DirOld /\ DirOld' /\ UNCHANGED <<base, tmp, backup>>
    BY <1>1, <1>2, <1>3, <1>4 DEF DirectoryInv, Past, DirOld
  <2>2. DirectoryInv'
    BY <1>1, <1>2, <1>4, <2>1 DEF DirectoryInv, Past
  <2>3. TmpInv'
    BY <1>1, <1>2, <1>4, <2>1 DEF TmpInv, Past, Pages
  <2>4. ReachableFilesWhole'
    BY <1>1, <2>1 DEF ReachableFilesWhole, Whole
  <2>5. TimelineInv' /\ FinishedInv'
    BY <1>1, <1>2, <1>4, <2>1 DEF TimelineInv, FinishedInv, Inside,
       BaseGapWindow, DirNew
  <2> QED
    BY <2>2, <2>3, <2>4, <2>5
<1>5. CASE pslot = PostRenameBackup
  <2>1. RenameBackup /\ DirOld
    BY <1>1, <1>2, <1>5 DEF FsyncDir, RenameBackup, RenameBase, UnlinkBackup,
       Work, DirectoryInv, Past
  <2>2. DirGap' /\ tmp' = tmp
    <3>1. /\ hadOld => backup' = base /\ base' = NoFile
          /\ ~hadOld => UNCHANGED <<base, backup>>
          /\ tmp' = tmp
      BY <2>1, Zenon DEF RenameBackup
    <3> QED
      BY <3>1, <2>1, <1>2, <1>1 DEF DirOld, DirGap
  <2>3. DirectoryInv'
    BY <1>1, <1>2, <1>5, <2>2 DEF DirectoryInv, Past
  <2>4. TmpInv'
    BY <1>1, <1>2, <1>5, <2>2 DEF TmpInv, Past, Pages
  <2>5. ReachableFilesWhole'
    <3>1. {base, backup, fd}' \ {NoFile} \subseteq {base, backup, fd} \ {NoFile}
      BY <1>1, <2>1, <2>2 DEF DirOld, DirGap
    <3> HIDE DEF IInv, TypeOK
    <3> QED
      BY <1>1, <3>1 DEF IInv, ReachableFilesWhole, Whole
  <2>6. TimelineInv' /\ FinishedInv'
    BY <1>1, <1>2, <1>5, <2>2 DEF TimelineInv, FinishedInv, Inside,
       BaseGapWindow, DirNew
  <2> QED
    BY <2>3, <2>4, <2>5, <2>6
<1>6. CASE pslot = PostRenameBase
  <2>1. RenameBase /\ DirGap /\ tmp = pgen
    BY <1>1, <1>2, <1>6 DEF FsyncDir, RenameBackup, RenameBase, UnlinkBackup,
       Work, DirectoryInv, TmpInv, Past
  <2>2. DirBoth'
    BY <2>1, <1>1 DEF RenameBase, DirGap, DirBoth
  <2>3. Whole(pgen)
    BY <1>1, <1>2, <1>6 DEF TmpInv, Past, Whole, Pages
  <2>4. DirectoryInv'
    BY <1>1, <1>2, <1>6, <2>2 DEF DirectoryInv, Past
  <2>5. TmpInv'
    BY <1>1, <1>2, <1>6 DEF TmpInv, Past
  <2>6. ReachableFilesWhole'
    <3>1. \A i \in {base, backup, fd}' \ {NoFile} :
            i = pgen \/ i \in {base, backup, fd} \ {NoFile}
      BY <1>1, <2>1, <2>2 DEF DirBoth, DirGap
    <3> HIDE DEF IInv, TypeOK
    <3>2. ReachableFilesWhole /\ pgen <= pgen
      BY <1>2 DEF IInv
    <3> QED
      BY <1>1, <2>3, <3>1, <3>2 DEF ReachableFilesWhole, Whole
  <2>7. TimelineInv' /\ FinishedInv'
    BY <1>1, <1>2, <1>6, <2>2 DEF TimelineInv, FinishedInv, Inside,
       BaseGapWindow, DirBoth
  <2> QED
    BY <2>4, <2>5, <2>6, <2>7
<1>7. CASE pslot = PostUnlinkBackup
  <2>1. UnlinkBackup /\ DirBoth
    BY <1>1, <1>2, <1>7 DEF FsyncDir, RenameBackup, RenameBase, UnlinkBackup,
       Work, DirectoryInv, Past
  <2>2. DirNew'
    <3>1. /\ hadOld => backup' = NoFile
          /\ ~hadOld => backup' = backup
          /\ base' = base
      BY <2>1, Zenon DEF UnlinkBackup
    <3> QED
      BY <3>1, <2>1, <1>1, <1>2 DEF DirNew, DirBoth
  <2>3. DirectoryInv'
    BY <1>1, <1>2, <1>7, <2>2 DEF DirectoryInv, Past
  <2>4. TmpInv'
    BY <1>1, <1>2, <1>7 DEF TmpInv, Past
  <2>5. ReachableFilesWhole'
    <3>1. {base, backup, fd}' \ {NoFile} \subseteq {base, backup, fd} \ {NoFile}
      BY <1>1, <2>1, <2>2 DEF DirBoth, DirNew
    <3> HIDE DEF IInv, TypeOK
    <3> QED
      BY <1>1, <3>1 DEF IInv, ReachableFilesWhole, Whole
  <2>6. TimelineInv' /\ FinishedInv'
    BY <1>1, <1>2, <1>7, <2>2 DEF TimelineInv, FinishedInv, Inside,
       BaseGapWindow, DirNew
  <2> QED
    BY <2>3, <2>4, <2>5, <2>6
<1> QED
  BY <1>1, <1>4, <1>5, <1>6, <1>7

LEMMA PublishKeepsIInv ==
  ASSUME IInv, TypeOK', PublishSlot
  PROVE  IInv'
<1> USE SizeFacts DEF IInv, TypeOK, ProducerType, Gens, NoFile
<1> USE DEF PostRenameBackup, PostRenameBase, PostUnlinkBackup
<1>1. /\ ppc = "publish" /\ tlGen' = pgen /\ tlSlot' = pslot
      /\ \/ pslot = TerminalSlot /\ ppc' = "generationDone" /\ pslot' = pslot
         \/ pslot # TerminalSlot /\ ppc' = "work" /\ pslot' = pslot + 1
      /\ UNCHANGED <<pgen, producerGenerations, fd, base, tmp, backup, pages,
                     flen, hadOld>>
  BY DEF PublishSlot, Publish, consVars, fsVars
<1>2. Inside /\ pgen > 0
  BY <1>1 DEF Inside, DirectoryInv
<1>3. \A slot \in Slots : Inside' => Past(slot)' = Past(slot)
  BY <1>1 DEF Past, Inside, Slots
<1>4. DirectoryInv'
  BY <1>1, <1>2 DEF DirectoryInv, Inside, Past, DirOld, DirGap, DirBoth, DirNew
<1>5. TmpInv'
  BY <1>1, <1>2 DEF TmpInv, Inside, Past, Pages, FsyncTmp
<1>6. ReachableFilesWhole'
  BY <1>1 DEF ReachableFilesWhole, Whole
<1>7. BaseGapWindow'
  BY <1>1, <1>2 DEF BaseGapWindow, DirectoryInv, Past, DirOld, DirBoth, DirNew,
     PreRenameBackup
<1>8. TimelineInv'
  <2>1. CASE pslot = TerminalSlot
    BY <1>1, <1>7, <2>1 DEF TimelineInv, Inside
  <2>2. CASE pslot # TerminalSlot
    <3>1. pslot' = pslot + 1 /\ pslot >= 0 /\ pslot \in Int
      BY <1>1, <2>2
    <3>2. pslot' # 0 /\ pslot' > 0 /\ tlSlot' = pslot' - 1 /\ tlGen' = pgen'
      BY <1>1, <3>1
    <3>3. ppc' = "work"
      BY <1>1, <2>2
    <3> HIDE DEF IInv, TypeOK
    <3> QED
      BY <1>7, <3>2, <3>3, Zenon DEF TimelineInv, Inside
  <2> QED
    BY <2>1, <2>2
<1>9. FinishedInv'
  BY <1>1, <1>2 DEF FinishedInv, Inside, DirNew
<1> QED
  BY <1>4, <1>5, <1>6, <1>8, <1>9

LEMMA ControlKeepsIInv ==
  ASSUME IInv, TypeOK',
         \/ ProducerLoop \/ GenerationDone \/ ProducerFault
         \/ ProducerMarkDone \/ ProducerSetDone
  PROVE  IInv'
<1> USE SizeFacts DEF IInv, TypeOK, ProducerType, Gens, NoFile
<1> USE DEF PostRenameBackup, PostRenameBase, PostUnlinkBackup
<1>1. UNCHANGED <<tlGen, tlSlot, fd, base, tmp, backup, pages, flen, hadOld>>
  BY DEF ProducerLoop, GenerationDone, ProducerFault, ProducerMarkDone,
         ProducerSetDone, MarkDone, tlVars, consVars, fsVars
<1>2. \/ /\ ppc = "loop" /\ ppc' = "work" /\ pgen' = pgen + 1 /\ pslot' = 0
         /\ UNCHANGED producerGenerations
      \/ /\ ppc = "generationDone" /\ ppc' = "loop" /\ producerGenerations' = pgen
         /\ UNCHANGED <<pgen, pslot>>
      \/ /\ ppc' \in {"markDone", "setDone", "exit"}
         /\ UNCHANGED <<pgen, pslot, producerGenerations>>
  BY DEF ProducerLoop, GenerationDone, ProducerFault, ProducerMarkDone,
         ProducerSetDone
<1> USE DEF DirectoryInv, TmpInv, ReachableFilesWhole, TimelineInv, FinishedInv
<1>3. CASE /\ ppc = "loop" /\ ppc' = "work" /\ pgen' = pgen + 1 /\ pslot' = 0
           /\ UNCHANGED producerGenerations
  <2>1. DirNew /\ DirOld' /\ ~DirNew'
    BY <1>1, <1>3 DEF DirNew, DirOld
  <2>2. \A slot \in Nat : ~Past(slot)'
    BY <1>3 DEF Past
  <2>3. DirectoryInv'
    BY <1>1, <1>3, <2>1, <2>2 DEF Inside
  <2>4. TmpInv'
    BY <1>1, <1>3, <2>1, <2>2 DEF DirNew, Inside, Pages, FsyncTmp
  <2>5. ReachableFilesWhole'
    <3> SUFFICES ASSUME NEW i \in {base, backup, fd} \ {NoFile}
                 PROVE  Whole(i)' /\ i <= pgen + 1
      BY <1>1, <1>3
    <3>1. i \in {base, backup, fd} \ {NoFile}
      OBVIOUS
    <3>2. Whole(i) /\ i <= pgen
      BY <3>1, Zenon
    <3>3. i <= pgen + 1
      BY <3>2 DEF Whole
    <3> QED
      BY <1>1, <3>2, <3>3 DEF Whole
  <2>6. TimelineInv' /\ FinishedInv'
    BY <1>1, <1>3, <2>1 DEF BaseGapWindow, Inside
  <2> QED
    BY <2>3, <2>4, <2>5, <2>6
<1>4. CASE /\ ppc = "generationDone" /\ ppc' = "loop"
           /\ producerGenerations' = pgen /\ UNCHANGED <<pgen, pslot>>
  BY <1>1, <1>4 DEF Inside, DirNew, BaseGapWindow, Whole
<1>5. CASE /\ ppc' \in {"markDone", "setDone", "exit"}
           /\ UNCHANGED <<pgen, pslot, producerGenerations>>
  BY <1>1, <1>5 DEF Inside, DirOld, DirGap, DirBoth, DirNew, BaseGapWindow, Whole
<1> QED
  BY <1>2, <1>3, <1>4, <1>5

LEMMA IInvStep == IInv /\ [Next]_vars => IInv'
<1> SUFFICES ASSUME IInv, [Next]_vars PROVE IInv'
  OBVIOUS
<1>1. TypeOK'
  BY TypeStep DEF IInv
<1>2. CASE ConsumerStep \/ OpenFault \/ MapFault
  BY <1>1, <1>2, ConsumerLeaves, ConsumerKeepsIInv, OthersStep DEF fsVars
<1>3. CASE JoinThreads \/ ReturnResult \/ PressureExit \/ Damage \/ Terminated
  BY <1>1, <1>3, MainLeaves, OthersStep DEF fsVars, consVars
<1>4. CASE UNCHANGED vars
  BY <1>1, <1>4, OthersStep DEF vars, fsVars, consVars
<1>5. CASE ProducerFault \/ ProducerStep
  <2>1. CASE \E p \in Pages : WritePage(p)
    BY <1>1, <2>1, WritePageKeepsIInv
  <2>2. CASE BeginGeneration \/ WriteTailAndFsync
    BY <1>1, <2>2, BeginKeepsIInv, TailKeepsIInv
  <2>3. CASE FsyncDir \/ RenameBackup \/ RenameBase \/ UnlinkBackup
    BY <1>1, <2>3, RenamesKeepIInv
  <2>4. CASE PublishSlot
    BY <1>1, <2>4, PublishKeepsIInv
  <2>5. CASE \/ ProducerLoop \/ GenerationDone \/ ProducerFault
             \/ ProducerMarkDone \/ ProducerSetDone
    BY <1>1, <2>5, ControlKeepsIInv
  <2> QED
    BY <1>5, <2>1, <2>2, <2>3, <2>4, <2>5 DEF ProducerStep
<1> QED
  BY <1>2, <1>3, <1>4, <1>5 DEF Next

\* The inductive invariant holds in every reachable state.
THEOREM InductiveInvariant == Spec => []IInv
BY InitIInv, IInvStep, PTL DEF Spec
-----------------------------------------------------------------------------
(* What follows from the invariant.                                        *)

\* A file as the writer leaves it passes the validation, and its view is its
\* own generation.
LEMMA WholeIsComplete ==
  ASSUME TypeOK, NEW i, Whole(i)
  PROVE  Complete(i) /\ i \in Gens /\ i # NoFile /\ View(i) = i
<1>1. i \in Gens /\ flen[i] = FullLength /\ \A p \in Pages : pages[i][p] = i
  BY DEF Whole
<1>2. pages[i] \in [Pages -> Gens \cup {0}]
  BY <1>1 DEF TypeOK, FilesType
<1>3. pages[i] = [p \in Pages |-> i]
  BY <1>1, <1>2
<1>4. Complete(i)
  BY <1>1, <1>3 DEF Complete
<1>5. i # NoFile /\ 1 \in Pages
  BY <1>1, SizeFacts DEF Gens, NoFile, Pages
<1> QED
  BY <1>1, <1>4, <1>5 DEF View

LEMMA ReachableViews ==
  ASSUME IInv, NEW i \in {base, backup, fd}
  PROVE  View(i) = i /\ (i # NoFile => Complete(i))
<1>1. CASE i = NoFile
  BY <1>1 DEF View, NoFile
<1>2. CASE i # NoFile
  BY <1>2, WholeIsComplete DEF IInv, ReachableFilesWhole
<1> QED
  BY <1>1, <1>2

\* The consumer only ever holds whole files of one generation, in whatever
\* phase of the producer it opens or validates: a mismatch it reports is
\* never an artefact of the replacement protocol.
THEOREM HeldMappingsComplete == Spec => []HeldMappingComplete
<1>1. IInv => HeldMappingComplete
  BY ReachableViews DEF HeldMappingComplete
<1> QED
  BY <1>1, InductiveInvariant, PTL

\* The base name is missing in no other window than the two the phases name.
THEOREM BaseGapOnlyInWindow == Spec => []BaseGapWindow
<1>1. IInv => BaseGapWindow
  BY DEF IInv, TimelineInv
<1> QED
  BY <1>1, InductiveInvariant, PTL

\* No failure of the producer loses the last finished generation.
THEOREM FinishedGenerationNeverLost == Spec => []FinishedGenerationKept
<1>1. ASSUME IInv PROVE FinishedGenerationKept
  <2> SUFFICES ASSUME producerGenerations > 0
               PROVE  \E i \in {base, backup} \ {NoFile} :
                        i >= producerGenerations /\ Complete(i)
    BY DEF FinishedGenerationKept
  <2>1. pgen \in Nat /\ producerGenerations \in Nat
    BY <1>1, SizeFacts DEF IInv, TypeOK, ProducerType
  <2>2. \/ base # NoFile /\ base >= producerGenerations
        \/ backup # NoFile /\ backup >= producerGenerations
    BY <1>1, <2>1 DEF IInv, DirectoryInv, FinishedInv, DirOld, DirGap,
       DirBoth, DirNew, NoFile
  <2> QED
    BY <1>1, <2>2, ReachableViews
<1> QED
  BY <1>1, InductiveInvariant, PTL

\* All of it together, as the runs check it.
THEOREM ReplacementIsSafe == Spec => []ReplacementSafe
BY HeldMappingsComplete, BaseGapOnlyInWindow, FinishedGenerationNeverLost, PTL
   DEF ReplacementSafe

\* A file under a name that a reader may open, or under the reader's mapping,
\* is never written.
THEOREM VisibleFilesFrozen == Spec => FrozenOnceVisible
<1>1. IInv /\ [Next]_vars =>
        [\A i \in {base, backup, fd} \ {NoFile} :
           pages'[i] = pages[i] /\ flen'[i] = flen[i]]_vars
  <2> SUFFICES ASSUME IInv, [Next]_vars, NEW i \in {base, backup, fd} \ {NoFile}
               PROVE  pages'[i] = pages[i] /\ flen'[i] = flen[i]
    OBVIOUS
  <2>1. CASE UNCHANGED <<pages, flen>>
    BY <2>1
  <2>2. ASSUME NEW p \in Pages, WritePage(p) \/ WriteTailAndFsync
        PROVE  pages'[i] = pages[i] /\ flen'[i] = flen[i]
    <3> USE SizeFacts DEF FsyncTmp, PostRenameBackup, PostRenameBase, Pages
    <3>1. Inside /\ ppc = "work" /\ pslot \in 1..(PageCount + 1)
      BY <2>2 DEF WritePage, WriteTailAndFsync, Work, Inside
    <3>2. DirOld /\ fd # pgen /\ pgen > 0 /\ pgen \in Gens
      BY <3>1 DEF IInv, DirectoryInv, TmpInv, Past, TypeOK, ProducerType, Gens
    <3>3. i # pgen
      BY <3>2 DEF DirOld, Gens, NoFile
    <3>4. CASE WritePage(p)
      BY <3>3, <3>4 DEF WritePage, WrittenFile, IInv, TypeOK, FilesType
    <3>5. CASE WriteTailAndFsync
      <4>1. tmp = pgen
        BY <3>1, <3>5 DEF WriteTailAndFsync, Work, IInv, TmpInv, Past, TypeOK,
           ProducerType
      <4> QED
        BY <3>3, <3>5, <4>1 DEF WriteTailAndFsync, IInv, TypeOK, FilesType
    <3> QED
      BY <2>2, <3>4, <3>5
  <2>3. CASE ConsumerStep \/ OpenFault \/ MapFault
    BY <2>1, <2>3, ConsumerLeaves DEF fsVars
  <2>4. CASE JoinThreads \/ ReturnResult \/ PressureExit \/ Damage \/ Terminated
    BY <2>1, <2>4, MainLeaves DEF fsVars
  <2>5. CASE ProducerStep \/ ProducerFault
    <3>1. 1 \in Pages
      BY SizeFacts DEF Pages
    <3>2. CASE \/ ProducerLoop \/ BeginGeneration \/ FsyncDir \/ RenameBackup
              \/ RenameBase \/ UnlinkBackup \/ PublishSlot \/ GenerationDone
              \/ ProducerFault \/ ProducerMarkDone \/ ProducerSetDone
      BY <2>1, <3>2 DEF ProducerLoop, BeginGeneration, FsyncDir, RenameBackup,
         RenameBase, UnlinkBackup, PublishSlot, GenerationDone, ProducerFault,
         ProducerMarkDone, ProducerSetDone, fsVars
    <3> QED
      BY <2>2, <2>5, <3>1, <3>2 DEF ProducerStep
  <2>6. CASE UNCHANGED vars
    BY <2>1, <2>6 DEF vars, fsVars
  <2> QED
    BY <2>3, <2>4, <2>5, <2>6 DEF Next
<1> QED
  BY <1>1, InductiveInvariant, PTL DEF Spec, FrozenOnceVisible
-----------------------------------------------------------------------------
(* The protocol replaces the file as a whole: OdexRace implements          *)
(* ReplacedFile.                                                           *)

\* The consumer holds a file exactly while it validates or waits holding it.
HolderInv == fd # NoFile <=> cpc \in {"validate", "hold", "validateHeld"}

LEMMA HolderStep ==
  TypeOK /\ HolderInv /\ [Next]_vars => HolderInv'
<1> SUFFICES ASSUME TypeOK, HolderInv, [Next]_vars PROVE HolderInv'
  OBVIOUS
<1>1. CASE ConsumerStep
  BY <1>1 DEF HolderInv, ConsumerStep, ConsumerLoop, WaitTarget, CheckSnapshot,
     OpenBase, WaitAbsent, Validate, HoldMapping, ValidateHeld, FailValidation
<1>2. CASE OpenFault
  BY <1>2, Zenon DEF HolderInv, OpenFault
<1>3. CASE MapFault
  BY <1>3, Zenon DEF HolderInv, MapFault, FailValidation
<1>4. CASE UNCHANGED <<fd, cpc>>
  BY <1>4 DEF HolderInv
<1>5. CASE \/ ProducerStep \/ ProducerFault \/ JoinThreads \/ ReturnResult
          \/ PressureExit \/ Damage \/ Terminated \/ UNCHANGED vars
  BY <1>4, <1>5, ProducerLeaves, MainLeaves DEF consVars, vars
<1> QED
  BY <1>1, <1>2, <1>3, <1>5 DEF Next

LEMMA HolderInvariant == Spec => []HolderInv
<1>1. Init => HolderInv
  BY DEF Init, HolderInv
<1> QED
  BY <1>1, HolderStep, TypeCorrect, PTL DEF Spec

newestFile == IF base # NoFile THEN base ELSE backup

\* Under the invariant the view of a file is its number, before and after a
\* step, so a step of the abstract file is a step on the numbers.
LEMMA ViewsAreFiles ==
  IInv => View(base) = base /\ View(fd) = fd /\ View(newestFile) = newestFile
BY ReachableViews DEF newestFile

LEMMA ViewsAreFilesAfter ==
  IInv' => (View(base) = base /\ View(fd) = fd /\ View(newestFile) = newestFile)'
BY ViewsAreFiles, PTL

LEMMA AbstractStep ==
  IInv /\ IInv' /\ HolderInv /\ [Next]_vars =>
    [Abstract!Next]_<<View(base), View(newestFile), View(fd)>>
<1> DEFINE Hides  == base # 0 /\ base' = 0 /\ newestFile' = newestFile /\ fd' = fd
           Shows  == /\ base = 0 /\ newestFile < Generations
                     /\ newestFile' = newestFile + 1
                     /\ base' = newestFile + 1 /\ fd' = fd
           Opens  == /\ fd = 0 /\ base # 0 /\ fd' = base /\ base' = base
                     /\ newestFile' = newestFile
           Closes == /\ fd # 0 /\ fd' = 0 /\ base' = base
                     /\ newestFile' = newestFile
           Still  == base' = base /\ newestFile' = newestFile /\ fd' = fd
<1> SUFFICES ASSUME IInv, IInv', HolderInv, [Next]_vars
             PROVE  [Abstract!Next]_<<View(base), View(newestFile), View(fd)>>
  OBVIOUS
<1>1. /\ View(base) = base /\ View(fd) = fd /\ View(newestFile) = newestFile
      /\ View(base)' = base' /\ View(fd)' = fd'
      /\ View(newestFile)' = newestFile'
  BY ViewsAreFiles, ViewsAreFilesAfter
<1>2. Hides \/ Shows \/ Opens \/ Closes \/ Still =>
        [Abstract!Next]_<<View(base), View(newestFile), View(fd)>>
  BY <1>1 DEF Abstract!Next, Abstract!Hide, Abstract!Show, Abstract!Open,
     Abstract!Close, newestFile
<1> USE SizeFacts DEF NoFile, newestFile
<1>3. CASE UNCHANGED <<base, backup, fd>>
  BY <1>2, <1>3
<1>4. CASE RenameBackup
  <2>1. /\ fd' = fd
        /\ hadOld => backup' = base /\ base' = NoFile
        /\ ~hadOld => UNCHANGED <<base, backup>>
    BY <1>4, Zenon DEF RenameBackup, Work, consVars
  <2>2. DirOld /\ (hadOld <=> pgen > 1) /\ pgen \in Nat
    BY <1>4 DEF RenameBackup, Work, IInv, DirectoryInv, Inside, Past, TypeOK,
       ProducerType, PostRenameBackup
  <2>3. CASE hadOld
    BY <1>2, <2>1, <2>2, <2>3 DEF DirOld
  <2>4. CASE ~hadOld
    BY <1>3, <2>1, <2>4
  <2> QED
    BY <2>3, <2>4
<1>5. CASE RenameBase
  <2>1. base' = tmp /\ backup' = backup /\ fd' = fd
    BY <1>5 DEF RenameBase, Work, consVars
  <2>2. DirGap /\ tmp = pgen /\ pgen \in 1..Generations
    BY <1>5 DEF RenameBase, Work, IInv, DirectoryInv, TmpInv, Inside, Past,
       TypeOK, ProducerType, PostRenameBackup, PostRenameBase, PostUnlinkBackup
  <2> QED
    BY <1>2, <2>1, <2>2 DEF DirGap
<1>6. CASE UnlinkBackup
  <2>1. base' = base /\ fd' = fd
    BY <1>6 DEF UnlinkBackup, Work, consVars
  <2>2. base # NoFile
    BY <1>6 DEF UnlinkBackup, Work, IInv, DirectoryInv, Inside, Past, DirBoth,
       TypeOK, ProducerType, PostRenameBackup, PostRenameBase, PostUnlinkBackup
  <2> QED
    BY <1>2, <2>1, <2>2
<1>7. CASE ConsumerStep \/ OpenFault \/ MapFault
  <2>1. UNCHANGED <<base, backup>>
    BY <1>7, ConsumerLeaves DEF fsVars
  <2>2. CASE OpenBase
    BY <1>2, <1>3, <2>1, <2>2 DEF OpenBase, HolderInv
  <2>3. CASE Validate \/ ValidateHeld
    BY <1>2, <1>3, <2>1, <2>3 DEF Validate, ValidateHeld, FailValidation, HolderInv
  <2>4. CASE MapFault
    <3>1. fd' = NoFile
      BY <2>4, Zenon DEF MapFault, FailValidation
    <3>2. CASE fd = NoFile
      BY <1>3, <2>1, <3>1, <3>2
    <3>3. CASE fd # NoFile
      BY <1>2, <2>1, <3>1, <3>3
    <3> QED
      BY <3>2, <3>3
  <2>5. CASE \/ ConsumerLoop \/ WaitTarget \/ CheckSnapshot \/ WaitAbsent
            \/ HoldMapping
    BY <1>3, <2>1, <2>5 DEF ConsumerLoop, WaitTarget, CheckSnapshot,
       WaitAbsent, HoldMapping
  <2>6. CASE OpenFault
    <3>1. fd' = fd
      BY <2>6, Zenon DEF OpenFault
    <3> QED
      BY <1>3, <2>1, <3>1
  <2> QED
    BY <1>7, <2>2, <2>3, <2>4, <2>5, <2>6 DEF ConsumerStep
<1>8. CASE \/ JoinThreads \/ ReturnResult \/ PressureExit \/ Damage
          \/ Terminated \/ UNCHANGED vars
  BY <1>3, <1>8, MainLeaves DEF fsVars, consVars, vars
<1>9. CASE ProducerStep \/ ProducerFault
  <2>1. fd' = fd
    BY <1>9, ProducerLeaves DEF consVars
  <2>2. CASE \/ \E p \in Pages : WritePage(p)
            \/ ProducerLoop \/ BeginGeneration \/ WriteTailAndFsync \/ FsyncDir
            \/ PublishSlot \/ GenerationDone \/ ProducerFault
            \/ ProducerMarkDone \/ ProducerSetDone
    <3>1. UNCHANGED <<base, backup>>
      BY <2>2 DEF WritePage, ProducerLoop, BeginGeneration, WriteTailAndFsync,
         FsyncDir, PublishSlot, GenerationDone, ProducerFault,
         ProducerMarkDone, ProducerSetDone, fsVars
    <3> QED
      BY <1>3, <2>1, <3>1
  <2> QED
    BY <1>4, <1>5, <1>6, <1>9, <2>2 DEF ProducerStep
<1> QED
  BY <1>7, <1>8, <1>9 DEF Next

\* Seen through the names and through the consumer's mapping, the producer's
\* writes, fsyncs and renames are the atomic replacement of a whole file,
\* generation after generation.
THEOREM ImplementsReplacedFile == Spec => ReplacesAsAWhole
<1>1. Init => Abstract!Init
  BY DEF Init, Abstract!Init, View, NoFile
<1>2. IInv /\ IInv' /\ HolderInv /\ [Next]_vars =>
        [Abstract!Next]_<<View(base), View(IF base # NoFile THEN base ELSE backup),
                          View(fd)>>
  BY AbstractStep DEF newestFile
<1> QED
  BY <1>1, <1>2, InductiveInvariant, HolderInvariant, PTL
  DEF Spec, ReplacesAsAWhole, Abstract!Spec
-----------------------------------------------------------------------------
(* The steering: what the consumer maps and when it looks again.           *)

\* Which generations the names may lead to once (tlGen, tlSlot) is published.
PhaseFiles ==
  /\ base # NoFile =>
       /\ base >= tlGen - 1
       /\ tlSlot >= PostRenameBase => base >= tlGen
  /\ backup # NoFile => backup >= tlGen - 1 /\ tlSlot < TerminalSlot

\* The timeline is at (gen, slot) or further.
At(gen, slot) == tlGen > gen \/ (tlGen = gen /\ tlSlot >= slot)

\* Released in its own generation, the consumer is past its target, and past
\* the generation when it validates for the second time.
SteerInv ==
  snapGen = cgen =>
    /\ cpc \in {"check", "open", "validate", "hold", "validateHeld"} =>
         At(cgen, ConsumerTargetSlot(cgen))
    /\ cpc \in {"validate", "hold", "validateHeld"} =>
         /\ fd >= cgen - 1
         /\ ConsumerTargetSlot(cgen) >= PostRenameBase => fd >= cgen
    /\ cpc = "validateHeld" => At(cgen, TerminalSlot)

\* The numbers the steering computes with.
LEMMA SteerTypes ==
  ASSUME TypeOK
  PROVE  /\ tlGen \in Nat /\ tlSlot \in Int /\ tlSlot <= TerminalSlot
         /\ pgen \in Nat /\ pslot \in Nat /\ cgen \in Nat /\ snapGen \in Nat
         /\ base \in Nat /\ backup \in Nat /\ fd \in Nat /\ tmp \in Nat
         /\ ConsumerTargetSlot(cgen) \in Nat
         /\ PostRenameBase \in Nat /\ PostRenameBase < TerminalSlot
<1>1. /\ tlGen \in Nat /\ tlSlot \in Int /\ tlSlot <= TerminalSlot
      /\ pgen \in Nat /\ pslot \in Nat
  BY SizeFacts DEF TypeOK, ProducerType
<1>2. cgen \in Nat /\ snapGen \in Nat
  BY SizeFacts DEF TypeOK, ConsumerType
<1>3. base \in Nat /\ backup \in Nat /\ fd \in Nat /\ tmp \in Nat
  BY SizeFacts DEF TypeOK, FilesType, ConsumerType, Gens, NoFile
<1>4. ConsumerTargetSlot(cgen) \in Nat
  <2>1. cfg.launch \in Nat /\ PhaseSlotTotal \in Nat \ {0}
    BY SizeFacts DEF TypeOK, MainType, PhaseSlotTotal
  <2>2. \A x \in Int, y \in Nat \ {0} : x % y \in Nat
    OBVIOUS
  <2>3. cfg.launch + cgen - 1 \in Int
    BY <1>2, <2>1
  <2> QED
    BY <2>1, <2>2, <2>3 DEF ConsumerTargetSlot
<1>5. PostRenameBase \in Nat /\ PostRenameBase < TerminalSlot
  BY SizeFacts DEF PostRenameBase
<1> QED
  BY <1>1, <1>2, <1>3, <1>4, <1>5

\* The timeline only moves on, by a slot or to the next generation.
LEMMA TimelineMoves ==
  ASSUME IInv, [Next]_vars
  PROVE  \/ tlGen' = tlGen /\ tlSlot' = tlSlot
         \/ /\ PublishSlot /\ Inside /\ tlGen' = pgen /\ tlSlot' = pslot
            /\ \/ pslot = 0 /\ pgen = tlGen + 1
               \/ pslot > 0 /\ pgen = tlGen /\ pslot = tlSlot + 1
<1>1. CASE PublishSlot
  BY <1>1, SteerTypes DEF IInv, TimelineInv, PublishSlot, Publish, Inside
<1>2. CASE ConsumerStep \/ OpenFault \/ MapFault
  BY <1>2, ConsumerLeaves DEF tlVars
<1>3. CASE JoinThreads \/ ReturnResult \/ PressureExit \/ Damage \/ Terminated
  BY <1>3, MainLeaves DEF tlVars
<1>4. CASE UNCHANGED vars
  BY <1>4 DEF vars, tlVars
<1>5. CASE ProducerFault \/ (ProducerStep /\ ~PublishSlot)
  BY <1>5 DEF ProducerFault, ProducerStep, ProducerLoop, BeginGeneration, WritePage,
     WriteTailAndFsync, FsyncDir, RenameBackup, RenameBase, UnlinkBackup, Work,
     GenerationDone, ProducerMarkDone, MarkDone, ProducerSetDone, tlVars
<1> QED
  BY <1>1, <1>2, <1>3, <1>4, <1>5 DEF Next

\* So what was reached stays reached.
LEMMA StaysAt ==
  ASSUME IInv, [Next]_vars, NEW gen \in Nat, NEW slot \in Nat, At(gen, slot)
  PROVE  At(gen, slot)'
BY TimelineMoves, SteerTypes DEF IInv, At

\* Inside a generation the slots say which files the names lead to.
LEMMA InsideFiles ==
  ASSUME IInv, Inside, pslot > 0
  PROVE  /\ base # NoFile => base >= pgen - 1
         /\ Past(PostRenameBase) => base = pgen
         /\ backup # NoFile => backup = pgen - 1 /\ ~Past(PostUnlinkBackup)
BY SteerTypes, SizeFacts DEF IInv, DirectoryInv, DirOld, DirGap, DirBoth, DirNew,
   Past, PostRenameBackup, PostRenameBase, PostUnlinkBackup, NoFile

\* A generation's renames happen in the slots whose names say so.
LEMMA PhaseFilesStep == IInv /\ IInv' /\ PhaseFiles /\ [Next]_vars => PhaseFiles'
<1> SUFFICES ASSUME IInv, IInv', PhaseFiles, [Next]_vars PROVE PhaseFiles'
  OBVIOUS
<1>1. TypeOK /\ TypeOK' /\ PostUnlinkBackup = TerminalSlot /\ PostRenameBase = PageCount + 4
  BY SizeFacts DEF IInv, PostUnlinkBackup, PostRenameBase
<1>2. CASE PublishSlot
  <2>1. /\ Inside /\ ppc = "publish" /\ tlGen' = pgen /\ tlSlot' = pslot
        /\ base' = base /\ backup' = backup
    BY <1>2 DEF PublishSlot, Publish, Inside, fsVars
  <2>2. CASE pslot = 0
    <3>1. DirOld
      BY <2>1, <2>2, SizeFacts DEF IInv, DirectoryInv, Past, PostRenameBackup
    <3> QED
      BY <1>1, <2>1, <2>2, <3>1, SteerTypes, SizeFacts DEF PhaseFiles, DirOld
  <2>3. CASE pslot # 0
    <3>1. /\ base # NoFile => base >= pgen - 1
          /\ Past(PostRenameBase) => base = pgen
          /\ backup # NoFile => backup = pgen - 1 /\ ~Past(PostUnlinkBackup)
      BY <1>1, <2>1, <2>3, InsideFiles, SteerTypes
    <3> QED
      BY <1>1, <2>1, <2>3, <3>1, SteerTypes, SizeFacts DEF PhaseFiles, Past
  <2> QED
    BY <2>2, <2>3
<1>3. CASE UNCHANGED <<tlGen, tlSlot, base, backup>>
  BY <1>3 DEF PhaseFiles
<1>4. CASE RenameBackup
  <2>1. /\ Inside /\ pslot = PostRenameBackup /\ ppc = "work" /\ tlGen' = tlGen
        /\ tlSlot' = tlSlot /\ pslot > 0
    BY <1>4, SizeFacts DEF RenameBackup, Work, Inside, tlVars, PostRenameBackup
  <2>2. DirOld /\ tlGen = pgen /\ tlSlot = pslot - 1
    BY <1>1, <2>1, SteerTypes, SizeFacts
       DEF IInv, DirectoryInv, TimelineInv, Past, PostRenameBackup
  <2>3. (base' = base /\ backup' = backup) \/ (base' = NoFile /\ backup' = base)
    BY <1>4 DEF RenameBackup
  <2> QED
    BY <1>1, <2>1, <2>2, <2>3, SteerTypes, SizeFacts
       DEF PhaseFiles, DirOld, PostRenameBackup, NoFile
<1>5. CASE RenameBase
  <2>1. /\ Inside /\ pslot = PostRenameBase /\ ppc = "work" /\ tlGen' = tlGen
        /\ tlSlot' = tlSlot /\ pslot > 0 /\ base' = tmp /\ backup' = backup
    BY <1>5, SizeFacts DEF RenameBase, Work, Inside, tlVars, PostRenameBase
  <2>2. tmp = pgen /\ tlGen = pgen
    BY <1>1, <2>1, SteerTypes, SizeFacts
       DEF IInv, TmpInv, TimelineInv, Past, PostRenameBase
  <2> QED
    BY <1>1, <2>1, <2>2, SteerTypes DEF PhaseFiles
<1>6. CASE UnlinkBackup
  BY <1>6 DEF UnlinkBackup, Work, tlVars, PhaseFiles
<1>7. CASE ConsumerStep \/ OpenFault \/ MapFault
  BY <1>3, <1>7, ConsumerLeaves DEF tlVars, fsVars
<1>8. CASE JoinThreads \/ ReturnResult \/ PressureExit \/ Damage \/ Terminated
  BY <1>3, <1>8, MainLeaves DEF tlVars, fsVars
<1>9. CASE UNCHANGED vars
  BY <1>3, <1>9 DEF vars, tlVars, fsVars
<1>10. CASE \/ ProducerFault \/ ProducerLoop \/ BeginGeneration
           \/ (\E p \in Pages : WritePage(p)) \/ WriteTailAndFsync \/ FsyncDir
           \/ GenerationDone \/ ProducerMarkDone \/ ProducerSetDone
  BY <1>3, <1>10 DEF ProducerFault, ProducerLoop, BeginGeneration, WritePage,
     WriteTailAndFsync, FsyncDir, Work, GenerationDone, ProducerMarkDone,
     MarkDone, ProducerSetDone, tlVars, fsVars
<1> QED
  BY <1>2, <1>4, <1>5, <1>6, <1>7, <1>8, <1>9, <1>10 DEF Next, ProducerStep

\* Only WaitTarget releases the consumer in its own generation, past its target.
LEMMA SteerStep ==
  IInv /\ HolderInv /\ PhaseFiles /\ SteerInv /\ [Next]_vars => SteerInv'
<1> SUFFICES ASSUME IInv, HolderInv, PhaseFiles, SteerInv, [Next]_vars PROVE SteerInv'
  OBVIOUS
<1>1. TypeOK /\ TypeOK'
  BY TypeStep DEF IInv
<1> DEFINE target == ConsumerTargetSlot(cgen)
<1>2. target \in Nat /\ cgen \in Nat /\ TerminalSlot \in Nat
  BY <1>1, SteerTypes, SizeFacts
<1>3. /\ At(cgen, target) /\ cfg' = cfg /\ cgen' = cgen =>
           At(cgen, ConsumerTargetSlot(cgen))'
      /\ At(cgen, TerminalSlot) /\ cgen' = cgen => At(cgen, TerminalSlot)'
  BY <1>2, StaysAt DEF ConsumerTargetSlot, At
<1>4. cfg' = cfg
  <2>1. CASE ConsumerStep \/ OpenFault \/ MapFault
    BY <2>1, ConsumerLeaves
  <2>2. CASE JoinThreads \/ ReturnResult \/ PressureExit \/ Damage \/ Terminated
    BY <2>2, MainLeaves
  <2>3. CASE UNCHANGED vars
    BY <2>3 DEF vars
  <2>4. CASE ProducerStep \/ ProducerFault
    BY <2>4, ProducerLeaves
  <2> QED
    BY <2>1, <2>2, <2>3, <2>4 DEF Next
<1>5. target' = target \/ cgen' # cgen
  BY <1>4 DEF ConsumerTargetSlot
<1>6. CASE UNCHANGED <<cpc, cgen, snapGen, fd>>
  BY <1>3, <1>4, <1>5, <1>6 DEF SteerInv
<1>7. CASE ConsumerLoop \/ WaitAbsent \/ ValidateHeld \/ OpenFault \/ MapFault
  BY <1>7 DEF SteerInv, ConsumerLoop, WaitAbsent, ValidateHeld, OpenFault, MapFault,
     FailValidation
<1>8. CASE WaitTarget
  <2>1. /\ cpc' = "check" /\ snapGen' = tlGen /\ cgen' = cgen
        /\ ReachedAtLeast(cgen, target)
    BY <1>8 DEF WaitTarget
  <2>2. tlGen = cgen => At(cgen, target)
    BY <1>1, <2>1, SteerTypes DEF ReachedAtLeast, At
  <2> QED
    BY <1>3, <1>4, <2>1, <2>2 DEF SteerInv
<1>9. CASE CheckSnapshot
  BY <1>3, <1>4, <1>9 DEF SteerInv, CheckSnapshot
<1>10. CASE OpenBase
  <2>1. /\ cpc = "open" /\ cgen' = cgen /\ snapGen' = snapGen
        /\ \/ cpc' = "waitAbsent"
           \/ cpc' = "validate" /\ fd' = base /\ base # NoFile
    BY <1>10 DEF OpenBase
  <2>2. snapGen = cgen => At(cgen, target)
    BY <2>1 DEF SteerInv
  <2>3. base # NoFile /\ At(cgen, target) =>
          base >= cgen - 1 /\ (target >= PostRenameBase => base >= cgen)
    BY <1>1, SteerTypes DEF PhaseFiles, At
  <2> QED
    BY <1>3, <1>4, <1>5, <2>1, <2>2, <2>3 DEF SteerInv
<1>11. CASE Validate
  <2>1. /\ cpc = "validate" /\ cgen' = cgen /\ snapGen' = snapGen
        /\ cpc' = "exit" \/ (cpc' = "hold" /\ fd' = fd)
    BY <1>11 DEF Validate, FailValidation
  <2> QED
    BY <1>3, <1>4, <1>5, <2>1 DEF SteerInv
<1>12. CASE HoldMapping
  <2>1. /\ cpc = "hold" /\ cgen' = cgen /\ snapGen' = snapGen /\ fd' = fd
        /\ ReachedAtLeast(cgen, TerminalSlot) /\ cpc' = "validateHeld"
    BY <1>12 DEF HoldMapping, GenerationOver
  <2>2. snapGen = cgen => At(cgen, target) /\ At(cgen, TerminalSlot)
    BY <1>1, <2>1, SteerTypes DEF SteerInv, ReachedAtLeast, At
  <2> QED
    BY <1>3, <1>4, <1>5, <2>1, <2>2 DEF SteerInv
<1>13. CASE \/ ProducerStep \/ ProducerFault \/ JoinThreads \/ ReturnResult
           \/ PressureExit \/ Damage \/ Terminated \/ UNCHANGED vars
  BY <1>6, <1>13, ProducerLeaves, MainLeaves DEF consVars, vars
<1> QED
  BY <1>7, <1>8, <1>9, <1>10, <1>11, <1>12, <1>13 DEF Next, ConsumerStep

\* A consumer released in its own generation validates the generation it was
\* steered to, and the second time after that file lost its last name
\* (odexlike_pc.py, _consumer).
THEOREM ValidationsHitTargets == Spec => []ValidatesWhatItTargets
<1>1. Init => PhaseFiles /\ SteerInv
  BY SizeFacts DEF Init, PhaseFiles, SteerInv, NoFile
<1>2. TypeOK /\ HolderInv /\ PhaseFiles /\ SteerInv => ValidatesWhatItTargets
  <2> SUFFICES ASSUME TypeOK, HolderInv, PhaseFiles, SteerInv
               PROVE  ValidatesWhatItTargets
    OBVIOUS
  <2>1. SteeredToPhase
    BY DEF SteeredToPhase, SteerInv
  <2>2. HeldAcrossUnlink
    <3> SUFFICES ASSUME cpc = "validateHeld", snapGen = cgen, fd < cgen
                 PROVE  fd # base /\ fd # backup
      BY DEF HeldAcrossUnlink
    <3>1. fd # NoFile /\ At(cgen, TerminalSlot)
      BY DEF SteerInv, HolderInv
    <3>2. /\ base # NoFile => base >= cgen
          /\ backup # NoFile => backup >= cgen
      <4>1. /\ tlGen \in Nat /\ tlSlot \in Int /\ cgen \in Nat /\ base \in Nat
            /\ backup \in Nat /\ TerminalSlot \in Nat /\ PostRenameBase \in Nat
            /\ PostRenameBase < TerminalSlot
        BY SteerTypes, SizeFacts
      <4>2. CASE tlGen > cgen
        BY <4>1, <4>2 DEF PhaseFiles
      <4>3. CASE tlGen = cgen /\ tlSlot >= TerminalSlot
        BY <4>1, <4>3 DEF PhaseFiles
      <4> QED
        BY <3>1, <4>2, <4>3 DEF At
    <3> QED
      BY <3>1, <3>2, SteerTypes
  <2> QED
    BY <2>1, <2>2 DEF ValidatesWhatItTargets
<1>3. PhaseFiles /\ SteerInv /\ IInv /\ IInv' /\ HolderInv /\ [Next]_vars =>
        (PhaseFiles /\ SteerInv)'
  BY PhaseFilesStep, SteerStep
<1>4. IInv => TypeOK
  BY DEF IInv
<1> QED
  BY <1>1, <1>2, <1>3, <1>4, InductiveInvariant, HolderInvariant, PTL DEF Spec
-----------------------------------------------------------------------------
(* The accounts: what a result without an error stands for.                *)

Erred == producerError \/ mismatches > 0

\* Who has ended, and what of it the others have been told.
EndsInv ==
  /\ stop => Erred \/ mpc # "join"
  /\ mpc # "join" => ppc = "exit" /\ cpc = "exit"
  /\ tlDone => ppc \in {"setDone", "exit"}
  /\ pdone => ppc = "exit"
  /\ ppc \in {"markDone", "setDone", "exit"} =>
       Erred \/ (producerGenerations = Generations /\ tlGen = Generations)
  /\ cpc = "check" /\ snapGen < cgen => tlDone /\ tlGen = snapGen

\* Two validations a generation, one ENOENT or one missed target for both.
Accounted == passes + 2 * (enoentRetries + missed)

AccountInv ==
  /\ cpc \in {"loop", "waitAbsent"} => Accounted = 2 * cgen
  /\ cpc \in {"waitTarget", "check", "open", "validate"} => Accounted = 2 * cgen - 2
  /\ cpc \in {"hold", "validateHeld"} => Accounted = 2 * cgen - 1
  /\ cpc = "exit" => OpenFaults \/ Erred \/ Accounted = 2 * Generations

\* An error is not taken back.
LEMMA ErredStays ==
  ASSUME TypeOK, [Next]_vars
  PROVE  Erred => Erred'
<1>1. mismatches \in Nat
  BY DEF TypeOK, ConsumerType
<1>2. CASE ConsumerStep \/ OpenFault \/ MapFault
  <2>1. producerError' = producerError
    BY <1>2, ConsumerLeaves DEF prodVars
  <2>2. mismatches' = mismatches \/ mismatches' = mismatches + 1
    BY <1>2 DEF ConsumerStep, ConsumerLoop, WaitTarget, CheckSnapshot, OpenBase,
       OpenFault, WaitAbsent, Validate, MapFault, HoldMapping, ValidateHeld,
       FailValidation
  <2> QED
    BY <1>1, <2>1, <2>2 DEF Erred
<1>3. CASE ProducerStep \/ ProducerFault
  <2>1. mismatches' = mismatches
    BY <1>3, ProducerLeaves DEF consVars
  <2>2. producerError => producerError'
    BY <1>3 DEF ProducerFault, ProducerStep, ProducerLoop, BeginGeneration,
       WritePage, WriteTailAndFsync, FsyncDir, RenameBackup, RenameBase,
       UnlinkBackup, Work, PublishSlot, GenerationDone, ProducerMarkDone,
       ProducerSetDone
  <2> QED
    BY <2>1, <2>2 DEF Erred
<1>4. CASE JoinThreads \/ ReturnResult \/ PressureExit \/ Damage \/ Terminated
  BY <1>4, MainLeaves DEF prodVars, consVars, Erred
<1>5. CASE UNCHANGED vars
  BY <1>5 DEF vars, prodVars, consVars, Erred
<1> QED
  BY <1>2, <1>3, <1>4, <1>5 DEF Next

\* Neither thread ends without an error before its last generation.
LEMMA EndsStep == IInv /\ EndsInv /\ [Next]_vars => EndsInv'
<1> SUFFICES ASSUME IInv, EndsInv, [Next]_vars PROVE EndsInv'
  OBVIOUS
<1>1. TypeOK /\ TypeOK' /\ (Erred => Erred')
  BY TypeStep, ErredStays DEF IInv
<1>2. CASE UNCHANGED <<stop, mpc, ppc, cpc, pdone, producerGenerations, tlVars,
                       snapGen, cgen>>
  BY <1>1, <1>2 DEF EndsInv, tlVars
<1>3. CASE ConsumerStep \/ OpenFault \/ MapFault
  <2>1. UNCHANGED <<mpc, ppc, pdone, producerGenerations, tlGen, tlSlot, tlDone>>
    BY <1>3, ConsumerLeaves DEF prodVars, mainVars, tlVars
  <2>2. mpc = "join"
    BY <1>3 DEF EndsInv, ConsumerStep, ConsumerLoop, WaitTarget, CheckSnapshot,
       OpenBase, OpenFault, WaitAbsent, Validate, MapFault, HoldMapping, ValidateHeld
  <2>3. stop' = stop \/ Erred'
    <3>1. stop' = stop \/ mismatches' = mismatches + 1
      BY <1>3 DEF ConsumerStep, ConsumerLoop, WaitTarget, CheckSnapshot, OpenBase,
         OpenFault, WaitAbsent, Validate, MapFault, HoldMapping, ValidateHeld,
         FailValidation
    <3>2. mismatches \in Nat
      BY <1>1 DEF TypeOK, ConsumerType
    <3> QED
      BY <3>1, <3>2 DEF Erred
  <2>4. cpc' = "check" /\ snapGen' < cgen' => tlDone' /\ tlGen' = snapGen'
    <3>1. cpc' = "check" =>
            /\ snapGen' = tlGen /\ cgen' = cgen
            /\ ReachedAtLeast(cgen, ConsumerTargetSlot(cgen))
      BY <1>3 DEF ConsumerStep, ConsumerLoop, WaitTarget, CheckSnapshot, OpenBase,
         OpenFault, WaitAbsent, Validate, MapFault, HoldMapping, ValidateHeld,
         FailValidation
    <3> QED
      BY <1>1, <2>1, <3>1, SteerTypes DEF ReachedAtLeast
  <2> QED
    BY <1>1, <2>1, <2>2, <2>3, <2>4 DEF EndsInv
<1>4. CASE ProducerLoop
  <2>1. /\ ppc = "loop" /\ mpc = "join" /\ stop' = stop /\ mpc' = mpc
        /\ UNCHANGED <<pdone, producerGenerations, tlGen, tlDone, cpc, snapGen, cgen>>
    BY <1>4 DEF ProducerLoop, EndsInv, mainVars, tlVars, consVars
  <2>2. tlGen = pgen /\ producerGenerations = pgen /\ ~tlDone /\ ~pdone
    BY <2>1 DEF IInv, TimelineInv, FinishedInv, EndsInv
  <2>3. \/ ppc' = "work"
        \/ ppc' = "markDone" /\ (pgen = Generations \/ stop)
    BY <1>4 DEF ProducerLoop, LastGeneration
  <2> QED
    BY <1>1, <2>1, <2>2, <2>3 DEF EndsInv
<1>5. CASE ProducerFault
  BY <1>1, <1>5 DEF ProducerFault, EndsInv, Erred, tlVars, consVars, mainVars
<1>6. CASE ProducerMarkDone \/ ProducerSetDone
  BY <1>1, <1>6 DEF ProducerMarkDone, MarkDone, ProducerSetDone, EndsInv, tlVars,
     consVars, mainVars
<1>7. CASE PublishSlot \/ GenerationDone
  BY <1>1, <1>7 DEF PublishSlot, Publish, GenerationDone, EndsInv, tlVars, consVars,
     mainVars
<1>8. CASE \/ BeginGeneration \/ (\E p \in Pages : WritePage(p)) \/ WriteTailAndFsync
           \/ FsyncDir \/ RenameBackup \/ RenameBase \/ UnlinkBackup
  <2>1. /\ ppc = "work" /\ ppc' = "publish"
        /\ UNCHANGED <<tlVars, stop, pdone, producerGenerations, consVars, mainVars>>
    BY <1>8 DEF BeginGeneration, WritePage, WriteTailAndFsync, FsyncDir,
       RenameBackup, RenameBase, UnlinkBackup, Work
  <2> QED
    BY <1>1, <2>1 DEF EndsInv, tlVars, consVars, mainVars
<1>9. CASE JoinThreads \/ ReturnResult
  BY <1>1, <1>9 DEF JoinThreads, ReturnResult, EndsInv, tlVars, prodVars, consVars
<1>10. CASE PressureExit \/ Damage \/ Terminated \/ UNCHANGED vars
  BY <1>2, <1>10 DEF PressureExit, Damage, Terminated, vars, prodVars, consVars, mainVars
<1> QED
  BY <1>3, <1>4, <1>5, <1>6, <1>7, <1>8, <1>9, <1>10 DEF Next, ProducerStep

\* Every way through a generation adds two to the accounts, or ends in an error.
LEMMA AccountStep == IInv /\ EndsInv /\ AccountInv /\ [Next]_vars => AccountInv'
<1> SUFFICES ASSUME IInv, EndsInv, AccountInv, [Next]_vars PROVE AccountInv'
  OBVIOUS
<1>1. /\ Erred => Erred'
      /\ cgen \in Nat /\ cgen <= Generations /\ Generations \in Nat
      /\ passes \in Nat /\ enoentRetries \in Nat /\ missed \in Nat
      /\ mismatches \in Nat
  BY ErredStays, SizeFacts DEF IInv, TypeOK, ConsumerType
<1>2. CASE UNCHANGED <<cpc, cgen, passes, enoentRetries, missed>>
  BY <1>1, <1>2 DEF AccountInv, Accounted
<1>3. CASE ConsumerLoop
  <2>1. mpc = "join" /\ (stop => Erred)
    BY <1>3 DEF ConsumerLoop, EndsInv
  <2>2. /\ cpc = "loop" /\ UNCHANGED <<passes, enoentRetries, missed>>
        /\ \/ cpc' = "exit" /\ (cgen = Generations \/ stop)
           \/ cpc' = "waitTarget" /\ cgen' = cgen + 1
    BY <1>3 DEF ConsumerLoop, LastGeneration
  <2> QED
    BY <1>1, <2>1, <2>2 DEF AccountInv, Accounted
<1>4. CASE CheckSnapshot
  <2>1. /\ cpc = "check" /\ UNCHANGED <<passes, enoentRetries, cgen>>
        /\ \/ NeverComes /\ cpc' = "exit" /\ missed' = missed
           \/ cpc' = "loop" /\ missed' = missed + 1
           \/ cpc' = "open" /\ missed' = missed
    BY <1>4 DEF CheckSnapshot
  <2>2. NeverComes => Erred
    <3>1. NeverComes => tlGen = snapGen /\ snapGen < cgen /\ ppc = "exit"
      BY <2>1 DEF NeverComes, EndsInv
    <3>2. tlGen \in Nat
      BY SteerTypes DEF IInv
    <3> QED
      BY <1>1, <3>1, <3>2 DEF EndsInv
  <2> QED
    BY <1>1, <2>1, <2>2 DEF AccountInv, Accounted
<1>5. CASE WaitTarget \/ HoldMapping \/ WaitAbsent
  BY <1>1, <1>5 DEF WaitTarget, HoldMapping, WaitAbsent, AccountInv, Accounted
<1>6. CASE OpenBase
  BY <1>1, <1>6 DEF OpenBase, AccountInv, Accounted
<1>7. CASE OpenFault
  BY <1>7 DEF OpenFault, AccountInv
<1>8. CASE MapFault
  <2>1. cpc' = "exit" /\ mismatches' = mismatches + 1
    BY <1>8 DEF MapFault, FailValidation
  <2> QED
    BY <1>1, <2>1 DEF AccountInv, Erred
<1>9. CASE Validate \/ ValidateHeld
  <2>1. CASE cpc' = "exit" /\ mismatches' = mismatches + 1
    BY <1>1, <2>1 DEF AccountInv, Erred
  <2>2. CASE /\ passes' = passes + 1 /\ UNCHANGED <<enoentRetries, missed, cgen>>
             /\ \/ cpc = "validate" /\ cpc' = "hold"
                \/ cpc = "validateHeld" /\ cpc' = "loop"
    BY <1>1, <2>2 DEF AccountInv, Accounted
  <2> QED
    BY <1>9, <2>1, <2>2 DEF Validate, ValidateHeld, FailValidation
<1>10. CASE \/ ProducerStep \/ ProducerFault \/ JoinThreads \/ ReturnResult
           \/ PressureExit \/ Damage \/ Terminated \/ UNCHANGED vars
  BY <1>2, <1>10, ProducerLeaves, MainLeaves DEF consVars, vars
<1> QED
  BY <1>3, <1>4, <1>5, <1>6, <1>7, <1>8, <1>9, <1>10 DEF Next, ConsumerStep

\* Unless os.open fails otherwise than with ENOENT, a result without an error
\* accounts for every generation (run_variant; the case's pass condition).
THEOREM ResultsAccounted ==
  ASSUME ~OpenFaults
  PROVE  Spec => []CleanResultAccounted
<1>1. Init => EndsInv /\ AccountInv
  BY DEF Init, TimelineInit, EndsInv, AccountInv, Accounted
<1>2. IInv /\ EndsInv /\ AccountInv /\ [Next]_vars => (EndsInv /\ AccountInv)'
  BY EndsStep, AccountStep
<1>3. IInv /\ EndsInv /\ AccountInv => CleanResultAccounted
  <2>1. IInv => mismatches \in Nat
    BY DEF IInv, TypeOK, ConsumerType
  <2> QED
    BY <2>1 DEF EndsInv, AccountInv, Accounted, Erred, CleanResultAccounted
<1> QED
  BY <1>1, <1>2, <1>3, InductiveInvariant, PTL DEF Spec
=============================================================================
