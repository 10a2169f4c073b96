---------------------------- MODULE TestFilesProofs ----------------------------
(***************************************************************************)
(* Proofs about the modules that MCTestFiles composes: RaceSettings, for   *)
(* every value of the test's parameters and every state of the machine the *)
(* test is started on: what the cleanup of run_retry_fsync_writeback_race  *)
(* (utils/f2fs_retry_race.py) puts back; and VdexWriter, for files of      *)
(* every size: a header on the disk means a whole file.                    *)
(***************************************************************************)
EXTENDS RaceSettings, VdexWriter, SequenceTheorems, NaturalsInduction, WellFoundedInduction,
        TLAPS

USE SettingsAssumption

\* The files of _FILES by their index, and which of them apply writes.
LEMMA FileFacts ==
  /\ Len(VmFiles) = 6
  /\ VmFiles[1] = "dirty_bytes"
  /\ VmFiles[2] = "dirty_background_bytes"
  /\ VmFiles[3] = "dirty_ratio"
  /\ VmFiles[4] = "dirty_background_ratio"
  /\ VmFiles[5] = "dirty_expire_centisecs"
  /\ VmFiles[6] = "dirty_writeback_centisecs"
BY DEF VmFiles

LEMMA IndexFacts ==
  \A j \in 1..6 : j = 1 \/ j = 2 \/ j = 3 \/ j = 4 \/ j = 5 \/ j = 6
OBVIOUS

LEMMA WrittenFacts ==
  /\ Written("dirty_bytes") /\ Written("dirty_background_bytes")
  /\ ~Written("dirty_ratio") /\ ~Written("dirty_background_ratio")
  /\ Written("dirty_expire_centisecs") /\ Written("dirty_writeback_centisecs")
  /\ TestValue("dirty_bytes") = DirtyBytes
  /\ TestValue("dirty_background_bytes") = BackgroundBytes
  /\ TestValue("dirty_expire_centisecs") = Centisecs
  /\ TestValue("dirty_writeback_centisecs") = Centisecs
BY DEF Written, TestValue

\* The parts of the type invariant, so that a step can show them one by one.
NumbersType ==
  /\ vm \in [VmNames -> Nat]
  /\ vmStart \in [VmNames -> Nat]
  /\ vmSaved \in [VmNames -> Nat \cup {NoEntry}]

ControlType ==
  /\ knobs \in [KnobSet -> {"original", "test"}]
  /\ knobsSaved \subseteq KnobSet
  /\ pc \in {"applyVm", "applyKnobs", "startLog", "setupFailed", "body", "join",
             "stopLog", "restoreKnobs", "restoreVm", "writeVm", "ended", "abandoned"}
  /\ i \in 1..6 \cup KnobSet
  /\ order \in {"none", "ratioFirst", "bgRatioFirst", "bgFirst", "dirtyFirst"}

FlagsType ==
  /\ body \in {"running", "returned", "raised", "notStarted"}
  /\ vmError \in BOOLEAN /\ knobsError \in BOOLEAN

LEMMA TypeParts == TypeOK <=> NumbersType /\ ControlType /\ FlagsType
BY DEF TypeOK, NumbersType, ControlType, FlagsType

LEMMA PrimedParts == TypeOK' <=> NumbersType' /\ ControlType' /\ FlagsType'
BY DEF TypeOK, NumbersType, ControlType, FlagsType

LEMMA InitEstablishes == Init => SettingsInv
<1> SUFFICES ASSUME Init PROVE SettingsInv
  OBVIOUS
<1>1. PICK form \in StartForms, e \in StartCentisecs, wb \in StartCentisecs :
        \E dirty \in StartLimits(form[1]), background \in StartLimits(form[2]) :
          /\ background.bytes <= dirty.bytes \/ dirty.bytes = 0
          /\ background.ratio <= dirty.ratio \/ dirty.ratio = 0
          /\ vm = [n \in VmNames |->
                    CASE n = "dirty_bytes" -> dirty.bytes
                      [] n = "dirty_ratio" -> dirty.ratio
                      [] n = "dirty_background_bytes" -> background.bytes
                      [] n = "dirty_background_ratio" -> background.ratio
                      [] n = "dirty_expire_centisecs" -> e
                      [] n = "dirty_writeback_centisecs" -> wb]
  BY DEF Init
<1>2. PICK dirty \in StartLimits(form[1]), background \in StartLimits(form[2]) :
          /\ background.bytes <= dirty.bytes \/ dirty.bytes = 0
          /\ background.ratio <= dirty.ratio \/ dirty.ratio = 0
          /\ vm = [n \in VmNames |->
                    CASE n = "dirty_bytes" -> dirty.bytes
                      [] n = "dirty_ratio" -> dirty.ratio
                      [] n = "dirty_background_bytes" -> background.bytes
                      [] n = "dirty_background_ratio" -> background.ratio
                      [] n = "dirty_expire_centisecs" -> e
                      [] n = "dirty_writeback_centisecs" -> wb]
  BY <1>1
<1>3. /\ dirty.bytes \in Nat /\ dirty.ratio \in Nat
      /\ background.bytes \in Nat /\ background.ratio \in Nat
      /\ dirty.bytes = 0 \/ dirty.ratio = 0
      /\ background.bytes = 0 \/ background.ratio = 0
  BY DEF StartLimits
<1>4. /\ vm["dirty_bytes"] = dirty.bytes
      /\ vm["dirty_ratio"] = dirty.ratio
      /\ vm["dirty_background_bytes"] = background.bytes
      /\ vm["dirty_background_ratio"] = background.ratio
      /\ vm["dirty_expire_centisecs"] = e
      /\ vm["dirty_writeback_centisecs"] = wb
  BY <1>2 DEF VmNames
<1>5. e \in Nat /\ wb \in Nat
  BY <1>1
<1>6. vm \in [VmNames -> Nat]
  <2> DEFINE start(n) == CASE n = "dirty_bytes" -> dirty.bytes
                           [] n = "dirty_ratio" -> dirty.ratio
                           [] n = "dirty_background_bytes" -> background.bytes
                           [] n = "dirty_background_ratio" -> background.ratio
                           [] n = "dirty_expire_centisecs" -> e
                           [] n = "dirty_writeback_centisecs" -> wb
  <2>1. \A n \in VmNames : start(n) \in Nat
    BY <1>3, <1>5 DEF VmNames
  <2>2. vm = [n \in VmNames |-> start(n)]
    BY <1>2
  <2> HIDE DEF start
  <2> QED
    BY <2>1, <2>2
<1>7. /\ pc = "applyVm" /\ i = 1 /\ vmStart = vm
      /\ vmSaved = [n \in VmNames |-> NoEntry]
  BY DEF Init
<1>8. NumbersType
  BY <1>6, <1>7 DEF NumbersType
<1>9. ControlType
  BY <1>7 DEF Init, ControlType
<1>10. FlagsType
  BY Zenon DEF Init, FlagsType
<1>11. TypeOK
  BY <1>8, <1>9, <1>10, TypeParts
<1>12. StartConsistent
  BY <1>2, <1>3, <1>4, <1>7 DEF StartConsistent
<1>13. ApplyInv
  BY <1>7, FileFacts, IndexFacts DEF ApplyInv
<1>14. /\ TunedInv /\ SavedInv /\ OrderInv /\ WriteInv /\ EndInv
       /\ BackgroundWithinDirty /\ KnobInv /\ KnobsRestored
  BY <1>7 DEF TunedInv, SavedInv, OrderInv, WriteInv, EndInv, Tuning,
              BackgroundWithinDirty, KnobInv, KnobsRestored
<1>15. AbandonedTuned
  BY <1>7 DEF Init, AbandonedTuned, BeforeEnd
<1> QED
  BY <1>11, <1>12, <1>13, <1>14, <1>15 DEF SettingsInv
-----------------------------------------------------------------------------
(* The kernel's rule, setting by setting.                                  *)

LEMMA WriteSettingFacts ==
  ASSUME NumbersType, NEW name \in VmNames, NEW value \in Nat
  PROVE  /\ WriteSetting(name, value) \in [VmNames -> Nat]
         /\ \A n \in VmNames : WriteSetting(name, value)[n] =
              IF n = name THEN value
              ELSE IF n = OtherForm(name) /\ vm[name] # value THEN 0
              ELSE vm[n]
<1> DEFINE after(n) == IF n = name THEN value
                       ELSE IF n = OtherForm(name) /\ vm[name] # value THEN 0
                       ELSE vm[n]
<1>1. \A n \in VmNames : after(n) \in Nat
  BY DEF NumbersType
<1>2. WriteSetting(name, value) = [n \in VmNames |-> after(n)]
  BY DEF WriteSetting
<1> HIDE DEF after
<1>3. WriteSetting(name, value) \in [VmNames -> Nat]
  BY <1>1, <1>2
<1>4. \A n \in VmNames : WriteSetting(name, value)[n] = after(n)
  BY <1>2
<1> QED
  BY <1>3, <1>4 DEF after

\* Writing what is in force already changes nothing.
LEMMA SameValue ==
  ASSUME NumbersType, NEW name \in VmNames
  PROVE  \A n \in VmNames : WriteSetting(name, vm[name])[n] = vm[n]
<1>1. vm[name] \in Nat
  BY DEF NumbersType
<1>2. \A n \in VmNames : WriteSetting(name, vm[name])[n] =
         IF n = name THEN vm[name]
         ELSE IF n = OtherForm(name) /\ vm[name] # vm[name] THEN 0 ELSE vm[n]
  BY <1>1, WriteSettingFacts
<1> QED
  BY <1>2

LEMMA OtherForms ==
  /\ OtherForm("dirty_bytes") = "dirty_ratio"
  /\ OtherForm("dirty_background_bytes") = "dirty_background_ratio"
  /\ OtherForm("dirty_ratio") = "dirty_bytes"
  /\ OtherForm("dirty_background_ratio") = "dirty_background_bytes"
  /\ OtherForm("dirty_expire_centisecs") = "dirty_expire_centisecs"
  /\ OtherForm("dirty_writeback_centisecs") = "dirty_writeback_centisecs"
BY DEF OtherForm
-----------------------------------------------------------------------------
(* The parts of SettingsInv that a step of the main thread which touches    *)
(* neither the settings nor what was saved cannot disturb.                  *)

\* The values the test works with, by name.
LEMMA TunedFacts ==
  /\ Tuned("dirty_bytes") = DirtyBytes
  /\ Tuned("dirty_background_bytes") = BackgroundBytes
  /\ Tuned("dirty_ratio") = 0
  /\ Tuned("dirty_background_ratio") = 0
  /\ Tuned("dirty_expire_centisecs") = Centisecs
  /\ Tuned("dirty_writeback_centisecs") = Centisecs
BY WrittenFacts DEF Tuned

LEMMA TunedWithinDirty ==
  ASSUME TunedInv, pc \in Tuning
  PROVE  vm["dirty_background_bytes"] <= vm["dirty_bytes"]
<1>1. vm["dirty_bytes"] = DirtyBytes /\ vm["dirty_background_bytes"] = BackgroundBytes
  BY TunedFacts DEF TunedInv, VmNames
<1> QED
  BY <1>1

\* Past the joins, and before the end of the try, nothing is abandoned.
Restoring == {"stopLog", "restoreKnobs", "restoreVm", "writeVm", "ended"}

LEMMA NotAbandoned ==
  ASSUME SettingsInv, body' = body,
         \/ pc \in BeforeEnd /\ pc' \in BeforeEnd
         \/ pc \in Restoring /\ pc' \in Restoring
  PROVE  AbandonedTuned'
BY DEF SettingsInv, AbandonedTuned, BeforeEnd, Restoring

LEMMA ApplyVmStep ==
  ASSUME SettingsInv, ApplyVm
  PROVE  SettingsInv'
<1> DEFINE name == VmFiles[i]
<1>1. /\ pc = "applyVm" /\ i \in 1..6
      /\ vmSaved' = [vmSaved EXCEPT ![name] = vm[name]]
      /\ vm' = IF Written(name) THEN WriteSetting(name, TestValue(name)) ELSE vm
      /\ IF i < 6 THEN i' = i + 1 /\ pc' = "applyVm"
                  ELSE i' = 1 /\ pc' = "applyKnobs"
      /\ vmStart' = vmStart /\ knobs' = knobs /\ knobsSaved' = knobsSaved
      /\ order' = order /\ body' = body
  BY FileFacts DEF ApplyVm, SettingsInv, ApplyInv, SetupVars
<1>2. NumbersType /\ ControlType /\ FlagsType
  BY TypeParts DEF SettingsInv
<1>3. name \in VmNames /\ TestValue(name) \in Nat
  BY <1>1, FileFacts, IndexFacts DEF VmNames, TestValue
<1>4. NumbersType'
  <2>1. vm' \in [VmNames -> Nat]
    BY <1>1, <1>2, <1>3, WriteSettingFacts DEF NumbersType
  <2>2. vm[name] \in Nat
    BY <1>2, <1>3 DEF NumbersType
  <2>3. vmSaved' \in [VmNames -> Nat \cup {NoEntry}]
    BY <1>1, <1>2, <1>3, <2>2 DEF NumbersType
  <2> QED
    BY <1>1, <1>2, <2>1, <2>3 DEF NumbersType
<1>5. ControlType'
  BY <1>1, <1>2 DEF ControlType
<1>6. FlagsType'
  <2>1. UNCHANGED <<body, vmError, knobsError>>
    BY DEF ApplyVm, SetupVars
  <2> QED
    BY <1>2, <2>1, Zenon DEF FlagsType
<1>14. AbandonedTuned'
  BY <1>1, NotAbandoned DEF BeforeEnd
<1>7. StartConsistent'
  BY <1>1 DEF StartConsistent, SettingsInv
<1>8. \A n \in VmNames : vmSaved'[n] = IF n = name THEN vm[n] ELSE vmSaved[n]
  BY <1>1, <1>2, <1>3 DEF NumbersType
<1>9. \A n \in VmNames :
         vm'[n] = IF ~Written(name) THEN vm[n]
                  ELSE IF n = name THEN TestValue(name)
                  ELSE IF n = OtherForm(name) /\ vm[name] # TestValue(name) THEN 0
                  ELSE vm[n]
  BY <1>1, <1>2, <1>3, WriteSettingFacts
<1> DEFINE Progress(k) ==
      /\ \A j \in 1..6 : Written(VmFiles[j]) =>
           IF j < k THEN /\ vmSaved[VmFiles[j]] = vmStart[VmFiles[j]]
                         /\ vm[VmFiles[j]] = TestValue(VmFiles[j])
                    ELSE vm[VmFiles[j]] = vmStart[VmFiles[j]]
      /\ vm["dirty_ratio"] = IF k > 1 THEN 0 ELSE vmStart["dirty_ratio"]
      /\ vm["dirty_background_ratio"] =
           IF k > 2 THEN 0 ELSE vmStart["dirty_background_ratio"]
      /\ k > 3 => vmSaved["dirty_ratio"] = 0
      /\ k > 4 => vmSaved["dirty_background_ratio"] = 0
<1>10. Progress(i)
  BY <1>1 DEF SettingsInv, ApplyInv
<1>11. ASSUME NEW k \in 2..7, k = i + 1
       PROVE  Progress(k)'
  <2>1. CASE i = 1
    BY <1>1, <1>8, <1>9, <1>10, <1>11, <2>1, FileFacts, IndexFacts, WrittenFacts,
       OtherForms DEF VmNames, SettingsInv, StartConsistent
  <2>2. CASE i = 2
    BY <1>1, <1>8, <1>9, <1>10, <1>11, <2>2, FileFacts, IndexFacts, WrittenFacts,
       OtherForms DEF VmNames, SettingsInv, StartConsistent
  <2>3. CASE i \in 3..4
    BY <1>1, <1>8, <1>9, <1>10, <1>11, <2>3, FileFacts, IndexFacts, WrittenFacts
       DEF VmNames
  <2>4. CASE i \in 5..6
    BY <1>1, <1>8, <1>9, <1>10, <1>11, <2>4, FileFacts, IndexFacts, WrittenFacts,
       OtherForms DEF VmNames
  <2> QED
    BY <1>1, <2>1, <2>2, <2>3, <2>4
<1>12. CASE i < 6
  <2>1. i' \in 2..6 /\ pc' = "applyVm" /\ i' = i + 1
    BY <1>1, <1>12
  <2>2. ASSUME NEW k \in 2..7, k = i'
        PROVE  Progress(k)'
    BY <1>11, <2>1, <2>2
  <2>3. ApplyInv'
    BY <2>1, <2>2 DEF ApplyInv
  <2>4. /\ TunedInv' /\ SavedInv' /\ OrderInv' /\ WriteInv' /\ EndInv'
        /\ BackgroundWithinDirty' /\ KnobInv' /\ KnobsRestored'
    BY <2>1 DEF TunedInv, SavedInv, OrderInv, WriteInv, EndInv, Tuning,
                BackgroundWithinDirty, KnobInv, KnobsRestored
  <2> QED
    BY <1>4, <1>5, <1>6, <1>7, <1>14, <2>3, <2>4, PrimedParts DEF SettingsInv
<1>13. CASE i = 6
  <2>1. pc' = "applyKnobs" /\ i' = 1
    BY <1>1, <1>13
  <2>2. Progress(7)'
    BY <1>11, <1>13
  <2>3. TunedInv'
    BY <2>2, FileFacts, WrittenFacts, TunedFacts DEF TunedInv, VmNames
  <2>4. SavedInv'
    BY <2>2, FileFacts, WrittenFacts DEF SavedInv, VmNames
  <2>5. /\ ApplyInv' /\ OrderInv' /\ WriteInv' /\ EndInv'
        /\ BackgroundWithinDirty' /\ KnobInv' /\ KnobsRestored'
    BY <2>1 DEF ApplyInv, OrderInv, WriteInv, EndInv, BackgroundWithinDirty,
                KnobInv, KnobsRestored, KnobSet
  <2> QED
    BY <1>4, <1>5, <1>6, <1>7, <1>14, <2>3, <2>4, <2>5, PrimedParts DEF SettingsInv
<1> QED
  BY <1>1, <1>12, <1>13
-----------------------------------------------------------------------------
(* The steps which leave the limits and what was saved of them alone.      *)

LEMMA NumbersKept ==
  ASSUME SettingsInv, UNCHANGED <<vm, vmSaved, vmStart>>
  PROVE  NumbersType' /\ StartConsistent'
BY TypeParts DEF SettingsInv, NumbersType, StartConsistent

\* Between two steps of Tuning nothing is known beyond what was saved and the
\* test's values.
LEMMA TuningKept ==
  ASSUME SettingsInv, UNCHANGED <<vm, vmSaved, vmStart>>,
         pc \in Tuning, pc' \in Tuning
  PROVE  /\ ApplyInv' /\ TunedInv' /\ SavedInv' /\ OrderInv' /\ WriteInv'
         /\ EndInv' /\ BackgroundWithinDirty'
<1>1. pc' # "applyVm" /\ pc' # "writeVm" /\ pc' # "ended"
  BY DEF Tuning
<1>2. ApplyInv' /\ OrderInv' /\ WriteInv' /\ EndInv'
  BY <1>1 DEF ApplyInv, OrderInv, WriteInv, EndInv
<1>3. TunedInv'
  BY DEF SettingsInv, TunedInv
<1>4. SavedInv'
  BY DEF SettingsInv, SavedInv
<1>5. BackgroundWithinDirty'
  BY TunedWithinDirty DEF BackgroundWithinDirty, SettingsInv
<1> QED
  BY <1>2, <1>3, <1>4, <1>5

LEMMA ApplyKnobStep ==
  ASSUME SettingsInv, ApplyKnob
  PROVE  SettingsInv'
<1>1. /\ pc = "applyKnobs" /\ i \in KnobSet
      /\ knobsSaved' = knobsSaved \cup {i}
      /\ knobs' = [knobs EXCEPT ![i] = "test"]
      /\ \/ i < Knobs /\ i' = i + 1 /\ pc' = "applyKnobs"
         \/ ~(i < Knobs) /\ i' = 1 /\ pc' = "startLog"
      /\ UNCHANGED <<vm, vmSaved, vmStart, order, body>>
  BY DEF ApplyKnob, SettingsInv, KnobInv, SetupVars
<1>2. ControlType
  BY TypeParts DEF SettingsInv
<1>3. i' \in KnobSet
  BY <1>1 DEF KnobSet
<1>4. ControlType'
  BY <1>1, <1>2, <1>3 DEF ControlType
<1>5. FlagsType'
  BY TypeParts, Zenon DEF ApplyKnob, SetupVars, FlagsType, SettingsInv
<1>6. pc \in Tuning /\ pc' \in Tuning
  BY <1>1 DEF Tuning
<1>7. \A k \in KnobSet : k < i + 1 => knobs'[k] = "test"
  <2> SUFFICES ASSUME NEW k \in KnobSet, k < i + 1
               PROVE  knobs'[k] = "test"
    OBVIOUS
  <2>1. k = i \/ k < i
    BY <1>1 DEF KnobSet
  <2>2. k < i => knobs[k] = "test"
    BY <1>1 DEF SettingsInv, KnobInv
  <2> QED
    BY <1>1, <1>2, <2>1, <2>2 DEF ControlType
<1>8. KnobInv'
  <2>1. CASE i < Knobs /\ i' = i + 1 /\ pc' = "applyKnobs"
    BY <2>1, <1>3, <1>7 DEF KnobInv
  <2>2. CASE ~(i < Knobs) /\ i' = 1 /\ pc' = "startLog"
    <3>1. \A k \in KnobSet : knobs'[k] = "test"
      BY <1>1, <2>2, <1>7 DEF KnobSet
    <3> QED
      BY <2>2, <3>1 DEF KnobInv
  <2> QED
    BY <1>1, <2>1, <2>2
<1>9. KnobsRestored' /\ AbandonedTuned'
  BY <1>1, NotAbandoned DEF KnobsRestored, BeforeEnd
<1> QED
  BY <1>1, <1>4, <1>5, <1>6, <1>8, <1>9, NumbersKept, TuningKept, PrimedParts
     DEF SettingsInv

LEMMA StartLogStep ==
  ASSUME SettingsInv, StartLog
  PROVE  SettingsInv'
<1>1. /\ pc = "startLog" /\ pc' = "body"
      /\ UNCHANGED <<vm, vmSaved, vmStart, order, knobs, knobsSaved, i, body>>
  BY DEF StartLog, SetupVars
<1>2. ControlType'
  BY <1>1, TypeParts DEF SettingsInv, ControlType
<1>3. FlagsType'
  BY TypeParts, Zenon DEF StartLog, SetupVars, FlagsType, SettingsInv
<1>4. pc \in Tuning /\ pc' \in Tuning
  BY <1>1 DEF Tuning
<1>5. KnobInv' /\ KnobsRestored'
  BY <1>1 DEF KnobInv, KnobsRestored, SettingsInv
<1>6. AbandonedTuned'
  BY <1>1, NotAbandoned DEF BeforeEnd
<1> QED
  BY <1>1, <1>2, <1>3, <1>4, <1>5, <1>6, NumbersKept, TuningKept, PrimedParts
     DEF SettingsInv

LEMMA SetupRaisesStep ==
  ASSUME SettingsInv, SetupRaises
  PROVE  SettingsInv'
<1>1. /\ pc \in BeforeEnd /\ pc' = "setupFailed"
      /\ UNCHANGED <<vm, vmSaved, vmStart, order, knobs, knobsSaved, i, body>>
  BY DEF SetupRaises, SetupVars, BeforeEnd
<1>2. ControlType'
  BY <1>1, TypeParts DEF SettingsInv, ControlType
<1>3. FlagsType'
  BY TypeParts, Zenon DEF SetupRaises, SetupVars, FlagsType, SettingsInv
<1>4. /\ ApplyInv' /\ TunedInv' /\ SavedInv' /\ OrderInv' /\ WriteInv' /\ EndInv'
      /\ BackgroundWithinDirty' /\ KnobInv' /\ KnobsRestored'
  BY <1>1 DEF ApplyInv, TunedInv, SavedInv, OrderInv, WriteInv, EndInv, Tuning,
              BackgroundWithinDirty, KnobInv, KnobsRestored
<1>5. AbandonedTuned'
  BY <1>1, NotAbandoned DEF BeforeEnd
<1> QED
  BY <1>1, <1>2, <1>3, <1>4, <1>5, NumbersKept, PrimedParts DEF SettingsInv

LEMMA BodyStep ==
  ASSUME SettingsInv, Body \/ StartRaises \/ JoinThreads
  PROVE  SettingsInv'
<1>1. /\ \/ pc = "body" /\ pc' = "join"
         \/ pc = "join" /\ body # "notStarted" /\ pc' = "stopLog" /\ body' = body
      /\ body' \in {body, "returned", "raised", "notStarted"}
      /\ UNCHANGED AfterBody
  BY DEF Body, StartRaises, JoinThreads
<1>2. /\ pc \in {"body", "join"} /\ pc' \in {"join", "stopLog"}
      /\ UNCHANGED <<vm, vmSaved, vmStart, order, knobs, knobsSaved, i, vmError, knobsError>>
  BY <1>1 DEF AfterBody
<1>3. ControlType'
  BY <1>2, TypeParts DEF SettingsInv, ControlType
<1>4. FlagsType'
  BY <1>1, <1>2, TypeParts, Zenon DEF FlagsType, SettingsInv
<1>5. pc \in Tuning /\ pc' \in Tuning
  BY <1>2 DEF Tuning
<1>6. KnobInv' /\ KnobsRestored'
  BY <1>2 DEF KnobInv, KnobsRestored, SettingsInv
<1>7. AbandonedTuned'
  <2>1. body \in {"running", "returned", "raised", "notStarted"}
    BY TypeParts DEF SettingsInv, FlagsType
  <2>2. pc = "join" => body # "running" /\ (body = "notStarted" => Faults)
    BY DEF SettingsInv, AbandonedTuned, BeforeEnd
  <2>3. pc = "body" => body' \in {"returned", "raised"} \/ (body' = "notStarted" /\ Faults)
    BY DEF Body, StartRaises, JoinThreads
  <2> QED
    BY <1>1, <1>2, <2>1, <2>2, <2>3 DEF AbandonedTuned, BeforeEnd
<1> QED
  BY <1>2, <1>3, <1>4, <1>5, <1>6, <1>7, NumbersKept, TuningKept, PrimedParts
     DEF SettingsInv

LEMMA CleanupLeftStep ==
  ASSUME SettingsInv, CleanupLeft
  PROVE  SettingsInv'
<1>1. /\ pc \in {"join", "stopLog", "restoreKnobs", "restoreVm"} /\ pc' = "abandoned"
      /\ UNCHANGED <<vm, vmSaved, vmStart, order, knobs, knobsSaved, i, vmError, knobsError,
                     body>>
  BY DEF CleanupLeft, AfterBody
<1>2. ControlType'
  BY <1>1, TypeParts DEF SettingsInv, ControlType
<1>3. FlagsType'
  BY <1>1, TypeParts, Zenon DEF FlagsType, SettingsInv
<1>4. pc \in Tuning /\ pc' \in Tuning
  BY <1>1 DEF Tuning
<1>5. KnobInv' /\ KnobsRestored'
  BY <1>1 DEF KnobInv, KnobsRestored
<1>7. /\ body # "running"
      /\ body = "notStarted" => pc = "join" /\ Faults
  BY <1>1 DEF SettingsInv, AbandonedTuned, BeforeEnd
<1>9. Faults
  BY <1>7, Zenon DEF CleanupLeft
<1>10. body' = "notStarted" => \A k \in KnobSet : knobs'[k] = "test"
  BY <1>1, <1>7 DEF SettingsInv, KnobInv
<1>11. \A n \in VmNames : vm'[n] = Tuned(n)
  BY <1>1, <1>4 DEF SettingsInv, TunedInv
<1>12. AbandonedTuned'
  BY <1>1, <1>7, <1>9, <1>10, <1>11 DEF AbandonedTuned, BeforeEnd
<1> QED
  BY <1>1, <1>2, <1>3, <1>4, <1>5, <1>12, NumbersKept, TuningKept, PrimedParts
     DEF SettingsInv

LEMMA StopLogStep ==
  ASSUME SettingsInv, StopLog
  PROVE  SettingsInv'
<1>1. /\ pc = "stopLog" /\ pc' = "restoreKnobs" /\ i' = 1
      /\ UNCHANGED <<vm, vmSaved, vmStart, order, knobs, knobsSaved, body>>
  BY DEF StopLog, AfterLog
<1>2. ControlType'
  BY <1>1, TypeParts DEF SettingsInv, ControlType
<1>3. FlagsType'
  BY TypeParts, Zenon DEF StopLog, FlagsType, SettingsInv
<1>4. pc \in Tuning /\ pc' \in Tuning
  BY <1>1 DEF Tuning
<1>5. KnobInv' /\ KnobsRestored'
  BY <1>1 DEF KnobInv, KnobsRestored, KnobSet
<1>6. AbandonedTuned'
  BY <1>1, NotAbandoned DEF Restoring
<1> QED
  BY <1>1, <1>2, <1>3, <1>4, <1>5, <1>6, NumbersKept, TuningKept, PrimedParts
     DEF SettingsInv

LEMMA RestoreKnobStep ==
  ASSUME SettingsInv, RestoreKnob
  PROVE  SettingsInv'
<1>1. /\ pc = "restoreKnobs" /\ i \in KnobSet
      /\ knobs' = [knobs EXCEPT ![i] = "original"]
      /\ \/ i < Knobs /\ i' = i + 1 /\ pc' = "restoreKnobs"
         \/ ~(i < Knobs) /\ i' = 1 /\ pc' = "restoreVm"
      /\ UNCHANGED <<vm, vmSaved, vmStart, order, knobsSaved, body>>
  BY DEF RestoreKnob, SettingsInv, KnobInv
<1>2. ControlType
  BY TypeParts DEF SettingsInv
<1>3. i' \in KnobSet
  BY <1>1 DEF KnobSet
<1>4. ControlType'
  BY <1>1, <1>2, <1>3 DEF ControlType
<1>5. FlagsType'
  BY TypeParts, Zenon DEF RestoreKnob, FlagsType, SettingsInv
<1>6. pc \in Tuning /\ pc' \in Tuning
  BY <1>1 DEF Tuning
<1>7. \A k \in KnobSet : k < i + 1 => knobs'[k] = "original"
  <2> SUFFICES ASSUME NEW k \in KnobSet, k < i + 1
               PROVE  knobs'[k] = "original"
    OBVIOUS
  <2>1. k = i \/ k < i
    BY <1>1 DEF KnobSet
  <2>2. k < i => knobs[k] = "original"
    BY <1>1 DEF SettingsInv, KnobInv
  <2> QED
    BY <1>1, <1>2, <2>1, <2>2 DEF ControlType
<1>8. KnobInv'
  <2>1. CASE i < Knobs /\ i' = i + 1 /\ pc' = "restoreKnobs"
    BY <2>1, <1>3, <1>7 DEF KnobInv
  <2>2. CASE ~(i < Knobs) /\ i' = 1 /\ pc' = "restoreVm"
    <3>1. \A k \in KnobSet : knobs'[k] = "original"
      BY <1>1, <2>2, <1>7 DEF KnobSet
    <3> QED
      BY <2>2, <3>1 DEF KnobInv
  <2> QED
    BY <1>1, <2>1, <2>2
<1>9. KnobsRestored'
  BY <1>1 DEF KnobsRestored
<1>10. AbandonedTuned'
  BY <1>1, NotAbandoned DEF Restoring
<1> QED
  BY <1>1, <1>4, <1>5, <1>6, <1>8, <1>9, <1>10, NumbersKept, TuningKept, PrimedParts
     DEF SettingsInv

LEMMA RestoreKnobRaisesStep ==
  ASSUME SettingsInv, RestoreKnobRaises
  PROVE  SettingsInv'
<1>1. /\ pc = "restoreKnobs" /\ pc' = "restoreVm"
      /\ UNCHANGED <<vm, vmSaved, vmStart, order, knobs, knobsSaved, i, body>>
  BY DEF RestoreKnobRaises
<1>2. ControlType'
  BY <1>1, TypeParts DEF SettingsInv, ControlType
<1>3. knobsError' = TRUE
  BY DEF RestoreKnobRaises
<1>4. FlagsType'
  BY <1>3, TypeParts, Zenon DEF RestoreKnobRaises, FlagsType, SettingsInv
<1>5. pc \in Tuning /\ pc' \in Tuning
  BY <1>1 DEF Tuning
<1>6. KnobInv' /\ KnobsRestored'
  BY <1>1, <1>3 DEF KnobInv, KnobsRestored
<1>7. AbandonedTuned'
  BY <1>1, NotAbandoned DEF Restoring
<1> QED
  BY <1>1, <1>2, <1>4, <1>5, <1>6, <1>7, NumbersKept, TuningKept, PrimedParts
     DEF SettingsInv
-----------------------------------------------------------------------------
(* VmDirtyTuning.restore.                                                  *)

RestoreOrders == {"bgRatioFirst", "bgFirst", "dirtyFirst"}

LEMMA LimitFacts ==
  /\ LimitsIn("bgRatioFirst") = <<"dirty_background_ratio", "dirty_ratio">>
  /\ LimitsIn("bgFirst") = <<"dirty_background_bytes", "dirty_bytes">>
  /\ LimitsIn("dirtyFirst") = <<"dirty_bytes", "dirty_background_bytes">>
BY DEF LimitsIn

LEMMA RestoredFacts ==
  /\ RestoredFile("bgRatioFirst", 1) = "dirty_background_ratio"
  /\ RestoredFile("bgRatioFirst", 2) = "dirty_ratio"
  /\ RestoredFile("bgFirst", 1) = "dirty_background_bytes"
  /\ RestoredFile("bgFirst", 2) = "dirty_bytes"
  /\ RestoredFile("dirtyFirst", 1) = "dirty_bytes"
  /\ RestoredFile("dirtyFirst", 2) = "dirty_background_bytes"
  /\ \A branch \in RestoreOrders :
       /\ RestoredFile(branch, 3) = "dirty_expire_centisecs"
       /\ RestoredFile(branch, 4) = "dirty_writeback_centisecs"
BY LimitFacts DEF RestoredFile

LEMMA WrittenBeforeNext ==
  ASSUME NEW k \in 1..4, order \in RestoreOrders
  PROVE  WrittenBefore(k + 1) = WrittenBefore(k) \cup {RestoredFile(order, k)}
BY DEF WrittenBefore

\* What HalfRestored says of the two limits in bytes, whatever was restored.
HalfWithin ==
  \A k \in 1..5 :
    /\ HalfRestored(k) /\ StartConsistent /\ OrderChosen /\ SavedInv
    /\ NumbersType /\ pc \in {"writeVm", "ended"}
    /\ vm["dirty_bytes"] # 0
    => vm["dirty_background_bytes"] <= vm["dirty_bytes"]

LEMMA HalfWithinDirty == HalfWithin
<1> SUFFICES
      ASSUME NEW k \in 1..5, HalfRestored(k), StartConsistent, OrderChosen, SavedInv,
             NumbersType, pc \in {"writeVm", "ended"}, vm["dirty_bytes"] # 0
      PROVE  vm["dirty_background_bytes"] <= vm["dirty_bytes"]
  BY DEF HalfWithin
<1> DEFINE limit == vmSaved["dirty_bytes"]
           background == vmSaved["dirty_background_bytes"]
<1>1. limit = vmStart["dirty_bytes"] /\ background = vmStart["dirty_background_bytes"]
  BY WrittenFacts DEF SavedInv, VmNames
<1>2. limit \in Nat /\ background \in Nat
  BY <1>1 DEF NumbersType, VmNames
<1>3. limit = 0 \/ background <= limit
  BY <1>1 DEF StartConsistent
<1>4. vm["dirty_bytes"] = limit \/ vm["dirty_bytes"] = DirtyBytes
  BY TunedFacts DEF HalfRestored, VmNames
<1>5. /\ vm["dirty_background_bytes"] = background
      \/ vm["dirty_background_bytes"] = BackgroundBytes
  BY TunedFacts DEF HalfRestored, VmNames
<1>6. CASE order = "bgRatioFirst"
  <2>1. \A j \in 1..(k - 1) : RestoredFile(order, j) # "dirty_bytes"
                          /\ RestoredFile(order, j) # "dirty_background_bytes"
    BY <1>6, RestoredFacts, IndexFacts DEF RestoreOrders
  <2>2. vm["dirty_bytes"] = DirtyBytes /\ vm["dirty_background_bytes"] = BackgroundBytes
    BY <2>1, TunedFacts DEF HalfRestored, WrittenBefore, VmNames
  <2> QED
    BY <2>2
<1>7. CASE order = "bgFirst"
  <2>1. background <= DirtyBytes
    BY <1>7 DEF OrderChosen
  <2>2. CASE k \in 3..5
    <3>1. "dirty_bytes" \in WrittenBefore(k)
      BY <1>7, <2>2, RestoredFacts DEF WrittenBefore
    <3>2. "dirty_background_bytes" \in WrittenBefore(k)
      BY <1>7, <2>2, RestoredFacts DEF WrittenBefore
    <3> QED
      BY <1>3, <3>1, <3>2 DEF HalfRestored, VmNames
  <2>3. CASE k \in 1..2
    <3>1. "dirty_bytes" \notin WrittenBefore(k)
      BY <1>7, <2>3, RestoredFacts DEF WrittenBefore
    <3>2. vm["dirty_bytes"] = DirtyBytes
      BY <3>1, TunedFacts DEF HalfRestored, VmNames
    <3> QED
      BY <1>5, <2>1, <3>2
  <2> QED
    BY <2>2, <2>3
<1>8. CASE order = "dirtyFirst"
  <2>1. background > DirtyBytes
    BY <1>8 DEF OrderChosen
  <2>2. CASE k \in 2..5
    <3>1. "dirty_bytes" \in WrittenBefore(k)
      BY <1>8, <2>2, RestoredFacts DEF WrittenBefore
    <3>2. vm["dirty_bytes"] = limit
      BY <3>1 DEF HalfRestored, VmNames
    <3> QED
      BY <1>2, <1>3, <1>5, <2>1, <3>2
  <2>3. CASE k = 1
    <3>1. WrittenBefore(k) = {}
      BY <2>3 DEF WrittenBefore
    <3>2. vm["dirty_bytes"] = DirtyBytes /\ vm["dirty_background_bytes"] = BackgroundBytes
      BY <3>1, TunedFacts DEF HalfRestored, VmNames
    <3> QED
      BY <3>2
  <2> QED
    BY <2>2, <2>3
<1> QED
  BY <1>6, <1>7, <1>8 DEF OrderChosen

LEMMA RestoreVmStep ==
  ASSUME SettingsInv, RestoreVm
  PROVE  SettingsInv'
<1>1. /\ pc = "restoreVm"
      /\ \/ vmError' = TRUE /\ pc' = "ended" /\ i' = i /\ order' = order
         \/ /\ order' = ChosenOrder /\ i' = 1 /\ pc' = "writeVm"
            /\ vmError' = vmError
      /\ UNCHANGED <<vm, vmSaved, vmStart, knobs, knobsSaved, knobsError, body>>
  BY DEF RestoreVm
<1>2. pc \in Tuning
  BY <1>1 DEF Tuning
<1>3. /\ vm["dirty_bytes"] = DirtyBytes
      /\ vmSaved["dirty_ratio"] = 0 /\ vmSaved["dirty_background_ratio"] = 0
  BY <1>2, TunedFacts, WrittenFacts DEF SettingsInv, TunedInv, SavedInv, VmNames
<1>4. NumbersType
  BY TypeParts DEF SettingsInv
<1>5. ChosenOrder = IF SavedInRatioForm THEN "bgRatioFirst"
                    ELSE IF vmSaved["dirty_background_bytes"] <= DirtyBytes
                         THEN "bgFirst" ELSE "dirtyFirst"
  BY <1>3 DEF ChosenOrder
<1>6. ControlType'
  BY <1>1, <1>5, TypeParts DEF SettingsInv, ControlType
<1>7. FlagsType'
  <2>1. UNCHANGED <<body, knobsError>> /\ (vmError' = TRUE \/ vmError' = vmError)
    BY DEF RestoreVm
  <2> QED
    BY <2>1, TypeParts, Zenon DEF FlagsType, SettingsInv
<1>8. ApplyInv' /\ TunedInv'
  BY <1>1 DEF ApplyInv, TunedInv, Tuning
<1>9. SavedInv'
  BY <1>1, <1>2 DEF SettingsInv, SavedInv
<1>10. OrderInv'
  <2>1. CASE vmError' = TRUE /\ pc' = "ended"
    BY <2>1 DEF OrderInv
  <2>2. CASE order' = ChosenOrder /\ pc' = "writeVm"
    <3>1. SavedInRatioForm' <=> SavedInRatioForm
      BY <1>1 DEF SavedInRatioForm
    <3>2. vmSaved'["dirty_background_bytes"] \in Nat
      BY <1>1, <1>2, <1>4, WrittenFacts
         DEF SettingsInv, SavedInv, NumbersType, VmNames
    <3> QED
      BY <1>1, <1>5, <2>2, <3>1, <3>2 DEF OrderInv, OrderChosen
  <2> QED
    BY <1>1, <2>1, <2>2
<1>11. WriteInv' /\ EndInv'
  <2>1. CASE vmError' = TRUE /\ pc' = "ended"
    BY <2>1 DEF WriteInv, EndInv
  <2>2. CASE i' = 1 /\ pc' = "writeVm"
    <3>1. WrittenBefore(1)' = {}
      BY DEF WrittenBefore
    <3>2. HalfRestored(1)'
      BY <1>1, <1>2, <3>1 DEF HalfRestored, SettingsInv, TunedInv, Tuned,
                              Written, TestValue
    <3>3. EndInv'
      BY <2>2 DEF EndInv
    <3>4. WriteInv'
      BY <2>2, <3>2 DEF WriteInv, HalfRestored, WrittenBefore
    <3> QED
      BY <3>3, <3>4
  <2> QED
    BY <1>1, <2>1, <2>2
<1>12. BackgroundWithinDirty'
  BY <1>1, <1>2, TunedWithinDirty DEF BackgroundWithinDirty, SettingsInv
<1>13. KnobInv' /\ KnobsRestored'
  BY <1>1 DEF KnobInv, KnobsRestored, SettingsInv
<1>14. AbandonedTuned'
  BY <1>1, NotAbandoned DEF Restoring
<1> QED
  BY <1>1, <1>6, <1>7, <1>8, <1>9, <1>10, <1>11, <1>12, <1>13, <1>14, NumbersKept,
     PrimedParts DEF SettingsInv

\* The same after a step.
LEMMA HalfWithinDirtyAfter == HalfWithin'
BY HalfWithinDirty, PTL

\* A write of restore puts one more setting back and disturbs no other.
LEMMA OneMoreRestored ==
  ASSUME SettingsInv, pc = "writeVm", NEW k \in 1..4, k = i,
         ~Refused(RestoredFile(order, k), vmSaved[RestoredFile(order, k)]),
         vm' = WriteSetting(RestoredFile(order, k), vmSaved[RestoredFile(order, k)]),
         UNCHANGED <<order, vmSaved, vmStart>>
  PROVE  HalfRestored(k + 1)' /\ vm' \in [VmNames -> Nat]
<1> DEFINE name == RestoredFile(order, k)
<1>1. order \in RestoreOrders
  BY DEF SettingsInv, OrderInv, OrderChosen, RestoreOrders
<1>2. name \in VmNames
  BY <1>1, RestoredFacts, IndexFacts DEF RestoreOrders, VmNames
<1>3. NumbersType
  BY TypeParts DEF SettingsInv
<1>4. HalfRestored(k)
  BY DEF SettingsInv, WriteInv
<1>5. \A n \in VmNames : vmSaved[n] = IF Written(n) THEN vmStart[n] ELSE 0
  BY DEF SettingsInv, SavedInv
<1>6. vmSaved[name] \in Nat
  BY <1>2, <1>3, <1>5 DEF NumbersType
<1>7. /\ vm' \in [VmNames -> Nat]
      /\ \A n \in VmNames :
           vm'[n] = IF n = name THEN vmSaved[name]
                    ELSE IF n = OtherForm(name) /\ vm[name] # vmSaved[name] THEN 0
                    ELSE vm[n]
  BY <1>2, <1>3, <1>6, WriteSettingFacts
<1>8. WrittenBefore(k + 1)' = WrittenBefore(k) \cup {name}
  <2>1. WrittenBefore(k + 1)' = WrittenBefore(k + 1)
    BY DEF WrittenBefore
  <2> QED
    BY <1>1, <2>1, WrittenBeforeNext
<1>9. name \notin WrittenBefore(k)
  BY <1>1, RestoredFacts, IndexFacts DEF RestoreOrders, WrittenBefore
<1>10. vm[name] = Tuned(name)
  BY <1>2, <1>4, <1>9 DEF HalfRestored
<1>11. \A n \in VmNames \ {name} : vm'[n] = vm[n]
  <2>1. CASE name \in {"dirty_bytes", "dirty_background_bytes"}
    <3>1. /\ name = "dirty_bytes" => OtherForm(name) = "dirty_ratio"
          /\ name = "dirty_background_bytes" => OtherForm(name) = "dirty_background_ratio"
      BY OtherForms
    <3>2. order # "bgRatioFirst"
      BY <2>1, RestoredFacts, IndexFacts DEF RestoreOrders
    <3>3. /\ "dirty_ratio" \notin WrittenBefore(k)
          /\ "dirty_background_ratio" \notin WrittenBefore(k)
      BY <1>1, <3>2, RestoredFacts, IndexFacts DEF RestoreOrders, WrittenBefore
    <3>4. vm["dirty_ratio"] = 0 /\ vm["dirty_background_ratio"] = 0
      BY <1>4, <3>3, TunedFacts DEF HalfRestored, VmNames
    <3> QED
      BY <1>7, <2>1, <3>1, <3>4
  <2>2. CASE name \in {"dirty_ratio", "dirty_background_ratio"}
    <3>1. vmSaved[name] = 0 /\ Tuned(name) = 0
      BY <1>5, <2>2, TunedFacts, WrittenFacts DEF VmNames
    <3> QED
      BY <1>7, <1>10, <3>1
  <2>3. CASE name \in {"dirty_expire_centisecs", "dirty_writeback_centisecs"}
    <3>1. OtherForm(name) = name
      BY <2>3, OtherForms
    <3> QED
      BY <1>7, <3>1
  <2> QED
    BY <1>2, <2>1, <2>2, <2>3 DEF VmNames
<1>12. vm'[name] = vmSaved[name]
  BY <1>2, <1>7
<1>13. \A n \in VmNames :
         IF n \in WrittenBefore(k + 1)'
         THEN vm'[n] = vmSaved'[n] /\ ~Refused(n, vm'[n])
         ELSE vm'[n] = Tuned(n)
  <2> SUFFICES ASSUME NEW n \in VmNames
               PROVE  IF n \in WrittenBefore(k + 1)'
                      THEN vm'[n] = vmSaved'[n] /\ ~Refused(n, vm'[n])
                      ELSE vm'[n] = Tuned(n)
    OBVIOUS
  <2>1. CASE n = name
    BY <1>8, <1>12, <2>1
  <2>2. CASE n # name
    <3>1. vm'[n] = vm[n]
      BY <1>11, <2>2
    <3>2. n \in WrittenBefore(k + 1)' <=> n \in WrittenBefore(k)
      BY <1>8, <2>2
    <3> QED
      BY <1>4, <3>1, <3>2 DEF HalfRestored
  <2> QED
    BY <2>1, <2>2
<1>14. HalfRestored(k + 1)'
  BY <1>13 DEF HalfRestored, Tuned, Written, TestValue, Refused
<1> QED
  BY <1>7, <1>14

LEMMA WriteVmStep ==
  ASSUME SettingsInv, WriteVm
  PROVE  SettingsInv'
<1> DEFINE name == RestoredFile(order, i)
<1>1. /\ pc = "writeVm" /\ i \in 1..4
      /\ UNCHANGED <<vmSaved, vmStart, knobs, knobsSaved, order, knobsError,
                     body>>
  BY DEF WriteVm, SettingsInv, WriteInv
<1>2. TypeOK /\ NumbersType /\ ControlType /\ FlagsType
  BY TypeParts DEF SettingsInv
<1>3. StartConsistent'
  BY <1>1 DEF SettingsInv, StartConsistent
<1>6. AbandonedTuned'
  <2>1. pc' \in Restoring
    BY <1>1 DEF WriteVm, Restoring
  <2> QED
    BY <1>1, <2>1, NotAbandoned DEF Restoring
<1>4. CASE Refused(name, vmSaved[name])
  <2>1. vmError' = TRUE /\ pc' = "ended" /\ UNCHANGED <<vm, i>>
    BY <1>4 DEF WriteVm
  <2>2. NumbersType'
    BY <1>1, <1>2, <2>1 DEF NumbersType
  <2>3. ControlType'
    BY <1>1, <1>2, <2>1 DEF ControlType
  <2>4. FlagsType'
    BY <1>1, <1>2, <2>1, Zenon DEF FlagsType
  <2>5. /\ ApplyInv' /\ TunedInv' /\ OrderInv' /\ WriteInv' /\ EndInv'
    BY <2>1 DEF ApplyInv, TunedInv, OrderInv, WriteInv, EndInv, Tuning
  <2>6. SavedInv' /\ BackgroundWithinDirty' /\ KnobInv' /\ KnobsRestored'
    BY <1>1, <2>1 DEF SettingsInv, SavedInv, BackgroundWithinDirty, KnobInv,
                      KnobsRestored
  <2> QED
    BY <1>3, <1>6, <2>2, <2>3, <2>4, <2>5, <2>6, PrimedParts DEF SettingsInv
<1>5. CASE ~Refused(name, vmSaved[name])
  <2>1. /\ vm' = WriteSetting(name, vmSaved[name])
        /\ i' = i + 1 /\ pc' = IF i < 4 THEN "writeVm" ELSE "ended"
        /\ vmError' = vmError
    BY <1>1, <1>5 DEF WriteVm
  <2>2. ASSUME NEW k \in 1..4, k = i
        PROVE  HalfRestored(k + 1)' /\ vm' \in [VmNames -> Nat]
    BY <1>1, <1>5, <2>1, <2>2, OneMoreRestored
  <2>3. NumbersType'
    BY <1>1, <1>2, <2>2 DEF NumbersType
  <2>4. ControlType'
    BY <1>1, <1>2, <2>1 DEF ControlType
  <2>5. FlagsType'
    BY <1>1, <1>2, <2>1, Zenon DEF FlagsType
  <2>6. ApplyInv' /\ TunedInv'
    BY <2>1 DEF ApplyInv, TunedInv, Tuning
  <2>7. SavedInv'
    BY <1>1, <2>1 DEF SettingsInv, SavedInv
  <2>8. OrderChosen' /\ OrderInv'
    <3>1. OrderChosen'
      BY <1>1 DEF SettingsInv, OrderInv, OrderChosen, SavedInRatioForm
    <3> QED
      BY <3>1 DEF OrderInv
  <2>9. WriteInv' /\ EndInv'
    <3>1. CASE i < 4
      <4>1. i' \in 2..4 /\ pc' = "writeVm"
        BY <1>1, <2>1, <3>1
      <4>2. ASSUME NEW k \in 1..4, k = i'
            PROVE  HalfRestored(k)'
        <5>1. k - 1 \in 1..4 /\ k - 1 = i /\ (k - 1) + 1 = k
          BY <1>1, <2>1, <4>1, <4>2
        <5> QED
          BY <2>2, <5>1
      <4>3. WriteInv'
        BY <4>1, <4>2 DEF WriteInv
      <4> QED
        BY <4>1, <4>3 DEF EndInv
    <3>2. CASE i = 4
      <4>1. HalfRestored(5)'
        BY <2>2, <3>2
      <4> QED
        BY <2>1, <3>2, <4>1 DEF EndInv, WriteInv
    <3> QED
      BY <1>1, <3>1, <3>2
  <2>10. BackgroundWithinDirty'
    <3>1. pc' \in {"writeVm", "ended"}
      BY <2>1
    <3>2. \E k \in 1..5 : HalfRestored(k)'
      <4>1. i + 1 \in 1..5
        BY <1>1
      <4>2. ASSUME NEW k \in 1..4, k = i
            PROVE  k + 1 \in 1..5 /\ HalfRestored(k + 1)'
        BY <2>2, <4>2
      <4> QED
        BY <1>1, <4>2
    <3>3. vm'["dirty_bytes"] # 0 =>
            vm'["dirty_background_bytes"] <= vm'["dirty_bytes"]
      BY <1>3, <2>3, <2>7, <2>8, <3>1, <3>2, HalfWithinDirtyAfter DEF HalfWithin
    <3> QED
      BY <3>3 DEF BackgroundWithinDirty
  <2>11. KnobInv' /\ KnobsRestored'
    BY <1>1, <2>1 DEF SettingsInv, KnobInv, KnobsRestored
  <2> QED
    BY <1>3, <1>6, <2>3, <2>4, <2>5, <2>6, <2>7, <2>8, <2>9, <2>10, <2>11, PrimedParts
       DEF SettingsInv
<1> QED
  BY <1>4, <1>5

LEMMA RestoreVmRaisesStep ==
  ASSUME SettingsInv, RestoreVmRaises
  PROVE  SettingsInv'
<1>1. /\ pc \in {"restoreVm", "writeVm"} /\ pc' = "ended" /\ vmError' = TRUE
      /\ UNCHANGED <<vm, vmSaved, vmStart, order, knobs, knobsSaved, i,
                     knobsError, body>>
  BY DEF RestoreVmRaises
<1>2. ControlType'
  BY <1>1, TypeParts DEF SettingsInv, ControlType
<1>3. FlagsType'
  BY <1>1, TypeParts, Zenon DEF FlagsType, SettingsInv
<1>4. /\ ApplyInv' /\ TunedInv' /\ OrderInv' /\ WriteInv' /\ EndInv'
  BY <1>1 DEF ApplyInv, TunedInv, OrderInv, WriteInv, EndInv, Tuning
<1>5. SavedInv' /\ BackgroundWithinDirty'
  BY <1>1 DEF SettingsInv, SavedInv, BackgroundWithinDirty, Tuning
<1>6. KnobInv' /\ KnobsRestored'
  BY <1>1 DEF SettingsInv, KnobInv, KnobsRestored
<1>7. AbandonedTuned'
  BY <1>1, NotAbandoned DEF Restoring
<1> QED
  BY <1>1, <1>2, <1>3, <1>4, <1>5, <1>6, <1>7, NumbersKept, PrimedParts DEF SettingsInv

LEMMA Stutter ==
  ASSUME SettingsInv, UNCHANGED vars
  PROVE  SettingsInv'
<1>1. UNCHANGED <<vm, vmSaved, knobs, knobsSaved, pc, i, order, body,
                  vmError, knobsError, vmStart>>
  BY DEF vars
<1>2. NumbersType' /\ ControlType' /\ FlagsType'
  <2>1. NumbersType'
    BY <1>1, TypeParts DEF SettingsInv, NumbersType
  <2>2. ControlType'
    BY <1>1, TypeParts DEF SettingsInv, ControlType
  <2>3. FlagsType'
    BY <1>1, TypeParts, Zenon DEF SettingsInv, FlagsType
  <2> QED
    BY <2>1, <2>2, <2>3
<1>3. StartConsistent' /\ ApplyInv' /\ TunedInv' /\ SavedInv'
  BY <1>1 DEF SettingsInv, StartConsistent, ApplyInv, TunedInv, SavedInv
<1>4. OrderInv'
  BY <1>1 DEF SettingsInv, OrderInv, OrderChosen, SavedInRatioForm
<1>5. WriteInv' /\ EndInv'
  BY <1>1 DEF SettingsInv, WriteInv, EndInv, HalfRestored, WrittenBefore
<1>6. BackgroundWithinDirty' /\ KnobInv' /\ KnobsRestored' /\ AbandonedTuned'
  BY <1>1 DEF SettingsInv, BackgroundWithinDirty, KnobInv, KnobsRestored, AbandonedTuned
<1> QED
  BY <1>2, <1>3, <1>4, <1>5, <1>6, PrimedParts DEF SettingsInv

LEMMA NextKeeps == SettingsInv /\ [Next]_vars => SettingsInv'
<1> SUFFICES ASSUME SettingsInv, [Next]_vars
             PROVE  SettingsInv'
  OBVIOUS
<1>1. CASE ApplyVm
  BY <1>1, ApplyVmStep
<1>2. CASE ApplyKnob
  BY <1>2, ApplyKnobStep
<1>3. CASE StartLog
  BY <1>3, StartLogStep
<1>4. CASE SetupRaises
  BY <1>4, SetupRaisesStep
<1>5. CASE Body \/ StartRaises \/ JoinThreads
  BY <1>5, BodyStep
<1>14. CASE CleanupLeft
  BY <1>14, CleanupLeftStep
<1>6. CASE StopLog
  BY <1>6, StopLogStep
<1>7. CASE RestoreKnob
  BY <1>7, RestoreKnobStep
<1>8. CASE RestoreKnobRaises
  BY <1>8, RestoreKnobRaisesStep
<1>9. CASE RestoreVm
  BY <1>9, RestoreVmStep
<1>10. CASE WriteVm
  BY <1>10, WriteVmStep
<1>11. CASE RestoreVmRaises
  BY <1>11, RestoreVmRaisesStep
<1>12. CASE Over
  BY <1>12, Stutter DEF Over
<1>13. CASE UNCHANGED vars
  BY <1>13, Stutter
<1> QED
  BY <1>1, <1>2, <1>3, <1>4, <1>5, <1>6, <1>7, <1>8, <1>9, <1>10, <1>11, <1>12,
     <1>13, <1>14 DEF Next
-----------------------------------------------------------------------------
\* At every step SettingsInv says what the limits and the knobs are and what of
\* them was saved (apply and restore of VmDirtyTuning and RetryDebugKnobs), and
\* when they are left as the test set them (lines 602-624).
THEOREM SettingsInductive == Spec => []SettingsInv
<1>1. Init => SettingsInv
  BY InitEstablishes
<1>2. SettingsInv /\ [Next]_vars => SettingsInv'
  BY NextKeeps
<1> QED
  BY <1>1, <1>2, PTL DEF Spec

\* Every variable has its type: restore never writes a value it has not saved.
THEOREM SettingsTypeCorrect == Spec => []TypeOK
<1>1. SettingsInv => TypeOK
  BY DEF SettingsInv
<1> QED
  BY <1>1, SettingsInductive, PTL

\* The background limit stays within the dirty limit while restore runs and
\* wherever it stops, whatever form the limits had before the test (line 293).
THEOREM BackgroundNeverAbove == Spec => []BackgroundWithinDirty
<1>1. SettingsInv => BackgroundWithinDirty
  BY DEF SettingsInv
<1> QED
  BY <1>1, SettingsInductive, PTL

\* A cleanup that comes to its end has put the knobs back unless their own restore
\* failed, whatever else did (lines 625-641). One left in its joins has not:
\* AbandonedTuned, which SettingsInductive shows.
THEOREM KnobsRestoredAtEnd == Spec => []KnobsRestored
<1>1. SettingsInv => KnobsRestored
  BY DEF SettingsInv
<1> QED
  BY <1>1, SettingsInductive, PTL

\* In either order of writes restore ends with the saved limits, if those were
\* given in bytes.
LEMMA WhollyRestored == SettingsInv => BytesRestored
<1> SUFFICES ASSUME SettingsInv, pc = "ended", ~vmError,
                    vmStart["dirty_bytes"] # 0, vmStart["dirty_background_bytes"] # 0
             PROVE  vm = vmStart
  BY DEF BytesRestored, VmRestored
<1>1. NumbersType
  BY TypeParts DEF SettingsInv
<1>2. \A n \in VmNames : vmSaved[n] = IF Written(n) THEN vmStart[n] ELSE 0
  BY DEF SettingsInv, SavedInv
<1>3. order = "bgFirst" \/ order = "dirtyFirst"
  <2>1. ~SavedInRatioForm
    BY <1>2, WrittenFacts DEF SavedInRatioForm, VmNames
  <2> QED
    BY <2>1 DEF SettingsInv, OrderInv, OrderChosen
<1>4. HalfRestored(5)
  BY DEF SettingsInv, EndInv
<1>5. \A n \in VmNames : Written(n) => n \in WrittenBefore(5)
  BY <1>3, RestoredFacts, WrittenFacts DEF WrittenBefore, VmNames, RestoreOrders
<1>6. \A n \in VmNames : ~Written(n) => n \notin WrittenBefore(5)
  BY <1>3, RestoredFacts, WrittenFacts, IndexFacts DEF WrittenBefore, RestoreOrders
<1>7. \A n \in VmNames : Written(n) => vm[n] = vmStart[n]
  BY <1>2, <1>4, <1>5 DEF HalfRestored
<1>8. \A n \in VmNames : ~Written(n) => vm[n] = 0
  BY <1>4, <1>6 DEF HalfRestored, Tuned
<1>9. vmStart["dirty_ratio"] = 0 /\ vmStart["dirty_background_ratio"] = 0
  BY DEF SettingsInv, StartConsistent
<1>10. \A n \in VmNames : vm[n] = vmStart[n]
  BY <1>7, <1>8, <1>9, WrittenFacts DEF VmNames
<1> QED
  BY <1>1, <1>10 DEF NumbersType

\* A cleanup that comes to its end has put back limits given in bytes, unless
\* their own restore reports an error: every write of restore undoes one of apply.
\* One left in its joins has not (AbandonedTuned).
THEOREM BytesRestoredAtEnd == Spec => []BytesRestored
BY WhollyRestored, SettingsInductive, PTL
-----------------------------------------------------------------------------
(* The files written as vdex files (VdexWriter)                              *)
HIDE SettingsAssumption

\* What is true at m, and with each number of the next, is true from m to n.
LEMMA UpTo ==
  ASSUME NEW m \in Nat, NEW n \in Nat, NEW T, m \in T,
         \A k \in m..(n - 1) : k \in T => k + 1 \in T
  PROVE  m..n \subseteq T
<1> SUFFICES ASSUME (m..n) \ T # {} PROVE FALSE
  OBVIOUS
<1> DEFINE R == OpToRel(<, Nat)
           F == (m..n) \ T
<1>1. IsWellFoundedOn(R, Nat)
  BY NatLessThanWellFounded
<1>2. R = {ss \in Nat \X Nat : ss[1] < ss[2]}
  BY DEF OpToRel
<1>3. F \in SUBSET Nat
  OBVIOUS
<1> HIDE DEF R
<1>4. PICK x \in F : \A k \in F : <<k, x>> \notin R
  BY <1>1, <1>3, WFMin
<1>5. x \in m..n /\ x \notin T /\ x # m
  OBVIOUS
<1>6. x - 1 \notin F
  <2>1. \A k \in F : ~(k < x)
    BY <1>2, <1>3, <1>4
  <2> QED
    BY <1>5, <2>1
<1>7. x - 1 \in m..(n - 1) /\ x - 1 \in T
  BY <1>5, <1>6
<1>8. (x - 1) + 1 \in T
  BY <1>7
<1> QED
  BY <1>5, <1>8

\* A quotient, and the multiples around a number.
LEMMA Divided ==
  ASSUME NEW n \in Nat, NEW a \in Nat \ {0}
  PROVE  n \div a \in Nat /\ (n \div a) * a \in Nat /\ (n \div a) * a <= n /\ n < (n \div a) * a + a
OBVIOUS

LEMMA NextMultiple ==
  ASSUME NEW z \in Nat, NEW j \in Nat, NEW a \in Nat, z < j
  PROVE  z * a \in Nat /\ j * a \in Nat /\ z * a + a <= j * a
<1> DEFINE d == j - (z + 1)
<1>1. d \in Nat /\ j = z + 1 + d
  OBVIOUS
<1>2. d * a \in Nat
  BY <1>1
<1>3. j * a = z * a + a + d * a
  BY <1>1
<1> QED
  BY <1>2, <1>3

LEMMA QuotientOrder ==
  ASSUME NEW m \in Nat, NEW n \in Nat, NEW a \in Nat \ {0}, m <= n
  PROVE  m \div a <= n \div a
<1>1. m \div a \in Nat /\ (m \div a) * a \in Nat /\ (m \div a) * a <= m
  BY Divided
<1>2. n \div a \in Nat /\ (n \div a) * a \in Nat /\ n < (n \div a) * a + a
  BY Divided
<1> SUFFICES ASSUME n \div a < m \div a PROVE FALSE
  BY <1>1, <1>2
<1>3. (n \div a) * a + a <= (m \div a) * a
  BY <1>1, <1>2, NextMultiple
<1> DEFINE x == (n \div a) * a
           y == (m \div a) * a
<1>4. x \in Nat /\ y \in Nat /\ y <= m /\ n < x + a /\ x + a <= y
  BY <1>1, <1>2, <1>3
<1> HIDE DEF x, y
<1> QED
  BY <1>4

\* The next multiple is no less, and less than one more away; a multiple is its own.
LEMMA RoundedUp ==
  ASSUME NEW n \in Nat, NEW a \in Nat \ {0}
  PROVE  RoundUp(n, a) \in Nat /\ n <= RoundUp(n, a) /\ RoundUp(n, a) < n + a
<1> DEFINE q == (n + a - 1) \div a
           r == q * a
<1>1. n + a - 1 \in Nat
  OBVIOUS
<1>2. r \in Nat /\ r <= n + a - 1 /\ n + a - 1 < r + a
  BY <1>1, Divided
<1>3. RoundUp(n, a) = r
  BY DEF RoundUp
<1> HIDE DEF r
<1> QED
  BY <1>2, <1>3

LEMMA RoundedOrder ==
  ASSUME NEW m \in Nat, NEW n \in Nat, NEW a \in Nat \ {0}, m <= n
  PROVE  RoundUp(m, a) <= RoundUp(n, a)
<1> DEFINE p == (m + a - 1) \div a
           q == (n + a - 1) \div a
<1>1. m + a - 1 \in Nat /\ n + a - 1 \in Nat /\ m + a - 1 <= n + a - 1
  OBVIOUS
<1>2. p \in Nat /\ q \in Nat /\ p <= q
  BY <1>1, Divided, QuotientOrder
<1>3. RoundUp(m, a) = p * a /\ RoundUp(n, a) = q * a
  BY DEF RoundUp
<1> HIDE DEF p, q
<1>4. CASE p = q
  BY <1>2, <1>3, <1>4
<1>5. CASE p < q
  <2>1. p * a + a <= q * a /\ p * a \in Nat /\ q * a \in Nat
    BY <1>2, <1>5, NextMultiple
  <2> QED
    BY <1>3, <2>1
<1> QED
  BY <1>2, <1>4, <1>5

\* A multiple is rounded to itself.
LEMMA RoundedTwice ==
  ASSUME NEW n \in Nat, NEW a \in Nat \ {0}
  PROVE  RoundUp(RoundUp(n, a), a) = RoundUp(n, a)
<1> DEFINE q == (n + a - 1) \div a
           r == q * a
           d == (r + a - 1) \div a
           e == d * a
<1>1. n + a - 1 \in Nat
  OBVIOUS
<1>2. q \in Nat /\ r \in Nat
  BY <1>1, Divided
<1>3. RoundUp(n, a) = r
  BY DEF RoundUp
<1>4. r + a - 1 \in Nat
  BY <1>2
<1>5. d \in Nat /\ e \in Nat /\ e <= r + a - 1 /\ r + a - 1 < e + a
  BY <1>4, Divided
<1>6. RoundUp(r, a) = e
  BY DEF RoundUp
<1>7. ~(d < q)
  <2> SUFFICES ASSUME d < q PROVE FALSE
    OBVIOUS
  <2>1. e + a <= r
    BY <1>2, <1>5, NextMultiple
  <2> HIDE DEF e, r
  <2> QED
    BY <1>2, <1>5, <2>1
<1>8. ~(q < d)
  <2> SUFFICES ASSUME q < d PROVE FALSE
    OBVIOUS
  <2>1. r + a <= e
    BY <1>2, <1>5, NextMultiple
  <2> HIDE DEF e, r
  <2> QED
    BY <1>2, <1>5, <2>1
<1>9. d = q
  <2> HIDE DEF d, q
  <2> QED
    BY <1>2, <1>5, <1>7, <1>8
<1>10. e = r
  BY <1>9
<1> QED
  BY <1>3, <1>6, <1>10
-----------------------------------------------------------------------------
\* Values that are each computed from the one before.
InTurn(f, n, first, g) == f[0] = first /\ \A z \in 1..n : f[z] = g[z][f[z - 1]]

\* There are such values.
LEMMA TurnByTurn ==
  ASSUME NEW A, NEW n \in Nat, NEW first \in A, NEW g \in [1..n -> [A -> A]]
  PROVE  \E f \in [0..n -> A] : InTurn(f, n, first, g)
<1> DEFINE Computed(k) == \E f \in [0..k -> A] : InTurn(f, k, first, g)
           T == {k \in 0..n : Computed(k)}
<1>1. 0 \in T
  <2>1. [z \in 0..0 |-> first] \in [0..0 -> A] /\ [z \in 0..0 |-> first][0] = first
        /\ 1..0 = {}
    OBVIOUS
  <2>2. Computed(0)
    BY <2>1 DEF InTurn
  <2> QED
    BY <2>2
<1>2. ASSUME NEW k \in 0..(n - 1), k \in T PROVE k + 1 \in T
  <2>1. PICK f \in [0..k -> A] :
          f[0] = first /\ \A z \in 1..k : f[z] = g[z][f[z - 1]]
    BY <1>2 DEF InTurn
  <2>2. f[k] \in A /\ k + 1 \in 1..n /\ g[k + 1][f[k]] \in A
    OBVIOUS
  <2> DEFINE h == [z \in 0..(k + 1) |-> IF z <= k THEN f[z] ELSE g[k + 1][f[k]]]
  <2>3. h \in [0..(k + 1) -> A] /\ h[0] = first
    BY <2>1, <2>2
  <2>4. ASSUME NEW z \in 1..(k + 1) PROVE h[z] = g[z][h[z - 1]]
    <3>1. z \in 0..(k + 1) /\ z - 1 \in 0..(k + 1) /\ z - 1 <= k
      OBVIOUS
    <3>2. CASE z <= k
      BY <2>1, <3>1, <3>2
    <3>3. CASE z = k + 1
      BY <2>1, <3>1, <3>3
    <3> QED
      BY <3>2, <3>3
  <2>5. Computed(k + 1)
    BY <2>3, <2>4 DEF InTurn
  <2> QED
    BY <2>5
<1>3. 0..n \subseteq T
  <2> HIDE DEF T
  <2> QED
    BY <1>1, <1>2, UpTo
<1> QED
  BY <1>3

-----------------------------------------------------------------------------
\* Where the blobs end: each as long as it is behind the one before.
BlobsFollow(c, e) ==
  /\ e \in [0..Len(c.blobs) -> Nat]
  /\ e[0] = TableAt(c) + c.table
  /\ \A k \in 1..Len(c.blobs) : e[k] = RoundUp(e[k - 1], Align) + c.blobs[k]

LEMMA CaseFacts ==
  ASSUME SizesFit, NEW c, WellMade(c)
  PROVE  /\ TableAt(c) \in Nat \ {0} /\ HeaderLen <= TableAt(c) /\ TableAt(c) <= Page
         /\ c.table \in Nat /\ c.extra \in Nat /\ Len(c.blobs) \in Nat
         /\ c.blobs \in Seq(Nat \ {0}) /\ DOMAIN c.blobs = 1..Len(c.blobs)
         /\ \A k \in 1..Len(c.blobs) : c.blobs[k] \in Nat \ {0}
         /\ HeaderLen \in Nat \ {0} /\ Page \in Nat \ {0} /\ Align \in Nat \ {0}
BY DEF SizesFit, WellMade, TableAt

LEMMA BlobsFollowOn ==
  ASSUME SizesFit, NEW c, WellMade(c)
  PROVE  BlobsFollow(c, BlobEnds(c))
<1> DEFINE n == Len(c.blobs)
           first == TableAt(c) + c.table
           Next1(x, k) == RoundUp(x, Align) + c.blobs[k]
           g == [k \in 1..n |-> [x \in Nat |-> Next1(x, k)]]
           Defines(f) == f = [k \in 0..n |-> IF k = 0 THEN first ELSE Next1(f[k - 1], k)]
           e == CHOOSE f : Defines(f)
<1>1. n \in Nat /\ first \in Nat /\ Align \in Nat \ {0}
  BY CaseFacts
<1>2. ASSUME NEW k \in 1..n, NEW x \in Nat PROVE Next1(x, k) \in Nat
  <2>1. c.blobs[k] \in Nat
    BY CaseFacts
  <2>2. RoundUp(x, Align) \in Nat
    BY <1>1, RoundedUp
  <2> QED
    BY <2>1, <2>2
<1>3. BlobEnds(c) = e
  BY DEF BlobEnds
<1> HIDE DEF Next1
<1>4. g \in [1..n -> [Nat -> Nat]]
  BY <1>2
<1>5. PICK f \in [0..n -> Nat] : InTurn(f, n, first, g)
  <2> HIDE DEF g, first, n
  <2> QED
    BY <1>1, <1>4, TurnByTurn, Zenon
<1>6. ASSUME NEW k \in 1..n PROVE f[k] = Next1(f[k - 1], k)
  <2>1. k - 1 \in 0..n /\ f[k - 1] \in Nat
    BY <1>1
  <2>2. g[k][f[k - 1]] = Next1(f[k - 1], k)
    BY <2>1
  <2> QED
    BY <1>5, <2>2 DEF InTurn
<1>7. Defines(f)
  <2> DEFINE v(z) == IF z = 0 THEN first ELSE Next1(f[z - 1], z)
  <2>1. \A z \in 0..n : f[z] = v(z)
    BY <1>1, <1>5, <1>6 DEF InTurn
  <2> HIDE DEF v
  <2>2. f = [z \in 0..n |-> v(z)]
    BY <1>5, <2>1
  <2> QED
    BY <1>1, <2>2 DEF v
<1>8. Defines(e)
  BY <1>7
<1>9. /\ e = [k \in 0..n |-> IF k = 0 THEN first ELSE Next1(e[k - 1], k)]
  BY <1>8
<1> HIDE DEF e, Defines, first, n
<1>10. e[0] = first /\ \A k \in 1..n : e[k] = Next1(e[k - 1], k)
  BY <1>1, <1>9
<1>11. e \in [0..n -> Nat]
  <2> DEFINE T == {k \in 0..n : e[k] \in Nat}
  <2>1. 0 \in T
    BY <1>1, <1>10
  <2>2. ASSUME NEW k \in 0..(n - 1), k \in T PROVE k + 1 \in T
    <3>1. k + 1 \in 1..n /\ (k + 1) - 1 = k /\ e[k] \in Nat
      BY <1>1, <2>2
    <3>2. e[k + 1] = Next1(e[k], k + 1)
      BY <1>10, <3>1
    <3>3. Next1(e[k], k + 1) \in Nat
      BY <1>2, <3>1
    <3> QED
      BY <1>1, <3>1, <3>2, <3>3
  <2>3. 0..n \subseteq T
    <3> HIDE DEF T
    <3> QED
      BY <1>1, <2>1, <2>2, UpTo
  <2>4. DOMAIN e = 0..n /\ e = [k \in 0..n |-> e[k]]
    BY <1>9
  <2> QED
    BY <2>3, <2>4
<1> QED
  BY <1>3, <1>10, <1>11 DEF BlobsFollow, Next1, first, n

\* The blobs lie one behind the other, none in the place of another.
LEMMA BlobsApart ==
  ASSUME SizesFit, NEW c, WellMade(c), NEW k \in 1..Len(c.blobs)
  PROVE  /\ BlobAt(c, k) \in Nat /\ TableAt(c) + c.table <= BlobAt(c, k)
         /\ BlobAt(c, k) + c.blobs[k] <= OldVdexSize(c)
         /\ \A j \in 1..Len(c.blobs) : k < j => BlobAt(c, k) + c.blobs[k] <= BlobAt(c, j)
<1> DEFINE n == Len(c.blobs)
           e == BlobEnds(c)
<1>1. e \in [0..n -> Nat] /\ e[0] = TableAt(c) + c.table
      /\ \A z \in 1..n : e[z] = RoundUp(e[z - 1], Align) + c.blobs[z]
  BY BlobsFollowOn DEF BlobsFollow
<1>2. n \in Nat /\ Align \in Nat \ {0} /\ TableAt(c) \in Nat /\ c.table \in Nat
      /\ \A z \in 1..n : c.blobs[z] \in Nat
  BY CaseFacts
<1>3. \A z \in 1..n : BlobAt(c, z) = RoundUp(e[z - 1], Align)
  BY DEF BlobAt
<1>4. OldVdexSize(c) = e[n]
  BY DEF OldVdexSize
<1> HIDE DEF e, n
<1>5. ASSUME NEW z \in 1..n
      PROVE  /\ e[z - 1] \in Nat /\ e[z] \in Nat /\ BlobAt(c, z) \in Nat
             /\ e[z - 1] <= BlobAt(c, z) /\ BlobAt(c, z) + c.blobs[z] = e[z]
             /\ e[z - 1] <= e[z]
  <2>1. z - 1 \in 0..n /\ z \in 0..n /\ e[z - 1] \in Nat /\ e[z] \in Nat
    BY <1>1, <1>2
  <2> DEFINE r == RoundUp(e[z - 1], Align)
  <2>2. r \in Nat /\ e[z - 1] <= r
    BY <1>2, <2>1, RoundedUp
  <2>3. BlobAt(c, z) = r /\ e[z] = r + c.blobs[z] /\ c.blobs[z] \in Nat
    BY <1>1, <1>2, <1>3
  <2> HIDE DEF r
  <2> QED
    BY <2>1, <2>2, <2>3
<1>6. ASSUME NEW z \in 0..n, NEW j \in 0..n, z <= j PROVE e[z] <= e[j]
  <2> DEFINE T == {m \in 0..n : e[z] <= e[m]}
  <2>1. z \in T /\ z \in Nat /\ j \in Nat
    BY <1>1, <1>2
  <2>2. ASSUME NEW m \in z..(j - 1), m \in T PROVE m + 1 \in T
    <3>1. m + 1 \in 1..n /\ (m + 1) - 1 = m /\ e[z] <= e[m] /\ e[z] \in Nat
      BY <1>1, <1>2, <2>2
    <3>2. e[m] <= e[m + 1] /\ e[m] \in Nat /\ e[m + 1] \in Nat
      BY <1>5, <3>1
    <3> QED
      BY <3>1, <3>2
  <2>3. z..j \subseteq T
    <3> HIDE DEF T
    <3> QED
      BY <2>1, <2>2, UpTo
  <2> QED
    BY <1>2, <1>6, <2>1, <2>3
<1>7. k \in 1..n /\ k - 1 \in 0..n /\ k \in 0..n /\ 0 \in 0..n /\ n \in 0..n /\ 0 <= k - 1 /\ k <= n
  BY <1>2 DEF n
<1>8. e[0] <= e[k - 1] /\ e[k] <= e[n] /\ e[0] \in Nat /\ e[n] \in Nat
  BY <1>1, <1>6, <1>7
<1>9. ASSUME NEW j \in 1..n, k < j PROVE BlobAt(c, k) + c.blobs[k] <= BlobAt(c, j)
  <2>1. j - 1 \in 0..n /\ k <= j - 1
    BY <1>2, <1>7, <1>9
  <2>2. e[k] <= e[j - 1]
    BY <1>6, <1>7, <2>1
  <2>3. e[j - 1] \in Nat /\ BlobAt(c, j) \in Nat /\ e[j - 1] <= BlobAt(c, j)
    BY <1>5
  <2>4. e[k] \in Nat /\ BlobAt(c, k) + c.blobs[k] = e[k]
    BY <1>5, <1>7
  <2> QED
    BY <2>2, <2>3, <2>4
<1>10. /\ e[k - 1] \in Nat /\ e[k] \in Nat /\ BlobAt(c, k) \in Nat
       /\ e[k - 1] <= BlobAt(c, k) /\ BlobAt(c, k) + c.blobs[k] = e[k]
  BY <1>5, <1>7
<1>11. BlobAt(c, k) \in Nat /\ TableAt(c) + c.table <= BlobAt(c, k)
       /\ BlobAt(c, k) + c.blobs[k] <= OldVdexSize(c)
  <2>1. TableAt(c) + c.table = e[0] /\ OldVdexSize(c) = e[n]
    BY <1>1, <1>4
  <2>2. e[0] <= BlobAt(c, k) /\ e[k] <= e[n]
    BY <1>8, <1>10
  <2> QED
    BY <1>10, <2>1, <2>2
<1> QED
  BY <1>9, <1>11 DEF n

\* The sizes of the file: its pages, where its tail begins and where it ends.
SizesInOrder(c) ==
  /\ OldVdexSize(c) \in Nat /\ PageAlignedSize(c) \in Nat /\ TailAt(c) = OldVdexSize(c)
  /\ FinalSize(c) \in Nat /\ FinalSize(c) = OldVdexSize(c) + c.extra
  /\ TableAt(c) + c.table <= OldVdexSize(c)
  /\ OldVdexSize(c) <= PageAlignedSize(c)
  /\ Page <= PageAlignedSize(c)
  /\ RoundUp(PageAlignedSize(c), Page) = PageAlignedSize(c)
  /\ PageAlignedSize(c) <= RoundUp(FinalSize(c), Page)
  /\ FinalSize(c) <= RoundUp(FinalSize(c), Page) /\ RoundUp(FinalSize(c), Page) \in Nat
  /\ FirstChunkSize(c) \in 0..c.extra
  /\ OldVdexSize(c) + FirstChunkSize(c) <= PageAlignedSize(c)
  /\ ~ExtraMapped(c) => FirstChunkSize(c) = c.extra
  /\ ExtraMapped(c) => OldVdexSize(c) + FirstChunkSize(c) = PageAlignedSize(c)

LEMMA SizesAre ==
  ASSUME SizesFit, NEW c, WellMade(c)
  PROVE  SizesInOrder(c)
<1> DEFINE n == Len(c.blobs)
           e == BlobEnds(c)
           old == OldVdexSize(c)
           pages == PageAlignedSize(c)
<1>1. e \in [0..n -> Nat] /\ e[0] = TableAt(c) + c.table /\ old = e[n]
  BY BlobsFollowOn DEF BlobsFollow, OldVdexSize
<1>2. n \in Nat /\ Align \in Nat \ {0} /\ Page \in Nat \ {0} /\ TableAt(c) \in Nat \ {0}
      /\ c.table \in Nat /\ c.extra \in Nat
      /\ \A z \in 1..n : c.blobs[z] \in Nat
  BY CaseFacts
<1>3. old \in Nat /\ TableAt(c) + c.table <= old
  <2>1. CASE n = 0
    BY <1>1, <1>2, <2>1
  <2>2. CASE n # 0
    <3>1. n \in 1..n
      BY <1>2, <2>2
    <3>2. BlobAt(c, n) \in Nat /\ TableAt(c) + c.table <= BlobAt(c, n)
          /\ BlobAt(c, n) + c.blobs[n] <= old
      BY <3>1, BlobsApart
    <3>3. old \in Nat /\ c.blobs[n] \in Nat
      BY <1>1, <1>2, <3>1
    <3> QED
      BY <1>2, <3>2, <3>3
  <2> QED
    BY <2>1, <2>2
<1> HIDE DEF e, n, old
<1>4. TailAt(c) = old
  BY DEF WellMade, TailAt, old
<1>5. FinalSize(c) = old + c.extra
  BY <1>4 DEF FinalSize
<1>6. pages = RoundUp(old, Page)
  BY DEF PageAlignedSize, old
<1> HIDE DEF pages
<1>7. pages \in Nat /\ old <= pages /\ pages < old + Page
  BY <1>2, <1>3, <1>6, RoundedUp
<1>8. RoundUp(pages, Page) = pages
  BY <1>2, <1>3, <1>6, RoundedTwice
<1>9. pages <= RoundUp(FinalSize(c), Page) /\ FinalSize(c) <= RoundUp(FinalSize(c), Page)
      /\ RoundUp(FinalSize(c), Page) \in Nat /\ FinalSize(c) \in Nat
  <2>1. FinalSize(c) \in Nat /\ old <= FinalSize(c)
    BY <1>2, <1>3, <1>5
  <2> QED
    BY <1>2, <1>3, <1>6, <2>1, RoundedOrder, RoundedUp
<1>10. Page <= pages
  <2>1. 1 <= old /\ 1 \in Nat
    BY <1>2, <1>3
  <2>2. RoundUp(1, Page) <= pages
    BY <1>2, <1>3, <1>6, <2>1, RoundedOrder
  <2>3. (1 + Page - 1) \div Page = 1
    BY <1>2
  <2>4. RoundUp(1, Page) = Page
    BY <1>2, <2>3 DEF RoundUp
  <2> QED
    BY <2>2, <2>4
<1>11. FirstChunkSize(c) = IF c.extra <= pages - old THEN c.extra ELSE pages - old
  BY DEF FirstChunkSize, pages, old
<1>12. /\ FirstChunkSize(c) \in 0..c.extra
       /\ old + FirstChunkSize(c) <= pages
       /\ ~(FirstChunkSize(c) < c.extra) => FirstChunkSize(c) = c.extra
       /\ FirstChunkSize(c) < c.extra => old + FirstChunkSize(c) = pages
  BY <1>2, <1>3, <1>7, <1>11
<1> QED
  BY <1>3, <1>4, <1>5, <1>7, <1>8, <1>9, <1>10, <1>12 DEF SizesInOrder, ExtraMapped, old, pages
-----------------------------------------------------------------------------
(* What the file is to be, part by part                                      *)
Byte == {Zero} \cup ({"header", "table", "extra"} \X Nat) \cup (Nat \X Nat)

LEMMA BytesAre ==
  ASSUME NEW part \in {"header", "table", "extra"} \cup Nat, NEW n \in Nat
  PROVE  /\ Bytes(part, n) \in Seq(Byte) /\ Len(Bytes(part, n)) = n
         /\ \A z \in 1..n : Bytes(part, n)[z] = <<part, z>>
<1>1. \A z \in 1..n : <<part, z>> \in Byte
  BY DEF Byte
<1> QED
  BY <1>1 DEF Bytes

\* A sequence behind another.
LEMMA Joined ==
  ASSUME NEW S, NEW A \in Seq(S), NEW B \in Seq(S)
  PROVE  /\ A \o B \in Seq(S) /\ Len(A) \in Nat /\ Len(B) \in Nat
         /\ Len(A \o B) = Len(A) + Len(B)
         /\ \A z \in 1..Len(A) : (A \o B)[z] = A[z]
         /\ \A z \in 1..Len(B) : (A \o B)[Len(A) + z] = B[z]
OBVIOUS

LEMMA HeaderIs ==
  ASSUME SizesFit, NEW c, WellMade(c)
  PROVE  /\ Header(c) \in Seq(Byte) /\ Len(Header(c)) = TableAt(c)
         /\ \A z \in 1..HeaderLen : Header(c)[z] = <<"header", z>>
<1> DEFINE B == Bytes("header", HeaderLen)
           m == TableAt(c) - HeaderLen
           Z == [z \in 1..m |-> Zero]
<1>1. m \in Nat /\ HeaderLen \in Nat /\ TableAt(c) \in Nat
  BY CaseFacts
<1>2. B \in Seq(Byte) /\ Len(B) = HeaderLen /\ \A z \in 1..HeaderLen : B[z] = <<"header", z>>
  BY <1>1, BytesAre
<1>3. Z \in Seq(Byte) /\ Len(Z) = m
  <2> HIDE DEF m
  <2> QED
    BY <1>1 DEF Byte
<1>4. Header(c) = B \o Z
  BY DEF Header
<1> HIDE DEF B, Z
<1>5. Header(c) \in Seq(Byte) /\ Len(Header(c)) = HeaderLen + m
      /\ \A z \in 1..HeaderLen : Header(c)[z] = B[z]
  <2>1. /\ B \o Z \in Seq(Byte) /\ Len(B \o Z) = Len(B) + Len(Z)
        /\ \A z \in 1..Len(B) : (B \o Z)[z] = B[z]
    BY <1>2, <1>3, Joined
  <2> QED
    BY <1>2, <1>3, <1>4, <2>1
<1> QED
  BY <1>1, <1>2, <1>5

\* The blob that has its place at p.
Within(c, p) == {k \in DOMAIN c.blobs : BlobAt(c, k) < p /\ p <= BlobAt(c, k) + c.blobs[k]}

PartsAre(c) ==
  /\ \A p \in 1..TableAt(c) : Expected(c)[p] = Header(c)[p]
  /\ \A z \in 1..c.table : Expected(c)[TableAt(c) + z] = <<"table", z>>
  /\ \A z \in 1..c.extra : Expected(c)[OldVdexSize(c) + z] = <<"extra", z>>
  /\ \A k \in 1..Len(c.blobs) : \A z \in 1..c.blobs[k] : Expected(c)[BlobAt(c, k) + z] = <<k, z>>
  /\ \A p \in (TableAt(c) + c.table + 1)..OldVdexSize(c) :
       Within(c, p) = {} => Expected(c)[p] = Zero

LEMMA ExpectedIs ==
  ASSUME SizesFit, NEW c, WellMade(c)
  PROVE  PartsAre(c) /\ Expected(c) \in Seq(Byte) /\ Len(Expected(c)) = FinalSize(c)
<1> DEFINE PartAt(p) ==
        IF p <= TableAt(c) THEN Header(c)[p]
        ELSE IF p <= TableAt(c) + c.table THEN <<"table", p - TableAt(c)>>
        ELSE IF p > TailAt(c) THEN <<"extra", p - TailAt(c)>>
        ELSE IF Within(c, p) = {} THEN Zero
        ELSE LET k == CHOOSE k \in Within(c, p) : TRUE IN <<k, p - BlobAt(c, k)>>
<1>1. Expected(c) = [p \in 1..FinalSize(c) |-> PartAt(p)]
  BY DEF Expected, Within
<1>2. /\ TableAt(c) \in Nat \ {0} /\ c.table \in Nat /\ c.extra \in Nat /\ Len(c.blobs) \in Nat
      /\ DOMAIN c.blobs = 1..Len(c.blobs) /\ \A k \in 1..Len(c.blobs) : c.blobs[k] \in Nat \ {0}
  BY CaseFacts
<1>3. /\ OldVdexSize(c) \in Nat /\ TailAt(c) = OldVdexSize(c) /\ FinalSize(c) \in Nat
      /\ FinalSize(c) = OldVdexSize(c) + c.extra /\ TableAt(c) + c.table <= OldVdexSize(c)
  BY SizesAre DEF SizesInOrder
<1>4. \A k \in 1..Len(c.blobs) :
         /\ BlobAt(c, k) \in Nat /\ TableAt(c) + c.table <= BlobAt(c, k)
         /\ BlobAt(c, k) + c.blobs[k] <= OldVdexSize(c)
         /\ \A j \in 1..Len(c.blobs) : k < j => BlobAt(c, k) + c.blobs[k] <= BlobAt(c, j)
  BY BlobsApart
<1>5. ASSUME NEW p \in Nat, TableAt(c) + c.table < p, p <= OldVdexSize(c)
      PROVE  PartAt(p) = IF Within(c, p) = {} THEN Zero
                         ELSE LET k == CHOOSE k \in Within(c, p) : TRUE IN <<k, p - BlobAt(c, k)>>
  BY <1>2, <1>3, <1>5
<1>6. \A p \in 1..TableAt(c) : PartAt(p) = Header(c)[p]
  BY <1>2
<1>7. \A z \in 1..c.table : PartAt(TableAt(c) + z) = <<"table", z>>
  BY <1>2
<1>8. ASSUME NEW z \in 1..c.extra PROVE PartAt(OldVdexSize(c) + z) = <<"extra", z>>
  <2> DEFINE p == OldVdexSize(c) + z
  <2>1. /\ ~(p <= TableAt(c)) /\ ~(p <= TableAt(c) + c.table)
        /\ p > OldVdexSize(c) /\ p - OldVdexSize(c) = z
    BY <1>2, <1>3
  <2> HIDE DEF p
  <2>2. PartAt(p) = <<"extra", z>>
    BY <1>3, <2>1
  <2> QED
    BY <2>2 DEF p
<1> HIDE DEF PartAt
<1>9. ASSUME NEW k \in 1..Len(c.blobs), NEW z \in 1..c.blobs[k]
      PROVE  PartAt(BlobAt(c, k) + z) = <<k, z>> /\ BlobAt(c, k) + z \in 1..FinalSize(c)
  <2> DEFINE p == BlobAt(c, k) + z
  <2>1. BlobAt(c, k) \in Nat /\ c.blobs[k] \in Nat /\ z \in Nat /\ p \in Nat
        /\ TableAt(c) + c.table < p /\ p <= OldVdexSize(c) /\ p >= 1
    <3>1. BlobAt(c, k) \in Nat /\ TableAt(c) + c.table <= BlobAt(c, k)
          /\ BlobAt(c, k) + c.blobs[k] <= OldVdexSize(c) /\ c.blobs[k] \in Nat
      BY <1>2, <1>4
    <3>2. z \in Nat /\ 1 <= z /\ z <= c.blobs[k]
      BY <3>1
    <3>3. p \in Nat /\ TableAt(c) + c.table < p /\ p >= 1
      BY <1>2, <3>1, <3>2
    <3>4. p <= OldVdexSize(c)
      BY <1>3, <3>1, <3>2
    <3> QED
      BY <3>1, <3>2, <3>3, <3>4
  <2>2. k \in Within(c, p)
    BY <1>2, <2>1 DEF Within
  <2>3. ASSUME NEW j \in Within(c, p) PROVE j = k
    <3>1. j \in 1..Len(c.blobs) /\ BlobAt(c, j) < p /\ p <= BlobAt(c, j) + c.blobs[j]
      BY <1>2 DEF Within
    <3>2. BlobAt(c, j) \in Nat /\ c.blobs[j] \in Nat
      BY <1>2, <1>4, <3>1
    <3>3. ~(j < k)
      <4> SUFFICES ASSUME j < k PROVE FALSE
        OBVIOUS
      <4>1. BlobAt(c, j) + c.blobs[j] <= BlobAt(c, k)
        BY <1>4, <3>1
      <4> QED
        BY <2>1, <3>1, <3>2, <4>1
    <3>4. ~(k < j)
      <4> SUFFICES ASSUME k < j PROVE FALSE
        OBVIOUS
      <4>1. BlobAt(c, k) + c.blobs[k] <= BlobAt(c, j)
        BY <1>4, <3>1
      <4> QED
        BY <2>1, <3>1, <3>2, <4>1
    <3> QED
      BY <1>2, <3>1, <3>3, <3>4
  <2>4. (CHOOSE j \in Within(c, p) : TRUE) = k
    BY <2>2, <2>3
  <2>5. PartAt(p) = <<k, p - BlobAt(c, k)>>
    BY <1>5, <2>1, <2>2, <2>4
  <2>6. p - BlobAt(c, k) = z
    BY <2>1
  <2>7. p \in 1..FinalSize(c)
    BY <1>2, <1>3, <2>1
  <2> QED
    BY <2>5, <2>6, <2>7
<1>10. ASSUME NEW p \in 1..FinalSize(c) PROVE PartAt(p) \in Byte
  <2>1. CASE p <= TableAt(c)
    <3>1. p \in 1..TableAt(c)
      BY <1>2, <1>3, <2>1
    <3> QED
      BY <1>2, <1>6, <3>1, HeaderIs
  <2>2. CASE TableAt(c) < p /\ p <= TableAt(c) + c.table
    <3>1. p - TableAt(c) \in 1..c.table /\ p = TableAt(c) + (p - TableAt(c))
      BY <1>2, <1>3, <2>2
    <3>2. PartAt(p) = <<"table", p - TableAt(c)>>
      BY <1>7, <3>1
    <3> QED
      BY <1>2, <3>1, <3>2 DEF Byte
  <2>3. CASE p > OldVdexSize(c)
    <3>1. p - OldVdexSize(c) \in 1..c.extra /\ p = OldVdexSize(c) + (p - OldVdexSize(c))
      BY <1>2, <1>3, <2>3
    <3>2. PartAt(p) = <<"extra", p - OldVdexSize(c)>>
      BY <1>8, <3>1
    <3> QED
      BY <1>2, <3>1, <3>2 DEF Byte
  <2>4. CASE TableAt(c) + c.table < p /\ p <= OldVdexSize(c)
    <3> DEFINE k == CHOOSE k \in Within(c, p) : TRUE
    <3>1. PartAt(p) = IF Within(c, p) = {} THEN Zero ELSE <<k, p - BlobAt(c, k)>>
      BY <1>3, <1>5, <2>4
    <3>2. CASE Within(c, p) = {}
      BY <3>1, <3>2 DEF Byte
    <3>3. CASE Within(c, p) # {}
      <4>1. k \in Within(c, p)
        BY <3>3
      <4> HIDE DEF k
      <4>2. k \in 1..Len(c.blobs) /\ BlobAt(c, k) < p
        BY <1>2, <4>1 DEF Within
      <4>3. k \in Nat /\ p - BlobAt(c, k) \in Nat
        BY <1>2, <1>4, <4>2
      <4> QED
        BY <3>1, <3>3, <4>3 DEF Byte
    <3> QED
      BY <3>2, <3>3
  <2> QED
    BY <1>2, <1>3, <2>1, <2>2, <2>3, <2>4
<1>11. Expected(c) \in Seq(Byte) /\ Len(Expected(c)) = FinalSize(c)
       /\ \A p \in 1..FinalSize(c) : Expected(c)[p] = PartAt(p)
  BY <1>1, <1>3, <1>10
<1>12. \A p \in 1..TableAt(c) : Expected(c)[p] = Header(c)[p]
  BY <1>2, <1>3, <1>6, <1>11
<1>13. \A z \in 1..c.table : Expected(c)[TableAt(c) + z] = <<"table", z>>
  <2>1. \A z \in 1..c.table : TableAt(c) + z \in 1..FinalSize(c)
    BY <1>2, <1>3
  <2> QED
    BY <1>7, <1>11, <2>1
<1>14. \A z \in 1..c.extra : Expected(c)[OldVdexSize(c) + z] = <<"extra", z>>
  <2>1. \A z \in 1..c.extra : OldVdexSize(c) + z \in 1..FinalSize(c)
    BY <1>2, <1>3
  <2> QED
    BY <1>8, <1>11, <2>1
<1>15. \A k \in 1..Len(c.blobs) : \A z \in 1..c.blobs[k] : Expected(c)[BlobAt(c, k) + z] = <<k, z>>
  BY <1>9, <1>11
<1>16. \A p \in (TableAt(c) + c.table + 1)..OldVdexSize(c) :
       Within(c, p) = {} => Expected(c)[p] = Zero
  <2> SUFFICES ASSUME NEW p \in (TableAt(c) + c.table + 1)..OldVdexSize(c), Within(c, p) = {}
               PROVE  Expected(c)[p] = Zero
    OBVIOUS
  <2>1. p \in 1..FinalSize(c) /\ p \in Nat /\ TableAt(c) + c.table < p /\ p <= OldVdexSize(c)
    BY <1>2, <1>3
  <2>2. PartAt(p) = Zero
    BY <1>5, <2>1
  <2> QED
    BY <1>11, <2>1, <2>2
<1> QED
  BY <1>11, <1>12, <1>13, <1>14, <1>15, <1>16 DEF PartsAre
-----------------------------------------------------------------------------
(* What the writers do, in its order                                         *)
TruncateOps == [op : {"truncate"}, size : Nat]
CopyOps == [op : {"copy"}, at : Nat, end : Nat, bytes : Seq(Byte)]
SyncOps == [op : {"sync"}, from : Nat, to : Nat]
Ops == TruncateOps \cup CopyOps \cup SyncOps

\* A copy that puts what belongs there behind the header, within the file.
RightCopy(c, x) ==
  /\ x \in CopyOps /\ x.bytes # <<>>
  /\ TableAt(c) <= x.at /\ x.at + Len(x.bytes) <= x.end
  /\ x.at + Len(x.bytes) <= FinalSize(c)
  /\ \A z \in 1..Len(x.bytes) : x.bytes[z] = Expected(c)[x.at + z]

RightCopies(c, A, end) ==
  /\ A \in Seq(CopyOps)
  /\ \A j \in 1..Len(A) : RightCopy(c, A[j]) /\ A[j].end <= end

Fills(x, p) == x.op = "copy" /\ x.at < p /\ p <= x.at + Len(x.bytes)
FilledBy(A, p) == \E j \in 1..Len(A) : Fills(A[j], p)

LEMMA NoCopies ==
  ASSUME NEW c, NEW end PROVE RightCopies(c, <<>>, end)
BY DEF RightCopies

LEMMA CopiesJoined ==
  ASSUME NEW c, NEW end, NEW A, NEW B, RightCopies(c, A, end), RightCopies(c, B, end)
  PROVE  /\ RightCopies(c, A \o B, end)
         /\ \A p : FilledBy(A, p) \/ FilledBy(B, p) => FilledBy(A \o B, p)
<1>1. /\ A \o B \in Seq(CopyOps) /\ Len(A) \in Nat /\ Len(B) \in Nat
      /\ Len(A \o B) = Len(A) + Len(B)
      /\ \A z \in 1..Len(A) : (A \o B)[z] = A[z]
      /\ \A z \in 1..Len(B) : (A \o B)[Len(A) + z] = B[z]
  BY Joined DEF RightCopies
<1> DEFINE C == A \o B
<1> HIDE DEF C
<1>2. ASSUME NEW j \in 1..Len(C) PROVE RightCopy(c, C[j]) /\ C[j].end <= end
  <2>1. CASE j \in 1..Len(A)
    BY <1>1, <2>1 DEF RightCopies, C
  <2>2. CASE j \notin 1..Len(A)
    <3>1. j - Len(A) \in 1..Len(B) /\ j = Len(A) + (j - Len(A))
      BY <1>1, <2>2 DEF C
    <3>2. C[j] = B[j - Len(A)]
      BY <1>1, <3>1 DEF C
    <3> QED
      BY <3>1, <3>2 DEF RightCopies
  <2> QED
    BY <2>1, <2>2
<1>3. ASSUME NEW p, FilledBy(A, p) PROVE FilledBy(C, p)
  <2>1. PICK j \in 1..Len(A) : Fills(A[j], p)
    BY <1>3 DEF FilledBy
  <2>2. j \in 1..Len(C) /\ C[j] = A[j]
    BY <1>1 DEF C
  <2> QED
    BY <2>1, <2>2 DEF FilledBy
<1>4. ASSUME NEW p, FilledBy(B, p) PROVE FilledBy(C, p)
  <2>1. PICK j \in 1..Len(B) : Fills(B[j], p)
    BY <1>4 DEF FilledBy
  <2>2. Len(A) + j \in 1..Len(C) /\ C[Len(A) + j] = B[j]
    BY <1>1 DEF C
  <2> QED
    BY <2>1, <2>2 DEF FilledBy
<1>5. RightCopies(c, C, end)
  BY <1>1, <1>2 DEF RightCopies, C
<1> QED
  BY <1>3, <1>4, <1>5 DEF C

LEMMA CopiesWithin ==
  ASSUME NEW c, NEW e \in Nat, NEW f \in Nat, e <= f, NEW A, RightCopies(c, A, e)
  PROVE  RightCopies(c, A, f)
<1> SUFFICES ASSUME NEW j \in 1..Len(A) PROVE A[j].end <= f
  BY DEF RightCopies
<1>1. A[j].end <= e /\ A[j].end \in Nat
  BY DEF RightCopies, RightCopy, CopyOps
<1> QED
  BY <1>1

\* Bytes that are put where they belong, from one place to another.
PutRight(c, A, from, to, end) ==
  /\ RightCopies(c, A, end)
  /\ \A p \in (from + 1)..to : FilledBy(A, p)

BytesRight(c, bytes, from, to) ==
  /\ bytes \in Seq(Byte) /\ from + Len(bytes) = to
  /\ TableAt(c) <= from /\ to <= FinalSize(c)
  /\ \A z \in 1..Len(bytes) : bytes[z] = Expected(c)[from + z]

LEMMA MemcpyRight ==
  ASSUME NEW c, TableAt(c) \in Nat, FinalSize(c) \in Nat,
         NEW base \in Nat, NEW map \in Nat, NEW at \in Nat, NEW bytes,
         NEW from, from = base + at, NEW to, NEW end, end = base + map, to <= end,
         BytesRight(c, bytes, from, to)
  PROVE  PutRight(c, Memcpy(base, map, at, bytes), from, to, end)
<1> DEFINE x == [op |-> "copy", at |-> base + at, end |-> base + map, bytes |-> bytes]
           M == Memcpy(base, map, at, bytes)
<1>1. /\ bytes \in Seq(Byte) /\ from + Len(bytes) = to /\ Len(bytes) \in Nat
      /\ from \in Nat /\ to \in Nat /\ end \in Nat
      /\ TableAt(c) <= from /\ to <= FinalSize(c)
      /\ \A z \in 1..Len(bytes) : bytes[z] = Expected(c)[from + z]
  BY DEF BytesRight
<1>2. CASE bytes = <<>>
  <2>1. M = <<>> /\ Len(bytes) = 0
    BY <1>2 DEF Memcpy
  <2>2. (from + 1)..to = {}
    BY <1>1, <2>1
  <2> QED
    BY <2>1, <2>2, NoCopies DEF PutRight
<1>3. CASE bytes # <<>>
  <2>1. M = <<x>>
    BY <1>3 DEF Memcpy
  <2>2. /\ x \in CopyOps /\ x.op = "copy" /\ x.at = from /\ x.end = end /\ x.bytes = bytes
    BY <1>1 DEF CopyOps
  <2> HIDE DEF x
  <2>3. RightCopy(c, x)
    BY <1>1, <1>3, <2>2 DEF RightCopy
  <2>4. /\ M \in Seq(CopyOps) /\ Len(M) = 1 /\ M[1] = x
    BY <2>1, <2>2
  <2>5. RightCopies(c, M, end)
    <3>1. \A j \in 1..Len(M) : j = 1
      BY <2>4
    <3> QED
      BY <1>1, <2>2, <2>3, <2>4, <3>1 DEF RightCopies
  <2>6. \A p \in (from + 1)..to : Fills(x, p)
    BY <1>1, <2>2 DEF Fills
  <2>7. \A p \in (from + 1)..to : FilledBy(M, p)
    BY <2>4, <2>6 DEF FilledBy
  <2> QED
    BY <2>5, <2>7 DEF PutRight
<1> QED
  BY <1>2, <1>3

\* The table, where it has its place.
LEMMA TableRight ==
  ASSUME SizesFit, NEW c, WellMade(c)
  PROVE  PutRight(c, Table(c), TableAt(c), TableAt(c) + c.table, PageAlignedSize(c))
<1> DEFINE bytes == Bytes("table", c.table)
           pages == PageAlignedSize(c)
           from == TableAt(c)
           to == TableAt(c) + c.table
<1>1. from \in Nat /\ c.table \in Nat /\ c.extra \in Nat /\ to \in Nat
  BY CaseFacts
<1>2. /\ pages \in Nat /\ FinalSize(c) \in Nat /\ to <= pages /\ to <= FinalSize(c)
  BY <1>1, SizesAre DEF SizesInOrder
<1>3. /\ bytes \in Seq(Byte) /\ Len(bytes) = c.table /\ \A z \in 1..c.table : bytes[z] = <<"table", z>>
  BY <1>1, BytesAre
<1>4. Table(c) = Memcpy(0, pages, from, bytes)
  BY DEF Table
<1>5. \A z \in 1..c.table : Expected(c)[from + z] = <<"table", z>>
  BY ExpectedIs DEF PartsAre
<1> HIDE DEF bytes
<1>6. \A z \in 1..Len(bytes) : bytes[z] = Expected(c)[from + z]
  BY <1>3, <1>5
<1>7. BytesRight(c, bytes, from, to)
  BY <1>1, <1>2, <1>3, <1>6 DEF BytesRight
<1>8. from = 0 + from /\ pages = 0 + pages
  BY <1>1, <1>2
<1>9. PutRight(c, Memcpy(0, pages, from, bytes), from, to, pages)
  <2> HIDE DEF pages, to
  <2>1. 0 \in Nat
    OBVIOUS
  <2> QED
    BY <1>1, <1>2, <1>7, <1>8, <2>1, MemcpyRight, Zenon
<1> QED
  BY <1>4, <1>9

\* The blobs, each where it has its place.
LEMMA BlobsRight ==
  ASSUME SizesFit, NEW c, WellMade(c)
  PROVE  /\ RightCopies(c, Blobs(c), PageAlignedSize(c))
         /\ \A p \in Nat : Within(c, p) # {} => FilledBy(Blobs(c), p)
<1> DEFINE n == Len(c.blobs)
           pages == PageAlignedSize(c)
           x(k) == [op |-> "copy", at |-> 0 + BlobAt(c, k), end |-> 0 + pages,
                    bytes |-> Bytes(k, c.blobs[k])]
<1>1. /\ n \in Nat /\ DOMAIN c.blobs = 1..n /\ TableAt(c) \in Nat /\ c.table \in Nat /\ c.extra \in Nat
      /\ \A k \in 1..n : c.blobs[k] \in Nat \ {0}
  BY CaseFacts
<1>2. /\ pages \in Nat /\ FinalSize(c) \in Nat /\ OldVdexSize(c) \in Nat
      /\ OldVdexSize(c) <= pages /\ OldVdexSize(c) <= FinalSize(c)
  BY <1>1, SizesAre DEF SizesInOrder
<1>3. \A k \in 1..n : /\ BlobAt(c, k) \in Nat /\ TableAt(c) + c.table <= BlobAt(c, k)
                      /\ BlobAt(c, k) + c.blobs[k] <= OldVdexSize(c)
  BY BlobsApart
<1>4. ASSUME NEW k \in 1..n
      PROVE  /\ x(k) \in CopyOps /\ x(k).op = "copy" /\ x(k).at = BlobAt(c, k) /\ x(k).end = pages
             /\ x(k).bytes = Bytes(k, c.blobs[k])
             /\ x(k).bytes \in Seq(Byte) /\ Len(x(k).bytes) = c.blobs[k]
             /\ \A z \in 1..c.blobs[k] : x(k).bytes[z] = <<k, z>>
             /\ Memcpy(0, pages, BlobAt(c, k), Bytes(k, c.blobs[k]))[1] = x(k)
  <2> DEFINE bytes == Bytes(k, c.blobs[k])
  <2>1. bytes \in Seq(Byte) /\ Len(bytes) = c.blobs[k] /\ \A z \in 1..c.blobs[k] : bytes[z] = <<k, z>>
    <3>1. k \in Nat /\ c.blobs[k] \in Nat
      BY <1>1
    <3> QED
      BY <3>1, BytesAre
  <2>2. bytes # <<>>
    BY <1>1, <2>1
  <2> HIDE DEF bytes
  <2>3. BlobAt(c, k) \in Nat /\ pages \in Nat
    BY <1>2, <1>3
  <2> HIDE DEF pages
  <2>4. [op |-> "copy", at |-> 0 + BlobAt(c, k), end |-> 0 + pages, bytes |-> bytes] \in CopyOps
    BY <2>1, <2>3 DEF CopyOps
  <2>5. Memcpy(0, pages, BlobAt(c, k), bytes) =
          <<[op |-> "copy", at |-> 0 + BlobAt(c, k), end |-> 0 + pages, bytes |-> bytes]>>
    BY <2>2 DEF Memcpy
  <2> QED
    BY <2>1, <2>3, <2>4, <2>5 DEF bytes
<1>5. Blobs(c) = [k \in 1..n |-> Memcpy(0, pages, BlobAt(c, k), Bytes(k, c.blobs[k]))[1]]
  BY <1>1 DEF Blobs
<1> HIDE DEF x
<1>6. \A k \in 1..n : Blobs(c)[k] = x(k)
  BY <1>4, <1>5
<1>7. Blobs(c) \in Seq(CopyOps) /\ Len(Blobs(c)) = n
  <2>1. Blobs(c) \in [1..n -> CopyOps]
    BY <1>4, <1>5
  <2> QED
    BY <1>1, <2>1
<1>8. ASSUME NEW k \in 1..n PROVE RightCopy(c, x(k)) /\ x(k).end <= pages
  <2>1. \A z \in 1..c.blobs[k] : Expected(c)[BlobAt(c, k) + z] = <<k, z>>
    BY ExpectedIs DEF PartsAre
  <2>2. \A z \in 1..Len(x(k).bytes) : x(k).bytes[z] = Expected(c)[x(k).at + z]
    BY <1>4, <2>1
  <2>3. /\ BlobAt(c, k) \in Nat /\ c.blobs[k] \in Nat /\ TableAt(c) + c.table <= BlobAt(c, k)
        /\ BlobAt(c, k) + c.blobs[k] <= OldVdexSize(c)
    BY <1>1, <1>3
  <2>4. TableAt(c) <= x(k).at /\ x(k).at + Len(x(k).bytes) <= x(k).end
        /\ x(k).at + Len(x(k).bytes) <= FinalSize(c) /\ x(k).end <= pages
    <3>1. x(k).at = BlobAt(c, k) /\ x(k).end = pages /\ Len(x(k).bytes) = c.blobs[k]
      BY <1>4
    <3>2. TableAt(c) <= BlobAt(c, k) /\ BlobAt(c, k) + c.blobs[k] <= pages
          /\ BlobAt(c, k) + c.blobs[k] <= FinalSize(c) /\ pages <= pages
      <4>1. /\ TableAt(c) \in Nat /\ c.table \in Nat /\ pages \in Nat /\ FinalSize(c) \in Nat
            /\ OldVdexSize(c) \in Nat /\ OldVdexSize(c) <= pages
            /\ OldVdexSize(c) <= FinalSize(c)
        BY <1>1, <1>2
      <4> DEFINE at == BlobAt(c, k)
                 len == c.blobs[k]
                 old == OldVdexSize(c)
                 first == TableAt(c)
                 final == FinalSize(c)
      <4>2. /\ at \in Nat /\ len \in Nat /\ old \in Nat /\ first \in Nat /\ pages \in Nat
            /\ final \in Nat /\ c.table \in Nat
            /\ first + c.table <= at /\ at + len <= old /\ old <= pages /\ old <= final
        BY <2>3, <4>1
      <4> HIDE DEF at, len, old, first, final, pages
      <4>3. first <= at /\ at + len <= pages /\ at + len <= final /\ pages <= pages
        BY <4>2
      <4> QED
        BY <4>3 DEF at, len, first, final
    <3> QED
      BY <3>1, <3>2, Zenon
  <2>5. x(k).bytes # <<>>
    <3>1. Len(x(k).bytes) # 0
      BY <1>1, <1>4
    <3> QED
      BY <3>1
  <2> QED
    BY <1>4, <2>2, <2>4, <2>5 DEF RightCopy
<1>9. RightCopies(c, Blobs(c), pages)
  BY <1>6, <1>7, <1>8 DEF RightCopies
<1>10. ASSUME NEW p \in Nat, Within(c, p) # {} PROVE FilledBy(Blobs(c), p)
  <2>1. PICK k \in 1..n : BlobAt(c, k) < p /\ p <= BlobAt(c, k) + c.blobs[k]
    BY <1>1, <1>10 DEF Within
  <2>2. Fills(x(k), p)
    BY <1>4, <2>1 DEF Fills
  <2> QED
    BY <1>6, <1>7, <2>2 DEF FilledBy
<1> QED
  BY <1>9, <1>10
-----------------------------------------------------------------------------
\* A part of a sequence.
LEMMA Cut ==
  ASSUME NEW S, NEW s \in Seq(S), NEW m \in Nat, NEW n \in 0..Len(s), m <= n
  PROVE  /\ SubSeq(s, m + 1, n) \in Seq(S) /\ Len(SubSeq(s, m + 1, n)) = n - m
         /\ \A z \in 1..(n - m) : SubSeq(s, m + 1, n)[z] = s[m + z]
<1>1. Len(s) \in Nat /\ m + 1 \in Int /\ n \in Int
  OBVIOUS
<1>2. \A z \in (m + 1)..n : s[z] \in S
  BY <1>1
<1>3. /\ SubSeq(s, m + 1, n) \in Seq(S)
      /\ Len(SubSeq(s, m + 1, n)) = IF m + 1 <= n THEN n - (m + 1) + 1 ELSE 0
      /\ \A z \in 1..(n - (m + 1) + 1) : SubSeq(s, m + 1, n)[z] = s[(m + 1) + z - 1]
  BY <1>1, <1>2, SubSeqProperties
<1> DEFINE u == SubSeq(s, m + 1, n)
<1> HIDE DEF u
<1>4. n - (m + 1) + 1 = n - m /\ n - m \in Nat
  BY <1>1
<1>5. \A z \in 1..(n - m) : (m + 1) + z - 1 = m + z
  BY <1>1
<1>6. Len(SubSeq(s, m + 1, n)) = n - m
  <2>1. ~(m + 1 <= n) => n - m = 0
    BY <1>1
  <2> QED
    BY <1>3, <1>4, <2>1
<1>7. \A z \in 1..(n - m) : SubSeq(s, m + 1, n)[z] = s[m + z]
  BY <1>3, <1>4, <1>5
<1> QED
  BY <1>3, <1>6, <1>7

\* The extra buffer: through the first mapping to its end, and what does not fit through another.
LEMMA FirstTailRight ==
  ASSUME SizesFit, NEW c, WellMade(c)
  PROVE  PutRight(c, Memcpy(0, PageAlignedSize(c), TailAt(c),
                            SubSeq(Bytes("extra", c.extra), 1, FirstChunkSize(c))),
                  OldVdexSize(c), OldVdexSize(c) + FirstChunkSize(c), PageAlignedSize(c))
<1> DEFINE extra == Bytes("extra", c.extra)
           first == FirstChunkSize(c)
           bytes == SubSeq(extra, 1, first)
           pages == PageAlignedSize(c)
           from == OldVdexSize(c)
           to == from + first
<1>1. TableAt(c) \in Nat /\ c.table \in Nat /\ c.extra \in Nat
  BY CaseFacts
<1>2. /\ pages \in Nat /\ FinalSize(c) \in Nat /\ from \in Nat /\ first \in 0..c.extra
      /\ TailAt(c) = from /\ FinalSize(c) = from + c.extra /\ TableAt(c) + c.table <= from
      /\ to <= pages
  BY SizesAre DEF SizesInOrder
<1>3. extra \in Seq(Byte) /\ Len(extra) = c.extra /\ \A z \in 1..c.extra : extra[z] = <<"extra", z>>
  BY <1>1, BytesAre
<1>4. \A z \in 1..c.extra : Expected(c)[from + z] = <<"extra", z>>
  BY ExpectedIs DEF PartsAre
<1> HIDE DEF extra, first, from, pages
<1>5. bytes \in Seq(Byte) /\ Len(bytes) = first /\ \A z \in 1..first : bytes[z] = extra[z]
  <2>1. first \in 0..Len(extra) /\ 0 \in Nat /\ 0 <= first /\ 0 + 1 = 1 /\ first - 0 = first
    BY <1>1, <1>2, <1>3
  <2>2. /\ bytes \in Seq(Byte) /\ Len(bytes) = first - 0
        /\ \A z \in 1..(first - 0) : bytes[z] = extra[0 + z]
    BY <1>3, <2>1, Cut
  <2>3. \A z \in 1..first : 0 + z = z
    OBVIOUS
  <2> QED
    BY <2>1, <2>2, <2>3
<1> HIDE DEF bytes
<1>6. ASSUME NEW z \in 1..Len(bytes) PROVE bytes[z] = Expected(c)[from + z]
  <2>1. z \in 1..first /\ z \in 1..c.extra
    BY <1>1, <1>2, <1>5
  <2> QED
    BY <1>3, <1>4, <1>5, <2>1
<1>7. to \in Nat /\ from + Len(bytes) = to /\ to <= FinalSize(c) /\ TableAt(c) <= from
  BY <1>1, <1>2, <1>5
<1>8. BytesRight(c, bytes, from, to)
  BY <1>5, <1>6, <1>7 DEF BytesRight
<1>9. from = 0 + from /\ pages = 0 + pages /\ 0 \in Nat
  BY <1>1, <1>2
<1>10. PutRight(c, Memcpy(0, pages, from, bytes), from, to, pages)
  <2> HIDE DEF to
  <2> QED
    BY <1>1, <1>2, <1>8, <1>9, MemcpyRight, Zenon
<1> QED
  BY <1>2, <1>10 DEF extra, first, from, pages, bytes

LEMMA RestOfTailRight ==
  ASSUME SizesFit, NEW c, WellMade(c), ExtraMapped(c)
  PROVE  PutRight(c, Memcpy(PageAlignedSize(c), FinalSize(c) - PageAlignedSize(c), 0,
                            SubSeq(Bytes("extra", c.extra), FirstChunkSize(c) + 1, c.extra)),
                  PageAlignedSize(c), FinalSize(c), FinalSize(c))
<1> DEFINE extra == Bytes("extra", c.extra)
           first == FirstChunkSize(c)
           bytes == SubSeq(extra, first + 1, c.extra)
           pages == PageAlignedSize(c)
           from == OldVdexSize(c)
           to == FinalSize(c)
           map == to - pages
<1>1. TableAt(c) \in Nat /\ c.table \in Nat /\ c.extra \in Nat
  BY CaseFacts
<1>2. /\ pages \in Nat /\ to \in Nat /\ from \in Nat /\ first \in 0..c.extra
      /\ to = from + c.extra /\ TableAt(c) + c.table <= from /\ from <= pages
      /\ from + first = pages
  BY SizesAre DEF SizesInOrder
<1>3. extra \in Seq(Byte) /\ Len(extra) = c.extra /\ \A z \in 1..c.extra : extra[z] = <<"extra", z>>
  BY <1>1, BytesAre
<1>4. \A z \in 1..c.extra : Expected(c)[from + z] = <<"extra", z>>
  BY ExpectedIs DEF PartsAre
<1> HIDE DEF extra, first, from, pages, to
<1>5. /\ bytes \in Seq(Byte) /\ Len(bytes) = c.extra - first
      /\ \A z \in 1..(c.extra - first) : bytes[z] = extra[first + z]
  <2>1. first \in Nat /\ first <= c.extra /\ c.extra \in 0..Len(extra)
    BY <1>1, <1>2, <1>3
  <2> QED
    BY <1>3, <2>1, Cut
<1> HIDE DEF bytes
<1>6. ASSUME NEW z \in 1..Len(bytes) PROVE bytes[z] = Expected(c)[pages + z]
  <2>1. first + z \in 1..c.extra /\ pages + z = from + (first + z) /\ z \in 1..(c.extra - first)
    BY <1>1, <1>2, <1>5
  <2> QED
    BY <1>3, <1>4, <1>5, <2>1
<1>7. pages + Len(bytes) = to /\ TableAt(c) <= pages /\ map \in Nat
  <2>1. Len(bytes) = c.extra - first
    BY <1>5
  <2>2. TableAt(c) \in Nat /\ c.table \in Nat /\ c.extra \in Nat
    BY <1>1
  <2>3. to - pages = c.extra - first /\ c.extra - first \in Nat
    BY <1>2, <2>2
  <2>4. pages \in Nat /\ to \in Nat /\ from \in Nat /\ TableAt(c) + c.table <= from /\ from <= pages
    BY <1>2
  <2>5. map \in Nat
    BY <2>3
  <2>6. pages + Len(bytes) = to
    BY <2>1, <2>3, <2>4
  <2>7. TableAt(c) <= pages
    BY <2>2, <2>4
  <2> QED
    BY <2>5, <2>6, <2>7
<1>8. BytesRight(c, bytes, pages, to)
  <2>1. to <= FinalSize(c)
    BY <1>2 DEF to
  <2> QED
    BY <1>2, <1>5, <1>6, <1>7, <2>1 DEF BytesRight
<1>9. pages = pages + 0 /\ to = pages + map /\ 0 \in Nat /\ to <= to
  BY <1>1, <1>2
<1>10. PutRight(c, Memcpy(pages, map, 0, bytes), pages, to, to)
  <2>1. FinalSize(c) \in Nat
    BY <1>2 DEF to
  <2> HIDE DEF map
  <2> QED
    BY <1>1, <1>2, <1>7, <1>8, <1>9, <2>1, MemcpyRight, Zenon
<1> QED
  BY <1>10 DEF extra, first, from, pages, bytes, to

LEMMA TailRight ==
  ASSUME SizesFit, NEW c, WellMade(c)
  PROVE  /\ RightCopies(c, TailCopies(c), PageAlignedSize(c) + FinalSize(c))
         /\ \A p \in (OldVdexSize(c) + 1)..FinalSize(c) : FilledBy(TailCopies(c), p)
<1> DEFINE extra == Bytes("extra", c.extra)
           first == FirstChunkSize(c)
           pages == PageAlignedSize(c)
           old == OldVdexSize(c)
           final == FinalSize(c)
           A == Memcpy(0, pages, TailAt(c), SubSeq(extra, 1, first))
           B == Memcpy(pages, final - pages, 0, SubSeq(extra, first + 1, c.extra))
           most == pages + final
<1>1. /\ pages \in Nat /\ old \in Nat /\ final \in Nat /\ TailAt(c) = old
      /\ first \in 0..c.extra /\ c.extra \in Nat
      /\ final = old + c.extra
      /\ ~ExtraMapped(c) => first = c.extra
      /\ ExtraMapped(c) => old + first = pages
  BY SizesAre, CaseFacts DEF SizesInOrder
<1>2. TailCopies(c) = A \o B
  <2>1. TailAt(c) - old = 0 /\ first - (TailAt(c) - old) = first
    BY <1>1
  <2> QED
    BY <2>1 DEF TailCopies
<1>3. RightCopies(c, A, pages) /\ \A p \in (old + 1)..(old + first) : FilledBy(A, p)
  BY FirstTailRight DEF PutRight
<1>4. ExtraMapped(c) => /\ RightCopies(c, B, final)
                        /\ \A p \in (pages + 1)..final : FilledBy(B, p)
  BY RestOfTailRight DEF PutRight
<1>5. ~ExtraMapped(c) => B = <<>>
  <2> SUFFICES ASSUME ~ExtraMapped(c) PROVE B = <<>>
    OBVIOUS
  <2>1. extra \in Seq(Byte) /\ Len(extra) = c.extra
    BY <1>1, BytesAre
  <2>2. SubSeq(extra, first + 1, c.extra) = <<>>
    <3>1. first = c.extra /\ c.extra < first + 1 /\ first + 1 \in Int /\ c.extra \in Int
      BY <1>1
    <3> HIDE DEF extra, first
    <3> QED
      BY <3>1, SubSeqEmpty
  <2> QED
    BY <2>2 DEF Memcpy
<1> HIDE DEF A, B, first, pages, old, final
<1>6. RightCopies(c, A, most) /\ RightCopies(c, B, most)
  <2>1. pages <= most /\ final <= most /\ most \in Nat
    BY <1>1
  <2> HIDE DEF most
  <2>2. RightCopies(c, A, most)
    BY <1>1, <1>3, <2>1, CopiesWithin
  <2>3. CASE ExtraMapped(c)
    BY <1>1, <1>4, <2>1, <2>2, <2>3, CopiesWithin
  <2>4. CASE ~ExtraMapped(c)
    BY <1>5, <2>2, <2>4, NoCopies
  <2> QED
    BY <2>3, <2>4
<1> HIDE DEF most
<1>7. /\ RightCopies(c, A \o B, most)
      /\ \A p : FilledBy(A, p) \/ FilledBy(B, p) => FilledBy(A \o B, p)
  BY <1>6, CopiesJoined
<1>8. \A p \in (old + 1)..final : FilledBy(A, p) \/ FilledBy(B, p)
  <2> SUFFICES ASSUME NEW p \in (old + 1)..final PROVE FilledBy(A, p) \/ FilledBy(B, p)
    OBVIOUS
  <2>1. CASE p <= old + first
    <3>1. p \in (old + 1)..(old + first)
      BY <1>1, <2>1
    <3> QED
      BY <1>3, <3>1
  <2>2. CASE p > old + first
    <3>1. ExtraMapped(c)
      BY <1>1, <2>2
    <3>2. p \in (pages + 1)..final
      BY <1>1, <2>2, <3>1
    <3> QED
      BY <1>4, <3>1, <3>2
  <2> QED
    BY <1>1, <2>1, <2>2
<1> QED
  BY <1>2, <1>7, <1>8 DEF old, final, pages, most
-----------------------------------------------------------------------------
\* An msync of the bytes from one place to another.
SyncsPlaces(x, from, to) ==
  /\ x \in SyncOps
  /\ \A p \in from..to : (p - 1) \div Page \in x.from..x.to

LEMMA MsyncIs ==
  ASSUME Page \in Nat \ {0}, NEW base \in Nat, NEW length \in Nat \ {0}
  PROVE  /\ Msync(base, length) \in Seq(SyncOps) /\ Len(Msync(base, length)) = 1
         /\ SyncsPlaces(Msync(base, length)[1], base + 1, base + length)
<1> DEFINE from == base \div Page
           to == (base + length - 1) \div Page
           x == [op |-> "sync", from |-> from, to |-> to]
<1>1. base + length - 1 \in Nat
  OBVIOUS
<1>2. from \in Nat /\ to \in Nat
  BY <1>1, Divided
<1>3. \A p \in (base + 1)..(base + length) : (p - 1) \div Page \in from..to
  <2> SUFFICES ASSUME NEW p \in (base + 1)..(base + length) PROVE (p - 1) \div Page \in from..to
    OBVIOUS
  <2>1. p - 1 \in Nat /\ base <= p - 1 /\ p - 1 <= base + length - 1
    OBVIOUS
  <2>2. (p - 1) \div Page \in Nat /\ from <= (p - 1) \div Page /\ (p - 1) \div Page <= to
    BY <1>1, <2>1, Divided, QuotientOrder
  <2> QED
    BY <1>2, <2>2
<1>4. Msync(base, length) = <<x>>
  BY DEF Msync
<1> HIDE DEF from, to
<1>5. x \in SyncOps /\ x.from = from /\ x.to = to
  BY <1>2 DEF SyncOps
<1>6. SyncsPlaces(x, base + 1, base + length)
  BY <1>3, <1>5 DEF SyncsPlaces
<1> HIDE DEF x
<1> QED
  BY <1>4, <1>5, <1>6

\* The copies before the file gets its length, and those after it.
EarlyCopies(c) == (IF c.writer = "oat" THEN Table(c) ELSE <<>>) \o Blobs(c)
LateCopies(c) == TailCopies(c) \o (IF c.writer = "oat" THEN <<>> ELSE Table(c))

LEMMA EarlyRight ==
  ASSUME SizesFit, NEW c, WellMade(c)
  PROVE  /\ RightCopies(c, EarlyCopies(c), PageAlignedSize(c))
         /\ \A p \in Nat : Within(c, p) # {} => FilledBy(EarlyCopies(c), p)
         /\ c.writer = "oat" =>
              \A p \in (TableAt(c) + 1)..(TableAt(c) + c.table) : FilledBy(EarlyCopies(c), p)
<1> DEFINE A == IF c.writer = "oat" THEN Table(c) ELSE <<>>
<1>1. RightCopies(c, A, PageAlignedSize(c))
  BY TableRight, NoCopies DEF PutRight
<1>2. c.writer = "oat" => \A p \in (TableAt(c) + 1)..(TableAt(c) + c.table) : FilledBy(A, p)
  BY TableRight DEF PutRight
<1>3. /\ RightCopies(c, Blobs(c), PageAlignedSize(c))
      /\ \A p \in Nat : Within(c, p) # {} => FilledBy(Blobs(c), p)
  BY BlobsRight
<1>4. EarlyCopies(c) = A \o Blobs(c)
  BY DEF EarlyCopies
<1> HIDE DEF A
<1>5. /\ RightCopies(c, A \o Blobs(c), PageAlignedSize(c))
      /\ \A p : FilledBy(A, p) \/ FilledBy(Blobs(c), p) => FilledBy(A \o Blobs(c), p)
  BY <1>1, <1>3, CopiesJoined
<1> QED
  BY <1>2, <1>3, <1>4, <1>5

LEMMA LateRight ==
  ASSUME SizesFit, NEW c, WellMade(c)
  PROVE  /\ RightCopies(c, LateCopies(c), PageAlignedSize(c) + FinalSize(c))
         /\ \A p \in (OldVdexSize(c) + 1)..FinalSize(c) : FilledBy(LateCopies(c), p)
         /\ c.writer # "oat" =>
              \A p \in (TableAt(c) + 1)..(TableAt(c) + c.table) : FilledBy(LateCopies(c), p)
<1> DEFINE A == IF c.writer = "oat" THEN <<>> ELSE Table(c)
           most == PageAlignedSize(c) + FinalSize(c)
<1>1. RightCopies(c, A, most)
  <2>1. RightCopies(c, A, PageAlignedSize(c))
    BY TableRight, NoCopies DEF PutRight
  <2>2. PageAlignedSize(c) \in Nat /\ most \in Nat /\ PageAlignedSize(c) <= most
    BY SizesAre DEF SizesInOrder
  <2> HIDE DEF A, most
  <2> QED
    BY <2>1, <2>2, CopiesWithin
<1>2. c.writer # "oat" => \A p \in (TableAt(c) + 1)..(TableAt(c) + c.table) : FilledBy(A, p)
  BY TableRight DEF PutRight
<1>3. /\ RightCopies(c, TailCopies(c), most)
      /\ \A p \in (OldVdexSize(c) + 1)..FinalSize(c) : FilledBy(TailCopies(c), p)
  BY TailRight
<1>4. LateCopies(c) = TailCopies(c) \o A
  BY DEF LateCopies
<1> HIDE DEF A, most
<1>5. /\ RightCopies(c, TailCopies(c) \o A, most)
      /\ \A p : FilledBy(TailCopies(c), p) \/ FilledBy(A, p) => FilledBy(TailCopies(c) \o A, p)
  BY <1>1, <1>3, CopiesJoined
<1> QED
  BY <1>2, <1>3, <1>4, <1>5 DEF most

\* Every byte of the file is put there, or is zero.
LEMMA AllFilled ==
  ASSUME SizesFit, NEW c, WellMade(c), NEW p \in (TableAt(c) + 1)..FinalSize(c)
  PROVE  Expected(c)[p] = Zero \/ FilledBy(EarlyCopies(c), p) \/ FilledBy(LateCopies(c), p)
<1>1. TableAt(c) \in Nat /\ c.table \in Nat /\ p \in Nat /\ OldVdexSize(c) \in Nat
      /\ FinalSize(c) \in Nat
  BY CaseFacts, SizesAre DEF SizesInOrder
<1>2. CASE p <= TableAt(c) + c.table
  <2>1. p \in (TableAt(c) + 1)..(TableAt(c) + c.table)
    BY <1>1, <1>2
  <2> QED
    BY <2>1, EarlyRight, LateRight
<1>3. CASE p > OldVdexSize(c)
  <2>1. p \in (OldVdexSize(c) + 1)..FinalSize(c)
    BY <1>1, <1>3
  <2> QED
    BY <2>1, LateRight
<1>4. CASE TableAt(c) + c.table < p /\ p <= OldVdexSize(c)
  <2>1. p \in (TableAt(c) + c.table + 1)..OldVdexSize(c)
    BY <1>1, <1>4
  <2>2. Within(c, p) = {} => Expected(c)[p] = Zero
    BY <2>1, ExpectedIs DEF PartsAre
  <2> QED
    BY <1>1, <2>2, EarlyRight
<1> QED
  BY <1>1, <1>2, <1>3, <1>4

\* The plan: P[t] and P[s] are the second ftruncate and the first msync.
PlanIs(c, P, t, s) ==
  /\ P \in Seq(Ops) /\ t \in Nat /\ s \in Nat /\ 1 < t /\ t < s
  /\ Len(P) \in {s + 2, s + 3} /\ (ExtraMapped(c) <=> Len(P) = s + 3)
  /\ P[1] \in TruncateOps /\ P[1].size = PageAlignedSize(c)
  /\ P[t] \in TruncateOps /\ P[t].size = FinalSize(c)
  /\ \A j \in 2..(t - 1) : RightCopy(c, P[j]) /\ P[j].end <= PageAlignedSize(c)
  /\ \A j \in (t + 1)..(s - 1) : RightCopy(c, P[j])
  /\ SyncsPlaces(P[s], 1, PageAlignedSize(c))
  /\ ExtraMapped(c) => SyncsPlaces(P[s + 1], PageAlignedSize(c) + 1, FinalSize(c))
  /\ LET x == P[Len(P) - 1] IN
       x \in CopyOps /\ x.at = 0 /\ x.end = PageAlignedSize(c) /\ x.bytes = Header(c)
  /\ P[Len(P)] \in SyncOps
  /\ \A p \in (TableAt(c) + 1)..FinalSize(c) :
       Expected(c)[p] = Zero \/ \E j \in 1..(s - 1) : Fills(P[j], p)
  /\ \A p \in (PageAlignedSize(c) + 1)..FinalSize(c) : \E j \in (t + 1)..(s - 1) : Fills(P[j], p)

\* Q is A and, behind it, B.
Behind(Q, A, B, U) ==
  /\ Q \in Seq(U) /\ Len(Q) = Len(A) + Len(B)
  /\ \A z \in 1..Len(A) : Q[z] = A[z]
  /\ \A z \in 1..Len(B) : Q[Len(A) + z] = B[z]

LEMMA JoinedBehind ==
  ASSUME NEW U, NEW A \in Seq(U), NEW B \in Seq(U)
  PROVE  Behind(A \o B, A, B, U)
BY Joined DEF Behind

\* Six sequences one behind the other, of which two have one element.
SixJoined(P, A, B, C, D, E, F) ==
  /\ Len(P) = Len(B) + Len(D) + 2 + Len(E) + Len(F)
  /\ P[1] = A[1] /\ P[Len(B) + 2] = C[1]
  /\ \A z \in 1..Len(B) : P[1 + z] = B[z]
  /\ \A z \in 1..Len(D) : P[Len(B) + 2 + z] = D[z]
  /\ \A z \in 1..Len(E) : P[Len(B) + 2 + Len(D) + z] = E[z]
  /\ \A z \in 1..Len(F) : P[Len(B) + 2 + Len(D) + Len(E) + z] = F[z]

LEMMA SixOneByOne ==
  ASSUME NEW U, NEW A \in Seq(U), NEW B \in Seq(U), NEW C \in Seq(U), NEW D \in Seq(U),
         NEW E \in Seq(U), NEW F \in Seq(U), Len(A) = 1, Len(C) = 1
  PROVE  /\ A \o B \o C \o D \o E \o F \in Seq(U)
         /\ SixJoined(A \o B \o C \o D \o E \o F, A, B, C, D, E, F)
<1> DEFINE P1 == A \o B
           P2 == P1 \o C
           P3 == P2 \o D
           P4 == P3 \o E
           P == P4 \o F
           b == Len(B)
           d == Len(D)
           e == Len(E)
           f == Len(F)
<1>1. b \in Nat /\ d \in Nat /\ e \in Nat /\ f \in Nat
  OBVIOUS
<1>2. P1 \in Seq(U) /\ Len(P1) = 1 + b /\ P1[1] = A[1] /\ \A z \in 1..b : P1[1 + z] = B[z]
  <2>1. Behind(P1, A, B, U)
    BY JoinedBehind
  <2> HIDE DEF P1, b
  <2> QED
    BY <2>1 DEF Behind, b
<1> HIDE DEF P1
<1>3. P2 \in Seq(U) /\ Len(P2) = b + 2 /\ P2[b + 2] = C[1] /\ \A z \in 1..(b + 1) : P2[z] = P1[z]
  <2>1. Behind(P2, P1, C, U)
    BY <1>2, JoinedBehind
  <2>2. Len(P1) = b + 1 /\ Len(P1) + 1 = b + 2 /\ Len(P1) + Len(C) = b + 2 /\ 1 \in 1..Len(C)
    BY <1>1, <1>2
  <2> HIDE DEF b, P2
  <2> QED
    BY <2>1, <2>2 DEF Behind
<1> HIDE DEF P2
<1>4. /\ P3 \in Seq(U) /\ Len(P3) = b + 2 + d /\ \A z \in 1..d : P3[b + 2 + z] = D[z]
      /\ \A z \in 1..(b + 2) : P3[z] = P2[z]
  <2>1. Behind(P3, P2, D, U)
    BY <1>3, JoinedBehind
  <2> HIDE DEF P3
  <2> QED
    BY <1>3, <2>1 DEF Behind
<1> HIDE DEF P3
<1>5. /\ P4 \in Seq(U) /\ Len(P4) = b + 2 + d + e /\ \A z \in 1..e : P4[b + 2 + d + z] = E[z]
      /\ \A z \in 1..(b + 2 + d) : P4[z] = P3[z]
  <2>1. Behind(P4, P3, E, U)
    BY <1>4, JoinedBehind
  <2> HIDE DEF P4
  <2> QED
    BY <1>4, <2>1 DEF Behind
<1> HIDE DEF P4
<1>6. /\ P \in Seq(U) /\ Len(P) = b + 2 + d + e + f
      /\ \A z \in 1..f : P[b + 2 + d + e + z] = F[z]
      /\ \A z \in 1..(b + 2 + d + e) : P[z] = P4[z]
  <2>1. Behind(P, P4, F, U)
    BY <1>5, JoinedBehind
  <2> HIDE DEF P
  <2> QED
    BY <1>5, <2>1 DEF Behind
<1> HIDE DEF P, b, d, e, f
<1>7. \A z \in 1..e : P[b + 2 + d + z] = E[z]
  <2>1. \A z \in 1..e : b + 2 + d + z \in 1..(b + 2 + d + e)
    BY <1>1
  <2> QED
    BY <1>5, <1>6, <2>1
<1>8. \A z \in 1..(b + 2 + d) : P[z] = P3[z]
  <2>1. \A z \in 1..(b + 2 + d) : z \in 1..(b + 2 + d + e)
    BY <1>1
  <2> QED
    BY <1>5, <1>6, <2>1
<1>9. \A z \in 1..d : P[b + 2 + z] = D[z]
  <2>1. \A z \in 1..d : b + 2 + z \in 1..(b + 2 + d)
    BY <1>1
  <2> QED
    BY <1>4, <1>8, <2>1
<1>10. \A z \in 1..(b + 2) : P[z] = P2[z]
  <2>1. \A z \in 1..(b + 2) : z \in 1..(b + 2 + d)
    BY <1>1
  <2> QED
    BY <1>4, <1>8, <2>1
<1>11. P[b + 2] = C[1]
  <2>1. b + 2 \in 1..(b + 2)
    BY <1>1
  <2> QED
    BY <1>3, <1>10, <2>1
<1>12. \A z \in 1..(b + 1) : P[z] = P1[z]
  <2>1. \A z \in 1..(b + 1) : z \in 1..(b + 2)
    BY <1>1
  <2> QED
    BY <1>3, <1>10, <2>1
<1>13. P[1] = A[1]
  <2>1. 1 \in 1..(b + 1)
    BY <1>1
  <2> QED
    BY <1>2, <1>12, <2>1
<1>14. \A z \in 1..b : P[1 + z] = B[z]
  <2>1. \A z \in 1..b : 1 + z \in 1..(b + 1)
    BY <1>1
  <2> QED
    BY <1>2, <1>12, <2>1
<1>15. Len(P) = b + d + 2 + e + f
  BY <1>1, <1>6
<1>16. SixJoined(P, A, B, C, D, E, F)
  BY <1>7, <1>9, <1>11, <1>13, <1>14, <1>15, <1>6 DEF SixJoined, b, d, e, f
<1> QED
  BY <1>6, <1>16 DEF P, P4, P3, P2, P1
-----------------------------------------------------------------------------
LEMMA OneByOne ==
  ASSUME NEW A \in Seq(Ops), NEW B \in Seq(Ops), NEW C \in Seq(Ops)
  PROVE  (A \o B) \o C = A \o (B \o C)
BY ConcatAssociative

\* The parts of the plan, each with its type.
LEMMA PlanParts ==
  ASSUME SizesFit, NEW c, WellMade(c)
  PROVE  /\ EarlyCopies(c) \in Seq(Ops) /\ LateCopies(c) \in Seq(Ops)
         /\ WritePlan(c) = Ftruncate(PageAlignedSize(c)) \o EarlyCopies(c)
                           \o Ftruncate(FinalSize(c)) \o LateCopies(c)
                           \o SyncAll(c) \o HeaderWritten(c)
<1> DEFINE A == Ftruncate(PageAlignedSize(c))
           B1 == IF c.writer = "oat" THEN Table(c) ELSE <<>>
           C == Ftruncate(FinalSize(c))
           D1 == TailCopies(c)
           D2 == IF c.writer = "oat" THEN <<>> ELSE Table(c)
<1>1. /\ B1 \in Seq(CopyOps) /\ Blobs(c) \in Seq(CopyOps) /\ D1 \in Seq(CopyOps)
      /\ D2 \in Seq(CopyOps)
  BY TableRight, BlobsRight, TailRight DEF PutRight, RightCopies
<1>2. PageAlignedSize(c) \in Nat /\ FinalSize(c) \in Nat
  BY SizesAre DEF SizesInOrder
<1>3. A \in Seq(Ops) /\ C \in Seq(Ops)
  BY <1>2 DEF Ftruncate, Ops, TruncateOps
<1>4. /\ B1 \in Seq(Ops) /\ Blobs(c) \in Seq(Ops) /\ D1 \in Seq(Ops) /\ D2 \in Seq(Ops)
  <2>1. CopyOps \subseteq Ops
    BY DEF Ops
  <2> HIDE DEF B1, D1, D2
  <2> QED
    BY <1>1, <2>1
<1>5. EarlyCopies(c) = B1 \o Blobs(c) /\ LateCopies(c) = D1 \o D2
  BY DEF EarlyCopies, LateCopies
<1>6. WritePlan(c) = A \o B1 \o Blobs(c) \o C \o D1 \o D2 \o SyncAll(c) \o HeaderWritten(c)
  BY DEF WritePlan
<1> HIDE DEF A, B1, C, D1, D2
<1>7. A \o B1 \o Blobs(c) = A \o (B1 \o Blobs(c))
  <2> DEFINE K == Blobs(c)
  <2>1. K \in Seq(Ops)
    BY <1>4
  <2> HIDE DEF K
  <2>2. (A \o B1) \o K = A \o (B1 \o K)
    <3>1. A \in Seq(Ops) /\ B1 \in Seq(Ops)
      BY <1>3, <1>4
    <3> QED
      BY <2>1, <3>1, OneByOne, Zenon
  <2> QED
    BY <2>2 DEF K
<1> DEFINE Q == A \o (B1 \o Blobs(c)) \o C
<1>8. Q \in Seq(Ops)
  <2>1. B1 \o Blobs(c) \in Seq(Ops)
    BY <1>4, Joined
  <2> DEFINE B == B1 \o Blobs(c)
  <2> HIDE DEF B
  <2>2. A \o B \in Seq(Ops)
    BY <1>3, <2>1, Joined DEF B
  <2> QED
    BY <1>3, <2>2, Joined DEF B
<1> HIDE DEF Q
<1>9. Q \o D1 \o D2 = Q \o (D1 \o D2)
  BY <1>4, <1>8, OneByOne
<1>10. EarlyCopies(c) \in Seq(Ops) /\ LateCopies(c) \in Seq(Ops)
  BY <1>4, <1>5, Joined
<1>11. WritePlan(c) = Q \o D1 \o D2 \o SyncAll(c) \o HeaderWritten(c)
  BY <1>6, <1>7 DEF Q
<1>12. WritePlan(c) = A \o EarlyCopies(c) \o C \o LateCopies(c) \o SyncAll(c) \o HeaderWritten(c)
  BY <1>5, <1>9, <1>11 DEF Q
<1> QED
  BY <1>10, <1>12 DEF A, C

LEMMA SyncsAre ==
  ASSUME SizesFit, NEW c, WellMade(c)
  PROVE  /\ SyncAll(c) \in Seq(Ops) /\ Len(SyncAll(c)) = IF ExtraMapped(c) THEN 2 ELSE 1
         /\ SyncsPlaces(SyncAll(c)[1], 1, PageAlignedSize(c))
         /\ ExtraMapped(c) => SyncsPlaces(SyncAll(c)[2], PageAlignedSize(c) + 1, FinalSize(c))
<1> DEFINE pages == PageAlignedSize(c)
           more == FinalSize(c) - pages
           A == Msync(0, pages)
           B == Msync(pages, more)
<1>1. /\ pages \in Nat \ {0} /\ FinalSize(c) \in Nat /\ Page \in Nat \ {0}
      /\ ExtraMapped(c) => more \in Nat \ {0}
  <2>1. c.extra \in Nat /\ Page \in Nat \ {0}
    BY CaseFacts
  <2>2. ExtraMapped(c) => FirstChunkSize(c) < c.extra
    BY DEF ExtraMapped
  <2> QED
    BY <2>1, <2>2, SizesAre DEF SizesInOrder
<1>2. SyncOps \subseteq Ops
  BY DEF Ops
<1>3. A \in Seq(SyncOps) /\ Len(A) = 1 /\ SyncsPlaces(A[1], 0 + 1, 0 + pages)
  BY <1>1, MsyncIs
<1>4. 0 + 1 = 1 /\ 0 + pages = pages
  BY <1>1
<1>5. CASE ExtraMapped(c)
  <2>1. B \in Seq(SyncOps) /\ Len(B) = 1 /\ SyncsPlaces(B[1], pages + 1, pages + more)
    BY <1>1, <1>5, MsyncIs
  <2>2. pages + more = FinalSize(c)
    BY <1>1
  <2>3. SyncAll(c) = A \o B
    BY <1>5 DEF SyncAll
  <2> HIDE DEF A, B, pages, more
  <2>4. Behind(A \o B, A, B, SyncOps)
    BY <1>3, <2>1, JoinedBehind
  <2>5. Len(A \o B) = 2 /\ (A \o B)[1] = A[1] /\ (A \o B)[1 + 1] = B[1] /\ 1 + 1 = 2
        /\ A \o B \in Seq(SyncOps)
    <3>1. 1 \in 1..Len(A) /\ 1 \in 1..Len(B) /\ Len(A) + Len(B) = 2
      BY <1>3, <2>1
    <3> DEFINE Q == A \o B
    <3> HIDE DEF Q
    <3>2. Behind(Q, A, B, SyncOps)
      BY <2>4 DEF Q
    <3>3. Len(Q) = 2 /\ Q[1] = A[1] /\ Q[1 + 1] = B[1] /\ Q \in Seq(SyncOps)
      BY <1>3, <3>1, <3>2 DEF Behind
    <3> QED
      BY <3>3 DEF Q
  <2>6. SyncAll(c) \in Seq(Ops)
    BY <1>2, <2>3, <2>5
  <2> QED
    BY <1>3, <1>4, <1>5, <2>1, <2>2, <2>3, <2>5, <2>6 DEF pages
<1>6. CASE ~ExtraMapped(c)
  <2>1. SyncAll(c) = A \o <<>>
    BY <1>6 DEF SyncAll
  <2> HIDE DEF A, B, pages, more
  <2>2. A \o <<>> = A
    BY <1>3
  <2> QED
    BY <1>2, <1>3, <1>4, <1>6, <2>1, <2>2 DEF pages
<1> QED
  BY <1>5, <1>6

LEMMA HeaderIsWritten ==
  ASSUME SizesFit, NEW c, WellMade(c)
  PROVE  /\ HeaderWritten(c) \in Seq(Ops) /\ Len(HeaderWritten(c)) = 2
         /\ LET x == HeaderWritten(c)[1] IN
              x \in CopyOps /\ x.at = 0 /\ x.end = PageAlignedSize(c) /\ x.bytes = Header(c)
         /\ HeaderWritten(c)[2] \in SyncOps
<1> DEFINE x == [op |-> "copy", at |-> 0 + 0, end |-> 0 + PageAlignedSize(c), bytes |-> Header(c)]
           A == <<x>>
           B == Msync(0, Page)
<1>1. PageAlignedSize(c) \in Nat /\ Page \in Nat \ {0}
  BY SizesAre, CaseFacts DEF SizesInOrder
<1>2. Header(c) \in Seq(Byte) /\ Header(c) # <<>>
  <2>1. Header(c) \in Seq(Byte) /\ Len(Header(c)) = TableAt(c) /\ TableAt(c) \in Nat \ {0}
    BY HeaderIs, CaseFacts
  <2> QED
    BY <2>1
<1>3. Memcpy(0, PageAlignedSize(c), 0, Header(c)) = A
  BY <1>2 DEF Memcpy
<1>4. x \in CopyOps /\ x.at = 0 /\ x.end = PageAlignedSize(c) /\ x.bytes = Header(c)
  BY <1>1, <1>2 DEF CopyOps
<1>5. B \in Seq(SyncOps) /\ Len(B) = 1 /\ B[1] \in SyncOps
  BY <1>1, MsyncIs DEF SyncsPlaces
<1>6. HeaderWritten(c) = A \o B
  BY <1>3 DEF HeaderWritten
<1> HIDE DEF x, B
<1>7. CopyOps \subseteq Ops /\ SyncOps \subseteq Ops
  BY DEF Ops
<1>8. A \in Seq(Ops) /\ Len(A) = 1 /\ A[1] = x /\ B \in Seq(Ops)
  BY <1>4, <1>5, <1>7
<1> HIDE DEF A
<1> DEFINE Q == A \o B
<1>9. Behind(Q, A, B, Ops)
  BY <1>8, JoinedBehind
<1> HIDE DEF Q
<1>10. Q \in Seq(Ops) /\ Len(Q) = 2 /\ Q[1] = x /\ Q[1 + 1] = B[1] /\ 1 + 1 = 2
  BY <1>5, <1>8, <1>9 DEF Behind
<1> QED
  BY <1>4, <1>5, <1>6, <1>10 DEF Q

LEMMA FtruncateIs ==
  ASSUME NEW size \in Nat
  PROVE  /\ Ftruncate(size) \in Seq(Ops) /\ Len(Ftruncate(size)) = 1
         /\ Ftruncate(size)[1] \in TruncateOps /\ Ftruncate(size)[1].size = size
<1> DEFINE x == [op |-> "truncate", size |-> size]
<1>1. x \in TruncateOps /\ x.size = size
  BY DEF TruncateOps
<1>2. x \in Ops /\ Ftruncate(size) = <<x>>
  BY <1>1 DEF Ops, Ftruncate
<1> HIDE DEF x
<1> QED
  BY <1>1, <1>2

LEMMA ThePlan ==
  ASSUME SizesFit, NEW c, WellMade(c)
  PROVE  \E t, s \in Nat : PlanIs(c, WritePlan(c), t, s)
<1> DEFINE pages == PageAlignedSize(c)
           A == Ftruncate(pages)
           B == EarlyCopies(c)
           C == Ftruncate(FinalSize(c))
           D == LateCopies(c)
           E == SyncAll(c)
           F == HeaderWritten(c)
           P == A \o B \o C \o D \o E \o F
           b == Len(B)
           d == Len(D)
           t == b + 2
           s == b + 2 + d + 1
<1>1. pages \in Nat /\ FinalSize(c) \in Nat /\ TableAt(c) \in Nat /\ OldVdexSize(c) \in Nat
      /\ OldVdexSize(c) <= pages
  BY SizesAre, CaseFacts DEF SizesInOrder
<1>2. /\ A \in Seq(Ops) /\ Len(A) = 1 /\ A[1] \in TruncateOps /\ A[1].size = pages
      /\ C \in Seq(Ops) /\ Len(C) = 1 /\ C[1] \in TruncateOps /\ C[1].size = FinalSize(c)
  <2>1. A \in Seq(Ops) /\ Len(A) = 1 /\ A[1] \in TruncateOps /\ A[1].size = pages
    BY <1>1, FtruncateIs, Zenon
  <2>2. C \in Seq(Ops) /\ Len(C) = 1 /\ C[1] \in TruncateOps /\ C[1].size = FinalSize(c)
    BY <1>1, FtruncateIs, Zenon
  <2> QED
    BY <2>1, <2>2
<1>3. B \in Seq(Ops) /\ D \in Seq(Ops) /\ b \in Nat /\ d \in Nat /\ WritePlan(c) = P
  <2>1. B \in Seq(Ops) /\ D \in Seq(Ops) /\ WritePlan(c) = P
    BY PlanParts, Zenon
  <2>2. b \in Nat /\ d \in Nat
    BY <2>1
  <2> QED
    BY <2>1, <2>2
<1>4. E \in Seq(Ops) /\ Len(E) = IF ExtraMapped(c) THEN 2 ELSE 1
  BY SyncsAre
<1>5. F \in Seq(Ops) /\ Len(F) = 2
  BY HeaderIsWritten
<1>6. P \in Seq(Ops) /\ SixJoined(P, A, B, C, D, E, F)
  <2> HIDE DEF A, B, C, D, E, F
  <2> QED
    BY <1>2, <1>3, <1>4, <1>5, SixOneByOne
<1>7. /\ RightCopies(c, B, pages) /\ RightCopies(c, D, pages + FinalSize(c))
      /\ \A p \in (OldVdexSize(c) + 1)..FinalSize(c) : FilledBy(D, p)
      /\ \A p \in (TableAt(c) + 1)..FinalSize(c) :
           Expected(c)[p] = Zero \/ FilledBy(B, p) \/ FilledBy(D, p)
  BY EarlyRight, LateRight, AllFilled
<1>8. /\ SyncsPlaces(E[1], 1, pages)
      /\ ExtraMapped(c) => SyncsPlaces(E[2], pages + 1, FinalSize(c))
  BY SyncsAre
<1>9. /\ LET x == F[1] IN x \in CopyOps /\ x.at = 0 /\ x.end = pages /\ x.bytes = Header(c)
      /\ F[2] \in SyncOps
  BY HeaderIsWritten
<1> HIDE DEF A, B, C, D, E, F, P, pages
<1>10. /\ Len(P) = b + d + 2 + Len(E) + 2
       /\ P[1] = A[1] /\ P[t] = C[1]
       /\ \A z \in 1..b : P[1 + z] = B[z]
       /\ \A z \in 1..d : P[b + 2 + z] = D[z]
       /\ \A z \in 1..Len(E) : P[b + 2 + d + z] = E[z]
       /\ \A z \in 1..2 : P[b + 2 + d + Len(E) + z] = F[z]
  BY <1>5, <1>6 DEF SixJoined
<1> HIDE DEF b, d
<1>11. t \in Nat /\ s \in Nat /\ 1 < t /\ t < s /\ t - 1 = b + 1 /\ s - 1 = b + 2 + d
       /\ Len(P) \in {s + 2, s + 3} /\ (ExtraMapped(c) <=> Len(P) = s + 3)
  <2>1. CASE ExtraMapped(c)
    <3>1. Len(E) = 2
      BY <1>4, <2>1
    <3>2. Len(P) = s + 3
      BY <1>3, <1>10, <3>1
    <3> QED
      BY <1>3, <2>1, <3>2
  <2>2. CASE ~ExtraMapped(c)
    <3>1. Len(E) = 1
      BY <1>4, <2>2
    <3>2. Len(P) = s + 2
      BY <1>3, <1>10, <3>1
    <3> QED
      BY <1>3, <2>2, <3>2
  <2> QED
    BY <2>1, <2>2
<1>12. ASSUME NEW j \in 2..(t - 1) PROVE RightCopy(c, P[j]) /\ P[j].end <= pages
  <2>1. j - 1 \in 1..b /\ 1 + (j - 1) = j
    BY <1>3, <1>11
  <2>2. P[j] = B[j - 1]
    BY <1>10, <2>1
  <2> QED
    BY <1>7, <2>1, <2>2 DEF RightCopies, b
<1>13. ASSUME NEW j \in (t + 1)..(s - 1) PROVE RightCopy(c, P[j])
  <2>1. j - t \in 1..d /\ b + 2 + (j - t) = j
    BY <1>3, <1>11
  <2>2. P[j] = D[j - t]
    BY <1>10, <2>1
  <2> QED
    BY <1>7, <2>1, <2>2 DEF RightCopies, d
<1>14. P[s] = E[1] /\ (ExtraMapped(c) => P[s + 1] = E[2])
  <2>1. 1 \in 1..Len(E) /\ (ExtraMapped(c) => 2 \in 1..Len(E)) /\ b + 2 + d + 1 = s
        /\ b + 2 + d + 2 = s + 1
    BY <1>3, <1>4
  <2> QED
    BY <1>10, <2>1
<1>15. P[Len(P) - 1] = F[1] /\ P[Len(P)] = F[2]
  <2>1. 1 \in 1..2 /\ 2 \in 1..2 /\ b + 2 + d + Len(E) + 1 = Len(P) - 1
        /\ b + 2 + d + Len(E) + 2 = Len(P)
    BY <1>3, <1>4, <1>10
  <2> QED
    BY <1>10, <2>1
<1>16. ASSUME NEW p, FilledBy(D, p) PROVE \E j \in (t + 1)..(s - 1) : Fills(P[j], p)
  <2>1. PICK z \in 1..d : Fills(D[z], p)
    BY <1>16 DEF FilledBy, d
  <2>2. P[b + 2 + z] = D[z] /\ b + 2 + z \in (t + 1)..(s - 1)
    BY <1>3, <1>10, <1>11
  <2> QED
    BY <2>1, <2>2
<1>17. ASSUME NEW p, FilledBy(B, p) PROVE \E j \in 1..(s - 1) : Fills(P[j], p)
  <2>1. PICK z \in 1..b : Fills(B[z], p)
    BY <1>17 DEF FilledBy, b
  <2>2. P[1 + z] = B[z]
    BY <1>10
  <2>3. 1 + z \in 1..(b + 2 + d) /\ s - 1 = b + 2 + d
    BY <1>3
  <2> QED
    BY <2>1, <2>2, <2>3
<1> HIDE DEF t, s
<1>18. \A j \in (t + 1)..(s - 1) : j \in 1..(s - 1)
  BY <1>11
<1>19. \A p \in (TableAt(c) + 1)..FinalSize(c) :
         Expected(c)[p] = Zero \/ \E j \in 1..(s - 1) : Fills(P[j], p)
  BY <1>7, <1>16, <1>17, <1>18
<1>20. \A p \in (pages + 1)..FinalSize(c) : \E j \in (t + 1)..(s - 1) : Fills(P[j], p)
  <2> SUFFICES ASSUME NEW p \in (pages + 1)..FinalSize(c) PROVE FilledBy(D, p)
    BY <1>16
  <2>1. p \in (OldVdexSize(c) + 1)..FinalSize(c)
    BY <1>1
  <2> QED
    BY <1>7, <2>1
<1>21. PlanIs(c, P, t, s)
  BY <1>2, <1>6, <1>8, <1>9, <1>10, <1>11, <1>12, <1>13, <1>14, <1>15, <1>19, <1>20
     DEF PlanIs, pages
<1> QED
  BY <1>3, <1>11, <1>21
-----------------------------------------------------------------------------
(* What is true of the file and of its bytes on the disk                     *)
FileStates ==
  [case : Vdexes, todo : Seq(Ops), mem : Seq(Byte), disk : Seq(Byte), dirty : SUBSET Nat,
   verdict : {"none", "ok", "mismatch", "range", "bus error", "failed"}]

\* The disk is behind only in pages that are to be written back.
DiskFollows(v) ==
  /\ v \in FileStates
  /\ v.verdict \in {"none", "ok", "failed"}
  /\ Len(v.mem) = Len(v.disk)
  /\ v.dirty \subseteq 0..(FinalSize(v.case) + PageAlignedSize(v.case)) \div Page
  /\ \A z \in 1..Len(v.mem) : v.disk[z] # v.mem[z] => (z - 1) \div Page \in v.dirty

\* There is no header yet, in memory or on the disk.
Headless(v) ==
  \A z \in 1..Len(v.mem) : z <= HeaderLen => v.mem[z] = Zero /\ v.disk[z] = Zero

\* k operations of the plan P are done: what no copy is to fill any more is as it is to be,
\* and what an msync has waited for is on the disk.
OnItsWay(v, P, t, s, k) ==
  /\ v.verdict = "none" /\ k \in 0..(Len(P) - 2)
  /\ v.todo = SubSeq(P, k + 1, Len(P))
  /\ k = 0 => Len(v.mem) = 0
  /\ 0 < k /\ k < t => Len(v.mem) = PageAlignedSize(v.case)
  /\ t <= k => Len(v.mem) = FinalSize(v.case)
  /\ k # 0 => \A p \in 1..Len(v.mem) :
                TableAt(v.case) < p /\ p <= FinalSize(v.case) =>
                  v.mem[p] = Expected(v.case)[p] \/ \E j \in (k + 1)..(s - 1) : Fills(P[j], p)
  /\ s <= k => \A z \in 1..Len(v.mem) : z <= PageAlignedSize(v.case) => v.disk[z] = v.mem[z]
  /\ s < k => \A z \in 1..Len(v.mem) : v.disk[z] = v.mem[z]

Unfinished(v) ==
  \E t, s, k \in Nat : LET P == WritePlan(v.case) IN PlanIs(v.case, P, t, s) /\ OnItsWay(v, P, t, s, k)

\* The file is there; on the disk all of it but its first page, or all.
Whole(v) ==
  /\ v.mem = Expected(v.case)
  /\ \A z \in 1..Len(v.mem) : TableAt(v.case) < z => v.disk[z] = v.mem[z]
  /\ v.disk = v.mem \/ \A z \in 1..HeaderLen : v.disk[z] = Zero
  /\ v.todo # <<>> => v.verdict = "none" /\ Len(v.todo) = 1 /\ v.todo[1] \in SyncOps

FileInv(v) ==
  /\ DiskFollows(v)
  /\ \/ Headless(v) /\ v.verdict = "failed" /\ v.todo = <<>>
     \/ Headless(v) /\ Unfinished(v)
     \/ Whole(v)

\* A file that was made size bytes long: cut, or filled with zeros.
ResizedTo(new, file, size) ==
  /\ new \in Seq(Byte) /\ Len(new) = size
  /\ \A z \in 1..size : new[z] = IF z <= Len(file) THEN file[z] ELSE Zero

LEMMA Resized ==
  ASSUME NEW file \in Seq(Byte), NEW size \in Nat
  PROVE  ResizedTo(Resize(file, size), file, size)
<1>1. \A z \in 1..size : (IF z <= Len(file) THEN file[z] ELSE Zero) \in Byte
  BY DEF Byte
<1> QED
  BY <1>1 DEF Resize, ResizedTo

\* A file into which bytes were put, at a place.
PutTo(new, file, at, bytes) ==
  /\ new \in Seq(Byte) /\ Len(new) = Len(file)
  /\ \A z \in 1..Len(file) : at < z /\ z <= at + Len(bytes) =>
       new[z] = bytes[z - at] /\ z - at \in 1..Len(bytes)
  /\ \A z \in 1..Len(file) : ~(at < z /\ z <= at + Len(bytes)) => new[z] = file[z]

LEMMA PutThere ==
  ASSUME NEW file \in Seq(Byte), NEW at \in Nat, NEW bytes \in Seq(Byte)
  PROVE  PutTo(Put(file, at, bytes), file, at, bytes)
<1> DEFINE val(z) == IF z - at \in DOMAIN bytes THEN bytes[z - at] ELSE file[z]
<1>1. Len(file) \in Nat /\ Len(bytes) \in Nat /\ DOMAIN file = 1..Len(file)
      /\ DOMAIN bytes = 1..Len(bytes)
  OBVIOUS
<1>2. Put(file, at, bytes) = [z \in 1..Len(file) |-> val(z)]
  BY <1>1 DEF Put
<1>3. \A z \in 1..Len(file) : val(z) \in Byte
  BY <1>1
<1>4. \A z \in 1..Len(file) : at < z /\ z <= at + Len(bytes) => val(z) = bytes[z - at] /\ z - at \in 1..Len(bytes)
  BY <1>1
<1>5. \A z \in 1..Len(file) : ~(at < z /\ z <= at + Len(bytes)) => val(z) = file[z]
  BY <1>1
<1> HIDE DEF val
<1> QED
  BY <1>1, <1>2, <1>3, <1>4, <1>5 DEF PutTo

\* The next operation, and the rest.
LEMMA NextOp ==
  ASSUME NEW P \in Seq(Ops), NEW k \in 0..(Len(P) - 1), NEW todo, todo = SubSeq(P, k + 1, Len(P))
  PROVE  /\ todo # <<>> /\ Head(todo) = P[k + 1] /\ P[k + 1] \in Ops
         /\ Tail(todo) = SubSeq(P, k + 2, Len(P)) /\ Tail(todo) \in Seq(Ops)
         /\ Len(Tail(todo)) = Len(P) - k - 1
<1>1. Len(P) \in Nat /\ k + 1 \in 1..Len(P) /\ Len(P) \in (k + 1)..Len(P) /\ (k + 1) + 1 = k + 2
  OBVIOUS
<1>2. Head(todo) = P[k + 1] /\ Tail(todo) = SubSeq(P, (k + 1) + 1, Len(P))
  BY <1>1, HeadTailOfSubSeq
<1>3. todo \in Seq(Ops) /\ Len(todo) = Len(P) - k
  <2>1. k \in Nat /\ Len(P) \in 0..Len(P) /\ k <= Len(P)
    BY <1>1
  <2> QED
    BY <2>1, Cut
<1>4. todo # <<>>
  <2>1. Len(P) - k # 0
    BY <1>1
  <2> QED
    BY <1>3, <2>1
<1>5. Tail(todo) \in Seq(Ops) /\ Len(Tail(todo)) = Len(todo) - 1
  BY <1>3, <1>4, HeadTailProperties
<1>6. P[k + 1] \in Ops
  BY <1>1
<1> QED
  BY <1>1, <1>2, <1>3, <1>4, <1>5, <1>6
-----------------------------------------------------------------------------
\* A writer on its way through the plan.
Going(v, P, t, s, k) ==
  /\ DiskFollows(v) /\ Headless(v)
  /\ P = WritePlan(v.case) /\ PlanIs(v.case, P, t, s)
  /\ t \in Nat /\ s \in Nat /\ k \in Nat
  /\ OnItsWay(v, P, t, s, k)

LEMMA GoingIsInv ==
  ASSUME NEW v, NEW P, NEW t, NEW s, NEW k, Going(v, P, t, s, k)
  PROVE  FileInv(v)
<1>1. Unfinished(v)
  BY DEF Going, Unfinished
<1> QED
  BY <1>1 DEF Going, FileInv

\* Where the writer is in its plan.
PlaceIs(v, P, t, s, k) ==
  /\ Len(P) \in Nat /\ t \in Nat /\ s \in Nat /\ k \in Nat /\ 1 < t /\ t < s
  /\ Len(P) \in {s + 2, s + 3} /\ (ExtraMapped(v.case) <=> Len(P) = s + 3)
  /\ k + 1 < Len(P)
  /\ v.todo # <<>> /\ Head(v.todo) = P[k + 1] /\ P[k + 1] \in Ops
  /\ Tail(v.todo) = SubSeq(P, k + 2, Len(P)) /\ Tail(v.todo) \in Seq(Ops)
  /\ Len(Tail(v.todo)) = Len(P) - k - 1

LEMMA PlaceOf ==
  ASSUME NEW v, NEW P, NEW t, NEW s, NEW k, Going(v, P, t, s, k)
  PROVE  PlaceIs(v, P, t, s, k)
<1>1. /\ P \in Seq(Ops) /\ t \in Nat /\ s \in Nat /\ k \in Nat /\ 1 < t /\ t < s
      /\ Len(P) \in {s + 2, s + 3} /\ (ExtraMapped(v.case) <=> Len(P) = s + 3)
      /\ k \in 0..(Len(P) - 2) /\ v.todo = SubSeq(P, k + 1, Len(P))
  BY DEF Going, PlanIs, OnItsWay
<1>2. Len(P) \in Nat /\ k \in 0..(Len(P) - 1) /\ k + 1 < Len(P)
  BY <1>1
<1>3. /\ v.todo # <<>> /\ Head(v.todo) = P[k + 1] /\ P[k + 1] \in Ops
      /\ Tail(v.todo) = SubSeq(P, k + 2, Len(P)) /\ Tail(v.todo) \in Seq(Ops)
      /\ Len(Tail(v.todo)) = Len(P) - k - 1
  BY <1>1, <1>2, NextOp
<1> QED
  BY <1>1, <1>2, <1>3 DEF PlaceIs

LEMMA KindsOfOps ==
  /\ \A x \in TruncateOps : x.op = "truncate" /\ x.size \in Nat
  /\ \A x \in CopyOps : x.op = "copy"
  /\ \A x \in SyncOps : x.op = "sync"
BY DEF CopyOps, SyncOps, TruncateOps

\* What the next operation is.
LEMMA WhichOp ==
  ASSUME NEW v, NEW P, NEW t, NEW s, NEW k, Going(v, P, t, s, k)
  PROVE  /\ P[k + 1].op = "truncate" => k + 1 = 1 \/ k + 1 = t
         /\ P[k + 1].op = "copy" => k + 1 \in 2..(t - 1) \/ k + 1 \in (t + 1)..(s - 1) \/ k + 2 = Len(P)
         /\ P[k + 1].op = "sync" => k + 1 = s \/ (k = s /\ ExtraMapped(v.case))
<1> DEFINE n == Len(P)
           x == P[k + 1]
<1>1. /\ n \in Nat /\ t \in Nat /\ s \in Nat /\ k \in Nat /\ 1 < t /\ t < s
      /\ n \in {s + 2, s + 3} /\ (ExtraMapped(v.case) <=> n = s + 3) /\ k + 1 < n
  BY PlaceOf DEF PlaceIs
<1>2. /\ k + 1 = 1 => x \in TruncateOps
      /\ k + 1 = t => x \in TruncateOps
      /\ k + 1 \in 2..(t - 1) => x \in CopyOps
      /\ k + 1 \in (t + 1)..(s - 1) => x \in CopyOps
      /\ k + 1 = s => x \in SyncOps
      /\ ExtraMapped(v.case) /\ k + 1 = s + 1 => x \in SyncOps
      /\ k + 1 = n - 1 => x \in CopyOps
  BY DEF Going, PlanIs, RightCopy, SyncsPlaces
<1> HIDE DEF n, x
<1>3. \/ k + 1 = 1 \/ k + 1 = t \/ k + 1 \in 2..(t - 1) \/ k + 1 \in (t + 1)..(s - 1)
      \/ k + 1 = s \/ (k = s /\ n = s + 3) \/ k + 2 = n
  BY <1>1
<1>4. /\ k = s <=> k + 1 = s + 1
      /\ k + 2 = n <=> k + 1 = n - 1
  BY <1>1
<1>5. \/ x \in TruncateOps /\ (k + 1 = 1 \/ k + 1 = t)
      \/ x \in CopyOps /\ (k + 1 \in 2..(t - 1) \/ k + 1 \in (t + 1)..(s - 1) \/ k + 2 = n)
      \/ x \in SyncOps /\ (k + 1 = s \/ (k = s /\ ExtraMapped(v.case)))
  BY <1>1, <1>2, <1>3, <1>4
<1> QED
  BY <1>5, KindsOfOps DEF n, x

\* The types of what a file and its sizes are.
LEMMA GoingTypes ==
  ASSUME SizesFit, NEW v, NEW P, NEW t, NEW s, NEW k, Going(v, P, t, s, k), WellMade(v.case)
  PROVE  /\ v \in FileStates /\ v.mem \in Seq(Byte) /\ v.disk \in Seq(Byte) /\ v.case \in Vdexes
         /\ Len(v.mem) = Len(v.disk) /\ Len(v.mem) \in Nat /\ v.dirty \in SUBSET Nat
         /\ PageAlignedSize(v.case) \in Nat /\ FinalSize(v.case) \in Nat
         /\ TableAt(v.case) \in Nat \ {0} /\ HeaderLen \in Nat \ {0} /\ HeaderLen <= TableAt(v.case)
         /\ TableAt(v.case) <= Page /\ Page \in Nat \ {0}
<1>1. v \in FileStates /\ Len(v.mem) = Len(v.disk)
  BY DEF Going, DiskFollows
<1>2. v.mem \in Seq(Byte) /\ v.disk \in Seq(Byte) /\ v.case \in Vdexes /\ v.dirty \in SUBSET Nat
  BY <1>1 DEF FileStates
<1>3. Len(v.mem) \in Nat
  BY <1>2
<1>4. PageAlignedSize(v.case) \in Nat /\ FinalSize(v.case) \in Nat
  BY SizesAre DEF SizesInOrder
<1> QED
  BY <1>1, <1>2, <1>3, <1>4, CaseFacts

\* An ftruncate: on the disk the file is as long as in memory.
TruncateDone(v, w, x) ==
  w = [v EXCEPT !.todo = Tail(@), !.mem = Resize(@, x.size), !.disk = Resize(@, x.size)]

LEMMA TruncateGoes ==
  ASSUME SizesFit, NEW v, NEW P, NEW t, NEW s, NEW k, Going(v, P, t, s, k), WellMade(v.case),
         P[k + 1].op = "truncate",
         NEW w, TruncateDone(v, w, P[k + 1])
  PROVE  Going(w, P, t, s, k + 1)
<1> DEFINE c == v.case
           pages == PageAlignedSize(c)
           final == FinalSize(c)
           size == P[k + 1].size
<1>1. /\ Len(P) \in Nat /\ t \in Nat /\ s \in Nat /\ k \in Nat /\ 1 < t /\ t < s
      /\ Len(P) \in {s + 2, s + 3} /\ k + 1 < Len(P)
      /\ Tail(v.todo) = SubSeq(P, k + 2, Len(P)) /\ Tail(v.todo) \in Seq(Ops)
  <2>1. PlaceIs(v, P, t, s, k)
    BY PlaceOf
  <2> QED
    BY <2>1 DEF PlaceIs
<1>2. /\ v \in FileStates /\ v.mem \in Seq(Byte) /\ v.disk \in Seq(Byte) /\ c \in Vdexes
      /\ Len(v.mem) = Len(v.disk) /\ Len(v.mem) \in Nat
  BY GoingTypes
<1>3. pages \in Nat /\ final \in Nat /\ TableAt(c) \in Nat /\ HeaderLen \in Nat
  BY GoingTypes
<1>4. /\ P[1] \in TruncateOps /\ P[1].size = pages
      /\ P[t] \in TruncateOps /\ P[t].size = final
  BY DEF Going, PlanIs
<1>5. P[1].op = "truncate" /\ P[t].op = "truncate"
  BY <1>4, KindsOfOps
<1> HIDE DEF c, pages, final
<1>6. k + 1 = 1 \/ k + 1 = t
  BY WhichOp
<1>7. size \in Nat /\ (k + 1 = 1 => size = pages) /\ (k + 1 = t => size = final)
  BY <1>3, <1>4, <1>6
<1> HIDE DEF size
<1>8. /\ w.case = c /\ w.todo = Tail(v.todo) /\ w.mem = Resize(v.mem, size)
      /\ w.disk = Resize(v.disk, size) /\ w.dirty = v.dirty /\ w.verdict = v.verdict
      /\ w = [case |-> c, todo |-> Tail(v.todo), mem |-> Resize(v.mem, size),
              disk |-> Resize(v.disk, size), dirty |-> v.dirty, verdict |-> v.verdict]
  <2>1. w = [case |-> c, todo |-> Tail(v.todo), mem |-> Resize(v.mem, size),
             disk |-> Resize(v.disk, size), dirty |-> v.dirty, verdict |-> v.verdict]
    BY <1>2 DEF FileStates, TruncateDone, c, size
  <2> QED
    BY <2>1
<1>9. /\ w.mem \in Seq(Byte) /\ Len(w.mem) = size /\ w.disk \in Seq(Byte) /\ Len(w.disk) = size
      /\ \A z \in 1..size : w.mem[z] = IF z <= Len(v.mem) THEN v.mem[z] ELSE Zero
      /\ \A z \in 1..size : w.disk[z] = IF z <= Len(v.mem) THEN v.disk[z] ELSE Zero
  <2>1. w.mem = Resize(v.mem, size) /\ w.disk = Resize(v.disk, size)
    BY <1>8
  <2>2. v.mem \in Seq(Byte) /\ v.disk \in Seq(Byte) /\ size \in Nat
    BY <1>2, <1>7
  <2>3. ResizedTo(w.mem, v.mem, size) /\ ResizedTo(w.disk, v.disk, size)
    BY <2>1, <2>2, Resized
  <2> QED
    BY <1>2, <2>3 DEF ResizedTo
<1>10. DiskFollows(w)
  <2>1. w \in FileStates
    BY <1>1, <1>2, <1>8, <1>9 DEF FileStates
  <2>2. \A z \in 1..Len(w.mem) : w.disk[z] # w.mem[z] => (z - 1) \div Page \in w.dirty
    <3> SUFFICES ASSUME NEW z \in 1..size, w.disk[z] # w.mem[z] PROVE (z - 1) \div Page \in v.dirty
      BY <1>8, <1>9
    <3>1. z \in 1..Len(v.mem) /\ v.disk[z] # v.mem[z]
      BY <1>2, <1>7, <1>9
    <3> QED
      BY <3>1 DEF Going, DiskFollows
  <2> QED
    BY <1>8, <1>9, <2>1, <2>2 DEF Going, DiskFollows, c
<1>11. Headless(w)
  <2> SUFFICES ASSUME NEW z \in 1..size, z <= HeaderLen PROVE w.mem[z] = Zero /\ w.disk[z] = Zero
    BY <1>9 DEF Headless
  <2>1. CASE z <= Len(v.mem)
    <3>1. z \in 1..Len(v.mem)
      BY <1>2, <1>7, <2>1
    <3> QED
      BY <1>9, <2>1, <3>1 DEF Going, Headless
  <2>2. CASE ~(z <= Len(v.mem))
    BY <1>9, <2>2
  <2> QED
    BY <2>1, <2>2
<1>12. ASSUME NEW p \in 1..size, TableAt(c) < p, p <= final
       PROVE  w.mem[p] = Expected(c)[p] \/ \E j \in (k + 2)..(s - 1) : Fills(P[j], p)
  <2>1. p \in (TableAt(c) + 1)..final /\ p \in Nat
    BY <1>3, <1>7, <1>12
  <2>2. \A j : Fills(P[j], p) => j # 1 /\ j # t
    BY <1>4, <1>5 DEF Fills
  <2>3. CASE k + 1 = 1
    <3>1. Len(v.mem) = 0
      <4>1. k = 0
        BY <1>1, <2>3
      <4> QED
        BY <4>1 DEF Going, OnItsWay
    <3>2. w.mem[p] = Zero
      BY <1>7, <1>9, <2>1, <3>1
    <3>3. Expected(c)[p] = Zero \/ \E j \in 1..(s - 1) : Fills(P[j], p)
      BY <2>1 DEF Going, PlanIs, c, final
    <3>4. \A j \in 1..(s - 1) : j # 1 => j \in (k + 2)..(s - 1)
      BY <1>1, <2>3
    <3> QED
      BY <2>2, <3>2, <3>3, <3>4
  <2>4. CASE k + 1 = t
    <3>1. Len(v.mem) = pages /\ k # 0
      <4>1. 0 < k /\ k < t
        BY <1>1, <2>4
      <4> QED
        BY <4>1 DEF Going, OnItsWay, c, pages
    <3>2. CASE p <= pages
      <4>1. w.mem[p] = v.mem[p] /\ p \in 1..Len(v.mem)
        BY <1>3, <1>9, <2>1, <3>1, <3>2
      <4>2. v.mem[p] = Expected(c)[p] \/ \E j \in (k + 1)..(s - 1) : Fills(P[j], p)
        BY <1>12, <3>1, <4>1 DEF Going, OnItsWay, c, final
      <4>3. \A j \in (k + 1)..(s - 1) : j # t => j \in (k + 2)..(s - 1)
        BY <1>1, <2>4
      <4> QED
        BY <2>2, <4>1, <4>2, <4>3
    <3>3. CASE ~(p <= pages)
      <4>1. p \in (pages + 1)..final
        BY <1>3, <2>1, <3>3
      <4>2. \E j \in (t + 1)..(s - 1) : Fills(P[j], p)
        BY <4>1 DEF Going, PlanIs, c, final, pages
      <4> QED
        BY <1>1, <2>4, <4>2
    <3> QED
      BY <3>2, <3>3
  <2> QED
    BY <1>6, <2>3, <2>4
<1>13. OnItsWay(w, P, t, s, k + 1)
  <2>5. /\ Len(P) \in Nat /\ t \in Nat /\ s \in Nat /\ k \in Nat /\ 1 < t /\ t < s
        /\ Len(P) \in {s + 2, s + 3}
    BY <1>1
  <2>1. k + 1 # 0 /\ k + 1 < s /\ k + 1 \in 0..(Len(P) - 2) /\ (k + 1) + 1 = k + 2
    BY <1>6, <2>5
  <2>4. (k + 1 < t => size = pages) /\ (t <= k + 1 => size = final)
    <3>1. (k + 1 < t => k + 1 = 1) /\ (t <= k + 1 => k + 1 = t)
      BY <1>6, <2>5
    <3> QED
      BY <1>7, <3>1
  <2>2. w.verdict = "none" /\ w.todo = SubSeq(P, (k + 1) + 1, Len(P))
    BY <1>1, <1>8, <2>1 DEF Going, OnItsWay
  <2>3. ~(s <= k + 1) /\ ~(s < k + 1)
    BY <2>1, <2>5
  <2> QED
    BY <1>8, <1>9, <1>12, <2>1, <2>2, <2>3, <2>4 DEF OnItsWay, pages, final
<1> QED
  BY <1>1, <1>8, <1>10, <1>11, <1>13 DEF Going, c
-----------------------------------------------------------------------------
\* A page is no greater in a smaller place.
LEMMA PagesFound ==
  ASSUME Page \in Nat \ {0}, NEW from \in Nat, NEW to \in Nat, from < to
  PROVE  /\ PagesOf(from, to) \subseteq Nat
         /\ \A z \in (from + 1)..to : (z - 1) \div Page \in PagesOf(from, to)
         /\ \A most \in Nat : to <= most => PagesOf(from, to) \subseteq 0..most \div Page
<1>1. to - 1 \in Nat
  OBVIOUS
<1>2. from \div Page \in Nat /\ (to - 1) \div Page \in Nat
  BY <1>1, Divided
<1>3. PagesOf(from, to) = from \div Page .. (to - 1) \div Page
  BY DEF PagesOf
<1>4. ASSUME NEW z \in (from + 1)..to PROVE (z - 1) \div Page \in PagesOf(from, to)
  <2>1. z - 1 \in Nat /\ from <= z - 1 /\ z - 1 <= to - 1
    OBVIOUS
  <2>2. (z - 1) \div Page \in Nat /\ from \div Page <= (z - 1) \div Page
        /\ (z - 1) \div Page <= (to - 1) \div Page
    BY <1>1, <2>1, Divided, QuotientOrder
  <2> QED
    BY <1>2, <1>3, <2>2
<1>5. ASSUME NEW most \in Nat, to <= most PROVE PagesOf(from, to) \subseteq 0..most \div Page
  <2>1. to - 1 <= most
    BY <1>5
  <2>2. most \div Page \in Nat /\ (to - 1) \div Page <= most \div Page
    BY <1>1, <2>1, Divided, QuotientOrder
  <2> QED
    BY <1>2, <1>3, <2>2
<1>6. PagesOf(from, to) \subseteq Nat
  BY <1>2, <1>3
<1> QED
  BY <1>4, <1>5, <1>6

\* What a copy does to the disk: nothing, and its pages are noted.
CopyDone(v, w, x) ==
  w = [v EXCEPT !.todo = Tail(@), !.mem = Put(@, x.at, x.bytes),
                !.dirty = @ \cup PagesOf(x.at, x.at + Len(x.bytes))]

LEMMA CopyNoted ==
  ASSUME SizesFit, NEW v, DiskFollows(v), NEW x \in CopyOps, WellMade(v.case),
         x.bytes # <<>>, x.at + Len(x.bytes) <= FinalSize(v.case) + PageAlignedSize(v.case),
         NEW w, CopyDone(v, w, x),
         Tail(v.todo) \in Seq(Ops)
  PROVE  /\ DiskFollows(w)
         /\ w.case = v.case /\ w.todo = Tail(v.todo) /\ w.disk = v.disk /\ w.verdict = v.verdict
         /\ Len(w.mem) = Len(v.mem) /\ Len(w.mem) \in Nat /\ w.mem \in Seq(Byte)
         /\ \A z \in 1..Len(v.mem) : x.at < z /\ z <= x.at + Len(x.bytes) =>
              w.mem[z] = x.bytes[z - x.at] /\ z - x.at \in 1..Len(x.bytes)
         /\ \A z \in 1..Len(v.mem) : ~(x.at < z /\ z <= x.at + Len(x.bytes)) => w.mem[z] = v.mem[z]
<1> DEFINE to == x.at + Len(x.bytes)
           pages == PagesOf(x.at, to)
           most == FinalSize(v.case) + PageAlignedSize(v.case)
           mem == Put(v.mem, x.at, x.bytes)
<1>1. /\ v \in FileStates /\ Len(v.mem) = Len(v.disk)
      /\ v.dirty \subseteq 0..most \div Page
      /\ \A z \in 1..Len(v.mem) : v.disk[z] # v.mem[z] => (z - 1) \div Page \in v.dirty
  BY DEF DiskFollows
<1>2. /\ v.mem \in Seq(Byte) /\ v.disk \in Seq(Byte) /\ v.dirty \in SUBSET Nat /\ Len(v.mem) \in Nat
  <2>1. v.mem \in Seq(Byte) /\ v.disk \in Seq(Byte) /\ v.dirty \in SUBSET Nat
    BY <1>1 DEF FileStates
  <2> QED
    BY <2>1
<1>3. x.at \in Nat /\ x.bytes \in Seq(Byte) /\ Len(x.bytes) \in Nat \ {0}
  BY DEF CopyOps
<1>4. most \in Nat /\ Page \in Nat \ {0}
  BY SizesAre, CaseFacts DEF SizesInOrder
<1>5. to \in Nat /\ x.at < to /\ to <= most
  BY <1>3
<1> HIDE DEF to, most
<1>6. /\ pages \subseteq Nat /\ pages \subseteq 0..most \div Page
      /\ \A z \in (x.at + 1)..to : (z - 1) \div Page \in pages
  BY <1>3, <1>4, <1>5, PagesFound
<1>7. /\ mem \in Seq(Byte) /\ Len(mem) = Len(v.mem)
      /\ \A z \in 1..Len(v.mem) : x.at < z /\ z <= x.at + Len(x.bytes) =>
              mem[z] = x.bytes[z - x.at] /\ z - x.at \in 1..Len(x.bytes)
      /\ \A z \in 1..Len(v.mem) : ~(x.at < z /\ z <= x.at + Len(x.bytes)) => mem[z] = v.mem[z]
  <2>1. PutTo(mem, v.mem, x.at, x.bytes)
    BY <1>2, <1>3, PutThere
  <2> HIDE DEF mem
  <2> QED
    BY <2>1 DEF PutTo
<1> HIDE DEF mem, pages
<1>8. /\ w = [case |-> v.case, todo |-> Tail(v.todo), mem |-> mem, disk |-> v.disk,
              dirty |-> v.dirty \cup pages, verdict |-> v.verdict]
  BY <1>1 DEF FileStates, CopyDone, mem, pages, to
<1>9. w \in FileStates
  <2>1. v.case \in Vdexes /\ v.verdict \in {"none", "ok", "mismatch", "range", "bus error", "failed"}
    BY <1>1 DEF FileStates
  <2>2. v.dirty \cup pages \in SUBSET Nat
    BY <1>2, <1>6
  <2> QED
    BY <1>2, <1>7, <1>8, <2>1, <2>2 DEF FileStates
<1>10. ASSUME NEW z \in 1..Len(v.mem), v.disk[z] # mem[z] PROVE (z - 1) \div Page \in v.dirty \cup pages
  <2>1. CASE x.at < z /\ z <= to
    <3>1. z \in (x.at + 1)..to
      BY <1>3, <1>5, <2>1
    <3> QED
      BY <1>6, <3>1
  <2>2. CASE ~(x.at < z /\ z <= to)
    BY <1>1, <1>7, <1>10, <2>2 DEF to
  <2> QED
    BY <2>1, <2>2
<1>11. DiskFollows(w)
  <2>1. w.dirty \subseteq 0..(FinalSize(w.case) + PageAlignedSize(w.case)) \div Page
    BY <1>1, <1>6, <1>8 DEF most
  <2>2. w.verdict \in {"none", "ok", "failed"}
    <3>1. v.verdict \in {"none", "ok", "failed"}
      BY DEF DiskFollows
    <3> QED
      BY <1>8, <3>1
  <2>3. Len(w.mem) = Len(w.disk) /\ Len(w.mem) = Len(v.mem)
    BY <1>1, <1>7, <1>8
  <2>4. \A z \in 1..Len(w.mem) : w.disk[z] # w.mem[z] => (z - 1) \div Page \in w.dirty
    BY <1>8, <1>10, <2>3
  <2> QED
    BY <1>9, <2>1, <2>2, <2>3, <2>4 DEF DiskFollows
<1>12. /\ w.case = v.case /\ w.todo = Tail(v.todo) /\ w.disk = v.disk /\ w.verdict = v.verdict
       /\ w.mem = mem
  BY <1>8
<1> QED
  BY <1>2, <1>7, <1>11, <1>12

\* A copy of what lies behind the header.
LEMMA CopyGoes ==
  ASSUME SizesFit, NEW v, NEW P, NEW t, NEW s, NEW k, Going(v, P, t, s, k), WellMade(v.case),
         k + 1 \in 2..(t - 1) \/ k + 1 \in (t + 1)..(s - 1), P[k + 1].bytes # <<>>,
         NEW w, CopyDone(v, w, P[k + 1])
  PROVE  Going(w, P, t, s, k + 1)
<1> DEFINE c == v.case
           x == P[k + 1]
           from == x.at
           to == x.at + Len(x.bytes)
<1>1. /\ Len(P) \in Nat /\ t \in Nat /\ s \in Nat /\ k \in Nat /\ 1 < t /\ t < s
      /\ Len(P) \in {s + 2, s + 3} /\ k + 1 < Len(P)
      /\ Tail(v.todo) = SubSeq(P, k + 2, Len(P)) /\ Tail(v.todo) \in Seq(Ops)
  <2>1. PlaceIs(v, P, t, s, k)
    BY PlaceOf
  <2> QED
    BY <2>1 DEF PlaceIs
<1>2. /\ v \in FileStates /\ v.mem \in Seq(Byte) /\ v.disk \in Seq(Byte) /\ c \in Vdexes
      /\ Len(v.mem) = Len(v.disk) /\ Len(v.mem) \in Nat
  BY GoingTypes
<1>3. PageAlignedSize(c) \in Nat /\ FinalSize(c) \in Nat /\ TableAt(c) \in Nat /\ HeaderLen \in Nat
      /\ HeaderLen <= TableAt(c)
  BY GoingTypes
<1>4. RightCopy(c, x)
  BY DEF Going, PlanIs
<1>5. /\ x \in CopyOps /\ TableAt(c) <= from /\ to <= FinalSize(c)
      /\ \A z \in 1..Len(x.bytes) : x.bytes[z] = Expected(c)[from + z]
  BY <1>4 DEF RightCopy
<1>6. from \in Nat /\ Len(x.bytes) \in Nat /\ x.op = "copy" /\ to \in Nat
      /\ to <= FinalSize(c) + PageAlignedSize(c)
  <2>1. from \in Nat /\ x.bytes \in Seq(Byte) /\ x.op = "copy"
    BY <1>5 DEF CopyOps
  <2>2. Len(x.bytes) \in Nat
    BY <2>1
  <2>3. to \in Nat /\ to <= FinalSize(c)
    BY <1>5, <2>1, <2>2
  <2>4. to <= FinalSize(c) + PageAlignedSize(c)
    <3> HIDE DEF to
    <3> QED
      BY <1>3, <2>3
  <2> QED
    BY <2>1, <2>2, <2>3, <2>4
<1>7. DiskFollows(v) /\ CopyDone(v, w, x) /\ x.bytes # <<>>
  BY DEF Going
<1> HIDE DEF c, x
<1>8. /\ DiskFollows(w)
      /\ w.case = c /\ w.todo = Tail(v.todo) /\ w.disk = v.disk /\ w.verdict = v.verdict
      /\ Len(w.mem) = Len(v.mem)
      /\ \A z \in 1..Len(v.mem) : from < z /\ z <= to =>
              w.mem[z] = x.bytes[z - from] /\ z - from \in 1..Len(x.bytes)
      /\ \A z \in 1..Len(v.mem) : ~(from < z /\ z <= to) => w.mem[z] = v.mem[z]
  <2>1. Tail(v.todo) \in Seq(Ops) /\ WellMade(v.case)
        /\ x.at + Len(x.bytes) <= FinalSize(v.case) + PageAlignedSize(v.case)
    BY <1>1, <1>6 DEF c
  <2> HIDE DEF from, to
  <2> QED
    BY <1>5, <1>7, <2>1, CopyNoted DEF c, from, to
<1> HIDE DEF from, to
<1>9. Headless(w)
  <2> SUFFICES ASSUME NEW z \in 1..Len(v.mem), z <= HeaderLen PROVE w.mem[z] = Zero /\ w.disk[z] = Zero
    BY <1>8 DEF Headless
  <2>1. ~(from < z)
    BY <1>2, <1>3, <1>5, <1>6
  <2> QED
    BY <1>8, <2>1 DEF Going, Headless
<1>10. k # 0 /\ 0 < k /\ k + 1 # t /\ k + 1 < s
  <2>1. t \in Nat /\ s \in Nat /\ k \in Nat /\ t < s
    BY <1>1
  <2>2. CASE k + 1 \in 2..(t - 1)
    BY <2>1, <2>2
  <2>3. CASE k + 1 \in (t + 1)..(s - 1)
    <3>1. k >= t /\ 1 < t
      BY <1>1, <2>1, <2>3
    <3> QED
      BY <2>1, <2>3, <3>1
  <2> QED
    BY <2>2, <2>3
<1>11. ASSUME NEW p \in 1..Len(v.mem), TableAt(c) < p, p <= FinalSize(c)
       PROVE  w.mem[p] = Expected(c)[p] \/ \E j \in (k + 2)..(s - 1) : Fills(P[j], p)
  <2>1. CASE from < p /\ p <= to
    <3>1. w.mem[p] = x.bytes[p - from] /\ p - from \in 1..Len(x.bytes) /\ from + (p - from) = p
      BY <1>2, <1>6, <1>8, <2>1
    <3> QED
      BY <1>5, <3>1
  <2>2. CASE ~(from < p /\ p <= to)
    <3>1. w.mem[p] = v.mem[p]
      BY <1>8, <2>2
    <3>2. v.mem[p] = Expected(c)[p] \/ \E j \in (k + 1)..(s - 1) : Fills(P[j], p)
      BY <1>10, <1>11 DEF Going, OnItsWay, c
    <3>3. \A j : Fills(P[j], p) => j # k + 1
      BY <2>2 DEF Fills, x, from, to
    <3>4. \A j \in (k + 1)..(s - 1) : j # k + 1 => j \in (k + 2)..(s - 1)
      BY <1>1
    <3> QED
      BY <3>1, <3>2, <3>3, <3>4
  <2> QED
    BY <2>1, <2>2
<1>12. OnItsWay(w, P, t, s, k + 1)
  <2>1. k + 1 # 0 /\ k + 1 \in 0..(Len(P) - 2) /\ (k + 1) + 1 = k + 2
        /\ ~(s <= k + 1) /\ ~(s < k + 1)
    BY <1>1, <1>10
  <2>2. (k + 1 < t => 0 < k /\ k < t) /\ (t <= k + 1 => t <= k)
    BY <1>1, <1>10
  <2>3. (k + 1 < t => Len(v.mem) = PageAlignedSize(c)) /\ (t <= k + 1 => Len(v.mem) = FinalSize(c))
    BY <2>2 DEF Going, OnItsWay, c
  <2>4. w.verdict = "none" /\ w.todo = SubSeq(P, (k + 1) + 1, Len(P))
    BY <1>1, <1>8, <2>1 DEF Going, OnItsWay
  <2> QED
    BY <1>8, <1>11, <2>1, <2>3, <2>4 DEF OnItsWay
<1> QED
  BY <1>1, <1>8, <1>9, <1>12 DEF Going, c
-----------------------------------------------------------------------------
(* What each operation leaves                                                *)
LEMMA SameBytes ==
  ASSUME NEW A \in Seq(Byte), NEW B \in Seq(Byte), Len(A) = Len(B), \A z \in 1..Len(A) : A[z] = B[z]
  PROVE  A = B
OBVIOUS

\* A copy has room in its mapping, and in the last page of the file.
CopyFits(v, x) ==
  /\ x \in CopyOps /\ x.bytes # <<>> /\ x.at + Len(x.bytes) \in Nat
  /\ ~(x.at + Len(x.bytes) > x.end)
  /\ ~(x.at + Len(x.bytes) > RoundUp(Len(v.mem), Page))
  /\ x.at + Len(x.bytes) <= FinalSize(v.case) + PageAlignedSize(v.case)

LEMMA CopiesFit ==
  ASSUME SizesFit, NEW v, NEW P, NEW t, NEW s, NEW k, Going(v, P, t, s, k), WellMade(v.case),
         P[k + 1].op = "copy"
  PROVE  CopyFits(v, P[k + 1])
<1> DEFINE c == v.case
           x == P[k + 1]
           e == x.at + Len(x.bytes)
           pages == PageAlignedSize(c)
           final == FinalSize(c)
           room == RoundUp(Len(v.mem), Page)
<1>1. /\ Len(P) \in Nat /\ t \in Nat /\ s \in Nat /\ k \in Nat /\ 1 < t /\ t < s
      /\ Len(P) \in {s + 2, s + 3} /\ k + 1 < Len(P)
  <2>1. PlaceIs(v, P, t, s, k)
    BY PlaceOf
  <2> QED
    BY <2>1 DEF PlaceIs
<1>2. /\ pages \in Nat /\ final \in Nat /\ Page <= pages
      /\ RoundUp(pages, Page) = pages /\ pages <= RoundUp(final, Page)
      /\ final <= RoundUp(final, Page) /\ RoundUp(final, Page) \in Nat
      /\ TableAt(c) \in Nat \ {0} /\ TableAt(c) <= Page /\ Page \in Nat
  BY SizesAre, CaseFacts DEF SizesInOrder
<1>3. /\ 0 < k /\ k < t => Len(v.mem) = pages
      /\ t <= k => Len(v.mem) = final
  BY DEF Going, OnItsWay
<1>4. /\ \A j \in 2..(t - 1) : RightCopy(c, P[j]) /\ P[j].end <= pages
      /\ \A j \in (t + 1)..(s - 1) : RightCopy(c, P[j])
      /\ P[Len(P) - 1] \in CopyOps /\ P[Len(P) - 1].at = 0 /\ P[Len(P) - 1].end = pages
      /\ P[Len(P) - 1].bytes = Header(c)
  BY DEF Going, PlanIs
<1>5. Len(Header(c)) = TableAt(c)
  BY HeaderIs
<1>6. k + 1 \in 2..(t - 1) \/ k + 1 \in (t + 1)..(s - 1) \/ k + 2 = Len(P)
  BY WhichOp
<1> HIDE DEF c, pages, final
<1>7. CASE k + 1 \in 2..(t - 1)
  <2>1. RightCopy(c, x) /\ x.end <= pages
    BY <1>4, <1>7
  <2>2. room = pages
    BY <1>1, <1>2, <1>3, <1>7
  <2>3. x \in CopyOps /\ x.bytes # <<>> /\ e <= x.end
    BY <2>1 DEF RightCopy
  <2>4. e \in Nat /\ x.end \in Nat
    BY <2>3 DEF CopyOps
  <2> HIDE DEF x, e, room
  <2>5. ~(e > x.end) /\ ~(e > room) /\ e <= final + pages
    BY <1>2, <2>1, <2>2, <2>3, <2>4
  <2> QED
    BY <2>3, <2>4, <2>5 DEF CopyFits, c, x, e, room, pages, final
<1>8. CASE k + 1 \in (t + 1)..(s - 1)
  <2>1. RightCopy(c, x)
    BY <1>4, <1>8
  <2>2. room = RoundUp(final, Page)
    BY <1>1, <1>3, <1>8
  <2>3. x \in CopyOps /\ x.bytes # <<>> /\ e <= x.end /\ e <= final
    BY <2>1 DEF RightCopy, final
  <2>4. e \in Nat /\ x.end \in Nat
    BY <2>3 DEF CopyOps
  <2> HIDE DEF x, e, room
  <2>5. ~(e > x.end) /\ ~(e > room) /\ e <= final + pages
    BY <1>2, <2>2, <2>3, <2>4
  <2> QED
    BY <2>3, <2>4, <2>5 DEF CopyFits, c, x, e, room, pages, final
<1>9. CASE k + 2 = Len(P)
  <2>1. k + 1 = Len(P) - 1 /\ t <= k
    BY <1>1, <1>9
  <2>2. x \in CopyOps /\ x.at = 0 /\ x.end = pages /\ x.bytes = Header(c)
    BY <1>4, <2>1
  <2>3. room = RoundUp(final, Page)
    BY <1>3, <2>1
  <2>4. e = TableAt(c)
    BY <1>2, <1>5, <2>2
  <2>5. x.bytes # <<>>
    <3>1. Len(x.bytes) # 0
      BY <1>2, <1>5, <2>2
    <3> QED
      BY <3>1
  <2> HIDE DEF x, e, room
  <2>6. e \in Nat /\ ~(e > x.end) /\ ~(e > room) /\ e <= final + pages
    BY <1>2, <2>2, <2>3, <2>4
  <2> QED
    BY <2>2, <2>5, <2>6 DEF CopyFits, c, x, e, room, pages, final
<1> QED
  BY <1>6, <1>7, <1>8, <1>9

\* An operation that only ends; the end of the writer.
Passed(v, w) == w = [v EXCEPT !.todo = Tail(@)]
Ended(v, w, verdict) == w = [v EXCEPT !.todo = <<>>, !.verdict = verdict]

SameFile(v, w) == w.case = v.case /\ w.mem = v.mem /\ w.disk = v.disk /\ w.dirty = v.dirty

LEMMA PassedIs ==
  ASSUME NEW v, DiskFollows(v), NEW w, Passed(v, w), Tail(v.todo) \in Seq(Ops)
  PROVE  DiskFollows(w) /\ SameFile(v, w) /\ w.todo = Tail(v.todo) /\ w.verdict = v.verdict
<1>1. v \in FileStates
  BY DEF DiskFollows
<1>2. w = [case |-> v.case, todo |-> Tail(v.todo), mem |-> v.mem, disk |-> v.disk,
           dirty |-> v.dirty, verdict |-> v.verdict]
  BY <1>1 DEF FileStates, Passed
<1>3. w \in FileStates
  BY <1>1, <1>2 DEF FileStates
<1>4. /\ w.case = v.case /\ w.mem = v.mem /\ w.disk = v.disk /\ w.dirty = v.dirty
      /\ w.todo = Tail(v.todo) /\ w.verdict = v.verdict
  BY <1>2
<1> QED
  BY <1>3, <1>4 DEF DiskFollows, SameFile

LEMMA EndedIs ==
  ASSUME NEW v, DiskFollows(v), NEW verdict \in {"ok", "failed"}, NEW w, Ended(v, w, verdict)
  PROVE  DiskFollows(w) /\ SameFile(v, w) /\ w.todo = <<>> /\ w.verdict = verdict
<1>1. v \in FileStates
  BY DEF DiskFollows
<1>2. w = [case |-> v.case, todo |-> <<>>, mem |-> v.mem, disk |-> v.disk,
           dirty |-> v.dirty, verdict |-> verdict]
  BY <1>1 DEF FileStates, Ended
<1>3. w \in FileStates
  <2>1. <<>> \in Seq(Ops)
    OBVIOUS
  <2> QED
    BY <1>1, <1>2, <2>1 DEF FileStates
<1>4. /\ w.case = v.case /\ w.mem = v.mem /\ w.disk = v.disk /\ w.dirty = v.dirty
      /\ w.todo = <<>> /\ w.verdict = verdict
  BY <1>2
<1> QED
  BY <1>3, <1>4 DEF DiskFollows, SameFile

\* An msync of a writer on its way waits for what is behind in its pages.
LEMMA SyncGoes ==
  ASSUME SizesFit, NEW v, NEW P, NEW t, NEW s, NEW k, Going(v, P, t, s, k), WellMade(v.case),
         P[k + 1].op = "sync", v.dirty \cap (P[k + 1].from..P[k + 1].to) = {},
         NEW w, Passed(v, w)
  PROVE  Going(w, P, t, s, k + 1)
<1> DEFINE c == v.case
           pages == PageAlignedSize(c)
           final == FinalSize(c)
<1>1. /\ Len(P) \in Nat /\ t \in Nat /\ s \in Nat /\ k \in Nat /\ 1 < t /\ t < s
      /\ Len(P) \in {s + 2, s + 3} /\ (ExtraMapped(c) <=> Len(P) = s + 3) /\ k + 1 < Len(P)
      /\ Tail(v.todo) = SubSeq(P, k + 2, Len(P)) /\ Tail(v.todo) \in Seq(Ops)
  <2>1. PlaceIs(v, P, t, s, k)
    BY PlaceOf
  <2> QED
    BY <2>1 DEF PlaceIs
<1>2. Len(v.mem) \in Nat /\ pages \in Nat /\ final \in Nat
  BY GoingTypes
<1>3. /\ SyncsPlaces(P[s], 1, pages)
      /\ ExtraMapped(c) => SyncsPlaces(P[s + 1], pages + 1, final)
  BY DEF Going, PlanIs
<1>4. k + 1 = s \/ (k = s /\ ExtraMapped(c))
  BY WhichOp
<1>5. DiskFollows(w) /\ SameFile(v, w) /\ w.todo = Tail(v.todo) /\ w.verdict = v.verdict
  BY <1>1, PassedIs DEF Going
<1>6. w.case = c /\ w.mem = v.mem /\ w.disk = v.disk
  BY <1>5 DEF SameFile
<1> HIDE DEF c, pages, final
<1>7. t <= k /\ k # 0 /\ ~(k + 1 < t) /\ k + 1 # 0 /\ k + 1 \in 0..(Len(P) - 2)
      /\ (k + 1) + 1 = k + 2
  BY <1>1, <1>4
<1>8. Len(v.mem) = final
  BY <1>7 DEF Going, OnItsWay, final, c
<1>9. \A z \in 1..Len(v.mem) : v.disk[z] # v.mem[z] => (z - 1) \div Page \notin P[k + 1].from..P[k + 1].to
  BY DEF Going, DiskFollows
<1>10. \A z \in 1..Len(v.mem) : z <= pages => v.disk[z] = v.mem[z]
  <2>1. CASE k + 1 = s
    <3>1. \A z \in 1..Len(v.mem) : z <= pages => z \in 1..pages
      BY <1>2
    <3>2. \A z \in 1..pages : (z - 1) \div Page \in P[k + 1].from..P[k + 1].to
      BY <1>3, <2>1 DEF SyncsPlaces
    <3> QED
      BY <1>9, <3>1, <3>2
  <2>2. CASE k = s
    <3>1. s <= k
      BY <1>1, <2>2
    <3> QED
      BY <3>1 DEF Going, OnItsWay, pages, c
  <2> QED
    BY <1>4, <2>1, <2>2
<1>11. ASSUME s < k + 1, NEW z \in 1..Len(v.mem) PROVE v.disk[z] = v.mem[z]
  <2>1. k = s /\ ExtraMapped(c)
    BY <1>1, <1>4, <1>11
  <2>2. CASE z <= pages
    BY <1>10, <2>2
  <2>3. CASE ~(z <= pages)
    <3>1. z \in (pages + 1)..final
      BY <1>2, <1>8, <2>3
    <3>2. (z - 1) \div Page \in P[k + 1].from..P[k + 1].to
      BY <1>3, <2>1, <3>1 DEF SyncsPlaces
    <3> QED
      BY <1>9, <3>2
  <2> QED
    BY <2>2, <2>3
<1>12. \A p \in 1..Len(v.mem) : TableAt(c) < p /\ p <= final =>
         v.mem[p] = Expected(c)[p] \/ \E j \in (k + 2)..(s - 1) : Fills(P[j], p)
  <2>1. \A p \in 1..Len(v.mem) : TableAt(c) < p /\ p <= final =>
          v.mem[p] = Expected(c)[p] \/ \E j \in (k + 1)..(s - 1) : Fills(P[j], p)
    BY <1>7 DEF Going, OnItsWay, c, final
  <2>2. (k + 1)..(s - 1) = {}
    BY <1>1, <1>4
  <2> QED
    BY <2>1, <2>2
<1>13. OnItsWay(w, P, t, s, k + 1)
  <2>1. w.verdict = "none" /\ w.todo = SubSeq(P, (k + 1) + 1, Len(P))
    BY <1>1, <1>5, <1>7 DEF Going, OnItsWay
  <2> QED
    BY <1>6, <1>7, <1>8, <1>10, <1>11, <1>12, <2>1 DEF OnItsWay, pages, final
<1>14. Headless(w)
  BY <1>6 DEF Going, Headless
<1> QED
  BY <1>1, <1>5, <1>6, <1>7, <1>13, <1>14 DEF Going, c
-----------------------------------------------------------------------------
\* The header: all the rest is where it belongs, and on the disk.
AllButHeader(v) ==
  /\ Len(v.mem) = FinalSize(v.case)
  /\ \A p \in 1..FinalSize(v.case) : TableAt(v.case) < p => v.mem[p] = Expected(v.case)[p]
  /\ v.disk = v.mem

LEMMA BehindTheHeader ==
  ASSUME SizesFit, NEW v, NEW P, NEW t, NEW s, NEW k, Going(v, P, t, s, k), WellMade(v.case),
         k + 2 = Len(P)
  PROVE  AllButHeader(v)
<1> DEFINE c == v.case
           pages == PageAlignedSize(c)
           final == FinalSize(c)
<1>1. /\ Len(P) \in Nat /\ t \in Nat /\ s \in Nat /\ k \in Nat /\ 1 < t /\ t < s
      /\ Len(P) \in {s + 2, s + 3} /\ (ExtraMapped(c) <=> Len(P) = s + 3)
  <2>1. PlaceIs(v, P, t, s, k)
    BY PlaceOf
  <2> QED
    BY <2>1 DEF PlaceIs
<1>2. /\ Len(v.mem) \in Nat /\ pages \in Nat /\ final \in Nat
      /\ v.mem \in Seq(Byte) /\ v.disk \in Seq(Byte) /\ Len(v.disk) = Len(v.mem)
  BY GoingTypes
<1>3. ~ExtraMapped(c) => final <= pages
  <2>1. /\ ~ExtraMapped(c) => FirstChunkSize(c) = c.extra
        /\ OldVdexSize(c) + FirstChunkSize(c) <= pages
        /\ final = OldVdexSize(c) + c.extra
    BY SizesAre DEF SizesInOrder
  <2> HIDE DEF c, pages, final
  <2> QED
    BY <2>1
<1> HIDE DEF c, pages, final
<1>4. t <= k /\ k # 0 /\ s <= k /\ (s < k \/ ~ExtraMapped(c)) /\ (k + 1)..(s - 1) = {}
  BY <1>1
<1>5. Len(v.mem) = final
  BY <1>4 DEF Going, OnItsWay, final, c
<1>6. ASSUME NEW p \in 1..final, TableAt(c) < p PROVE v.mem[p] = Expected(c)[p]
  <2>1. p <= final
    BY <1>2
  <2>2. v.mem[p] = Expected(c)[p] \/ \E j \in (k + 1)..(s - 1) : Fills(P[j], p)
    BY <1>4, <1>5, <1>6, <2>1 DEF Going, OnItsWay, c, final
  <2> QED
    BY <1>4, <2>2
<1>7. \A z \in 1..Len(v.mem) : v.disk[z] = v.mem[z]
  <2>1. CASE s < k
    BY <2>1 DEF Going, OnItsWay
  <2>2. CASE ~ExtraMapped(c)
    <3>1. \A z \in 1..Len(v.mem) : z <= pages
      BY <1>2, <1>3, <1>5, <2>2
    <3> QED
      BY <1>4, <3>1 DEF Going, OnItsWay, pages, c
  <2> QED
    BY <1>4, <2>1, <2>2
<1>8. v.disk = v.mem
  BY <1>2, <1>7, SameBytes
<1> QED
  BY <1>5, <1>6, <1>8 DEF AllButHeader, c, final

LEMMA HeaderGoes ==
  ASSUME SizesFit, NEW v, NEW P, NEW t, NEW s, NEW k, Going(v, P, t, s, k), WellMade(v.case),
         k + 2 = Len(P),
         NEW w, CopyDone(v, w, P[k + 1])
  PROVE  DiskFollows(w) /\ Whole(w)
<1> DEFINE c == v.case
           x == P[k + 1]
           h == Len(x.bytes)
           final == FinalSize(c)
<1>1. /\ Len(P) \in Nat /\ k \in Nat /\ k + 1 = Len(P) - 1
      /\ Tail(v.todo) = SubSeq(P, k + 2, Len(P)) /\ Tail(v.todo) \in Seq(Ops)
      /\ Len(Tail(v.todo)) = 1
  <2>1. PlaceIs(v, P, t, s, k)
    BY PlaceOf
  <2>2. /\ Len(P) \in Nat /\ k \in Nat /\ Tail(v.todo) = SubSeq(P, k + 2, Len(P))
        /\ Tail(v.todo) \in Seq(Ops) /\ Len(Tail(v.todo)) = Len(P) - k - 1
    BY <2>1 DEF PlaceIs
  <2>3. Len(P) - k - 1 = 1 /\ k + 1 = Len(P) - 1
    <3>1. Len(P) \in Nat /\ k \in Nat /\ k + 2 = Len(P)
      BY <2>2
    <3> QED
      BY <3>1
  <2> QED
    BY <2>2, <2>3
<1>2. /\ Len(v.mem) \in Nat /\ final \in Nat
      /\ TableAt(c) \in Nat \ {0} /\ HeaderLen \in Nat \ {0} /\ HeaderLen <= TableAt(c)
  BY GoingTypes
<1>3. P[Len(P) - 1] \in CopyOps /\ P[Len(P) - 1].at = 0 /\ P[Len(P) - 1].bytes = Header(c)
  BY DEF Going, PlanIs
<1>4. x \in CopyOps /\ x.at = 0 /\ x.bytes = Header(c) /\ h = TableAt(c) /\ x.op = "copy"
  BY <1>1, <1>3, HeaderIs, KindsOfOps
<1>5. CopyFits(v, x)
  BY <1>4, CopiesFit
<1>6. DiskFollows(v) /\ Headless(v) /\ v.verdict = "none" /\ AllButHeader(v)
      /\ P[Len(P)] \in SyncOps /\ P \in Seq(Ops)
  BY BehindTheHeader DEF Going, OnItsWay, PlanIs
<1>7. TableAt(c) <= final
  <2>1. TableAt(c) + c.table <= OldVdexSize(c) /\ final = OldVdexSize(c) + c.extra
        /\ OldVdexSize(c) \in Nat
    BY SizesAre DEF SizesInOrder
  <2>2. c.table \in Nat /\ c.extra \in Nat
    BY CaseFacts
  <2> HIDE DEF c, final
  <2> QED
    BY <1>2, <2>1, <2>2
<1>8. /\ Expected(c) \in Seq(Byte) /\ Len(Expected(c)) = final
      /\ \A p \in 1..TableAt(c) : Expected(c)[p] = Header(c)[p]
  BY ExpectedIs DEF PartsAre
<1>9. /\ Len(v.mem) = final /\ v.disk = v.mem
      /\ \A p \in 1..final : TableAt(c) < p => v.mem[p] = Expected(c)[p]
  BY <1>6 DEF AllButHeader
<1>10. /\ DiskFollows(w)
       /\ w.case = c /\ w.todo = Tail(v.todo) /\ w.disk = v.disk /\ w.verdict = v.verdict
       /\ Len(w.mem) = Len(v.mem) /\ w.mem \in Seq(Byte)
       /\ \A z \in 1..Len(v.mem) : x.at < z /\ z <= x.at + h => w.mem[z] = x.bytes[z - x.at]
       /\ \A z \in 1..Len(v.mem) : ~(x.at < z /\ z <= x.at + h) => w.mem[z] = v.mem[z]
  <2>1. WellMade(v.case) /\ CopyDone(v, w, x) /\ x \in CopyOps /\ x.bytes # <<>>
        /\ x.at + Len(x.bytes) <= FinalSize(v.case) + PageAlignedSize(v.case)
    BY <1>5 DEF CopyFits
  <2> HIDE DEF x, c
  <2> QED
    BY <1>1, <1>6, <2>1, CopyNoted DEF c
<1> HIDE DEF c, x, h, final
<1>11. ASSUME NEW z \in 1..final
       PROVE  /\ z <= TableAt(c) => w.mem[z] = Expected(c)[z]
              /\ TableAt(c) < z => w.mem[z] = Expected(c)[z] /\ w.mem[z] = v.mem[z]
  <2>1. CASE z <= TableAt(c)
    <3>1. x.at < z /\ z <= x.at + h /\ z - x.at = z /\ z \in 1..TableAt(c) /\ ~(TableAt(c) < z)
      BY <1>2, <1>4, <2>1
    <3>2. w.mem[z] = x.bytes[z]
      BY <1>9, <1>10, <3>1
    <3> QED
      BY <1>4, <1>8, <3>1, <3>2
  <2>2. CASE TableAt(c) < z
    <3>1. ~(x.at < z /\ z <= x.at + h) /\ ~(z <= TableAt(c))
      BY <1>2, <1>4, <2>2
    <3> QED
      BY <1>9, <1>10, <2>2, <3>1
  <2> QED
    BY <1>2, <2>1, <2>2
<1>12. w.mem = Expected(c)
  <2>1. \A z \in 1..final : w.mem[z] = Expected(c)[z]
    BY <1>2, <1>11
  <2> QED
    BY <1>8, <1>9, <1>10, <2>1, SameBytes
<1>13. \A z \in 1..Len(w.mem) : TableAt(w.case) < z => w.disk[z] = w.mem[z]
  BY <1>9, <1>10, <1>11
<1>14. \A z \in 1..HeaderLen : w.disk[z] = Zero
  <2>1. \A z \in 1..HeaderLen : z \in 1..Len(v.mem) /\ z <= HeaderLen
    BY <1>2, <1>7, <1>9
  <2> QED
    BY <1>6, <1>10, <2>1 DEF Headless
<1>15. Len(w.todo) = 1 /\ w.todo[1] \in SyncOps
  <2>1. Tail(v.todo)[1] = P[k + 2]
    <3>1. Len(P) \in Nat /\ k + 2 \in 1..Len(P) /\ Len(P) - (k + 2) + 1 = 1
      BY <1>1
    <3>2. SubSeq(P, k + 2, Len(P))[1] = P[k + 2 + 1 - 1]
      BY <1>6, <3>1
    <3>3. k + 2 + 1 - 1 = k + 2
      BY <1>1
    <3> QED
      BY <1>1, <3>2, <3>3
  <2> QED
    BY <1>1, <1>6, <1>10, <2>1
<1> QED
  BY <1>6, <1>10, <1>12, <1>13, <1>14, <1>15 DEF Whole

LEMMA InFirstPage ==
  ASSUME Page \in Nat \ {0}, NEW z \in 1..Page
  PROVE  (z - 1) \div Page = 0
<1> DEFINE q == (z - 1) \div Page
<1>1. z - 1 \in Nat /\ z - 1 < Page /\ Page \in Nat
  OBVIOUS
<1>2. q \in Nat /\ q * Page \in Nat /\ q * Page <= z - 1
  BY <1>1, Divided
<1> HIDE DEF q
<1> SUFFICES ASSUME 0 < q PROVE FALSE
  BY <1>2 DEF q
<1>3. 0 * Page + Page <= q * Page
  BY <1>1, <1>2, NextMultiple
<1>4. 0 * Page = 0
  BY <1>1
<1> DEFINE y == q * Page
<1>5. y \in Nat /\ y <= z - 1 /\ 0 + Page <= y
  BY <1>2, <1>3, <1>4
<1> HIDE DEF y
<1> QED
  BY <1>1, <1>5

\* The kernel writes a page back.
WrittenBack(v, w, p) ==
  w = [v EXCEPT !.dirty = @ \ {p},
                !.disk = [z \in DOMAIN @ |-> IF (z - 1) \div Page = p THEN v.mem[z] ELSE @[z]]]

BackIs(v, w, p) ==
  /\ w.case = v.case /\ w.todo = v.todo /\ w.mem = v.mem /\ w.verdict = v.verdict
  /\ \A z \in 1..Len(v.mem) : (z - 1) \div Page = p => w.disk[z] = v.mem[z]
  /\ \A z \in 1..Len(v.mem) : (z - 1) \div Page # p => w.disk[z] = v.disk[z]

LEMMA WritebackNoted ==
  ASSUME NEW v, DiskFollows(v), NEW p \in v.dirty, NEW w, WrittenBack(v, w, p)
  PROVE  DiskFollows(w) /\ BackIs(v, w, p)
<1> DEFINE val(z) == IF (z - 1) \div Page = p THEN v.mem[z] ELSE v.disk[z]
           n == Len(v.mem)
           disk == [z \in 1..n |-> val(z)]
<1>1. v \in FileStates /\ n = Len(v.disk)
  BY DEF DiskFollows
<1>2. v.mem \in Seq(Byte) /\ v.disk \in Seq(Byte) /\ v.dirty \in SUBSET Nat
  BY <1>1 DEF FileStates
<1>3. n \in Nat /\ DOMAIN v.disk = 1..n
  BY <1>1, <1>2
<1>4. \A z \in 1..n : val(z) \in Byte
  <2>1. \A z \in 1..n : v.mem[z] \in Byte /\ v.disk[z] \in Byte
    BY <1>1, <1>2
  <2> HIDE DEF n
  <2> QED
    BY <2>1
<1>5. w = [case |-> v.case, todo |-> v.todo, mem |-> v.mem, disk |-> disk,
           dirty |-> v.dirty \ {p}, verdict |-> v.verdict]
  BY <1>1, <1>3 DEF FileStates, WrittenBack
<1>6. /\ \A z \in 1..n : (z - 1) \div Page = p => val(z) = v.mem[z]
      /\ \A z \in 1..n : (z - 1) \div Page # p => val(z) = v.disk[z]
  OBVIOUS
<1> HIDE DEF val
<1>7. disk \in Seq(Byte) /\ Len(disk) = n /\ \A z \in 1..n : disk[z] = val(z)
  BY <1>3, <1>4
<1> HIDE DEF disk
<1>8. /\ w.case = v.case /\ w.todo = v.todo /\ w.mem = v.mem /\ w.verdict = v.verdict
      /\ w.disk = disk /\ w.dirty = v.dirty \ {p}
  BY <1>5
<1>9. w \in FileStates
  <2>1. v.dirty \ {p} \in SUBSET Nat
    BY <1>2
  <2> QED
    BY <1>1, <1>5, <1>7, <2>1 DEF FileStates
<1>10. BackIs(v, w, p)
  BY <1>6, <1>7, <1>8 DEF BackIs
<1>11. ASSUME NEW z \in 1..n, w.disk[z] # w.mem[z] PROVE (z - 1) \div Page \in w.dirty
  <2>1. (z - 1) \div Page # p /\ v.disk[z] # v.mem[z]
    BY <1>6, <1>7, <1>8, <1>11
  <2>2. (z - 1) \div Page \in v.dirty
    BY <2>1 DEF DiskFollows
  <2> QED
    BY <1>8, <2>1, <2>2
<1>12. DiskFollows(w)
  BY <1>7, <1>8, <1>9, <1>11 DEF DiskFollows
<1> QED
  BY <1>10, <1>12

LEMMA HeadlessBack ==
  ASSUME NEW v, Headless(v), NEW p, NEW w, BackIs(v, w, p)
  PROVE  Headless(w)
BY DEF Headless, BackIs

LEMMA GoingBack ==
  ASSUME NEW v, NEW P, NEW t, NEW s, NEW k, Going(v, P, t, s, k), NEW p \in v.dirty,
         NEW w, WrittenBack(v, w, p)
  PROVE  Going(w, P, t, s, k)
<1>1. DiskFollows(w) /\ BackIs(v, w, p)
  BY WritebackNoted DEF Going
<1>2. Headless(w)
  BY <1>1, HeadlessBack DEF Going
<1>3. w.case = v.case /\ w.todo = v.todo /\ w.mem = v.mem /\ w.verdict = v.verdict
  BY <1>1 DEF BackIs
<1>4. \A z \in 1..Len(v.mem) : v.disk[z] = v.mem[z] => w.disk[z] = v.mem[z]
  BY <1>1 DEF BackIs
<1>5. OnItsWay(v, P, t, s, k)
  BY DEF Going
<1>6. OnItsWay(w, P, t, s, k)
  BY <1>3, <1>4, <1>5 DEF OnItsWay
<1> QED
  BY <1>1, <1>2, <1>3, <1>6 DEF Going

LEMMA WholeBack ==
  ASSUME SizesFit, NEW v, DiskFollows(v), Whole(v), WellMade(v.case), NEW p \in v.dirty,
         NEW w, WrittenBack(v, w, p)
  PROVE  DiskFollows(w) /\ Whole(w)
<1>1. DiskFollows(w) /\ BackIs(v, w, p)
  BY WritebackNoted
<1>2. /\ w.case = v.case /\ w.todo = v.todo /\ w.mem = v.mem /\ w.verdict = v.verdict
      /\ \A z \in 1..Len(v.mem) : (z - 1) \div Page = p => w.disk[z] = v.mem[z]
      /\ \A z \in 1..Len(v.mem) : (z - 1) \div Page # p => w.disk[z] = v.disk[z]
  BY <1>1 DEF BackIs
<1>3. /\ v.mem = Expected(v.case)
      /\ \A z \in 1..Len(v.mem) : TableAt(v.case) < z => v.disk[z] = v.mem[z]
      /\ v.disk = v.mem \/ \A z \in 1..HeaderLen : v.disk[z] = Zero
  BY DEF Whole
<1>4. \A z \in 1..Len(v.mem) : v.disk[z] = v.mem[z] => w.disk[z] = v.mem[z]
  BY <1>2
<1>5. /\ w.mem \in Seq(Byte) /\ w.disk \in Seq(Byte) /\ Len(w.disk) = Len(w.mem)
  BY <1>1 DEF DiskFollows, FileStates
<1>6. /\ TableAt(v.case) \in Nat /\ TableAt(v.case) <= Page /\ Page \in Nat \ {0}
      /\ HeaderLen \in Nat /\ HeaderLen <= TableAt(v.case)
  BY CaseFacts
<1>7. ASSUME \A z \in 1..Len(v.mem) : w.disk[z] = v.mem[z] PROVE w.disk = w.mem
  BY <1>2, <1>5, <1>7, SameBytes
<1>8. w.disk = w.mem \/ \A z \in 1..HeaderLen : w.disk[z] = Zero
  <2>1. CASE v.disk = v.mem
    BY <1>4, <1>7, <2>1
  <2>2. CASE p = 0
    <3>1. ASSUME NEW z \in 1..Len(v.mem) PROVE w.disk[z] = v.mem[z]
      <4>1. CASE TableAt(v.case) < z
        BY <1>3, <1>4, <4>1
      <4>2. CASE ~(TableAt(v.case) < z)
        <5>1. z \in 1..Page
          BY <1>5, <1>6, <4>2
        <5> QED
          BY <1>2, <1>6, <2>2, <5>1, InFirstPage
      <4> QED
        BY <4>1, <4>2
    <3> QED
      BY <1>7, <3>1
  <2>3. CASE p # 0 /\ \A z \in 1..HeaderLen : v.disk[z] = Zero
    <3> SUFFICES ASSUME NEW z \in 1..HeaderLen PROVE w.disk[z] = Zero
      OBVIOUS
    <3>1. z \in 1..Page /\ z \in 1..TableAt(v.case)
      BY <1>6
    <3>2. z \in 1..Len(v.mem)
      <4>1. Len(Expected(v.case)) = FinalSize(v.case) /\ TableAt(v.case) <= FinalSize(v.case)
            /\ FinalSize(v.case) \in Nat
        <5>1. /\ TableAt(v.case) + v.case.table <= OldVdexSize(v.case) /\ OldVdexSize(v.case) \in Nat
              /\ FinalSize(v.case) = OldVdexSize(v.case) + v.case.extra /\ FinalSize(v.case) \in Nat
          BY SizesAre DEF SizesInOrder
        <5>2. v.case.table \in Nat /\ v.case.extra \in Nat
          BY CaseFacts
        <5>3. TableAt(v.case) <= FinalSize(v.case)
          BY <1>6, <5>1, <5>2
        <5> QED
          BY <5>1, <5>3, ExpectedIs
      <4> QED
        BY <1>3, <1>6, <3>1, <4>1
    <3>3. (z - 1) \div Page # p
      BY <1>6, <2>3, <3>1, InFirstPage
    <3> QED
      BY <1>2, <2>3, <3>2, <3>3
  <2> QED
    BY <1>3, <2>1, <2>2, <2>3
<1> QED
  BY <1>1, <1>2, <1>3, <1>4, <1>8 DEF Whole
-----------------------------------------------------------------------------
(* The file's invariant                                                      *)
\* A step from one state to the next, as VdexNext has it.
Stepped(v, w) ==
  \/ /\ v.todo # <<>>
     /\ LET x == Head(v.todo)
            end == x.at + Len(x.bytes)
        IN  \/ x.op = "truncate" /\ TruncateDone(v, w, x)
            \/ x.op = "copy" /\ end > x.end /\ Ended(v, w, "range")
            \/ x.op = "copy" /\ ~(end > x.end) /\ end > RoundUp(Len(v.mem), Page)
               /\ Ended(v, w, "bus error")
            \/ x.op = "copy" /\ ~(end > x.end) /\ ~(end > RoundUp(Len(v.mem), Page))
               /\ CopyDone(v, w, x)
            \/ x.op = "sync" /\ v.dirty \cap (x.from..x.to) = {} /\ Passed(v, w)
            \/ x.op = "sync" /\ Ended(v, w, "failed")
  \/ \E p \in v.dirty : WrittenBack(v, w, p)
  \/ /\ v.todo = <<>> /\ v.verdict = "none"
     /\ Ended(v, w, IF v.mem = Expected(v.case) THEN "ok" ELSE "mismatch")

LEMMA NextIsStepped ==
  ASSUME VdexNext PROVE Stepped(vd, vd')
<1>1. CASE Writeback
  BY <1>1 DEF Writeback, Stepped, WrittenBack
<1>2. CASE ReadCold
  BY <1>2 DEF ReadCold, Stepped, Ended, VdexEnds
<1>3. CASE Step
  <2> DEFINE x == Head(vd.todo)
             end == x.at + Len(x.bytes)
  <2>1. \/ x.op = "truncate" /\ vd' = [[vd EXCEPT !.todo = Tail(@)] EXCEPT
                                         !.mem = Resize(@, x.size), !.disk = Resize(@, x.size)]
        \/ x.op = "copy" /\ vd' = IF end > x.end THEN VdexEnds("range")
                                  ELSE IF end > RoundUp(Len(vd.mem), Page) THEN VdexEnds("bus error")
                                  ELSE [[vd EXCEPT !.todo = Tail(@)] EXCEPT
                                          !.mem = Put(@, x.at, x.bytes),
                                          !.dirty = @ \cup PagesOf(x.at, end)]
        \/ x.op = "sync" /\ vd.dirty \cap (x.from..x.to) = {} /\ vd' = [vd EXCEPT !.todo = Tail(@)]
        \/ x.op = "sync" /\ vd' = VdexEnds("failed")
    BY <1>3 DEF Step
  <2>2. vd.todo # <<>>
    BY <1>3 DEF Step
  <2> QED
    BY <2>1, <2>2 DEF Stepped, Passed, Ended, CopyDone, TruncateDone, VdexEnds
<1> QED
  BY <1>1, <1>2, <1>3 DEF VdexNext

LEMMA UnfinishedIsGoing ==
  ASSUME NEW v, DiskFollows(v), Headless(v), Unfinished(v)
  PROVE  \E P, t, s, k : Going(v, P, t, s, k)
<1> DEFINE P == WritePlan(v.case)
<1>1. PICK t \in Nat, s \in Nat, k \in Nat : PlanIs(v.case, P, t, s) /\ OnItsWay(v, P, t, s, k)
  BY DEF Unfinished
<1>2. Going(v, P, t, s, k)
  BY <1>1 DEF Going
<1> QED
  BY <1>2

\* A writer on its way stays on it, or stops before the header, or has written it.
LEMMA GoingSteps ==
  ASSUME SizesFit, NEW v, NEW P, NEW t, NEW s, NEW k, Going(v, P, t, s, k), WellMade(v.case),
         NEW w, Stepped(v, w)
  PROVE  FileInv(w)
<1>1. v.todo # <<>> /\ Head(v.todo) = P[k + 1]
  <2>1. PlaceIs(v, P, t, s, k)
    BY PlaceOf
  <2> QED
    BY <2>1 DEF PlaceIs
<1> DEFINE x == P[k + 1]
           end == x.at + Len(x.bytes)
<1>2. \/ x.op = "truncate" /\ TruncateDone(v, w, x)
      \/ x.op = "copy" /\ (end > x.end \/ end > RoundUp(Len(v.mem), Page))
      \/ x.op = "copy" /\ CopyDone(v, w, x)
      \/ x.op = "sync" /\ v.dirty \cap (x.from..x.to) = {} /\ Passed(v, w)
      \/ x.op = "sync" /\ Ended(v, w, "failed")
      \/ \E p \in v.dirty : WrittenBack(v, w, p)
  BY <1>1 DEF Stepped
<1>3. CASE x.op = "truncate" /\ TruncateDone(v, w, x)
  <2>1. Going(w, P, t, s, k + 1)
    BY <1>3, TruncateGoes
  <2> QED
    BY <2>1, GoingIsInv
<1>4. CASE x.op = "copy"
  <2>1. CopyFits(v, x)
    BY <1>4, CopiesFit
  <2>2. CASE CopyDone(v, w, x)
    <3>1. k + 1 \in 2..(t - 1) \/ k + 1 \in (t + 1)..(s - 1) \/ k + 2 = Len(P)
      BY <1>4, WhichOp
    <3>2. CASE k + 2 = Len(P)
      <4>1. DiskFollows(w) /\ Whole(w)
        BY <2>2, <3>2, HeaderGoes
      <4> QED
        BY <4>1 DEF FileInv
    <3>3. CASE k + 1 \in 2..(t - 1) \/ k + 1 \in (t + 1)..(s - 1)
      <4>1. x.bytes # <<>>
        BY <2>1 DEF CopyFits
      <4>2. Going(w, P, t, s, k + 1)
        BY <2>2, <3>3, <4>1, CopyGoes
      <4> QED
        BY <4>2, GoingIsInv
    <3> QED
      BY <3>1, <3>2, <3>3
  <2>3. CASE \E p \in v.dirty : WrittenBack(v, w, p)
    BY <2>3, GoingBack, GoingIsInv
  <2> QED
    BY <1>2, <1>4, <2>1, <2>2, <2>3 DEF CopyFits
<1>5. CASE x.op = "sync" /\ v.dirty \cap (x.from..x.to) = {} /\ Passed(v, w)
  <2>1. Going(w, P, t, s, k + 1)
    BY <1>5, SyncGoes
  <2> QED
    BY <2>1, GoingIsInv
<1>6. CASE Ended(v, w, "failed")
  <2>1. DiskFollows(w) /\ SameFile(v, w) /\ w.todo = <<>> /\ w.verdict = "failed"
    BY <1>6, EndedIs DEF Going
  <2>2. Headless(w)
    BY <2>1 DEF Going, Headless, SameFile
  <2> QED
    BY <2>1, <2>2 DEF FileInv
<1>7. CASE \E p \in v.dirty : WrittenBack(v, w, p)
  BY <1>7, GoingBack, GoingIsInv
<1> QED
  BY <1>2, <1>3, <1>4, <1>5, <1>6, <1>7

\* A file without a header whose writer has failed stays without one.
LEMMA FailedSteps ==
  ASSUME NEW v, DiskFollows(v), Headless(v), v.verdict = "failed", v.todo = <<>>,
         NEW w, Stepped(v, w)
  PROVE  FileInv(w)
<1>1. PICK p \in v.dirty : WrittenBack(v, w, p)
  BY DEF Stepped
<1>2. DiskFollows(w) /\ BackIs(v, w, p)
  BY <1>1, WritebackNoted
<1>3. Headless(w)
  BY <1>2, HeadlessBack
<1> QED
  BY <1>2, <1>3 DEF FileInv, BackIs

\* A whole file stays one, and is read as it is to be.
LEMMA WholeSteps ==
  ASSUME SizesFit, NEW v, DiskFollows(v), Whole(v), WellMade(v.case), NEW w, Stepped(v, w)
  PROVE  FileInv(w)
<1>1. CASE \E p \in v.dirty : WrittenBack(v, w, p)
  <2>1. DiskFollows(w) /\ Whole(w)
    BY <1>1, WholeBack
  <2> QED
    BY <2>1 DEF FileInv
<1>2. ASSUME NEW verdict \in {"ok", "failed"}, Ended(v, w, verdict) PROVE FileInv(w)
  <2>1. DiskFollows(w) /\ SameFile(v, w) /\ w.todo = <<>>
    BY <1>2, EndedIs
  <2>2. Whole(w)
    BY <2>1 DEF Whole, SameFile
  <2> QED
    BY <2>1, <2>2 DEF FileInv
<1>3. CASE v.todo = <<>> /\ ~\E p \in v.dirty : WrittenBack(v, w, p)
  <2>1. Ended(v, w, "ok")
    BY <1>3 DEF Stepped, Whole
  <2> QED
    BY <1>2, <2>1
<1>4. CASE v.todo # <<>> /\ ~\E p \in v.dirty : WrittenBack(v, w, p)
  <2>1. v.todo \in Seq(Ops) /\ Len(v.todo) = 1 /\ v.todo[1] \in SyncOps
    BY <1>4 DEF Whole, DiskFollows, FileStates
  <2>2. Head(v.todo) = v.todo[1] /\ Head(v.todo).op = "sync"
    BY <1>4, <2>1, KindsOfOps
  <2>3. Tail(v.todo) \in Seq(Ops) /\ Tail(v.todo) = <<>>
    <3>1. Tail(v.todo) \in Seq(Ops) /\ Len(Tail(v.todo)) = 0
      BY <1>4, <2>1
    <3> QED
      BY <3>1, EmptySeq
  <2>4. Passed(v, w) \/ Ended(v, w, "failed")
    BY <1>4, <2>2 DEF Stepped
  <2>5. CASE Passed(v, w)
    <3>1. DiskFollows(w) /\ SameFile(v, w) /\ w.todo = <<>>
      BY <2>3, <2>5, PassedIs
    <3>2. Whole(w)
      BY <3>1 DEF Whole, SameFile
    <3> QED
      BY <3>1, <3>2 DEF FileInv
  <2> QED
    BY <1>2, <2>4, <2>5
<1> QED
  BY <1>1, <1>3, <1>4

LEMMA FileInvStays ==
  ASSUME VdexesFit, NEW v, FileInv(v), NEW w, Stepped(v, w)
  PROVE  FileInv(w)
<1>1. SizesFit /\ DiskFollows(v) /\ WellMade(v.case)
  BY DEF VdexesFit, FileInv, DiskFollows, FileStates
<1>2. CASE Headless(v) /\ Unfinished(v)
  BY <1>1, <1>2, UnfinishedIsGoing, GoingSteps
<1>3. CASE Headless(v) /\ v.verdict = "failed" /\ v.todo = <<>>
  BY <1>1, <1>3, FailedSteps
<1>4. CASE Whole(v)
  BY <1>1, <1>4, WholeSteps
<1> QED
  BY <1>2, <1>3, <1>4 DEF FileInv

LEMMA FileInvFirst ==
  ASSUME VdexesFit, VdexInit
  PROVE  FileInv(vd)
<1>1. PICK c \in Vdexes : vd = [case |-> c, todo |-> WritePlan(c), mem |-> <<>>, disk |-> <<>>,
                                dirty |-> {}, verdict |-> "none"]
  BY DEF VdexInit
<1>2. SizesFit /\ WellMade(c)
  BY DEF VdexesFit
<1> DEFINE P == WritePlan(c)
<1>3. PICK t \in Nat, s \in Nat : PlanIs(c, P, t, s)
  BY <1>2, ThePlan
<1>4. P \in Seq(Ops) /\ 1 < t /\ t < s /\ Len(P) \in {s + 2, s + 3}
  BY <1>3 DEF PlanIs
<1>5. 0 \in 0..(Len(P) - 2) /\ ~(t <= 0) /\ ~(s <= 0) /\ ~(s < 0) /\ 0 \in Nat
  BY <1>4
<1>6. SubSeq(P, 0 + 1, Len(P)) = P
  BY <1>4
<1>7. /\ vd.case = c /\ vd.todo = P /\ vd.mem = <<>> /\ vd.disk = <<>> /\ vd.dirty = {}
      /\ vd.verdict = "none" /\ Len(vd.mem) = 0 /\ Len(vd.disk) = 0 /\ 1..Len(vd.mem) = {}
  BY <1>1
<1>8. vd \in FileStates
  <2>1. <<>> \in Seq(Byte)
    OBVIOUS
  <2> QED
    BY <1>1, <1>4, <2>1 DEF FileStates
<1> HIDE DEF P
<1>9. DiskFollows(vd)
  BY <1>7, <1>8 DEF DiskFollows
<1>10. Headless(vd)
  BY <1>7 DEF Headless
<1>11. OnItsWay(vd, P, t, s, 0)
  BY <1>5, <1>6, <1>7 DEF OnItsWay
<1>12. Going(vd, P, t, s, 0)
  BY <1>3, <1>5, <1>7, <1>9, <1>10, <1>11 DEF Going, P
<1> QED
  BY <1>12, GoingIsInv

LEMMA FileInvIsRight ==
  ASSUME VdexesFit, FileInv(vd)
  PROVE  VdexTypeOK /\ HeaderComesLast
<1>1. DiskFollows(vd) /\ vd \in FileStates
  BY DEF FileInv, DiskFollows
<1>2. VdexTypeOK
  BY <1>1 DEF DiskFollows, FileStates, VdexTypeOK
<1>3. ASSUME Len(vd.disk) >= HeaderLen, SubSeq(vd.disk, 1, HeaderLen) = Bytes("header", HeaderLen)
      PROVE  vd.disk = Expected(vd.case)
  <2>1. HeaderLen \in Nat \ {0} /\ 1 \in 1..HeaderLen /\ Len(vd.disk) = Len(vd.mem)
        /\ vd.disk \in Seq(Byte) /\ Len(vd.disk) \in Nat
    <3>1. vd.disk \in Seq(Byte) /\ Len(vd.disk) = Len(vd.mem) /\ HeaderLen \in Nat \ {0}
      <4>1. vd.disk \in Seq(Byte) /\ Len(vd.disk) = Len(vd.mem)
        BY <1>1 DEF DiskFollows, FileStates
      <4>2. HeaderLen \in Nat \ {0}
        BY DEF VdexesFit, SizesFit
      <4> QED
        BY <4>1, <4>2
    <3> QED
      BY <3>1
  <2>2. Bytes("header", HeaderLen)[1] = <<"header", 1>>
    BY <2>1 DEF Bytes
  <2>3. SubSeq(vd.disk, 1, HeaderLen)[1] = vd.disk[1]
    BY <1>3, <2>1
  <2>4. vd.disk[1] # Zero /\ 1 \in 1..Len(vd.mem) /\ 1 <= HeaderLen
    BY <1>3, <2>1, <2>2, <2>3 DEF Zero
  <2>5. ~Headless(vd)
    BY <2>4 DEF Headless
  <2>6. Whole(vd)
    BY <2>5 DEF FileInv
  <2> QED
    BY <2>1, <2>4, <2>6 DEF Whole
<1>4. vd.verdict \in {"none", "ok", "failed"}
  BY <1>1 DEF DiskFollows
<1> QED
  BY <1>2, <1>3, <1>4 DEF HeaderComesLast

\* For files of every size whose tail begins where the alignment lets it: at no moment is the
\* header on the disk without all the rest, whatever pages the kernel has written back and
\* wherever the writer fails; no copy leaves its mapping or the file, and what is read
\* cold is what was to be written (write_oatwriter_like_file, write_one_vdex).
THEOREM HeaderIsLast ==
  ASSUME VdexesFit
  PROVE  VdexInit /\ [][VdexNext]_vd => [](VdexTypeOK /\ HeaderComesLast)
<1>1. VdexInit => FileInv(vd)
  BY FileInvFirst
<1>2. FileInv(vd) /\ [VdexNext]_vd => FileInv(vd)'
  <2> SUFFICES ASSUME FileInv(vd), [VdexNext]_vd PROVE FileInv(vd')
    BY DEF FileInv, DiskFollows, FileStates, Headless, Unfinished, OnItsWay, Whole
  <2>1. CASE VdexNext
    BY <2>1, NextIsStepped, FileInvStays
  <2>2. CASE UNCHANGED vd
    BY <2>2
  <2> QED
    BY <2>1, <2>2
<1>3. FileInv(vd) => VdexTypeOK /\ HeaderComesLast
  BY FileInvIsRight
<1> QED
  BY <1>1, <1>2, <1>3, PTL
=============================================================================
