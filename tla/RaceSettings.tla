----------------------------- MODULE RaceSettings -----------------------------
(***************************************************************************)
(* The global settings the retry race test changes and puts back: the      *)
(* kernel's dirty-page limits (VmDirtyTuning), the debug knobs of the      *)
(* mounted file system (RetryDebugKnobs) and the kernel log capture, in    *)
(* the order in which run_retry_fsync_writeback_race                       *)
(* (utils/f2fs_retry_race.py) applies and restores them around its body.   *)
(* The body itself is the subject of RetryLedger.                          *)
(*                                                                         *)
(* A dirty limit is given in bytes or as a ratio of memory; the kernel     *)
(* keeps the two forms exclusive (WriteSetting).                           *)
(*                                                                         *)
(* A definition named X_Y is a deliberately wrong variant of X, kept to    *)
(* see which property notices.                                             *)
(***************************************************************************)
EXTENDS Integers, Sequences

CONSTANTS
  DirtyBytes, BackgroundBytes,   \* cfg.dirty_bytes, cfg.dirty_background_bytes
  Centisecs,        \* the value of both cfg.dirty_*_centisecs
  StartForms,       \* forms in which the limits may be given at the start:
                    \* pairs of "bytes" or "ratio" for dirty and background
  StartBytes, StartRatios, StartCentisecs,  \* values they may have
  Knobs,            \* number of debug knobs
  Faults            \* may a read, a write, the start of the log or of a thread
                    \* raise, and the user interrupt the test?

ASSUME SettingsAssumption ==
  /\ DirtyBytes \in Nat \ {0}
  /\ BackgroundBytes \in 1..DirtyBytes
  /\ Centisecs \in Nat
  /\ StartForms \subseteq {"bytes", "ratio"} \X {"bytes", "ratio"}
  /\ StartBytes \subseteq Nat \ {0}
  /\ StartRatios \subseteq Nat \ {0}
  /\ StartCentisecs \subseteq Nat
  /\ Knobs \in Nat \ {0}
  /\ Faults \in BOOLEAN

VARIABLES
  vm,        \* /proc/sys/vm
  vmSaved,   \* VmDirtyTuning._saved; -1: no entry
  knobs,     \* the debug knobs: "original" or "test" value
  knobsSaved,  \* knobs with an entry in RetryDebugKnobs._saved
  pc, i,     \* main thread: control, index of the loop it is in
  order,     \* the branch restore has taken
  body,      \* how the try ended: "running", "returned", "raised" with every
             \* thread started, or "notStarted" if a start raised
  vmError, knobsError,  \* what cleanup_errors holds
  vmStart    \* the settings before the run; constant

vars == <<vm, vmSaved, knobs, knobsSaved, pc, i, order, body, vmError,
          knobsError, vmStart>>

\* _FILES, in its order.
VmFiles == <<"dirty_bytes", "dirty_background_bytes", "dirty_ratio",
             "dirty_background_ratio", "dirty_expire_centisecs",
             "dirty_writeback_centisecs">>
VmNames == {"dirty_bytes", "dirty_background_bytes", "dirty_ratio",
            "dirty_background_ratio", "dirty_expire_centisecs",
            "dirty_writeback_centisecs"}
KnobSet == 1..Knobs
NoEntry == -1

\* The values apply writes; it only saves the two ratios.
TestValue(name) ==
  CASE name = "dirty_bytes" -> DirtyBytes
    [] name = "dirty_background_bytes" -> BackgroundBytes
    [] OTHER -> Centisecs
Written(name) == name \notin {"dirty_ratio", "dirty_background_ratio"}

\* The kernel: writing one form of a limit takes the other form out of use,
\* if the write changes the value; a limit of 0 bytes is refused.
OtherForm(name) ==
  CASE name = "dirty_bytes" -> "dirty_ratio"
    [] name = "dirty_ratio" -> "dirty_bytes"
    [] name = "dirty_background_bytes" -> "dirty_background_ratio"
    [] name = "dirty_background_ratio" -> "dirty_background_bytes"
    [] OTHER -> name

Refused(name, value) ==
  name \in {"dirty_bytes", "dirty_background_bytes"} /\ value = 0

WriteSetting(name, value) ==
  [n \in VmNames |->
     IF n = name THEN value
     ELSE IF n = OtherForm(name) /\ vm[name] # value THEN 0
     ELSE vm[n]]
-----------------------------------------------------------------------------
\* A limit in bytes has ratio 0 and the other way round.
StartLimits(form) ==
  {[bytes |-> b, ratio |-> 0] : b \in IF form = "bytes" THEN StartBytes ELSE {}}
  \cup
  {[bytes |-> 0, ratio |-> r] : r \in IF form = "ratio" THEN StartRatios ELSE {}}

Init ==
  /\ \E form \in StartForms, e, wb \in StartCentisecs :
       \E dirty \in StartLimits(form[1]), background \in StartLimits(form[2]) :
         /\ background.bytes <= dirty.bytes \/ dirty.bytes = 0
         /\ background.ratio <= dirty.ratio \/ dirty.ratio = 0
         /\ vm = [n \in VmNames |->
                    CASE n = "dirty_bytes" -> dirty.bytes
                      [] n = "dirty_ratio" -> dirty.ratio
                      [] n = "dirty_background_bytes" -> background.bytes
                      [] n = "dirty_background_ratio" -> background.ratio
                      [] n = "dirty_expire_centisecs" -> e
                      [] n = "dirty_writeback_centisecs" -> wb]
  /\ vmStart = vm
  /\ vmSaved = [n \in VmNames |-> NoEntry]
  /\ knobs = [k \in KnobSet |-> "original"]
  /\ knobsSaved = {}
  /\ pc = "applyVm" /\ i = 1
  /\ order = "none"
  /\ body = "running" /\ vmError = FALSE /\ knobsError = FALSE
-----------------------------------------------------------------------------
(* Before the try: an exception here leaves the function at once.          *)

SetupVars == <<order, body, vmError, knobsError, vmStart>>

\* One turn of VmDirtyTuning.apply.
ApplyVm_WriteFirst ==
  /\ pc = "applyVm"
  /\ LET name == VmFiles[i] IN
       /\ vm' = IF Written(name) THEN WriteSetting(name, TestValue(name)) ELSE vm
       /\ vmSaved' = [vmSaved EXCEPT ![name] = vm'[name]]
  /\ IF i < Len(VmFiles) THEN i' = i + 1 /\ UNCHANGED pc
                         ELSE i' = 1 /\ pc' = "applyKnobs"
  /\ UNCHANGED <<knobs, knobsSaved, SetupVars>>
ApplyVm ==
  /\ pc = "applyVm"
  /\ LET name == VmFiles[i] IN
       /\ vmSaved' = [vmSaved EXCEPT ![name] = vm[name]]
       /\ vm' = IF Written(name) THEN WriteSetting(name, TestValue(name)) ELSE vm
  /\ IF i < Len(VmFiles) THEN i' = i + 1 /\ UNCHANGED pc
                         ELSE i' = 1 /\ pc' = "applyKnobs"
  /\ UNCHANGED <<knobs, knobsSaved, SetupVars>>

ApplyKnob ==
  /\ pc = "applyKnobs"
  /\ knobsSaved' = knobsSaved \cup {i}
  /\ knobs' = [knobs EXCEPT ![i] = "test"]
  /\ IF i < Knobs THEN i' = i + 1 /\ UNCHANGED pc
                  ELSE i' = 1 /\ pc' = "startLog"
  /\ UNCHANGED <<vm, vmSaved, SetupVars>>

StartLog ==
  /\ pc = "startLog"
  /\ pc' = "body"
  /\ UNCHANGED <<vm, vmSaved, knobs, knobsSaved, i, SetupVars>>

\* A missing knob, a failing read or write, or no dmesg to start.
SetupRaises ==
  /\ Faults
  /\ pc \in {"applyVm", "applyKnobs", "startLog"}
  /\ pc' = "setupFailed"
  /\ UNCHANGED <<vm, vmSaved, knobs, knobsSaved, i, SetupVars>>
-----------------------------------------------------------------------------
(* The body and the finally. The threads are joined outside any try; every *)
(* later part of the cleanup has its own.                                  *)

AfterBody == <<vm, vmSaved, knobs, knobsSaved, i, order, vmError, knobsError,
               vmStart>>

Body ==
  /\ pc = "body"
  /\ body' \in {"returned"} \cup IF Faults THEN {"raised"} ELSE {}
  /\ pc' = "join"
  /\ UNCHANGED AfterBody

\* The start of a thread raises: the threads after it, and at least the
\* watcher or the last worker, are not started either.
StartRaises ==
  /\ Faults
  /\ pc = "body"
  /\ body' = "notStarted"
  /\ pc' = "join"
  /\ UNCHANGED AfterBody

\* Every join returns, with the thread or by its timeout.
JoinThreads ==
  /\ pc = "join"
  /\ body # "notStarted"
  /\ pc' = "stopLog"
  /\ UNCHANGED <<AfterBody, body>>

\* The join of a thread that has not been started raises, and so does a second
\* interrupt that no try of the cleanup catches: what has not been put back by
\* then stays as it is.
CleanupLeft ==
  /\ \/ pc = "join" /\ (Faults \/ body = "notStarted")
     \/ Faults /\ pc \in {"stopLog", "restoreVm"}
     \/ Faults /\ pc = "restoreKnobs" /\ i = 1
  /\ pc' = "abandoned"
  /\ UNCHANGED <<AfterBody, body>>

\* Whether klog.stop raises or not.
AfterLog == {"restoreKnobs"}

StopLog ==
  /\ pc = "stopLog"
  /\ pc' \in AfterLog
  /\ i' = 1
  /\ UNCHANGED <<vm, vmSaved, knobs, knobsSaved, order, body, vmError,
                 knobsError, vmStart>>

\* knobsSaved has every knob by now, in the order of _FILES.
RestoreKnob ==
  /\ pc = "restoreKnobs"
  /\ knobs' = [knobs EXCEPT ![i] = "original"]
  /\ IF i < Knobs THEN i' = i + 1 /\ UNCHANGED pc
                  ELSE i' = 1 /\ pc' = "restoreVm"
  /\ UNCHANGED <<vm, vmSaved, knobsSaved, order, body, vmError,
                 knobsError, vmStart>>

RestoreKnobRaises ==
  /\ Faults
  /\ pc = "restoreKnobs"
  /\ knobsError' = TRUE
  /\ pc' = "restoreVm"
  /\ UNCHANGED <<vm, vmSaved, knobs, knobsSaved, i, order, body, vmError,
                 vmStart>>

\* The two tests that make restore raise before it writes anything.
SavedStateInvalid ==
  \/ /\ vmSaved["dirty_ratio"] # 0
     /\ vmSaved["dirty_background_ratio"] > vmSaved["dirty_ratio"]
  \/ /\ vmSaved["dirty_bytes"] # 0
     /\ vmSaved["dirty_background_bytes"] > vmSaved["dirty_bytes"]

SavedInRatioForm ==
  vmSaved["dirty_bytes"] = 0 /\ vmSaved["dirty_background_bytes"] = 0

\* The branches of restore.
ChosenOrder ==
  IF SavedInRatioForm
  THEN IF /\ vmSaved["dirty_ratio"] # 0
          /\ vmSaved["dirty_background_ratio"] <= vmSaved["dirty_ratio"]
       THEN "ratioFirst" ELSE "bgRatioFirst"
  ELSE IF vmSaved["dirty_background_bytes"] <= vm["dirty_bytes"]
       THEN "bgFirst" ELSE "dirtyFirst"

RestoreVm ==
  /\ pc = "restoreVm"
  /\ IF SavedStateInvalid
     THEN vmError' = TRUE /\ pc' = "ended" /\ UNCHANGED <<i, order>>
     ELSE order' = ChosenOrder /\ i' = 1 /\ pc' = "writeVm" /\ UNCHANGED vmError
  /\ UNCHANGED <<vm, vmSaved, knobs, knobsSaved, body, knobsError, vmStart>>

\* The files restore writes in each branch, in order.
LimitsIn(branch) ==
  CASE branch = "ratioFirst" -> <<"dirty_ratio", "dirty_background_ratio">>
    [] branch = "bgRatioFirst" -> <<"dirty_background_ratio", "dirty_ratio">>
    [] branch = "bgFirst" -> <<"dirty_background_bytes", "dirty_bytes">>
    [] branch = "dirtyFirst" -> <<"dirty_bytes", "dirty_background_bytes">>

RestoredFile_OneCentisecs(branch, k) ==
  CASE k \in 1..2 -> LimitsIn(branch)[k]
    [] k \in 3..4 -> "dirty_expire_centisecs"
RestoredFile(branch, k) ==
  CASE k \in 1..2 -> LimitsIn(branch)[k]
    [] k = 3 -> "dirty_expire_centisecs"
    [] k = 4 -> "dirty_writeback_centisecs"

\* One write of restore; the kernel may refuse it.
WriteVm ==
  /\ pc = "writeVm"
  /\ LET name == RestoredFile(order, i) IN
       IF Refused(name, vmSaved[name])
       THEN vmError' = TRUE /\ pc' = "ended" /\ UNCHANGED <<vm, i>>
       ELSE /\ vm' = WriteSetting(name, vmSaved[name])
            /\ i' = i + 1
            /\ pc' = IF i < 4 THEN pc ELSE "ended"
            /\ UNCHANGED vmError
  /\ UNCHANGED <<vmSaved, knobs, knobsSaved, order, body, knobsError,
                 vmStart>>

RestoreVmRaises ==
  /\ Faults
  /\ pc \in {"restoreVm", "writeVm"}
  /\ vmError' = TRUE
  /\ pc' = "ended"
  /\ UNCHANGED <<vm, vmSaved, knobs, knobsSaved, i, order, body,
                 knobsError, vmStart>>

\* The function has returned or raised.
Over ==
  /\ pc \in {"ended", "abandoned", "setupFailed"}
  /\ UNCHANGED vars

Next ==
  \/ ApplyVm \/ ApplyKnob \/ StartLog \/ SetupRaises
  \/ Body \/ StartRaises \/ JoinThreads \/ CleanupLeft \/ StopLog
  \/ RestoreKnob \/ RestoreKnobRaises
  \/ RestoreVm \/ WriteVm \/ RestoreVmRaises
  \/ Over

Spec == Init /\ [][Next]_vars
-----------------------------------------------------------------------------
\* Every variable has its type; in particular restore writes no value it has
\* not saved.
TypeOK ==
  /\ vm \in [VmNames -> Nat]
  /\ vmStart \in [VmNames -> Nat]
  /\ vmSaved \in [VmNames -> Nat \cup {NoEntry}]
  /\ knobs \in [KnobSet -> {"original", "test"}]
  /\ knobsSaved \subseteq KnobSet
  /\ pc \in {"applyVm", "applyKnobs", "startLog", "setupFailed", "body", "join",
             "stopLog", "restoreKnobs", "restoreVm", "writeVm", "ended", "abandoned"}
  /\ i \in 1..6 \cup KnobSet
  /\ order \in {"none", "ratioFirst", "bgRatioFirst", "bgFirst", "dirtyFirst"}
  /\ body \in {"running", "returned", "raised", "notStarted"}
  /\ vmError \in BOOLEAN /\ knobsError \in BOOLEAN

BeforeEnd == {"applyVm", "applyKnobs", "startLog", "setupFailed", "body"}

\* What the test leaves in force.
Tuned(name) == IF Written(name) THEN TestValue(name) ELSE 0

\* Once the cleanup has come to its end the dirty limits are what they were
\* before the run, unless an error of their own restore was logged; the errors
\* of the body and of the other parts of the cleanup do not matter (lines
\* 625-641). It does not always get there: see AbandonedTuned.
VmRestored == pc = "ended" /\ ~vmError => vm = vmStart

\* VmRestored where both limits were given in bytes: every write of restore then
\* undoes one of apply (lines 292-303).
BytesRestored ==
  vmStart["dirty_bytes"] # 0 /\ vmStart["dirty_background_bytes"] # 0 =>
    VmRestored

\* The same for the debug knobs.
KnobsRestored ==
  pc = "ended" /\ ~knobsError => \A k \in KnobSet : knobs[k] = "original"

\* The cleanup comes past the joins (lines 616-624) only if every thread was
\* started. Left there, or between two of its tries, it leaves all limits as
\* the test set them; after a thread that did not start, all knobs too.
AbandonedTuned ==
  /\ body = "running" <=> pc \in BeforeEnd
  /\ body = "notStarted" => pc \in {"join", "abandoned"} /\ Faults
  /\ pc = "abandoned" =>
       /\ Faults
       /\ \A n \in VmNames : vm[n] = Tuned(n)
       /\ body = "notStarted" => \A k \in KnobSet : knobs[k] = "test"

\* "Keep dirty_background_bytes <= dirty_bytes across the whole restore
\* sequence" (line 293), also when it is cut short.
BackgroundWithinDirty ==
  pc \in {"restoreVm", "writeVm", "ended"} /\ vm["dirty_bytes"] # 0 =>
    vm["dirty_background_bytes"] <= vm["dirty_bytes"]
-----------------------------------------------------------------------------
(* Why they hold: what is saved, and what is in force, at each step.        *)

\* The kernel shows the form that is not in use as 0.
StartConsistent ==
  /\ vmStart["dirty_bytes"] = 0 \/ vmStart["dirty_ratio"] = 0
  /\ vmStart["dirty_background_bytes"] = 0 \/ vmStart["dirty_background_ratio"] = 0
  /\ \/ vmStart["dirty_bytes"] = 0
     \/ vmStart["dirty_background_bytes"] <= vmStart["dirty_bytes"]

\* apply writes both limits before it looks at the ratios, which are 0 by then.
ApplyInv ==
  pc = "applyVm" =>
    /\ i \in 1..6
    /\ \A j \in 1..6 : Written(VmFiles[j]) =>
         IF j < i THEN /\ vmSaved[VmFiles[j]] = vmStart[VmFiles[j]]
                       /\ vm[VmFiles[j]] = TestValue(VmFiles[j])
                  ELSE vm[VmFiles[j]] = vmStart[VmFiles[j]]
    /\ vm["dirty_ratio"] = IF i > 1 THEN 0 ELSE vmStart["dirty_ratio"]
    /\ vm["dirty_background_ratio"] =
         IF i > 2 THEN 0 ELSE vmStart["dirty_background_ratio"]
    /\ i > 3 => vmSaved["dirty_ratio"] = 0
    /\ i > 4 => vmSaved["dirty_background_ratio"] = 0

Tuning == {"applyKnobs", "startLog", "body", "join", "stopLog", "restoreKnobs",
           "restoreVm", "abandoned"}

TunedInv == pc \in Tuning => \A n \in VmNames : vm[n] = Tuned(n)

SavedInv ==
  pc \in Tuning \cup {"writeVm", "ended"} =>
    \A n \in VmNames : vmSaved[n] = IF Written(n) THEN vmStart[n] ELSE 0

OrderChosen ==
  \/ order = "bgRatioFirst" /\ SavedInRatioForm
  \/ /\ order = "bgFirst" /\ ~SavedInRatioForm
     /\ vmSaved["dirty_background_bytes"] <= DirtyBytes
  \/ /\ order = "dirtyFirst" /\ ~SavedInRatioForm
     /\ vmSaved["dirty_background_bytes"] > DirtyBytes

\* The branch restore takes is decided while the test's values are in force.
OrderInv == pc = "writeVm" \/ (pc = "ended" /\ ~vmError) => OrderChosen

WrittenBefore(k) == {RestoredFile(order, j) : j \in 1..(k - 1)}

HalfRestored(k) ==
  \A n \in VmNames :
    IF n \in WrittenBefore(k) THEN vm[n] = vmSaved[n] /\ ~Refused(n, vm[n])
                              ELSE vm[n] = Tuned(n)

WriteInv == pc = "writeVm" => i \in 1..4 /\ HalfRestored(i)

EndInv == pc = "ended" /\ ~vmError => HalfRestored(5)

KnobInv ==
  /\ pc \in {"applyKnobs", "restoreKnobs"} => i \in KnobSet
  /\ pc = "applyKnobs" => \A k \in KnobSet : k < i => knobs[k] = "test"
  /\ pc \in {"startLog", "body", "join", "stopLog"} => \A k \in KnobSet : knobs[k] = "test"
  /\ pc = "restoreKnobs" => \A k \in KnobSet : k < i => knobs[k] = "original"
  /\ pc \in {"restoreVm", "writeVm"} /\ ~knobsError =>
       \A k \in KnobSet : knobs[k] = "original"

\* The inductive invariant: from what apply has saved to what restore has put
\* back (VmDirtyTuning, RetryDebugKnobs), or has not been reached to put back.
SettingsInv ==
  /\ TypeOK
  /\ StartConsistent
  /\ ApplyInv /\ TunedInv /\ SavedInv
  /\ OrderInv /\ WriteInv /\ EndInv
  /\ BackgroundWithinDirty
  /\ KnobInv /\ KnobsRestored /\ AbandonedTuned
=============================================================================
