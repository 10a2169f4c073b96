----------------------------- MODULE RetryLedger ------------------------------
(***************************************************************************)
(* The writers of the retry race test (utils/f2fs_retry_race.py), the      *)
(* ledger in which they note what they wrote, and the main thread that     *)
(* stops them, turns the ledger into an expected image of every target     *)
(* file and verifies the files against it, once mounted and once after a   *)
(* remount (verify_content of                                              *)
(* case/test_f2fs_retry_fsync_writeback_race.py).                          *)
(*                                                                         *)
(* The file system of the model is a correct one: a file holds what was    *)
(* last written to it, and a remount changes nothing.  A verification that *)
(* fails is therefore a false alarm of the harness.                        *)
(*                                                                         *)
(* A write is the pair of its worker and the worker's write_seq, which is  *)
(* what the seed of its pattern is computed from; patterns are told apart  *)
(* even where two seeds are equal modulo 251.  Churn, memory pressure, the *)
(* sysrq watcher and the kernel settings do not touch the targets or the   *)
(* ledger and are left out (the settings are in RaceSettings).             *)
(*                                                                         *)
(* A definition named X_Y is a deliberately wrong variant of X, kept to    *)
(* see which property notices.                                             *)
(***************************************************************************)
EXTENDS WorkerSlots

CONSTANTS
  TargetFiles,   \* cfg.target_file_count
  WriteBound,    \* writes of one worker; bounds the model
  Faults,        \* may open, pwrite and fsync of a worker raise?
  Stalls         \* may a worker outlast the timeout of its join?

ASSUME RunAssumption ==
  /\ TargetFiles \in Nat \ {0}
  /\ WriteBound \in Nat \ {0}
  /\ Faults \in BOOLEAN
  /\ Stalls \in BOOLEAN

VARIABLES
  content,    \* content[f][u]: the write unit u of file f holds
  wpc,        \* control of each worker
  opened,     \* number of files the worker holds open
  job,        \* idx and offset of the worker's current write
  wpos,       \* units of it that are written
  writeSeq,   \* write_seq
  ledgerSeq, entries,   \* _seq and _entries of the ledger
  stop,       \* stop_event
  mpc, mi,    \* main thread: control, index of the loop it is in
  plan,       \* the image each validation plan describes
  phase,      \* which verification: "mounted" or "remount"
  late        \* history: the workers whose join timed out

fileVars   == <<content>>
workerVars == <<wpc, opened, job, wpos, writeSeq>>
ledgerVars == <<ledgerSeq, entries>>
mainVars   == <<mpc, mi, plan, phase, late>>
vars == <<fileVars, workerVars, ledgerVars, stop, mainVars>>

Files == 0..(TargetFiles - 1)
Units == 0..(FileSize - 1)

Baseline == [by |-> 0, n |-> 0]
Writes   == {Baseline} \cup [by: Workers, n: 1..WriteBound]
Keys     == Files \X Units \X {FsyncChunk, BackgroundChunk}
WorkerStates == {"open", "loop", "write", "sync", "note", "ended", "raised"}
MainStates == {"sleep", "join", "plan", "verify", "unmount", "passed",
               "mismatch", "busy"}

NotNoted == [seq |-> 0, write |-> Baseline]

\* The keys of the entries that describe unit u of file f.
Covering(f, u) ==
  {k \in Keys : k[1] = f /\ entries[k].seq > 0 /\ u \in Span(k[2], k[3])}

\* The overlays are applied in the order of their sequence numbers: the last
\* one decides.
Expected(f, u) ==
  IF Covering(f, u) = {} THEN Baseline
  ELSE entries[CHOOSE k \in Covering(f, u) :
                 \A j \in Covering(f, u) : entries[j].seq <= entries[k].seq].write
-----------------------------------------------------------------------------
Init ==
  /\ content = [f \in Files |-> [u \in Units |-> Baseline]]
  /\ wpc = [w \in Workers |-> "open"]
  /\ opened = [w \in Workers |-> 0]
  /\ job = [w \in Workers |-> [idx |-> 0, offset |-> 0]]
  /\ wpos = [w \in Workers |-> 0]
  /\ writeSeq = [w \in Workers |-> 0]
  /\ ledgerSeq = 0
  /\ entries = [k \in Keys |-> NotNoted]
  /\ stop = FALSE
  /\ mpc = "sleep" /\ mi = 0
  /\ plan = [f \in Files |-> [u \in Units |-> Baseline]]
  /\ phase = "mounted"
  /\ late = {}
-----------------------------------------------------------------------------
(* FsyncWorkerThread.run and BackgroundDirtyThread.run.                    *)

OpenFile(w) ==
  /\ wpc[w] = "open"
  /\ opened' = [opened EXCEPT ![w] = @ + 1]
  /\ wpc' = [wpc EXCEPT ![w] = IF opened'[w] = TargetFiles THEN "loop" ELSE @]
  /\ UNCHANGED <<fileVars, job, wpos, writeSeq, ledgerVars, stop, mainVars>>

\* The list of descriptors is not bound yet, so nothing closes those it has.
OpenRaises(w) ==
  /\ Faults
  /\ wpc[w] = "open"
  /\ wpc' = [wpc EXCEPT ![w] = "raised"]
  /\ UNCHANGED <<fileVars, opened, job, wpos, writeSeq, ledgerVars, stop,
                 mainVars>>

StopSeen(w) == stop

LeaveLoop_FilesOpen(w) ==
  /\ wpc[w] = "loop"
  /\ StopSeen(w)
  /\ wpc' = [wpc EXCEPT ![w] = "ended"]
  /\ UNCHANGED <<fileVars, opened, job, wpos, writeSeq, ledgerVars, stop, mainVars>>
LeaveLoop(w) ==
  /\ wpc[w] = "loop"
  /\ StopSeen(w)
  /\ wpc' = [wpc EXCEPT ![w] = "ended"]
  /\ opened' = [opened EXCEPT ![w] = 0]
  /\ UNCHANGED <<fileVars, job, wpos, writeSeq, ledgerVars, stop, mainVars>>

\* rng chooses the file and the slot.
ChooseWrite(w) ==
  /\ wpc[w] = "loop"
  /\ ~StopSeen(w)
  /\ writeSeq[w] < WriteBound
  /\ \E f \in Files, o \in OffsetsOf(w) :
       job' = [job EXCEPT ![w] = [idx |-> f, offset |-> o]]
  /\ writeSeq' = [writeSeq EXCEPT ![w] = @ + 1]
  /\ wpos' = [wpos EXCEPT ![w] = 0]
  /\ wpc' = [wpc EXCEPT ![w] = "write"]
  /\ UNCHANGED <<fileVars, opened, ledgerVars, stop, mainVars>>

CurrentWrite(w) == [by |-> w, n |-> writeSeq[w]]

\* One pwrite of pwrite_pattern_config.
WriteUnit(w) ==
  /\ wpc[w] = "write"
  /\ content' = [content EXCEPT ![job[w].idx][job[w].offset + wpos[w]] =
                   CurrentWrite(w)]
  /\ wpos' = [wpos EXCEPT ![w] = @ + 1]
  /\ wpc' = [wpc EXCEPT ![w] =
       IF wpos'[w] < ChunkOf(w) THEN @
       ELSE IF SyncsEveryWrite(w) THEN "sync" ELSE "note"]
  /\ UNCHANGED <<opened, job, writeSeq, ledgerVars, stop, mainVars>>

Fsync(w) ==
  /\ wpc[w] = "sync"
  /\ wpc' = [wpc EXCEPT ![w] = "note"]
  /\ UNCHANGED <<fileVars, opened, job, wpos, writeSeq, ledgerVars, stop,
                 mainVars>>

\* pwrite or fsync raises: the thread ends by the finally that closes its
\* files, and nothing is noted.
WriteRaises(w) ==
  /\ Faults
  /\ wpc[w] \in {"write", "sync"}
  /\ wpc' = [wpc EXCEPT ![w] = "raised"]
  /\ opened' = [opened EXCEPT ![w] = 0]
  /\ UNCHANGED <<fileVars, job, wpos, writeSeq, ledgerVars, stop, mainVars>>

KeyOf(w) == <<job[w].idx, job[w].offset, ChunkOf(w)>>

NoteWrite(w) ==
  /\ wpc[w] = "note"
  /\ ledgerSeq' = ledgerSeq + 1
  /\ entries' = [entries EXCEPT ![KeyOf(w)] =
                   [seq |-> ledgerSeq + 1, write |-> CurrentWrite(w)]]
  /\ wpc' = [wpc EXCEPT ![w] = "loop"]
  /\ UNCHANGED <<fileVars, opened, job, wpos, writeSeq, stop, mainVars>>

Terminated(w) == wpc[w] \in {"ended", "raised"}
-----------------------------------------------------------------------------
(* run_retry_fsync_writeback_race from its sleep on, and verify_content.   *)

StopWorkers ==
  /\ mpc = "sleep"
  /\ stop' = TRUE
  /\ mpc' = "join" /\ mi' = 1
  /\ UNCHANGED <<fileVars, workerVars, ledgerVars, plan, phase, late>>

\* After the last worker the validation plans are built, file by file.
Joined(w) ==
  /\ mpc = "join" /\ mi = w
  /\ IF w + 1 \in Workers THEN mi' = w + 1 /\ UNCHANGED mpc
                          ELSE mi' = 0 /\ mpc' = "plan"
  /\ UNCHANGED <<fileVars, workerVars, ledgerVars, stop, plan, phase>>

JoinWorker(w) == Joined(w) /\ Terminated(w) /\ UNCHANGED late

\* join(timeout=5.0) returns all the same, and its result is not looked at.
JoinTimesOut(w) ==
  /\ Joined(w) /\ Stalls /\ ~Terminated(w)
  /\ late' = late \cup {w}

BuildPlan ==
  /\ mpc = "plan"
  /\ plan' = [plan EXCEPT ![mi] = [u \in Units |-> Expected(mi, u)]]
  /\ IF mi + 1 \in Files THEN mi' = mi + 1 /\ UNCHANGED mpc
                         ELSE mi' = 0 /\ mpc' = "verify"
  /\ UNCHANGED <<fileVars, workerVars, ledgerVars, stop, phase, late>>

VerifyFile ==
  /\ mpc = "verify"
  /\ IF content[mi] # plan[mi] THEN mpc' = "mismatch" /\ UNCHANGED mi
     ELSE IF mi + 1 \in Files THEN mi' = mi + 1 /\ UNCHANGED mpc
     ELSE /\ mi' = 0
          /\ mpc' = IF phase = "mounted" THEN "unmount" ELSE "passed"
  /\ UNCHANGED <<fileVars, workerVars, ledgerVars, stop, plan, phase, late>>

\* umount succeeds in one of its retries once no worker holds a file open.
Remount ==
  /\ mpc = "unmount"
  /\ \A w \in Workers : opened[w] = 0
  /\ mpc' = "verify" /\ phase' = "remount"
  /\ UNCHANGED <<fileVars, workerVars, ledgerVars, stop, mi, plan, late>>

UnmountGivesUp ==
  /\ mpc = "unmount"
  /\ \E w \in Workers : opened[w] > 0
  /\ mpc' = "busy"
  /\ UNCHANGED <<fileVars, workerVars, ledgerVars, stop, mi, plan, phase, late>>
-----------------------------------------------------------------------------
Over == mpc \in {"passed", "mismatch", "busy"}

Worker(w) ==
  \/ OpenFile(w) \/ OpenRaises(w)
  \/ LeaveLoop(w) \/ ChooseWrite(w) \/ WriteUnit(w) \/ Fsync(w)
  \/ WriteRaises(w) \/ NoteWrite(w)

Main ==
  \/ StopWorkers
  \/ \E w \in Workers : JoinWorker(w) \/ JoinTimesOut(w)
  \/ BuildPlan \/ VerifyFile \/ Remount \/ UnmountGivesUp

\* Only a run that is over may stay where it is.
Ended ==
  /\ Over
  /\ UNCHANGED vars

Next == (\E w \in Workers : Worker(w)) \/ Main \/ Ended

\* The threads are scheduled by the kernel, their calls return, and the sleep
\* of the main thread ends: each thread that can take a step does.
Fairness == WF_vars(Main) /\ \A w \in Workers : WF_vars(Worker(w))

Spec == Init /\ [][Next]_vars /\ Fairness
-----------------------------------------------------------------------------
JobType == [idx: Files, offset: Units]
EntryType == [seq: Nat, write: Writes]

\* Every variable has its type, and no write leaves its slot or its file.
TypeOK ==
  /\ content \in [Files -> [Units -> Writes]]
  /\ wpc \in [Workers -> WorkerStates]
  /\ opened \in [Workers -> 0..TargetFiles]
  /\ job \in [Workers -> JobType]
  /\ wpos \in [Workers -> 0..FileSize]
  /\ \A w \in Workers :
       wpos[w] <= ChunkOf(w) /\ job[w].offset + wpos[w] <= FileSize
  /\ writeSeq \in [Workers -> 0..WriteBound]
  /\ ledgerSeq \in Nat
  /\ entries \in [Keys -> EntryType]
  /\ stop \in BOOLEAN
  /\ mpc \in MainStates
  /\ mi \in Nat
  /\ plan \in [Files -> [Units -> Writes]]
  /\ phase \in {"mounted", "remount"}
  /\ late \subseteq Workers

\* What worker w has written to a file and not noted, because it is still on
\* its way to note_write or was stopped there by an exception.
Unnoted(w) ==
  IF wpc[w] \in {"write", "sync", "note", "raised"}
  THEN {<<job[w].idx, u>> : u \in Span(job[w].offset, wpos[w])}
  ELSE {}

\* The files hold what the ledger says, except for the units of writes that
\* are under way or were interrupted; those hold that write.  It is what lets
\* _build_validation_plans expect the ledger's image (lines 507-522), and it
\* needs every unit to be in the slots of one worker only.
OnlyOpenWritesDiffer ==
  \A f \in Files, u \in Units :
    \/ \E w \in Workers :
         <<f, u>> \in Unnoted(w) /\ content[f][u] = CurrentWrite(w)
    \/ /\ \A w \in Workers : <<f, u>> \notin Unnoted(w)
       /\ content[f][u] = Expected(f, u)

\* No writer has raised and every join has waited for its writer.
Undisturbed == late = {} /\ \A w \in Workers : wpc[w] # "raised"

\* verify_retry_race_summary (lines 543-544) never reports corrupt content of
\* a file system that is correct, unless a writer failed or outlasted its join.
NoFalseAlarm == Undisturbed => mpc # "mismatch"

\* The ledger and the files agree as far as they can, and what disagrees is
\* blamed on nobody else (RetryLedger.note_write, _build_validation_plans).
LedgerInv == TypeOK /\ OnlyOpenWritesDiffer /\ NoFalseAlarm

\* A run on a correct file system ends, and passes both verifications unless a
\* writer failed or outlasted its join.
RunPasses == <>(mpc = "passed" \/ (Over /\ ~Undisturbed))
=============================================================================
