----------------------------- MODULE WorkerSlots -----------------------------
(***************************************************************************)
(* Which parts of a target file the writers of the retry race test         *)
(* (utils/f2fs_retry_race.py) may write.  A target file is cut in two: the *)
(* fsync workers own slots of the lower half, the background writers slots *)
(* of the rest.  Each slot belongs to one worker, because the content of   *)
(* the file is verified against a ledger of the last write of every slot.  *)
(*                                                                         *)
(* Sizes are in units of one pwrite (PatternConfig.chunk_size).            *)
(*                                                                         *)
(* A definition named X_Y is a deliberately wrong variant of X, kept to    *)
(* see which property notices.                                             *)
(***************************************************************************)
EXTENDS Integers

CONSTANTS
  FileSize,          \* cfg.file_size_bytes
  FsyncChunk,        \* cfg.fsync_chunk_bytes
  BackgroundChunk,   \* cfg.background_chunk_bytes
  FsyncWorkers,      \* cfg.fsync_workers
  BackgroundWriters  \* cfg.background_writers

\* A chunk larger than the file would grow it or start before it.
ASSUME SizeAssumption ==
  /\ FileSize \in Nat \ {0}
  /\ FsyncChunk \in 1..FileSize
  /\ BackgroundChunk \in 1..FileSize
  /\ FsyncWorkers \in Nat \ {0}
  /\ BackgroundWriters \in Nat \ {0}

AtLeastOne(n) == IF n < 1 THEN 1 ELSE n

\* range(worker_id, total_slots, worker_count)
AssignedSlots_Overlapping(total, id, count) == 0..(total - 1)
AssignedSlots(total, id, count) ==
  {s \in 0..(total - 1) : \E k \in 0..total : s = id + k * count}

Half == FileSize \div 2

FsyncSlots == AtLeastOne(Half \div FsyncChunk)

BackgroundSpan ==
  IF BackgroundChunk > FileSize - Half THEN BackgroundChunk ELSE FileSize - Half
BackgroundSlots == AtLeastOne(BackgroundSpan \div BackgroundChunk)

\* What run_retry_fsync_writeback_race checks before it starts: every worker
\* has a slot.
ASSUME WorkersHaveSlots ==
  /\ FsyncWorkers <= FsyncSlots
  /\ BackgroundWriters <= BackgroundSlots

\* Not checked by the code: neither kind of chunk is larger than its half.
LayoutFits ==
  /\ FsyncChunk <= Half
  /\ BackgroundChunk <= FileSize - Half

Workers == 1..(FsyncWorkers + BackgroundWriters)

SyncsEveryWrite(w) == w <= FsyncWorkers

ChunkOf(w) == IF SyncsEveryWrite(w) THEN FsyncChunk ELSE BackgroundChunk

FsyncOffset(slot) == slot * FsyncChunk

\* The last slot is pulled back inside the file.
BackgroundOffset(slot) ==
  IF Half + slot * BackgroundChunk + BackgroundChunk > FileSize
  THEN FileSize - BackgroundChunk
  ELSE Half + slot * BackgroundChunk

OffsetsOf(w) ==
  IF SyncsEveryWrite(w)
  THEN {FsyncOffset(s) : s \in AssignedSlots(FsyncSlots, w - 1, FsyncWorkers)}
  ELSE {BackgroundOffset(s) :
          s \in AssignedSlots(BackgroundSlots, w - 1 - FsyncWorkers,
                              BackgroundWriters)}

Span(offset, length) == offset..(offset + length - 1)

=============================================================================
