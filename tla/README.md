# Verification of the F2FS race-test harness and of the perf scripts beside it

The repository is a collection of scripts around an F2FS kernel tree. Its own
logic is in two places: the test harness under `shared_with_qemu/test/`, with the
manager of the virtual machines it runs in (`qemu_start_ubuntu.sh`), and the Python
programs of the perf tool under `source/` that read traces, export them to a
database, show them, run perf in parallel, and write the tables of events. Most of
the rest is data, charts and wrappers of external commands.

The harness hunts for defects of a file system, so its correctness has a particular
form: *what it reports as a defect must be one, what it verified must have been
there to verify, and it must come to an end and put back what it changed*. For the
programs that read traces it is: *what is shown is what happened on the traced
machine, although events are missing, addresses and names are used again, and parts
of the picture are read at different times*. The properties below say so, program
by program. The file system under test, the kernel, perf, the database and the user
belong to the environment; where they can disturb a program they have an action of
their own, and no property holds because they behave.

Paths are relative to the source tree. `utils/`, `case/` stand for
`shared_with_qemu/test/utils/` and `.../case/`, `python/` for
`source/scripts/python/`, `pmu-events/` for `source/pmu-events/`.

## 1. Inventory

### The harness

| component | code | state | operations | interacts with |
|---|---|---|---|---|
| odex-like race | `utils/odexlike_pc.py`, two cases | published phase, three directory entries and the files behind them, the consumer's mapping, counters | write, fsync, rename, rename, unlink of a generation; publish, wait, open, validate, hold, validate again; join | two threads over a condition variable and a directory |
| retry race: writers and ledger | `utils/f2fs_retry_race.py` | target files, slots, ledger of last writes, plans | open, choose a slot, pwrite, fsync, note; stop, join, plan, verify, remount | N+M writers, the main thread, the file system |
| retry race: kernel settings | the same, 103–183, 233–343, 569–641 | `vm.dirty_*`, debug knobs, the values saved | save, apply, restore, log capture | the kernel |
| artifact pressure | `utils/artifact_pressure.py`, `utils/fsverity.py` | per artifact its recipe, fsync passes and verity; the held mapping; the summary | write in a child, replace by two renames, verify, fsync batch, fs-verity, removal | child processes, fsync threads |
| patterns and verification | `utils/{patterns,verify,io,short_write,gc_two_phase}.py`, `rw_test.py`, cases | the file, and what is known of it | fill, write in chunks, verify in three ways | every test |
| mapped vdex files | `utils/oatwriter_mmap.py`, `case/test_vdex_mmap_msync_stress.py` | a file, two mappings, the part not yet written | grow, map, copy, msync, truncate, header last | the kernel's write-back |
| loop mount | `utils/loop_mount.py` | image, loop device, mount | set up, unmount with retries, remount, clean up with the lazy unmount | every case, threads not joined |
| VMA lock race runner | `run_vma_lock_fault_race.sh`, `trace_vma_lock_shard.sh`, `vma_lock_fault_race.c` | lock directory, ready / go / hit files, tracing switches | lock, start helper and workload, release, watch, clean up | three processes and other runs |
| QEMU instances | `qemu_start_ubuntu.sh` | instance directory, `instance.env`, pid file, sockets, process | start, stop, cleanup | itself in other terminals, QEMU |

### The programs around perf

| component | code | state | operations | interacts with |
|---|---|---|---|---|
| fetching of records | `python/exported-sql-viewer.py`: `SQLFetcher`, `SQLFetcherProcess`, `FetchMoreRecordsBar` | ring buffer in shared memory, counters, two events, signals | execute and write batches, turn counts into signals, take rows, ask for more, shut down | a process, a helper thread, the GUI thread |
| call graph, call tree, find bar | the same: `CallGraphModel`, `CallTreeModel`, `FindBar` | items that are read when opened, the position of the search | open, find, next / previous, jump to a time | the database, the user |
| time chart | the same: `SwitchGraph*` | points by cpu, the view and its history | paint, read under the pointer, select, zoom, back, forward | the database, the user |
| reports of branches | the same: `BranchWindow`, `ReportDialogBase` | the dialog's ranges, the rows so far, the bar | parse, search sample ids, fetch, search | the fetcher |
| exporters | `python/export-to-{postgresql,sqlite}.py` | tables, views, files | begin, rows, end with keys and drops | perf, the database |
| parallel-perf | `python/parallel-perf.py` | time ranges, work list, jobs by state, pipes, error files | check options, divide, start, poll, kill, reap | perf processes |
| task-analyzer, netdev-times, compaction-times, sched-migration, futex-contention, powerpc-hcalls, counts of system calls, mem-phys-addr, net_dropmonitor | `python/*.py` with `Perf-Trace-Util` | dictionaries by pid, cpu or address | a handler for each event, the report | perf |
| intel-pt-events, arm-cs-trace-disasm, flamegraph, stackcollapse, gecko | `python/*.py` | output waiting by cpu, caches, trees and tables | a handler for each sample, the end | perf |
| metric expressions | `pmu-events/metric.py` | expression trees | read, simplify, write, rewrite | perf's parser |
| tables of events | `pmu-events/jevents.py` | the big string, the tables of a directory | walk twice, lay out, write, look up | the C code that is written |

### What is hard, and what makes each correct

* **odex-like race.** Two threads meet at any step of a replacement. The test means
  something only if the consumer is released at the phase it targets, if what it maps
  is a whole generation, and if the second validation is after the unlink. A failing
  call must end the run and be visible in its result; no thread may wait for ever.
* **Writers and ledger.** Write, fsync and note are three steps of several threads;
  the files are compared with the ledger after a stop and a join with a time-out. It
  may blame the file system only for what that did: slots must not overlap, notes
  must come in the order of the writes.
* **Kernel settings.** Two exclusive forms of one limit, saved and written file by
  file; any write of the restore may fail; background ≤ dirty in between; the joins
  before the restores may raise, and then there are none.
* **Artifact pressure.** One thread and a dozen places where it may raise, each with
  its handler; what it knows of an artifact must describe the file under that name.
* **Patterns.** A file is judged by an image computed chunk by chunk: off-by-one at
  chunk, region and file ends, writes shorter than asked, patterns that repeat.
* **Vdex files.** The kernel writes a page back at any moment, so the order of copies
  and msyncs decides whether a header on the disk means a whole file.
* **Loop mount, VMA runner, QEMU instances.** Partial set-up, busy mounts, locks with
  a stale owner, signals between any two commands, pids that are reused, several
  invocations at once: what was set up must be undone, and nothing of another.
* **Fetching.** Three actors over two flags and two counters, a buffer that wraps, a
  user who leaves at any moment: rows in order, once each, and no wait for ever.
* **Trees, chart, reports.** Items are read at different times, searches go round a
  tree that is only partly there, times are turned into pixels, positions and ids and
  back: what is shown must be what the database has.
* **parallel-perf.** Each moment of each CPU must be processed once although ranges
  come from options, sizes or samples; jobs fail, block on a pipe, and are killed.
* **Handlers of events.** Lost events, a trace that begins in the middle, nested
  contexts, numbers that are used again: an interval must be that of one activity.
* **Exporters, metrics, tables.** Keys, drops and views after the fact; algebra that
  must not change a value; offsets into a string whose pieces share their ends.

`PROJECT.json` lists these hazards one by one at their lines, with the properties
that would notice them going wrong.

### Not modelled

* *Background pressure threads* (`utils/{churn,f2fs_gc,memory_pressure}.py`): loops
  with a stop flag that share nothing with the tests but the machine.
* *fscrypt set-up*, *single-purpose mmap and write scripts*, *host scripts*:
  straight lines of external commands or system calls, whose state is the tool's.
* *Benchmark and reporting scripts*: batch processing of numbers.
* *Other perf scripts* (demonstrations that print what they are handed, a binding of a
  library), *shell tests and beautifiers of the vendored perf*, and the two small
  kernel modules: nothing of them keeps state that is read later.

## 2. Modules

An arrow means EXTENDS or INSTANCE; proofs stand beside the module they are about.

```
PhaseTimeline <- OdexRace --implements--> ReplacedFile     OdexRaceProofs
WorkerSlots   <- RetryLedger                               RetryLedgerProofs
ArtifactPressure                                           ArtifactPressureProofs

RaceSettings                    <- MCTestFiles             TestFilesProofs
VdexWriter                      <- MCTestFiles             TestFilesProofs
PatternFiles                    <- MCTestFiles

QemuInstance                    <- MCHostTools             QemuInstanceProofs
LoopMount                       <- MCHostTools             RetryLedgerProofs
RunLock <-implements-- VmaRace  <- MCHostTools             VmaRaceProofs

TimeRanges, ParallelJobs <- ParallelPerf <- MCParallelPerf ParallelPerfProofs
SqlFetcher                      <- MCSqlFetcher            SqlFetcherProofs

TaskAnalyzer, NetdevTimes, CompactionTimes, SchedMigration,
CallScripts, AddressScripts     <- MCPerfScripts
IntelPtEvents, CsTrace, StackScripts, CallTrees, SwitchGraph, ReportWindow,
DbExport, MetricText, EventTables  <- MCPerfTraces
```

Programs that do not meet share a run: in `MCHostTools`, `MCTestFiles`,
`MCPerfScripts` and `MCPerfTraces` an initial state chooses one program (`tool`,
`test`, `script`) and the others keep still, so that a state is a state of that
program. Programs that do meet are composed: `OdexRace` with its timeline,
`RetryLedger` with the slots, `VmaRace` with the lock, `ParallelPerf` from the
options to the end of the jobs.

A definition named `X_Y` is a deliberately wrong variant of `X`, kept next to it to
show that a property would notice such a bug; no specification uses it.

### The harness

**PhaseTimeline, OdexRace, ReplacedFile.** `PhaseTimeline` is the class of that
name: the pair (generation, slot) last published, the done flag, and the three tests
under which `wait_for_at_least` returns. Every method holds the lock for its whole
body and every writer notifies all, so a waiting thread is one whose action is not
enabled. `OdexRace` is one call of `run_variant`; producer, consumer and main thread
have a control variable each, and a step is the work between two points that
another thread could observe. The work before a slot and the publication of the slot
are separate steps: in between, the directory has changed and the timeline has not.
Files are inodes named by the generation that creates them; `pages[i][p]` is the
generation whose image page `p` holds, so a torn file is one whose pages disagree.
`ProducerFault`, `MapFault`, `OpenFault` are the exceptions, each with the handler
the code has for it: the consumer's `os.open` is outside its `try`, hence
`OpenFault` ends the thread without a trace. `ReplacedFile` is the promise: a name
under which whole generations appear one by one, with gaps, and a mapping that keeps
showing what it was opened on.

**WorkerSlots, RetryLedger.** `WorkerSlots` is the arithmetic of the two writer
classes: which offsets of a target file each worker may choose, in units of one
pwrite. `RetryLedger` goes on from the opening of the files: a writer chooses file
and slot, writes unit by unit, syncs, notes; the main thread stops, joins worker
after worker, plans, verifies, remounts, verifies again. The file system is a correct
one, so every mismatch is a false alarm. A write is identified by its worker and its
number, the two things the seed of its pattern is made of.

**RaceSettings.** Apply file by file and knob by knob, the log, the body as one
step with three outcomes (`body`: it returned, raised, or a thread did not start), the
joins, which are in no `try` and may raise (`CleanupLeft`), and one `try` per later part. That a write to one form of a limit
clears the other is the kernel's and external (`WriteSetting`, `Refused`).

**ArtifactPressure.** The group loop, with `plan_fsync_batch` (`PlanBatch`: focus first,
the other paths rotated by the round): each step
that may raise has a second action for it, with the handler that applies (label and
raise, return with a label, or straight to the outer `finally`). The threads of a
batch are joined before the loop goes on and touch only their file, so a batch is one
step; a batch that raises has synced any subset.

**PatternFiles.** A case is a file that is prepared, written chunk by chunk with a
pattern, and judged; sizes are a few bytes, and the moduli 256 and 251, the tokens and
the window of 64 are scaled down with them. `Loops` repeats a case on its kept file.
The file system may write less than asked and spoil a byte or the size.

**VdexWriter.** Both writers of vdex-like files: a file is its bytes, each the part
it belongs to and the place in it; a page is written back whenever the kernel likes,
an msync lasts until its pages are clean. Alignments are scaled down.

**QemuInstance.** start, stop and cleanup as sequences of their file and process
operations; any may be in progress together. Two histories record what commands cannot see
of one another: `beside`, the starts that another command went on beside since they found
no QEMU, and `crossed`, the QEMUs of such starts and those that a start with another pid
file went on beside. QEMU and the process table are external: QEMU refuses to start while another
has its images, writes pid file and sockets when it comes up and removes them when it
exits, unless it crashes; a free pid may be taken by another process.

**RunLock, VmaRace.** `RunLock` is the lock directory, a command a step and `rm -rf`
two. `VmaRace` puts a run's workload and trace helper between taking and releasing
the lock: files of a directory that is a parameter of the run, the kernel's tracing
shared by all, and signals between any two commands. `readEnds` says whether the
shell's `read` ends when the helper gets TERM, which differs between shells.

**LoopMount.** A case sets up inside or before its `try`, the image may be kept, an
earlier mount may be found there, and threads that were not joined use the mount
while it is unmounted, at last lazily.

### The programs around perf

**SqlFetcher.** Process, helper thread and GUI thread over the ring buffer: a row is
its position in the result, its pickled form a header of `Hdr` cells and a body of
`SizeOf[row]` cells, and each cell knows what was last written there. The waits are
on two events of one flag each. The bars that ask for more, a view that scrolls, and
the window closed at any moment are the user's.

**TimeRanges, ParallelJobs, ParallelPerf.** `TimeRanges` is the arithmetic of the
division, with quotients as pairs and the rounding of Python; `ParallelJobs` is
`Work` and `RunWork` with the lists of jobs waiting, running, killed and done;
`ParallelPerf` checks the options, divides, self-tests, lists the work and runs it.
Processes are external: killed asynchronously, and a producer blocks for good if
nobody reads its pipe.

**TaskAnalyzer, NetdevTimes, CompactionTimes, SchedMigration, CallScripts,
AddressScripts.** A machine (threads on cpus, packets in contexts, compactions of
processes, run queues, calls, ranges of memory) makes the events, and the script's
handlers run on them; the module compares what the script keeps with what the machine
did. Events may be missing (`MaxLost`) or begin in the middle.

**IntelPtEvents, CsTrace, StackScripts.** The same for decoded traces: the order of
the output when it is interleaved, the ranges between branches with the cache of their
disassembly, and the trees and tables that samples are folded into.

**CallTrees, SwitchGraph, ReportWindow.** The viewer on a database that a traced
program filled, and a user. A tree model is a function from the place of an item (the
ids from the root to it) to what is known of it; a graph is a sequence of points; a
report is a dialog whose ranges of times become ranges of sample ids, and rows that
come piece by piece.

**DbExport.** Both exporters told of the same trace: one writes files that the end
copies and gives keys, the other inserts at once; both drop what stayed empty.

**MetricText, EventTables.** The expression of a metric from text to tree, simplified,
to text for perf's parser, and rewritten by other metrics; and the walk of the json
files, the big string, the tables of each model and the search in them.

## 3. Runs

| run | what it shows | distinct states |
|---|---|---|
| `odex_clean` | without faults `run_variant` returns for every launch slot, mode and writer (`RunReturns`), its counters account for every generation (`CleanResultAccounted`), and the replacement implements `ReplacedFile` (`ReplacesAsAWhole`) | 156 064 |
| `odex_faults` | with every fault: the inductive invariant `IInv`; no torn mapping, a gap only between the renames, the last finished generation never lost (`ReplacementSafe`); the consumer validates what its slot targets (`ValidatesWhatItTargets`) | 529 168 |
| `odex_hang` | **violated**: `RunReturns`, see section 4 | |
| `retry_run` | with failing writers and late joins no write leaves its slot, notes come in the order of writes, the files differ from the ledger only in writes that were not noted, and a correct file system is blamed only then (`LedgerInv`); without faults every run ends and passes (`RunPasses`) | 390 012 |
| `artifact_run` | with every step that may raise raising, and damage: nothing is lost, the state describes the files, fs-verity only after the passes of the file itself (`ArtifactInv`); batches are full and sync each path once, and a file has fs-verity between two groups exactly if due (`SyncsReachFiles`); only real damage is reported (`OnlyDamageReported`) | 640 546 |
| `test_files` | settings in every form are put back, background ≤ dirty (`SettingsInv`, `BytesRestored`); files are passed only if right and blamed only if spoilt (`FilesJudged`); a vdex header on the disk means a whole file (`HeaderComesLast`) | 67 302 |
| `host_tools` | `instance.env` describes what runs (`InstanceInv`), cleanup removes no running instance that has the default pid file (`CleanupStopsFirst`), neither said of a QEMU that is `crossed`, runs of the lock race exclude one another and trace their own workload (`RunsExcluded`), what they and a loop mount set up is undone (`SetupsUndone`), stops and runs end (`CommandsEnd`) | 400 643 |
| `parallel_perf` | every division gives each CPU's jobs every moment once (`WorkDivided`) and equal shares where it should (`SharesAreEven`); every run ends with all jobs accounted for (`JobsInv`, `RunEnds`) | 201 418 |
| `sql_fetch` | rows come out in order, once each, and intact (`FetchInv`); every request is answered (`FetchServed`); leaving ends all three actors unless the buffer is full (`ShutdownEndsUnlessFull`) | 470 344 |
| `sql_lost_batch` | **violated**: `AllFetched`, see section 4 | |
| `perf_scripts` | what the scripts for tasks, packets, compactions, run queues, calls and addresses report is what the machine did, or exactly as far from it as lost or late events bring them (`TasksMeasured`, `NetReportRight`, `CompactionsCounted`, `SlicesShown`, `CountsRight`) | 2 703 902 |
| `perf_traces` | the same for decoded traces and samples (`DecodedShown`, `SamplesShown`), the viewer (`CallsShown`, `FindGoesRound`, `ChartRight`, `ReportShown`), the exporters (`ExportComplete`), metrics and event tables (`PmuEventsKept`) | 919 543 |

**Bounds, and why they are enough.**

* `odex_*`: 3 generations without faults (the first, one that replaces, one that
  replaces after a replacement), 2 with faults, so that each can hit the creation and
  the replacement; 2 pages and a tail, enough for a file to be torn and to have a
  middle; every launch slot, both modes, both writers.
* `retry_run`: files of 4 units, chunks of 1 for two fsync workers that share a half
  and of 2 for one background writer (so that a write can be half done); `WriteBound`
  is 2 writes a worker, so that a slot is written again while the first is open.
* `artifact_run`: 5 groups over 4 artifacts, so that one is replaced after it got its
  passes and its verity, and a batch leaves paths out; the guard of `Damage` stops it
  after one file, since the loop stops at the first it sees.
* `test_files`: limits below, between and above the test's; patterns of a few bytes
  with every offset modulo the scaled chunk, token and page; each case twice on its
  file (`Loops`); vdex parts that end before, at and after a page.
* `host_tools`: 2 commands and 2 pid files, the default one and another. In one part of the
  run any two commands overlap, over one pid (`OnePid`); in the other stops and cleanups
  overlap over two pids, so that a pid can be free, reused or stale, and a start is alone
  (`StartsAlone`). 2 runs of the race, with a directory each or a common one, and one of them
  signalled or killed (`MaxTroubles`); 3 runs at the lock alone, of which two take it at
  the same time (`TwoTaking`); with the rest of the script a contested lock is not followed
  further (`TwoOnly`); a mount with 2 users and `Retries`.
* `parallel_perf`: recordings of ten moments; all options of the division as dry
  runs, and runs of up to `MaxWork` = 3 jobs, 1 or 2 at once.
* `sql_fetch`: results of 0, 3 and 6 rows whose sizes differ, a buffer that holds
  three or four of them, so that it wraps and fills, and batches of 2.
* `perf_scripts`, `perf_traces`: `MaxEvents`, `MaxSwitches`, `MaxSamples`, `MaxDepth`,
  `MaxRanges`, `MaxSymbols` and the `Bounds` and `Cases` of the viewer's modules bound
  the trace and the user. They are set to where every handler has met its special case:
  a number used again, a nested context, one or two lost events (`MaxLost`), a begin without
  an end and an end without a begin.

These names, with the guard of `Damage`, are the only bounds that are not parameters
of the code. `CHECK_DEADLOCK FALSE` is set where the program really stops: in
`odex_faults` and `odex_hang` a consumer waits for ever; in `host_tools` a command, a
run or a case is over; in `sql_*` the window is closed, and in `perf_scripts` and
`perf_traces` the program has ended or a bound of its trace is reached.

**Fairness.** Each thread or process that can take a step eventually does, because the
kernel schedules it: `OdexRace` producer, consumer and main thread, `RetryLedger`
the main thread and each worker, `SqlFetcher` the process, the helper and the GUI,
`ParallelPerf` the program. `QemuInstance`: a command that was invoked runs on, and a
QEMU that was sent SIGTERM exits. `VmaRace`: as long as some shell or workload can go
on, one does. `ParallelPerf`: perf ends unless nobody reads its output, a consumer ends
once its input has, and what was killed dies. Nothing makes a call fail, a file be
damaged, a join time out, a user act or another process end; nobody has to invoke a
command. `CommandsEnd` therefore holds for stops only where unrelated processes cease
to take pids, and QEMUs whose start is beside the stop to come up: the loop of
`qemu_start_ubuntu.sh:411` polls the pid, whoever owns it.

## 4. Defects

Shown by a run:

* `odex_hang` (`utils/odexlike_pc.py:113`): a producer that fails inside the
  generation the consumer waits in sets the done flag, but no test of the wait becomes
  true, and the join has no time-out.
* `sql_lost_batch` (`python/exported-sql-viewer.py:2697`): the helper reads the count
  of records, then the end flag; a last batch published in between is announced to
  nobody, and the bar says "All records fetched" over a table without it.

Seen while modelling; the definition that has it is named where there is one.

*odex-like race.* An open that fails otherwise than with ENOENT ends the consumer
without a trace (551, `OpenFault`), and the test passes. `validate_mapping` never looks
at the bytes of the tail (207). `case/test_odexlike_gc_race.py:61` looks at
`mismatches`, not at the errors of the threads.

*retry race* (`utils/f2fs_retry_race.py`). A join that times out is not noticed (617,
`JoinTimesOut`). A background chunk larger than its half passes the slot check, and its
offset is pulled back into the other half (428; without `LayoutFits` the verification
of a correct file system fails). Ratios are saved after the writes that made them 0, so
limits given as ratios are not restored (256, against the comment at 285). With one
limit in bytes and the other a ratio the restore writes 0 to a `*_bytes` file (296). A
failing set-up undoes nothing (599). The `finally` joins the threads outside any `try`
(616–624): after a thread that did not start (602–608), or a second interrupt, a join
raises and neither knobs nor limits are put back (`AbandonedTuned`); that they are is shown
of clean-ups that come to their end. Patterns repeat modulo 251 (377): two writes may be
the same; the model tells them apart and is stricter.

*artifact pressure* (`utils/artifact_pressure.py`). An exception of the fsync batch,
of fs-verity, of a verification or of the group's last sync leaves no label and the
evidence is removed (812, `Escapes`); so does one while evidence is saved (718). The
batches rotate the others of a focus that is drawn anew by each group, so that an artifact
may stay out of them (454). A failing mmap leaks `held_fd` (688). The eviction of 784
cannot be reached.

*patterns, vdex.* Repeat mode of `rw_test.py` fails for offsets that are no multiple of
the token (help at 916, `patterns.py:93`, `verify.py:281`). A kept file of another shape
with baseline "hole" gives a false alarm. The command "verify" writes first.
`verify.py:257` uses `errno`, which is not imported. `test_vdex_mmap_msync_stress` loses
the padding when the old size is not a multiple of 4, which its constants never give.

*loop mount.* Cases that set up before their `try` (`case/test_odexlike_gc_race.py:79`)
leave device and mount when the set-up or the body fails. A set-up that finds the place
mounted fails, and the clean-up then unmounts the earlier case's mount, not its device.

*VMA runner* (`run_vma_lock_fault_race.sh`). Two runs that take over a stale lock at once
may both get it, and so may a run that reads the lock before its owner has written its
pid (52–60, `contested`). With a directory used again, a stale `trace.ready`
releases the workload before the tracing and a stale `had_reader.hit` is reported at
once (121, 134, 152). A signal between `&` and `PID=$!` leaves a process behind
(`caught`). The helper dies untidily before its trap is set
(`trace_vma_lock_shard.sh:75`); after TERM its read may go on, and the parent's wait
with it (`readEnds`). Killing it may drop a hit not yet read. The sysctl of line 77 is
never restored; the helper of a killed run steals lines of the next.

*QEMU instances* (`qemu_start_ubuntu.sh`). Cleanup of an instance started with
`--pid-file` deletes its images while it runs (492). Start tests the pid file it was
given, not the one in `instance.env` (337–369). `--dry-run`, which should only print
(59), rewrites `instance.env` and removes sockets (372). Nothing keeps two starts apart:
both may pass the check (342), and the later one removes the sockets of the QEMU of the
earlier one (372) before its own QEMU is refused. Stop may signal a reused pid (410); if
the process has ended since line 409, or is another user's, `set -e` ends the command at
the `kill` and the stale pid file stays. These are what `crossed` leaves out of
`InstanceInv` and `CleanupStopsFirst`.

*parallel-perf.* `SplitTimeRangesByInterval` divides nanoseconds by `--interval` as
given (610); the help (953) says seconds.

*Fetching.* With `tail` still 0 after a wrap the writer takes a full buffer for an empty
one (2586); the history variable `lapped` says that this has happened, and `FetchInv`
is claimed until then. When the thread gives up with the last batch unseen, its records
are never shown (`sql_lost_batch`); `missed` says so. A batch larger than the buffer waits
for ever: the instance of the run has a buffer that holds one, and no theorem needs it. A
process that waits for space is never told of a shutdown (2682; `ShutdownEndsUnlessFull`).

*The rest of the viewer.* `LookupCreateModel` (337) keeps its lock if `create_fn` raises.
`FindBar.NextPrev` stores the pattern at an index whose text may be another's. A task
switched out exactly at the left edge is drawn at its pixel; execs outside the switches
of a cpu are not shown; `RBPixelToTime` raises without points on the first cpu; a
selection of the whole width zooms past the end. `CallsMinTime` and `CallsMaxTime` query
a column that does not exist. The alternatives "a OR b" of the dialog are joined with
AND without brackets (3606, against 3640). When switches go beyond the samples the first
or last sample is taken although it is outside; with gaps in the ids the search for an
upper end returns the next id. Rows fetched after a value was entered are not searched.
`string.maketrans` fails under Python 3.

*Scripts that follow a machine.* task-analyzer: `_record_cleanup` rebinds a name without
effect and would break the summaries if it had one; `--time-limit` with `--csv-summary`
slips past the check, `--time-limit :` raises. netdev-times: nested interrupts lose a
record; a packet released before its transmission is traced, or by `consume_skb` without
a copy, has no end or that of a later one at its address (`NetReportRight`); a receive from task context goes to an
old interrupt; the sort of `trace_end` moves nothing. compaction-times: a first event that
is no begin is a `KeyError`; the pid filter "0" lets all through. sched-migration: a
wake-up or migration of a task already shown renames the marks of earlier slices
(`MarksTold`); a preempted task (R+) is taken to sleep (`RunqueuesShown`); under Python 3
the search takes a float for an index (248, `FindTimeSlice`) and nothing is painted; several
other paths raise there or on an empty trace. futex-contention and the like: the average is
half of the last and half of the average before; a wait whose exit is lost is ended by the
next exit of its thread; an exit and a later entry of a hypervisor call that are both lost
make one call of two (`CountsRight`); filter 0 is none. mem-phys-addr without root: all addresses are 0.

*Decoded traces.* intel-pt-events: a source line left blank is misread when interleaved;
`print_evt` prints the first event as often as there are events; the last switches are
never printed. arm-cs-trace-disasm: the cache of disassemblies has no load address in its
key (`CacheKey`), the range after each gap is dropped, an option of 0 counts as none.

*Exporters.* 'callchains' alone is a `NameError` in `trace_begin`, against the usage text;
sqlite stores fractions of MHz under Python 3; the row for "unknown" marks it as calling.

*Metrics and tables.* metric.py: `Simplify` raises for two constants that simplification
made, `d_ratio` and `min` of constants raise, `1 * a` stays when the 1 comes late; `a < b <
c` and `a | b < c` are read otherwise than perf reads them; a number to the left of `^`
or `%` is a `TypeError`, since no `__rxor__` or `__rmod__` is defined (41–81). jevents.py: groups are sorted
with "\\000" at their end while they are searched by `strcmp`, so that a group whose name
begins another's may not be found; metrics of one pmu of which only some have a
description open its array twice; files after a `sys` directory go into its table, files of
a directory that has others into the model before; `except e` is a `NameError`; rewritten
metrics are looked up under another key than they are stored, and never applied.

## 5. Proofs

What the theorems state holds for every value of the constants, under the named
assumptions of the modules (`ConfigAssumption`, `SettingsAssumption`,
`RunAssumption`, `PressureAssumption`, `InstanceAssumption`, `RunsAssumption`,
`PairsAssumption`, `JobsAssumption`, `InvocationAssumption`, `FetcherAssumption`): sizes and counts are
positive, the test's background limit is at most its dirty limit, the names that stand
for "none" are no names, a setting is a pair, a record fits in the ring buffer. Some
theorems have a hypothesis, which the run that checks the property fulfils and which is
said below. Every inductive invariant was first checked by TLC on
the instance of the run.

**`OdexRaceProofs`.** That a mapping is whole depends on what the name showed when it
was opened, that on the renamed file having been finished, and that on the producer's
position. `IInv` says at each position which of four forms the directory has
(`DirectoryInv`), how much of the temporary file is written and that nobody else has it
(`TmpInv`), and that every file reachable by a name or a mapping is whole
(`ReachableFilesWhole`). From it: `ReplacementIsSafe` and its parts, `VisibleFilesFrozen`.
With `HolderInv`, when the consumer holds a mapping, each step is a `Hide`, `Show`,
`Open`, `Close` or a stutter of `ReplacedFile` (`ImplementsReplacedFile`).
`ValidationsHitTargets` rests on the order of the timeline: what was published before a
wait returned can only move on, so the file seen afterwards is the target's or a later
one. `ResultsAccounted` counts the ends of the consumer's rounds (`EndsInv`,
`AccountInv`); its hypothesis is that `os.open` fails with ENOENT only, because the
other failures end the thread (section 4).

**`RetryLedgerProofs`.** `LedgerHolds`, for every layout with `LayoutFits`, which is the
hypothesis: no line of the code checks it, and without it two slots overlap and the
property is false (section 4). The
slots of two workers are disjoint, so a unit has one writer; each note of the ledger is
the last of its units; a file differs from the ledger in open writes only. A plan made
under a running writer may blame a correct file; without faults and late joins
(`Undisturbed`) the writers have ended before the plans are made.
`MountIsReleased` is about the mount below the cases, for any number of retries and of
threads that still use it: `DeviceInv` says which devices and mounts there can be, and
`StepInv` what each step of the set-up or the clean-up still has to undo.

**`TestFilesProofs`.** `SettingsInductive` (`SettingsInv`), and from it the types,
`BackgroundNeverAbove`, and, of a clean-up that comes to its end, `KnobsRestoredAtEnd` and
`BytesRestoredAtEnd`; `AbandonedTuned` says when it does not and what is then left.
`ApplyInv` says
which files apply has saved and written so far and that the ratios are 0 by the time it
reads them; `TunedInv`, `SavedInv` what is in force and what was saved; `OrderInv` why
the restore took its branch; `HalfRestored(k)` that after `k - 1` writes exactly the
files written hold their saved value. The last needs that a write of the restore clears
no other setting, which is where the order of the files and the zero ratios come in.

`HeaderIsLast` (`HeaderComesLast`) is about both writers of vdex-like files, for parts of
every size: `ThePlan` gives the order of a writer's operations for all sizes (`PlanIs`:
two `ftruncate`s, copies that put what belongs behind the header where it belongs and
leave no byte of the file out, msyncs that cover all of it, the header, its msync), and
`FileInv` what is true after each of them: a page in which the disk is behind is one the
kernel is still to write back (`DiskFollows`), what no later copy fills is as it is to be
and what an msync has waited for is on the disk (`OnItsWay`); there is no header in memory
or on the disk until all the rest is on both (`Headless`, `Whole`). The hypotheses
(`VdexesFit`): a header fits into a page, no blob is empty, and in the second writer's file
the tail begins where the alignment lets it, as it does with its fixed sizes (its tables
and blobs are multiples of 4); otherwise it leaves as many bytes of the tail out as it skips.
`MCTestFiles` assumes the same of its files. The functions that define the places of the
blobs are shown to exist by the set of the numbers up to which they do (`TurnByTurn`).

**`ArtifactPressureProofs`.** `ArtifactSafe`: what each step of the loop has written,
staged, renamed and learnt (`Written`, `StageInv`, `FilesInv`, `KnownInv`), and that the
passes counted for an artifact are at most the fsyncs of the file that now has its name
(`PassInv`, `VerityInv`). `SyncsReachTheirFiles` has that they are exactly those fsyncs
as long as nothing has raised, and that what is due for fs-verity has it or is still
eligible (`SyncInv`); that a batch is full and names no path twice is a fact about
`PlanBatch`, whose rotation and cuts keep the paths apart (`BatchFacts`).
`ReportsDamageOnly`: what is compared with a recipe is a file made by that recipe.

**`VmaRaceProofs`.** `LockInductive`: a run in its take-over has read a pid that is not
that of a holder, and nobody has become one since, because who wants to must make the
directory. The two ways in which the code lets a second run in all the same are recorded
in `contested`: another run makes the directory between this one's reading the old pid and
writing its own (`Window`), or this one reads it before its maker has written its pid. All
other acquisitions may overlap as they like. Every step of `VmaRace` is a step of `RunLock` or leaves it
alone (`ImplementsRunLock`), so `RaceExcludes` follows. `RunsKeptApart`: the command a run
is at, its files and its workload say how far its helper has come (`ReadyInv`), and while
an undisturbed run has the lock the filter, the switch and the pipe are as that helper left
them, since no other helper lives (`Directed`, `TraceInv`). `RunsCleanUp`: what a run still
has to kill is what it has noted (`Knows`, `ProcessInv`), and the tracing is on only while
some helper, alive or cut short before its trap, has switched it on (`HelperTraces`).

**`QemuInstanceProofs`.** `InstanceIsDescribed` and `CleanupNeverUnderQemu`, without
hypotheses: any number of commands, pid files and pids, and any of them overlapping. The
code keeps less than it should (section 4), so the properties say for which QEMUs: those
that are not `crossed` (`Clean`). What such a QEMU wrote is still there, or its directory is
gone while it has a pid file of its own (`Shown`); no start goes on beside it
(`Exclusive`); and a stop or cleanup reads its pid file, holds its pid and waits for it
before anything is removed, unless, again, the directory is gone (`Aims`).

**`ParallelPerfProofs`.** `RunWorkAccounted`: `RunWork` called for any number of jobs and
any limit, with processes that fail, block, die and are interrupted: each job is in
exactly one of the lists at every step of a pass (`PartsInv`), so at the end the result
says how all of them ended and none is left. `JobsAccounted` extends it to the whole
program: that the list of jobs is a finite sequence follows from the next theorem's
invariant.

`WorkIsDivided` (`WorkDivided`) is about the configuration, for all options, ranges and
samples of `InvocationAssumption`: the numbers are not negative, `perf script --time`
prints samples of the ranges it was given, and in the order of their times. `DivInv` says
of the lists of ranges at each step of `Config` that they divide the user's ranges
(`Divides`: the ranges of a list follow each other inside the user's, and where a gap
begins or ends, so does a range of the user), so that `RecombineTimeRanges` gives back
what was divided (`Recombined`) unless two of the user's ranges touch, every moment is in
a range (`NoneMissing`) and in one only (`NoneTwice`), and of the list of jobs where each
range has its place (`Placed`). A list from `--interval` or `--nr` is built range by range.
One from samples is first a chain of ranges from the first moment to the last (`Chain`),
which `IntersectTimeRanges` cuts to the user's: `LoopInv` says that the ranges before the
position divide what they cover and that the rest is still a chain, and its measure
(`Turns`) that the loop is over after the turns the model gives it. `SharesStayEven` (`SharesAreEven`): that loop only
cuts (`Finer`), between two cuts lie at most as many samples as their distance and one
(`FewBetweenCuts`), and the samples of a CPU are as many as the times that were divided
(`Counted`). The inductions over
lengths use a set instead of an operator (`Reaches`); the functions of `TimeRanges`
that the code computes in a loop are written as functions for that reason.

**`SqlFetcherProofs`.** `RecordsReachModel` (`FetchInv`), for every buffer, all record
sizes and queries. `RingInv` says where each unread row lies: there are places `pos` such
that row `u` is whole at `pos[u]` (`Kept`) and the rows make up stretches without a gap.
Either the writer is ahead of the reader (`SameLap`: one stretch from the reader to the
writer), or it has gone over the top (`SplitLap`: one stretch up to a closed top and one
from the bottom to the writer, which stays below the tail the process knows), or the reader
has followed it while the process still has the older tail (`NextLap`). That the tail the
process knows is never ahead of the published one, nor that of the reader, is what lets a
stale tail only cost space. `RowAdded`, `RowTaken`, `TailPublished` and `LayoutRefreshed`
say, of constants, what the four steps do to a layout; the strict comparison of `HasSpace`
is used in `SpaceBelow`. The other conjuncts follow the counts from the query to the bars:
`ProcessInv` (rows executed, stored, published), `ThreadInv` (announced), `CountsAddUp`
(announced, queued, taken), and `EndInv`: a 0 is the last signal, so that who receives it
has received everything. The sums of the queued counts need an induction, which is done
without the library's theorem, over the set of the numbers that have a sum (`Induction`,
`SumsExist`). The two exceptions are the history variables of section 4.

**Only model-checked.** Liveness, which is out of the prover's reach: `RunReturns`,
`RunPasses`, `RunEnds`, `CommandsEnd`, `FetchServed`, `ShutdownEndsUnlessFull`. What
computes with sequences by folds and recursion, which would need an induction for each
of them: patterns (`FilesJudged`), and all of `perf_scripts` and `perf_traces`. `SetupsUndone` of `host_tools`
combines several programs; its parts for the two-phase run and for the mount are theorems of
their modules.

## 6. Trusted, and left out

External and modelled from their use: the kernel's handling of `vm.dirty_*`, of mapped
pages and of mounts; the life of QEMU and the process table; what a file system may do to
a file (`Damage`, failing calls); perf, its order of events and its parser; processes,
pipes and signals; the database; Qt and the user.

Left out of the modelled programs: logs, evidence files and formats; the progress tracker
and the detection of stalls, which are about spans of time; the counting of kernel log
lines; load threads, which share nothing with the tests; ports derived from names (two
names with the same number get the same ports, `qemu_start_ubuntu.sh:101`); share modes;
drawing as such. A number that is only added up or printed is not kept.

## 7. Plan

Every invariant of a program with several actors is proved. What remains to be proved are
the reports of `perf_scripts` and `perf_traces`, one script at a time, and `FilesJudged`:
their folds and recursive operators have to become recursive functions first, whose values
`InTurn` and `TurnByTurn` show to exist.
