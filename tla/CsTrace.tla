-------------------------------- MODULE CsTrace --------------------------------
(***************************************************************************)
(* arm-cs-trace-disasm.py: from the branches of a CoreSight trace, the ranges of  *)
(* instructions that each cpu executed, and their disassembly.                  *)
(*                                                                         *)
(* The environment is a machine whose cpus run code of a library, at an address    *)
(* of its own in each process, and code without a file; a trace stops and goes on.  *)
(* An instruction has length 1, and address 0 is none.                         *)
(***************************************************************************)
EXTENDS Integers, Sequences, FiniteSetsExt, SequencesExt, TLC

CONSTANTS
  Cpus,                \* each runs a process of its own
  Bases, Size, Jit,    \* where the library may be, its size, the other code
  Windows,             \* options [startTime, stopTime, startSample, stopSample]
  CacheSize, MaxEvents

VARIABLE st

-----------------------------------------------------------------------------
(* The script.  0 stands for an option that is not given, as it does there.      *)
Slot(cpu) == cpu

\* read_disam: the cache is by address and file, the lines of objdump by the place
\* in the file.  The cache and what is shown.
CacheKey(start, stop) == <<start, stop>>
ReadDisam(cache, dsoStart, start, stop) ==
  LET kept == IF Cardinality(DOMAIN cache) > CacheSize THEN <<>> ELSE cache
      key == CacheKey(start, stop)
  IN  IF key \in DOMAIN kept THEN [cache |-> kept, shown |-> kept[key]]
      ELSE LET lines == <<start - dsoStart, stop - dsoStart>>
           IN  [cache |-> (key :> lines) @@ kept, shown |-> lines]

\* The part of process_event for a branch: the range from the target of the last
\* branch of the cpu to the instruction of this one, if both are in the file.
BranchRange(s, sample) ==
  LET start == s.cpuData[Slot(sample.cpu)]
      stop == sample.ip + 1
      t == [s EXCEPT !.cpuData[Slot(sample.cpu)] = sample.addr]
      inFile(a) == sample.dsoStart <= a /\ a <= sample.dsoEnd
  IN  IF start = 0 \/ ~inFile(start) \/ ~inFile(stop) THEN t
      ELSE LET read == ReadDisam(t.cache, sample.dsoStart, start, stop)
           IN  [t EXCEPT !.cache = read.cache,
                  !.out = Append(@, [cpu |-> sample.cpu, index |-> s.index, time |-> sample.time,
                                     start |-> start, stop |-> stop, shown |-> read.shown])]

\* The tests of the window, in their order.
Window(w, time, index) ==
  CASE w.startTime # 0 /\ time < w.startTime -> "skip"
    [] w.stopTime # 0 /\ time > w.stopTime -> "exit"
    [] w.startSample # 0 /\ index < w.startSample -> "skip"
    [] w.stopSample # 0 /\ index > w.stopSample -> "exit"
    [] OTHER -> "in"

\* process_event: the first event of a cpu only leaves its target, and one without
\* a file leaves nothing.
ProcessEvent(s, sample) ==
  LET t == [s EXCEPT !.index = @ + 1]
      window == Window(s.window, sample.time, t.index)
  IN  IF window = "exit" THEN [t EXCEPT !.exited = TRUE]
      ELSE IF window = "skip" THEN t
      ELSE IF Slot(sample.cpu) \notin DOMAIN t.cpuData
      THEN [t EXCEPT !.cpuData = (Slot(sample.cpu) :> sample.addr) @@ @]
      ELSE IF ~sample.known \/ sample.name # "branches" THEN t
      ELSE BranchRange(t, sample)
-----------------------------------------------------------------------------
(* The machine.  pos: where a cpu goes on since its last branch, 0 while the        *)
(* trace is off; ran: the ranges executed without a branch.                     *)
Library(cpu) == st.base[cpu]..(st.base[cpu] + Size - 1)
Code(cpu) == Library(cpu) \cup Jit
\* Addresses executed from pos up to ip.
Upto(cpu, ip) ==
  IF st.pos[cpu] \in Jit THEN ip \in Jit /\ ip >= st.pos[cpu]
  ELSE ip \in Library(cpu) /\ ip >= st.pos[cpu]

Init ==
  \E base \in [Cpus -> Bases], window \in Windows :
    /\ base[CHOOSE c \in Cpus : TRUE] = CHOOSE b \in Bases : TRUE   \* the others may differ
    /\ st = [base |-> base, clock |-> 0, pos |-> [c \in Cpus |-> base[c]], ran |-> {},
             script |-> [window |-> window, index |-> -1, cpuData |-> <<>>, cache |-> <<>>,
                         out |-> <<>>, exited |-> FALSE]]

Event(k, cpu, name, ip, addr) ==
  /\ st.clock < MaxEvents /\ ~st.script.exited
  /\ st' = [k EXCEPT !.clock = @ + 1,
              !.script = ProcessEvent(@, [cpu |-> cpu, name |-> name, ip |-> ip, addr |-> addr,
                           time |-> st.clock + 1, known |-> ip \in Library(cpu),
                           dsoStart |-> st.base[cpu], dsoEnd |-> st.base[cpu] + Size])]

Branch(cpu, ip, target) ==
  /\ st.pos[cpu] # 0 /\ Upto(cpu, ip) /\ target \in Code(cpu)
  /\ Event([st EXCEPT !.pos[cpu] = target, !.ran = @ \cup {<<cpu, st.pos[cpu], ip + 1>>}],
           cpu, "branches", ip, target)

TraceOff(cpu, ip) ==
  /\ st.pos[cpu] # 0 /\ Upto(cpu, ip)
  /\ Event([st EXCEPT !.pos[cpu] = 0, !.ran = @ \cup {<<cpu, st.pos[cpu], ip + 1>>}],
           cpu, "branches", ip, 0)

\* The first sample after a gap has no instruction that it comes from.
TraceOn(cpu, target) ==
  /\ st.pos[cpu] = 0 /\ target \in Code(cpu)
  /\ Event([st EXCEPT !.pos[cpu] = target], cpu, "branches", 0, target)

Instruction(cpu, ip) ==
  /\ st.pos[cpu] # 0 /\ ip = st.pos[cpu]
  /\ Event(st, cpu, "instructions", ip, 0)

Next ==
  \E cpu \in Cpus : \E ip \in Code(cpu) :
    \/ \E target \in Code(cpu) : Branch(cpu, ip, target)
    \/ TraceOff(cpu, ip)
    \/ TraceOn(cpu, ip)
    \/ Instruction(cpu, ip)
-----------------------------------------------------------------------------
TypeOK ==
  /\ \A c \in Cpus : st.pos[c] \in {0} \cup Code(c)
  /\ Cardinality(DOMAIN st.script.cache) <= CacheSize + 1

\* A range that is shown was executed on its cpu without a branch, whatever other
\* cpus do, and through code without a file and gaps of the trace; it is of a sample
\* in the window that was asked for; and when all processes have the library at the
\* same address, its disassembly is that of the range.
RangesExecuted ==
  LET s == st.script
  IN  \A i \in DOMAIN s.out :
        LET o == s.out[i]
        IN  /\ <<o.cpu, o.start, o.stop>> \in st.ran
            /\ Window(s.window, o.time, o.index) = "in"
            /\ (\A c, d \in Cpus : st.base[c] = st.base[d]) =>
                 o.shown = <<o.start - st.base[o.cpu], o.stop - st.base[o.cpu]>>
=============================================================================
