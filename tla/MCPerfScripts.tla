----------------------------- MODULE MCPerfScripts -----------------------------
(* The perf scripts that follow a machine in time or count its events, each on its   *)
(* own machine: a state is that of one script.                                  *)
EXTENDS Integers, Sequences

VARIABLES script, st

TaskOptions ==
  [summary |-> FALSE, only |-> FALSE, extended |-> FALSE, extendedTimes |-> FALSE,
   csv |-> FALSE, csvSummary |-> FALSE, limit |-> {}, filter |-> {}, time |-> <<>>,
   names |-> <<11, 12>>]
TaskOptionSets ==
  {TaskOptions, [TaskOptions EXCEPT !.extended = TRUE],
   [TaskOptions EXCEPT !.csvSummary = TRUE, !.extendedTimes = TRUE],
   [TaskOptions EXCEPT !.time = <<3, 7>>],
   [TaskOptions EXCEPT !.time = <<-1, 6>>, !.filter = {1}],
   [TaskOptions EXCEPT !.time = <<4, -1>>, !.limit = {12}],
   [TaskOptions EXCEPT !.summary = TRUE, !.time = <<1, 4>>],
   [TaskOptions EXCEPT !.csv = TRUE, !.only = TRUE],
   [TaskOptions EXCEPT !.limit = {1}, !.filter = {2}]}
TA == INSTANCE TaskAnalyzer WITH Cpus <- {0, 1}, Threads <- {1, 2},
        OptionSets <- TaskOptionSets, MaxSwitches <- 5, MaxLost <- 1

ND == INSTANCE NetdevTimes WITH Addrs <- {1, 2}, Irqs <- {1}, Budget <- 2,
        MaxEvents <- [tx |-> 8, rx |-> 10]

CompactionFilters ==
  {[kind |-> "none"], [kind |-> "comm", names |-> {"b"}],
   [kind |-> "pid", low |-> 2, high |-> 0], [kind |-> "pid", low |-> 0, high |-> 1]}
CT == INSTANCE CompactionTimes WITH Pids <- {1, 2}, Comms <- {"a", "b"},
        Filters <- CompactionFilters, MaxEvents <- 6

SM == INSTANCE SchedMigration WITH Cpus <- {0, 1}, Tasks <- {1, 2}, MaxEvents <- 4,
        MaxLost <- 1

CS == INSTANCE CallScripts WITH Actors <- {1, 2}, Locks <- {"a"}, Filters <- {{}, {1}},
        MaxEvents <- 5, MaxLost <- 2

AS == INSTANCE AddressScripts WITH Addresses <- 0..3, MaxRanges <- 4, MaxSymbols <- 3,
        MaxSamples <- 2

Init ==
  \/ script = "task" /\ TA!Init
  \/ script = "netdev" /\ ND!Init
  \/ script = "compaction" /\ CT!Init
  \/ script = "sched" /\ SM!Init
  \/ script = "call" /\ CS!Init
  \/ script = "address" /\ AS!Init

Next ==
  /\ script' = script
  /\ \/ script = "task" /\ TA!Next
     \/ script = "netdev" /\ ND!Next
     \/ script = "compaction" /\ CT!Next
     \/ script = "sched" /\ SM!Next
     \/ script = "call" /\ CS!Next
     \/ script = "address" /\ AS!Next

Spec == Init /\ [][Next]_<<script, st>>

\* task-analyzer.py: every line is a run of its task on its cpu, with the gaps to the
\* runs before it; and the summary is that of the runs the options let through.
TasksMeasured ==
  script = "task" =>
    TA!TypeOK /\ TA!TasksAreRuns /\ TA!GapsMeasured /\ TA!SummaryRight /\ TA!SummaryWritten

\* netdev-times.py: a reported transmission or reception is one that happened, with its
\* own times, although addresses are used again and interrupts come in between. Its end
\* is its own as well, unless the script cannot see that: a release before the
\* transmission is traced, or by consume_skb without a copy, leaves a record that a later
\* user of the address ends.
NetReportRight == script = "netdev" => ND!TypeOK /\ ND!TxReportRight /\ ND!RxReportRight

\* compaction-times.py: what is counted for a process is what it did between the begin
\* and the end of its compactions, if the filter lets it through.
CompactionsCounted == script = "compaction" => CT!TypeOK /\ CT!CompactionsCounted

\* sched-migration.py: every slice shows, to the end, the run queues as the scheduler had them
\* then, of the tasks whose events all came and but for preempted ones; its marks tell what
\* began it or renamed it later; and under Python 2 the slice found for a time is the one
\* that holds it, while under Python 3 the search raises and nothing is painted.
SlicesShown ==
  script = "sched" =>
    SM!TypeOK /\ SM!RunqueuesShown /\ SM!MarksTold /\ SM!SlicesFound

\* The scripts that count.  futex-contention.py, powerpc-hcalls.py and the counts of system
\* calls: every call seen to begin and end is counted with its time, whatever events are
\* missing; a time that is of no call is counted only where its exit is missing, and for a
\* hypervisor call a later entry as well.  The failures are those that were seen.
\* mem-phys-addr.py and net_dropmonitor.py: each range is printed with the samples that lie
\* in it, those of the ranges inside it included, and a dropped packet is counted at the last
\* symbol that does not come after it.
CountsRight ==
  /\ script = "call" => CS!TypeOK /\ CS!CallsTimed
  /\ script = "address" => AS!TypeOK /\ AS!AddressesCounted
=============================================================================
