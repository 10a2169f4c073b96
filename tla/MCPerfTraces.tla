----------------------------- MODULE MCPerfTraces -----------------------------
(* What is shown of a decoded or an exported trace, and the tables beside it, each  *)
(* program on its own trace: a state is that of one program.                   *)
EXTENDS Integers, Sequences

VARIABLES script, st

IP == INSTANCE IntelPtEvents WITH Cpus <- {0, 1}, Sources <- {"f:1", "none"},
        Dsos <- {"d"}, Interleaves <- {0, 2}, MaxEvents <- [i \in {0, 2} |-> 4]

StackThreads ==
  {[tid |-> 0, pid |-> 0, comm |-> "c"], [tid |-> 2, pid |-> 1, comm |-> "c"]}
StackFrames ==
  {[name |-> "f", kernel |-> FALSE], [name |-> "f", kernel |-> TRUE],
   [name |-> "", kernel |-> FALSE]}
SS == INSTANCE StackScripts WITH Threads <- StackThreads, Frames <- StackFrames,
        MaxDepth <- 3, MaxSamples <- 2

ArmWindows ==
  {[startTime |-> 0, stopTime |-> 0, startSample |-> 0, stopSample |-> 0],
   [startTime |-> 2, stopTime |-> 3, startSample |-> 1, stopSample |-> 2]}
AT == INSTANCE CsTrace WITH Cpus <- {0, 1}, Bases <- {2, 3}, Size <- 2, Jit <- {7},
        CacheSize <- 1, MaxEvents <- 5, Windows <- ArmWindows

\* Long traces with a look at the tree, and short ones with a window in use.
TreeBounds ==
  {[calls |-> <<3, 0>>, steps |-> 2], [calls |-> <<1, 1>>, steps |-> 2],
   [calls |-> <<2, 0>>, steps |-> 3]}
CT == INSTANCE CallTrees WITH Threads <- {1, 2}, Comms <- {1, 2}, Symbols <- {"f", "g"},
        Values <- {"f", "*"}, Cost <- [s \in {"f", "g"} |-> IF s = "f" THEN 1 ELSE 0],
        Bounds <- TreeBounds

SG == INSTANCE SwitchGraph WITH Cpus <- {0, 1}, Tasks <- {1, 2}, Width <- 4, Gaps <- {1, 2},
        Bounds <- {[events |-> 3, steps |-> 2], [events |-> 1, steps |-> 4]}

\* What may be typed as an end of a time range, and as a list of cpus.
Ends == {[kind |-> "empty", value |-> 0]} \cup [kind : {"time"}, value : 1..4]
        \cup [kind : {"relative"}, value : {-1, 1}]
CpuInputs ==
  {[ranges |-> <<>>, singles |-> {}], [ranges |-> <<<<0, 1>>>>, singles |-> {}],
   [ranges |-> <<>>, singles |-> {1}], [ranges |-> <<<<1, 1>>>>, singles |-> {0}]}
OneRange == [times : {<<>>} \cup {<<p>> : p \in Ends \X Ends}, cpus : CpuInputs]
TwoRanges ==
  [times : {<<<<[kind |-> "time", value |-> 1], e>>, <<f, [kind |-> "empty", value |-> 0]>>>> :
              e \in Ends, f \in Ends},
   cpus : {[ranges |-> <<>>, singles |-> {}], [ranges |-> <<<<1, 1>>>>, singles |-> {0}]}]
ReportCases ==
  {[samples |-> {2, 3}, times |-> 1..3, inputs |-> OneRange \cup TwoRanges, steps |-> 0],
   [samples |-> {3}, times |-> {1}, inputs |-> [times : {<<>>}, cpus : CpuInputs], steps |-> 3]}
RW == INSTANCE ReportWindow WITH Cpus <- {0, 1}, Slacks <- {0, 1}, Chunk <- 1, Margin <- 1,
        Cases <- ReportCases

DB == INSTANCE DbExport WITH Threads <- {1, 2}, Frequencies <- {1200, 1700}, MaxEvents <- 2

\* Texts of two and of three operands, with brackets on either side, choices and functions.
Leaf(op, name, n) == [op |-> op, name |-> name, n |-> n, kids |-> <<>>]
S(s) == Leaf("symbol", s, 0)
Leaves == {Leaf("event", "a", 0), Leaf("event", "slots", 0)} \cup {Leaf("constant", "", n) : n \in 0..2}
Signs == {"+", "-", "*"}
Bracketed(text) == <<S("(")>> \o text \o <<S(")")>>
Flat == {<<x, S(o), y>> : x \in Leaves, y \in Leaves, o \in Signs \cup {"<", ">", "%"}}
Chains == {<<x, S(o), y, S(p), z>> :
             x \in Leaves, y \in Leaves, z \in Leaves, o \in Signs \cup {"%"},
             p \in Signs \cup {"<", "%"}}
Parts ==
  {Bracketed(text) : text \in Flat}
  \cup {Bracketed(<<x, S("if"), y, S("else"), z>>) : x \in Leaves, y \in Leaves, z \in Leaves}
  \cup {<<S(f), S("("), x, S(","), y, S(")")>> : f \in {"min", "d_ratio"}, x \in Leaves, y \in Leaves}
Difference == Bracketed(<<Leaf("event", "a", 0), S("-"), Leaf("event", "slots", 0)>>)
MetricTexts ==
  Flat \cup Chains \cup {p \o <<S(o), x>> : p \in Parts, o \in Signs, x \in Leaves}
  \cup {<<x, S(o)>> \o p : p \in Parts, o \in Signs, x \in Leaves}
  \cup {p \o <<S(o)>> \o Difference : p \in Parts, o \in Signs}

\* Three metrics that may stand for one another, and so in a circle.
Branch(op, l, r) == [op |-> op, name |-> "", n |-> 0, kids |-> <<l, r>>]
A == Leaf("event", "a", 0)
B == Leaf("event", "b", 0)
Sum == Branch("+", A, B)
Product == Branch("*", Sum, A)
First == {A, Sum, Product, Branch("+", Product, Sum)}
Other == First \cup {Branch("min", Sum, B), Branch("min", Product, Product),
                     Branch("-", Leaf("event", "m1", 0), Sum), Leaf("event", "m1", 0)}
MetricLists ==
  {<<[name |-> "m1", expr |-> x], [name |-> "m2", expr |-> y], [name |-> "m3", expr |-> z]>> :
     x \in First, y \in Other, z \in Other}
\* Files of events and metrics with names that are ends of each other, descriptions or none;
\* directories with a directory sys before some of the files; and groups of metrics.
Names == {<<4>>, <<2, 4>>}
AllEvents ==
  [pmu : {<<4>>, <<2>>}, name : Names \cup {<<4, 4>>}, desc : {<<>>, <<4>>}, enum : {1},
   last : {<<>>, <<4>>}, metric : BOOLEAN]
Events == {e \in AllEvents : (e.last = <<>>) = (e.pmu = <<4>>)}
FewEvents == {e \in Events : e.name \in Names}
Item(kind, name, items, events, groups) ==
  [kind |-> kind, name |-> name, items |-> items, events |-> events, groups |-> groups]
File(events) == Item("file", "f", <<>>, events, <<>>)
Dir(name, items) == Item("dir", name, items, <<>>, <<>>)
Model(file) == <<Dir("m1", <<file>>)>>
Group(name, description) == [name |-> Append(name, 3), description |-> Append(description, 3)]
GroupNames == {<<4>>, <<4, 2>>, <<4, 4>>, <<2>>, <<2, 4>>}
GroupFiles ==
  {Item("groups", "g", <<>>, <<>>, <<Group(a, <<4>>), Group(b, <<2>>), Group(c, d)>>) :
     a \in GroupNames, b \in GroupNames, c \in GroupNames, d \in {<<2, 4>>, <<>>}}
EventTrees ==
  {Model(File(q)) : q \in [1..3 -> {e \in Events : ~e.metric}] \cup [1..2 -> {e \in Events : e.metric}]}
  \cup {<<Dir("m1", <<File(<<a>>), Dir("sys", <<File(<<b>>)>>), File(<<c>>)>>)>> :
          a \in FewEvents, b \in FewEvents, c \in FewEvents}
  \cup {<<File(<<a>>), Dir("m0", <<File(<<a>>)>>), Dir("v", <<Dir("m1", <<File(<<b>>), File(<<c>>)>>)>>)>> :
          a \in FewEvents, b \in FewEvents, c \in FewEvents}
  \cup {Model(f) : f \in {f \in GroupFiles : \A i, k \in 1..3 : f.groups[i].name = f.groups[k].name => i = k}}
ET == INSTANCE EventTables WITH Trees <- EventTrees

MT == INSTANCE MetricText WITH Names <- {"a", "slots"}, Values <- 0..2, Texts <- MetricTexts,
        Metrics <- MetricLists

Init ==
  \/ script = "intel" /\ IP!Init
  \/ script = "stack" /\ SS!Init
  \/ script = "arm" /\ AT!Init
  \/ script = "tree" /\ CT!Init
  \/ script = "graph" /\ SG!Init
  \/ script = "report" /\ RW!Init
  \/ script = "export" /\ DB!Init
  \/ script = "metric" /\ MT!Init
  \/ script = "tables" /\ ET!Init

Next ==
  /\ script' = script
  /\ \/ script = "intel" /\ IP!Next
     \/ script = "stack" /\ SS!Next
     \/ script = "arm" /\ AT!Next
     \/ script = "tree" /\ CT!Next
     \/ script = "graph" /\ SG!Next
     \/ script = "report" /\ RW!Next
     \/ script = "export" /\ DB!Next
     \/ script = "metric" /\ MT!Next
     \/ script = "tables" /\ ET!Next

Spec == Init /\ [][Next]_<<script, st>>

\* The decoded traces.  intel-pt-events.py: the lines of each cpu come out in their order and
\* none is lost, also interleaved, and a line that leaves out its source is read as the line it
\* is of.  arm-cs-trace-disasm.py: a range that is printed was executed, by that cpu and in that
\* code.
DecodedShown ==
  /\ script = "intel" => IP!TypeOK /\ IP!OutputInOrder /\ IP!SourceReadable
  /\ script = "arm" => AT!TypeOK /\ AT!RangesExecuted

\* flamegraph.py, stackcollapse.py and gecko.py: each sample is found again, by the tables or
\* the tree, as the stack it was taken with, and as often as it was.
SamplesShown == script = "stack" => SS!TypeOK /\ SS!SamplesShown

\* exported-sql-viewer.py, call graphs and call trees: an item's children are the calls its
\* query stands for, with their sums; and the jump of a chart to a call finds the call.
CallsShown == script = "tree" => CT!TypeOK /\ CT!ItemsRight /\ CT!JumpRight

\* exported-sql-viewer.py, the find bars: going on with Next shows every match, each once
\* before the first comes again, in trees and in tables.
FindGoesRound ==
  /\ script = "tree" => CT!FindGoesRound
  /\ script = "report" => RW!SearchGoesRound

\* exported-sql-viewer.py, the chart of context switches: its points are the switches, what is
\* painted at a pixel is what the mouse reads there, and Back and Forward show what was shown.
ChartRight == script = "graph" => SG!TypeOK /\ SG!PointsRight /\ SG!PaintedIsRead /\ SG!HistoryKept

\* exported-sql-viewer.py, selected branches: the rows shown are the first of those that the
\* inputs of the dialog describe, and the bar that fetches more is busy only while it waits.
ReportShown == script = "report" => RW!TypeOK /\ RW!RowsAsked /\ RW!BarNotStuck

\* export-to-postgresql.py and export-to-sqlite.py: what is exported is what was traced, and
\* whatever a row refers to is there.
ExportComplete == script = "export" => DB!TypeOK /\ DB!ExportComplete

\* The tables of events.  metric.py: what is written for perf's parser computes what the json
\* file says, and a metric rewritten in terms of others still stands for the same.  jevents.py:
\* each event is found by its name in the one table of its model, with all it says.
PmuEventsKept ==
  /\ script = "metric" => MT!TypeOK /\ MT!MetricsKept
  /\ script = "tables" => ET!TypeOK /\ ET!TablesRight
=============================================================================
