------------------------------- MODULE EventTables -------------------------------
(***************************************************************************)
(* jevents.py: the json files of one architecture become C tables.  A first walk of   *)
(* the tree collects every string, compute lays them out in one big string in which    *)
(* a string may be the end of another, and a second walk writes a table for each       *)
(* model directory, whose entries are offsets.  The C code that is written with them    *)
(* decodes an entry from its offset and finds an event by binary search.               *)
(*                                                                         *)
(* Characters are numbers in the order of their codes.  The end of a string is the      *)
(* text \000 as long as the script works on it, which sorts by its backslash, and one    *)
(* zero byte when it is compiled.  Four attributes stand for all: two texts, an enum    *)
(* and the last one.  How an event is made from json, standard events, the choice of    *)
(* models, other architectures and the map file are left out; names of tables are paths.  *)
(***************************************************************************)
EXTENDS Integers, Sequences, FiniteSets, SequencesExt, TLC

CONSTANT Trees   \* of items [kind, name, items, events, groups] in the order of their names

VARIABLE st

Esc == 3        \* \000 in the text: after the digits and the capitals, before the small letters
Less(a, b) ==
  \/ IsStrictPrefix(a, b)
  \/ \E i \in 1..Len(a) : /\ i <= Len(b) /\ a[i] < b[i]
                          /\ SubSeq(a, 1, i - 1) = SubSeq(b, 1, i - 1)
Compiled(text) == [i \in DOMAIN text |-> IF text[i] = Esc THEN 0 ELSE text[i]]

\* An attribute that is missing is the empty text, and decoded as NULL.
BuildCString(e) == e.name \o <<Esc>> \o e.desc \o <<Esc, e.enum>> \o e.last \o <<Esc>>
PmuName(e) == Append(e.pmu, Esc)
-----------------------------------------------------------------------------
(* The walk                                                                  *)
\* Model directories have no directory but sys.
IsLeafDirIgnoringSys(item) ==
  \A i \in DOMAIN item.items : item.items[i].kind = "dir" => item.items[i].name = "sys"

RECURSIVE Ftw(_, _)
Ftw(items, parents) ==
  FlattenSeq([i \in DOMAIN items |->
    <<[parents |-> parents, item |-> items[i]]>>
      \o IF items[i].kind = "dir" THEN Ftw(items[i].items, Append(parents, items[i].name))
         ELSE <<>>])

\* A file at the top is no file of a model, and one too deep is left alone.
InModel(visit) == visit.item.kind # "dir" /\ Len(visit.parents) \in 1..4
-----------------------------------------------------------------------------
(* The big string                                                             *)
\* add: the strings in the order in which they were added; those of metrics come last.
Add(s, text, metric) ==
  IF text \in Range(s.order) THEN s
  ELSE [s EXCEPT !.order = Append(@, text), !.metrics = IF metric THEN @ \cup {text} ELSE @]
AddEvent(s, e) == Add(Add(s, PmuName(e), e.metric), BuildCString(e), e.metric)
AddGroup(s, g) == [Add(Add(s, g.name, TRUE), g.description, TRUE) EXCEPT !.groups = @ \cup {g}]

\* The string that s is the end of: of all, the last in the order of the reversed strings.
FoldedInto(strings, s) ==
  LET into == {t \in strings : IsSuffix(s, t)}
  IN  CHOOSE t \in into : \A u \in into : u = t \/ Less(Reverse(u), Reverse(t))
Emitted(s) ==
  LET strings == Range(s.order)
      whole == SelectSeq(s.order, LAMBDA t : FoldedInto(strings, t) = t)
  IN  SelectSeq(whole, LAMBDA t : t \notin s.metrics) \o SelectSeq(whole, LAMBDA t : t \in s.metrics)
OffsetOf(emitted, t) ==
  LET k == CHOOSE k \in DOMAIN emitted : emitted[k] = t
  IN  Len(FlattenSeq(SubSeq(emitted, 1, k - 1)))
Offsets(s, emitted) ==
  [t \in Range(s.order) |->
     LET into == FoldedInto(Range(s.order), t)
     IN  OffsetOf(emitted, into) + Len(into) - Len(t)]
-----------------------------------------------------------------------------
(* The tables                                                                *)
EventLess(a, b) ==
  IF a.pmu # b.pmu THEN Less(a.pmu, b.pmu)
  ELSE IF a.name # b.name THEN Less(a.name, b.name)
  ELSE a.desc = <<>> /\ b.desc # <<>>
MetricLess(a, b) ==
  IF (a.desc = <<>>) # (b.desc = <<>>) THEN a.desc = <<>>
  ELSE IF a.pmu # b.pmu THEN Less(a.pmu, b.pmu)
  ELSE Less(a.name, b.name)

\* The entries of a table by pmu, in the order of the pmus; a C array for each.
Table(s, name, sorted) ==
  LET pmus == SetToSortSeq({e.pmu : e \in Range(sorted)}, Less)
      row(e) == s.offsets[BuildCString(e)]
  IN  [name |-> name,
       pmus |-> [i \in DOMAIN pmus |->
                  LET own == SelectSeq(sorted, LAMBDA e : e.pmu = pmus[i])
                  IN  [pmu |-> s.offsets[PmuName(own[1])],
                       entries |-> [k \in DOMAIN own |-> row(own[k])]]]]
\* The array of a pmu is begun twice.
BegunTwice(sorted) ==
  \E i, k \in DOMAIN sorted : /\ i + 1 < k /\ sorted[i].pmu = sorted[k].pmu
                              /\ sorted[i].pmu # sorted[i + 1].pmu
Duplicate(sorted) ==
  \E i \in 1..Len(sorted) - 1 : /\ sorted[i].pmu = sorted[i + 1].pmu
                                /\ sorted[i].name = sorted[i + 1].name

\* print_pending_events and print_pending_metrics.
PrintPending(s) ==
  LET events == SortSeq(SelectSeq(s.pending, LAMBDA e : ~e.metric), EventLess)
      metrics == SortSeq(SelectSeq(s.pending, LAMBDA e : e.metric), MetricLess)
  IN  [s EXCEPT !.pending = <<>>,
         !.phase = IF Duplicate(events) THEN "raised" ELSE @,
         !.twice = @ \/ BegunTwice(metrics),
         !.events = IF events = <<>> THEN @ ELSE Append(@, Table(s, s.tblname, events)),
         !.metricTables = IF metrics = <<>> THEN @ ELSE Append(@, Table(s, s.tblname, metrics))]
-----------------------------------------------------------------------------
(* The C code                                                                *)
\* Offsets are from 0, positions from 1.
CString(big, at) ==
  LET end == CHOOSE i \in at + 1..Len(big) : big[i] = 0 /\ \A k \in at + 1..i - 1 : big[k] # 0
  IN  SubSeq(big, at + 1, end - 1)
DecompressEvent(big, at) ==
  LET name == CString(big, at)
      desc == CString(big, at + Len(name) + 1)
      next == at + Len(name) + 1 + Len(desc) + 1
  IN  [name |-> name, desc |-> desc, enum |-> big[next + 1], last |-> CString(big, next + 1)]

\* The entry with the name that binary search ends at, or <<>>; names are what strcmp and
\* strcasecmp compare, which end with the smallest character.
Search(names, name) ==
  LET search[w \in (1..Len(names) + 1) \X (0..Len(names))] ==
        LET mid == 1 + ((w[1] + w[2] - 2) \div 2)
        IN  IF w[1] > w[2] THEN <<>>
            ELSE IF Less(names[mid], name) THEN search[<<mid + 1, w[2]>>]
            ELSE IF Less(name, names[mid]) THEN search[<<w[1], mid - 1>>]
            ELSE <<mid>>
  IN  search[<<1, Len(names)>>]

\* pmu_events_table__find_event, for a pmu that matches the one name.
FindEvent(big, table, pmu, name) ==
  LET own == SelectSeq(table.pmus, LAMBDA p : CString(big, p.pmu) = pmu)
      found == [k \in DOMAIN own[1].entries |-> DecompressEvent(big, own[1].entries[k])]
      at == Search([k \in DOMAIN found |-> found[k].name], name)
  IN  IF own = <<>> THEN <<>> ELSE [i \in DOMAIN at |-> found[at[i]]]

\* The groups are sorted as texts; describe_metricgroup searches them as strings.
Metricgroups(s) ==
  LET sorted == SetToSortSeq(s.groups, LAMBDA g, h : Less(g.name, h.name))
  IN  [i \in DOMAIN sorted |-> <<s.offsets[sorted[i].name], s.offsets[sorted[i].description]>>]
DescribeMetricgroup(big, groups, name) ==
  LET at == Search([k \in DOMAIN groups |-> CString(big, groups[k][1])], name)
  IN  [i \in DOMAIN at |-> CString(big, groups[at[i]][2])]
-----------------------------------------------------------------------------
Init ==
  \E tree \in Trees :
    st = [phase |-> "collect", walk |-> Ftw(tree, <<>>), at |-> 1, order |-> <<>>,
          metrics |-> {}, groups |-> {}, big |-> <<>>, offsets |-> <<>>, pending |-> <<>>,
          tblname |-> <<>>, twice |-> FALSE, events |-> <<>>, metricTables |-> <<>>]

Visited(s) == [s EXCEPT !.at = @ + 1]
PreprocessOneFile ==
  /\ st.phase = "collect" /\ st.at <= Len(st.walk)
  /\ LET visit == st.walk[st.at]
     IN  st' = Visited(IF ~InModel(visit) THEN st
                       ELSE FoldLeft(AddEvent, FoldLeft(AddGroup, st, visit.item.groups),
                                     visit.item.events))
Compute ==
  /\ st.phase = "collect" /\ st.at > Len(st.walk)
  /\ \E emitted \in {Emitted(st)} :
       st' = [st EXCEPT !.phase = "print", !.at = 1, !.offsets = Offsets(st, emitted),
                !.big = Compiled(FlattenSeq(emitted))]

ProcessOneFile ==
  /\ st.phase = "print" /\ st.at <= Len(st.walk)
  /\ LET visit == st.walk[st.at]
         item == visit.item
     IN  st' = Visited(
           CASE item.kind = "dir" /\ IsLeafDirIgnoringSys(item) ->
                  [PrintPending(st) EXCEPT !.tblname = Append(visit.parents, item.name)]
             [] InModel(visit) -> [st EXCEPT !.pending = @ \o item.events]
             [] OTHER -> st)
Finish ==
  /\ st.phase = "print" /\ st.at > Len(st.walk)
  /\ LET s == PrintPending(st)
     IN  st' = [s EXCEPT !.phase = IF @ = "raised" THEN @ ELSE "done"]

Next == PreprocessOneFile \/ Compute \/ ProcessOneFile \/ Finish
-----------------------------------------------------------------------------
(* Properties                                                                *)
TypeOK ==
  /\ st.phase \in {"collect", "print", "done", "raised"} /\ st.at \in 1..Len(st.walk) + 1
  /\ DOMAIN st.offsets \subseteq Range(st.order)
  /\ \A t \in DOMAIN st.offsets : st.offsets[t] \in 0..Len(st.big) - 1

\* The events of a model directory: those of its files, but for the ones after sys, which
\* the walk comes to when the table is that of sys.
FilesOf(path) ==
  {i \in DOMAIN st.walk :
     /\ InModel(st.walk[i]) /\ st.walk[i].parents = path
     /\ ~\E k \in 1..i - 1 : st.walk[k].parents = path /\ st.walk[k].item.kind = "dir"}
Own(path) == UNION {Range(st.walk[i].item.events) : i \in FilesOf(path)}
Late == \E i \in DOMAIN st.walk : InModel(st.walk[i]) /\ i \notin FilesOf(st.walk[i].parents)

TableOf(tables, path) == SelectSeq(tables, LAMBDA t : t.name = path)
Fields(e) == [name |-> e.name, desc |-> e.desc, enum |-> e.enum, last |-> e.last]

\* Every event of a model directory is found by its pmu and name in the one table of the
\* directory, with all it says; its metrics are the entries of the other table, unless some
\* of them have a description and others none, when the arrays of a pmu may be begun twice;
\* a build is refused only for an event that is there twice; and a group of metrics whose
\* name begins no other's, and is begun by no other's, is found with its description.
TablesRight ==
  /\ st.phase = "done" =>
       \A path \in {st.walk[i].parents : i \in {i \in DOMAIN st.walk : InModel(st.walk[i])}} :
         LET events == {e \in Own(path) : ~e.metric}
             metrics == {e \in Own(path) : e.metric}
             table == TableOf(st.events, path)
             other == TableOf(st.metricTables, path)
             mixed == \E e, f \in metrics : e.desc = <<>> /\ f.desc # <<>>
         IN  /\ events # {} =>
                  /\ Len(table) = 1
                  /\ \A e \in events :
                       FindEvent(st.big, table[1], e.pmu, e.name) = <<Fields(e)>>
             /\ metrics # {} /\ ~st.twice =>
                  /\ Len(other) = 1
                  /\ \A e \in metrics :
                       \E p \in Range(other[1].pmus) :
                         /\ CString(st.big, p.pmu) = e.pmu
                         /\ Fields(e) \in {DecompressEvent(st.big, at) : at \in Range(p.entries)}
  /\ st.twice => \E e, f \in UNION {Range(v.item.events) : v \in Range(st.walk)} :
                   e.metric /\ f.metric /\ e.desc = <<>> /\ f.desc # <<>>
  /\ st.phase = "raised" /\ ~Late =>
       \E i, k \in DOMAIN st.walk :
         /\ st.walk[i].parents = st.walk[k].parents
         /\ \E m \in DOMAIN st.walk[i].item.events, n \in DOMAIN st.walk[k].item.events :
              LET e == st.walk[i].item.events[m]
                  f == st.walk[k].item.events[n]
              IN  <<i, m>> # <<k, n>> /\ ~e.metric /\ ~f.metric /\ e.pmu = f.pmu /\ e.name = f.name
  /\ st.phase = "done" =>
       ((\A g, h \in st.groups : g = h \/ ~IsPrefix(Front(g.name), Front(h.name))) =>
          \A g \in st.groups :
            DescribeMetricgroup(st.big, Metricgroups(st), Front(g.name))
              = <<Front(g.description)>>)
=============================================================================
