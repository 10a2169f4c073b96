----------------------------- MODULE AddressScripts -----------------------------
(***************************************************************************)
(* mem-phys-addr.py and net_dropmonitor.py: addresses of samples counted by the   *)
(* ranges of /proc/iomem, which nest, and by the symbols of /proc/kallsyms.       *)
(*                                                                         *)
(* The environment is the two files, where ranges of one indent do not overlap    *)
(* and a range lies in one of the indent before, and perf with its samples.      *)
(***************************************************************************)
EXTENDS Integers, Sequences, FiniteSetsExt, SequencesExt, TLC

CONSTANTS
  Addresses,           \* 0..n
  MaxRanges, MaxSymbols, MaxSamples

VARIABLE st

Indents == 0..2
-----------------------------------------------------------------------------
(* mem-phys-addr.py.  m: the ranges of each indent, the children of each range.   *)
Holds(entry, addr) == entry.begin <= addr /\ addr <= entry.end

\* bisect_right by begin, and the entry before that place: the last for place 0.
Preceding(entries, addr) ==
  LET position == Cardinality({k \in DOMAIN entries : entries[k].begin <= addr})
  IN  entries[IF position = 0 THEN Len(entries) ELSE position]

\* find_memory_type: {} or the one entry of the highest indent that has one.
FindMemoryType(m, addr) ==
  LET hits == {i \in Indents : i <= m.maxIndent /\ m.iomem[i] # <<>>
                               /\ Holds(Preceding(m.iomem[i], addr), addr)}
  IN  IF hits = {} THEN {} ELSE {Preceding(m.iomem[Max(hits)], addr)}

\* A line of parse_iomem; without a parent the assertion fails.
ParseLine(m, entry) ==
  LET n == [m EXCEPT !.maxIndent = Max({@, entry.indent})]
      parent == IF entry.indent > 0 THEN FindMemoryType(n, entry.begin) ELSE {}
  IN  IF entry.indent > 0 /\ parent = {} THEN [n EXCEPT !.failed = TRUE]
      ELSE [n EXCEPT !.iomem[entry.indent] = Append(@, entry),
              !.children = [p \in parent |-> {entry} \cup IF p \in DOMAIN @ THEN @[p] ELSE {}] @@ @]

CountOf(cnt, entry) == IF entry \in DOMAIN cnt THEN cnt[entry] ELSE 0
ProcessSample(m, cnt, addr) ==
  [e \in FindMemoryType(m, addr) |-> CountOf(cnt, e) + 1] @@ cnt

\* print_memory_type: the children of a range are added to it, from the highest
\* indent to the lowest.
WithChildren(m, cnt, entry) ==
  LET kids == IF entry \in DOMAIN m.children THEN m.children[entry] ELSE {}
  IN  (entry :> CountOf(cnt, entry) + MapThenSumSet(LAMBDA c : CountOf(cnt, c), kids)) @@ cnt
PrintMemoryType(m, cnt) ==
  FoldLeft(LAMBDA c, e : WithChildren(m, c, e), cnt,
           m.iomem[2] \o m.iomem[1] \o m.iomem[0])
-----------------------------------------------------------------------------
(* net_dropmonitor.py                                                        *)
\* get_sym: the search between start and end, -1 and the length at first; 0 when
\* there is no symbol before the location.
GetSym(kallsyms, loc) ==
  LET search[start \in Int, end \in Int] ==
        IF end = start + 1 THEN start + 1
        ELSE LET pivot == (start + end) \div 2
             IN  IF loc < kallsyms[pivot + 1].loc THEN search[start, pivot]
                 ELSE search[pivot, end]
  IN  search[-1, Len(kallsyms)]
KfreeSkb(log, location) ==
  (location :> IF location \in DOMAIN log THEN log[location] + 1 ELSE 1) @@ log
-----------------------------------------------------------------------------
Ranges == {e \in [begin : Addresses, end : Addresses, indent : Indents] : e.begin <= e.end}
Inside(e, p) == p.begin <= e.begin /\ e.end <= p.end
\* entry may be the next line of a file that nests.
MayFollow(lines, entry) ==
  /\ \A k \in DOMAIN lines :
       /\ lines[k].begin <= entry.begin
       /\ lines[k].indent >= entry.indent => lines[k].end < entry.begin
  /\ entry.indent > 0 => \E k \in DOMAIN lines :
       lines[k].indent = entry.indent - 1 /\ Inside(entry, lines[k])

\* The symbols are sorted by their location; several may have the same.
SymbolTables ==
  {t \in UNION {[1..n -> [loc : Addresses]] : n \in 0..MaxSymbols} :
     \A i \in 1..(Len(t) - 1) : t[i].loc <= t[i + 1].loc}

Init ==
  \/ st = [script |-> "mem", samples |-> <<>>, cnt |-> <<>>, over |-> FALSE, lines |-> <<>>,
           m |-> [iomem |-> [i \in Indents |-> <<>>], children |-> <<>>, maxIndent |-> 0,
                  failed |-> FALSE]]
  \/ \E t \in SymbolTables :
       st = [script |-> "drop", samples |-> <<>>, cnt |-> <<>>, over |-> FALSE, kallsyms |-> t]

\* trace_begin reads the file before the first sample.
Line(entry) ==
  /\ st.script = "mem" /\ st.samples = <<>> /\ ~st.over
  /\ Len(st.lines) < MaxRanges /\ MayFollow(st.lines, entry)
  /\ st' = [st EXCEPT !.lines = Append(@, entry), !.m = ParseLine(@, entry)]

Sample(addr) ==
  /\ Len(st.samples) < MaxSamples /\ ~st.over
  /\ st' = [st EXCEPT !.samples = Append(@, addr),
              !.cnt = IF st.script = "mem" THEN ProcessSample(st.m, @, addr) ELSE KfreeSkb(@, addr)]

TraceEnd ==
  /\ ~st.over
  /\ st' = [st EXCEPT !.over = TRUE,
              !.cnt = IF st.script = "mem" THEN PrintMemoryType(st.m, @) ELSE @]

Next ==
  \/ \E entry \in Ranges : Line(entry)
  \/ \E addr \in Addresses : Sample(addr)
  \/ TraceEnd
-----------------------------------------------------------------------------
TypeOK ==
  /\ Len(st.samples) \in 0..MaxSamples
  /\ \A e \in DOMAIN st.cnt : st.cnt[e] \in 0..MaxSamples

In(P(_)) == Cardinality({i \in DOMAIN st.samples : P(st.samples[i])})

\* A file that nests is read without a failed assertion; each range is printed with
\* the samples that lie in it, those of the ranges inside it included; and a dropped
\* packet is counted at the last symbol that does not come after it.
AddressesCounted ==
  IF st.script = "mem"
  THEN /\ ~st.m.failed
       /\ st.over => \A e \in Range(st.lines) :
            CountOf(st.cnt, e) = In(LAMBDA addr : Holds(e, addr))
  ELSE \A addr \in DOMAIN st.cnt :
         /\ st.cnt[addr] = In(LAMBDA a : a = addr)
         /\ GetSym(st.kallsyms, addr) =
              Max({0} \cup {i \in DOMAIN st.kallsyms : st.kallsyms[i].loc <= addr})
=============================================================================
