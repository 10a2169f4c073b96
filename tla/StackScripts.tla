------------------------------ MODULE StackScripts ------------------------------
(***************************************************************************)
(* What flamegraph.py, stackcollapse.py and gecko.py make of samples with call   *)
(* chains: a tree of nodes, a count for each distinct stack, and for each thread  *)
(* tables of strings, frames and stacks that refer to one another.               *)
(*                                                                         *)
(* The environment is perf, which calls each script with each sample.  A frame    *)
(* of a chain, leaf first, has a name or "" where no symbol was found.  Names     *)
(* are values: changing their characters, and the file written, are left out.    *)
(***************************************************************************)
EXTENDS Integers, Sequences, FiniteSetsExt, SequencesExt, TLC

CONSTANTS
  Threads,      \* records [tid, pid, comm]
  Frames,       \* records [name, kernel]
  MaxDepth, MaxSamples

VARIABLE st

Named(frame) == IF frame.name = "" THEN "[unknown]" ELSE frame.name
-----------------------------------------------------------------------------
(* flamegraph.py.  Nodes are places in a sequence, the root is the first.       *)
Node(name, libtype) == [name |-> name, libtype |-> libtype, value |-> 0, children |-> <<>>]

\* find_or_create_node, by name only: the nodes and the place of the one found.
FindOrCreateNode_Anywhere(nodes, at, name, libtype) ==
  LET same == {n \in DOMAIN nodes : nodes[n].name = name}
  IN  IF same # {} THEN [nodes |-> nodes, at |-> Min(same)]
      ELSE [nodes |-> Append([nodes EXCEPT ![at].children = Append(@, Len(nodes) + 1)],
                             Node(name, libtype)),
            at |-> Len(nodes) + 1]
FindOrCreateNode(nodes, at, name, libtype) ==
  LET same == {n \in Range(nodes[at].children) : nodes[n].name = name}
  IN  IF same # {} THEN [nodes |-> nodes, at |-> CHOOSE n \in same : TRUE]
      ELSE [nodes |-> Append([nodes EXCEPT ![at].children = Append(@, Len(nodes) + 1)],
                             Node(name, libtype)),
            at |-> Len(nodes) + 1]

\* FlameGraphCLI.process_event; the idle task is pid 0.
FlamePath(thread, chain) ==
  <<IF thread.pid = 0 THEN [name |-> <<thread.comm>>, libtype |-> "kernel"]
    ELSE [name |-> <<thread.comm, thread.pid>>, libtype |-> ""]>>
  \o [i \in DOMAIN chain |->
        LET frame == chain[Len(chain) + 1 - i]
        IN  [name |-> <<Named(frame)>>, libtype |-> IF frame.kernel THEN "kernel" ELSE ""]]
FlameProcess(nodes, thread, chain) ==
  LET end == FoldLeft(LAMBDA w, step : FindOrCreateNode(w.nodes, w.at, step.name, step.libtype),
                      [nodes |-> nodes, at |-> 1], FlamePath(thread, chain))
  IN  [end.nodes EXCEPT ![end.at].value = @ + 1]
-----------------------------------------------------------------------------
(* stackcollapse.py, with the options that decide which stacks are one            *)
TidyFunctionName(frame, opts) ==
  IF opts.kernel /\ frame.kernel THEN <<Named(frame), "_[k]">> ELSE <<Named(frame)>>
CollapseKey(thread, chain, opts) ==
  (IF ~opts.comm THEN <<>>
   ELSE <<<<thread.comm>> \o (IF opts.pid THEN <<thread.pid>> ELSE <<>>)
                          \o (IF opts.tid THEN <<thread.tid>> ELSE <<>>)>>)
  \o Reverse([i \in DOMAIN chain |-> TidyFunctionName(chain[i], opts)])
CollapseProcess(lines, thread, chain, opts) ==
  LET key == CollapseKey(thread, chain, opts)
  IN  IF key \in DOMAIN lines THEN [lines EXCEPT ![key] = @ + 1] ELSE (key :> 1) @@ lines
-----------------------------------------------------------------------------
(* gecko.py.  A table is a sequence; its map finds the place of an entry.        *)
NewThread(thread) ==
  [comm |-> thread.comm, samples |-> <<>>, stringTable |-> <<>>, frameTable |-> <<>>,
   stackTable |-> <<>>, frameMap |-> <<>>, stackMap |-> <<>>]

\* _intern_frame with _intern_string.
InternFrame(t, frame) ==
  IF frame \in DOMAIN t.frameMap THEN t
  ELSE LET known == frame \in Range(t.stringTable)
           strings == IF known THEN t.stringTable ELSE Append(t.stringTable, frame)
       IN  [t EXCEPT !.stringTable = strings,
                     !.frameMap = (frame :> Len(t.frameTable) + 1) @@ @,
                     !.frameTable = Append(@, [string |-> CHOOSE i \in DOMAIN strings : strings[i] = frame,
                                               category |-> IF frame.kernel THEN 1 ELSE 0])]
\* _intern_stack: a stack is a frame and the stack before it, 0 for none.
Interned(t, key, stack) ==
  IF key \in DOMAIN t.stackMap THEN t
  ELSE [t EXCEPT !.stackMap = (key :> Len(t.stackTable) + 1) @@ @,
                 !.stackTable = Append(@, stack)]
StackKey(frame, prefix) == <<frame, prefix>>
InternStack(t, frame, prefix) ==
  Interned(t, StackKey(frame, prefix), [prefix |-> prefix, frame |-> frame])

\* _add_sample: the name is that of the last sample; an empty stack adds none.
AddSample(t, comm, stack) ==
  LET end == FoldLeft(LAMBDA w, frame :
                        LET u == InternFrame(w.t, frame)
                            v == InternStack(u, u.frameMap[frame], w.prefix)
                        IN  [t |-> v, prefix |-> v.stackMap[StackKey(u.frameMap[frame], w.prefix)]],
                      [t |-> t, prefix |-> 0], stack)
  IN  [end.t EXCEPT !.comm = comm,
                    !.samples = IF end.prefix = 0 THEN @ ELSE Append(@, end.prefix)]

\* process_event: frames of the chain without a symbol are left out, but the one
\* function of a sample without a chain (fewer than two frames here) is kept.
GeckoStack(chain) ==
  IF Len(chain) = 1 THEN <<[chain[1] EXCEPT !.name = Named(chain[1])]>>
  ELSE Reverse(SelectSeq(chain, LAMBDA frame : frame.name # ""))
GeckoProcess(threads, thread, chain) ==
  LET t == IF thread.tid \in DOMAIN threads THEN threads[thread.tid] ELSE NewThread(thread)
  IN  (thread.tid :> AddSample(t, thread.comm, GeckoStack(chain))) @@ threads
-----------------------------------------------------------------------------
Options ==
  {[comm |-> FALSE, pid |-> FALSE, tid |-> FALSE, kernel |-> TRUE],
   [comm |-> TRUE, pid |-> TRUE, tid |-> FALSE, kernel |-> FALSE],
   [comm |-> TRUE, pid |-> TRUE, tid |-> TRUE, kernel |-> TRUE]}

Init ==
  \E opts \in Options :
    st = [samples |-> <<>>, opts |-> opts, flame |-> <<Node(<<"all">>, "root")>>,
          lines |-> <<>>, gecko |-> <<>>]

\* A chain of one frame stands for a sample recorded without call chains.
Sample(thread, chain) ==
  /\ Len(st.samples) < MaxSamples
  /\ st' = [st EXCEPT !.samples = Append(@, [thread |-> thread, chain |-> chain]),
              !.flame = FlameProcess(@, thread, chain),
              !.lines = CollapseProcess(@, thread, chain, st.opts),
              !.gecko = GeckoProcess(@, thread, chain)]

Next ==
  \E thread \in Threads, depth \in 1..MaxDepth : \E chain \in [1..depth -> Frames] :
    Sample(thread, chain)
-----------------------------------------------------------------------------
TypeOK ==
  /\ \A n \in DOMAIN st.flame : Range(st.flame[n].children) \subseteq (n + 1)..Len(st.flame)
  /\ \A tid \in DOMAIN st.gecko :
       LET t == st.gecko[tid]
       IN  /\ Range(t.samples) \subseteq DOMAIN t.stackTable
           /\ \A i \in DOMAIN t.stackTable :
                t.stackTable[i].prefix \in 0..(i - 1) /\ t.stackTable[i].frame \in DOMAIN t.frameTable

\* Samples of which P holds.
Count(P(_)) == Cardinality({i \in DOMAIN st.samples : P(st.samples[i])})

\* In the flame graph, each sample is the value of the node that its names lead to,
\* and names lead to one node.
FlameShowsSamples ==
  LET Names(q) == [i \in 1..(Len(q.chain) + 1) |-> FlamePath(q.thread, q.chain)[i].name]
      Parent(n) == CHOOSE m \in DOMAIN st.flame : n \in Range(st.flame[m].children)
      path[n \in DOMAIN st.flame] ==
        IF n = 1 THEN <<>> ELSE Append(path[Parent(n)], st.flame[n].name)
  IN  /\ \A n, m \in DOMAIN st.flame : path[n] = path[m] => n = m
      /\ \A n \in DOMAIN st.flame :
           st.flame[n].value = Count(LAMBDA q : Names(q) = path[n])

\* Each sample of a thread leads back through the tables to its stack, whatever the
\* stacks share, and a stack is in the table once.
GeckoShowsSamples ==
  \A tid \in DOMAIN st.gecko :
    LET t == st.gecko[tid]
        stack[i \in 0..Len(t.stackTable)] ==
          IF i = 0 THEN <<>>
          ELSE Append(stack[t.stackTable[i].prefix],
                      t.stringTable[t.frameTable[t.stackTable[i].frame].string])
        mine == SelectSeq(st.samples,
                          LAMBDA q : q.thread.tid = tid /\ GeckoStack(q.chain) # <<>>)
    IN  /\ Len(t.samples) = Len(mine)
        /\ \A i \in DOMAIN mine : stack[t.samples[i]] = GeckoStack(mine[i].chain)
        /\ \A i, j \in DOMAIN t.stackTable : stack[i] = stack[j] => i = j

\* A collapsed stack is what the flame graph has for it, when both tell processes
\* apart: no sample is merged in one and not in the other.
CollapseAgrees ==
  (st.opts.pid /\ ~st.opts.tid) =>
    \A key \in DOMAIN st.lines :
      st.lines[key] =
        Count(LAMBDA q : <<<<q.thread.comm, q.thread.pid>>>> \o Tail([i \in 1..(Len(q.chain) + 1) |->
                              FlamePath(q.thread, q.chain)[i].name]) = key)

SamplesShown == FlameShowsSamples /\ GeckoShowsSamples /\ CollapseAgrees
=============================================================================
