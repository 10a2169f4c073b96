---------------------------- MODULE CompactionTimes ----------------------------
(***************************************************************************)
(* compaction-times.py (scripts/python): the time that processes spent in     *)
(* memory compaction and the pages moved and scanned meanwhile, in total, by   *)
(* process, and by compaction (chead and cnode).                             *)
(*                                                                         *)
(* The environment is the kernel: processes compact memory, change their name *)
(* with exec, and may be in a compaction when the trace begins.  A pair of      *)
(* counts is one number, and the choice of columns is left out.               *)
(***************************************************************************)
EXTENDS Integers, Sequences, FiniteSetsExt, SequencesExt, TLC

CONSTANTS
  Pids, Comms,
  Filters,     \* the filter of a command line: of kind "none", "comm" (names) or
               \* "pid" (low, high)
  MaxEvents    \* the bound of a trace

VARIABLE st

Kinds == {"migrated", "fscan", "mscan"}

\* cnode and its addition; the time of a pending node is that of its begin.
Cnode(ns) == [ns |-> ns, migrated |-> 0, fscan |-> 0, mscan |-> 0]
Plus(a, b) == [f \in DOMAIN a |-> a[f] + b[f]]
Total(nodes) == FoldLeft(Plus, Cnode(0), nodes)

\* comm_filter.filter and pid_filter.filter; a high of 0 is no limit.
Filtered(filter, pid, comm) ==
  \/ filter.kind = "comm" /\ comm \notin filter.names
  \/ filter.kind = "pid" /\ ~(filter.low <= pid /\ (filter.high = 0 \/ pid <= filter.high))

\* create_pending: a process is filtered once, by its name when first seen.
CreatePending(s, pid, comm, time) ==
  IF pid \in DOMAIN s.heads
  THEN IF s.heads[pid].filtered THEN s
       ELSE [s EXCEPT !.heads[pid].pending = <<Cnode(time)>>]
  ELSE LET filtered == Filtered(s.filter, pid, comm)
       IN  [s EXCEPT !.heads = (pid :> [filtered |-> filtered, val |-> Cnode(0),
                                        list |-> <<>>,
                                        pending |-> IF filtered THEN <<>>
                                                    ELSE <<Cnode(time)>>]) @@ @]

\* A process never seen before raises KeyError; without a begin there is only
\* a message.
Pending(s, pid, Then(_)) ==
  IF pid \notin DOMAIN s.heads THEN [s EXCEPT !.crashed = TRUE]
  ELSE IF s.heads[pid].pending = <<>> THEN s
  ELSE Then(s)

IncrementPending(s, pid, kind, n) ==
  Pending(s, pid, LAMBDA t : [t EXCEPT !.heads[pid].pending[1][kind] = @ + n])

\* complete_pending and make_complete.
CompletePending_KeepsStart(s, pid, time) ==
  Pending(s, pid, LAMBDA t :
    LET node == [t.heads[pid].pending[1] EXCEPT !.ns = time - @]
    IN  [t EXCEPT !.val = Plus(@, node), !.heads[pid].val = Plus(@, node),
           !.heads[pid].list = Append(@, node)])
CompletePending(s, pid, time) ==
  Pending(s, pid, LAMBDA t :
    LET node == [t.heads[pid].pending[1] EXCEPT !.ns = time - @]
    IN  [t EXCEPT !.val = Plus(@, node),
           !.heads[pid].val = IF t.proc = "default" THEN @ ELSE Plus(@, node),
           !.heads[pid].list = IF t.proc = "verbose" THEN Append(@, node) ELSE @,
           !.heads[pid].pending = <<>>])
-----------------------------------------------------------------------------
Init ==
  \E filter \in Filters, proc \in {"default", "process", "verbose"},
     busy \in SUBSET Pids :
    st = [clock |-> 0, busyAtStart |-> busy,
          comm |-> [p \in Pids |-> CHOOSE c \in Comms : TRUE],
          seenAs |-> [p \in Pids |-> "none"],
          \* the compaction of each process, <<>> if it began before the trace
          inside |-> [p \in Pids |-> p \in busy], node |-> [p \in Pids |-> <<>>],
          done |-> [p \in Pids |-> <<>>],
          script |-> [heads |-> <<>>, val |-> Cnode(0), filter |-> filter,
                      proc |-> proc, crashed |-> FALSE]]

Now == st.clock + 1

\* The kernel becomes k; the script is told with Handler.
Event(k, Handler(_)) ==
  /\ st.clock < MaxEvents /\ ~st.script.crashed
  /\ st' = [k EXCEPT !.clock = Now, !.script = Handler(@)]

Begin(p) ==
  /\ ~st.inside[p]
  /\ Event([st EXCEPT !.inside[p] = TRUE, !.node[p] = <<Cnode(Now)>>,
              !.seenAs[p] = IF @ = "none" THEN st.comm[p] ELSE @],
           LAMBDA s : CreatePending(s, p, st.comm[p], Now))

Work(p, kind, n) ==
  /\ st.inside[p]
  /\ Event([st EXCEPT !.node[p] = IF @ = <<>> THEN @
                                  ELSE <<[@[1] EXCEPT ![kind] = @ + n]>>],
           LAMBDA s : IncrementPending(s, p, kind, n))

End(p) ==
  /\ st.inside[p]
  /\ Event([st EXCEPT !.inside[p] = FALSE, !.node[p] = <<>>,
              !.done[p] = IF st.node[p] = <<>> THEN @
                          ELSE Append(@, [st.node[p][1] EXCEPT !.ns = Now - @])],
           LAMBDA s : CompletePending(s, p, Now))

Exec(p, c) ==
  /\ c # st.comm[p] /\ st.clock < MaxEvents
  /\ st' = [st EXCEPT !.comm[p] = c, !.clock = Now]

Next ==
  \E p \in Pids :
    \/ Begin(p) \/ End(p)
    \/ \E kind \in Kinds : Work(p, kind, 1)
    \/ \E c \in Comms : Exec(p, c)
-----------------------------------------------------------------------------
TypeOK ==
  /\ DOMAIN st.script.heads \subseteq Pids
  /\ \A p \in DOMAIN st.script.heads :
       LET head == st.script.heads[p]
       IN  /\ head.filtered => head.pending = <<>> /\ head.val = Cnode(0)
           /\ Len(head.pending) <= 1
  /\ st.clock \in 0..MaxEvents

Shown(p) ==
  ~Filtered(st.script.filter, p, st.seenAs[p])

\* The total is that of the compactions of the processes shown which began in
\* the trace; by process and by compaction it is the same again; and the script
\* lives, unless a process was in a compaction when the trace began (chead).
CompactionsCounted ==
    LET s == st.script
        shown == {p \in DOMAIN s.heads : Shown(p)}
    IN  /\ s.crashed => st.busyAtStart # {}
        /\ s.val = FoldSet(LAMBDA p, sum : Plus(sum, Total(st.done[p])), Cnode(0), shown)
        /\ \A p \in DOMAIN s.heads :
             /\ s.heads[p].val = IF s.proc = "default" \/ p \notin shown THEN Cnode(0)
                                 ELSE Total(st.done[p])
             /\ s.heads[p].list = IF s.proc # "verbose" \/ p \notin shown THEN <<>>
                                  ELSE st.done[p]

=============================================================================
