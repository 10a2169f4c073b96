------------------------------ MODULE IntelPtEvents ------------------------------
(***************************************************************************)
(* intel-pt-events.py: the order in which decoded events, context switches and  *)
(* decoding errors are printed, with the output of the cpus interleaved          *)
(* (--interleave), and which lines of a source trace name their source.          *)
(*                                                                         *)
(* The environment is perf, which calls the script for each of them in the order *)
(* of their time.  A source line is one value; payloads and layout are left out.  *)
(***************************************************************************)
EXTENDS Integers, Sequences, FiniteSets, FiniteSetsExt, SequencesExt, TLC

CONSTANTS
  Cpus, Sources, Dsos,
  Interleaves,         \* values of --interleave, 0 without it
  MaxEvents            \* bounds of a trace, for each of these values

VARIABLE st

-----------------------------------------------------------------------------
(* Interleaving.  The stash is in the order of the keys of glb_stash_dict; what  *)
(* is printed is a sequence of strings [cpu, time, flush, lines], where flush     *)
(* numbers the call of flush_stashed_output, 0 for a line printed directly.      *)
String(cpu, time, lines) == [cpu |-> cpu, time |-> time, flush |-> 0, lines |-> lines]

Stashed(s, cpu, string) ==
  LET at == {i \in DOMAIN s.stash : s.stash[i].cpu = cpu}
  IN  IF at = {} THEN [s EXCEPT !.stash = Append(@, [cpu |-> cpu, items |-> <<string>>])]
      ELSE [s EXCEPT !.stash[CHOOSE i \in at : TRUE].items = Append(@, string)]

\* One round of flush_stashed_output: at most interleave strings of each cpu.
Round(s) ==
  LET head(e) == SubSeq(e.items, 1, Min({Len(e.items), s.interleave}))
      rest(e) == [e EXCEPT !.items = SubSeq(@, s.interleave + 1, Len(@))]
      printed == FlattenSeq([i \in DOMAIN s.stash |-> head(s.stash[i])])
  IN  [s EXCEPT !.out = @ \o [i \in DOMAIN printed |-> [printed[i] EXCEPT !.flush = s.flushes + 1]],
                !.stash = SelectSeq([i \in DOMAIN @ |-> rest(@[i])],
                                    LAMBDA e : e.items # <<>>)]
FlushStashedOutput_OneRound(s) == [Round(s) EXCEPT !.flushes = @ + 1]
FlushStashedOutput(s) ==
  LET rounds[n \in Nat] == IF n = 0 THEN s ELSE Round(rounds[n - 1])
      longest == Max({0} \cup {Len(s.stash[i].items) : i \in DOMAIN s.stash})
  IN  [rounds[longest] EXCEPT !.flushes = @ + 1]
FlushIfInterleaved(s) == IF s.interleave = 0 THEN s ELSE FlushStashedOutput(s)

\* print of some lines at once, outside of an event.
Printed(s, string) == [s EXCEPT !.out = Append(@, string)]
-----------------------------------------------------------------------------
(* Events.  A line is [kind, of, shown]: of is what it is about, shown what the  *)
(* line says of it.                                                         *)
\* print_srccode: a source or a dso is shown where it differs from the last one.
\* Without its instruction's bytes, a line with a disassembly has no text.
PrintSrccode_KeepsDso(s, ev) ==
  [s |-> [s EXCEPT !.source = ev.source,
                   !.dso = IF ev.source # "none" THEN @ ELSE ev.dso],
   line |-> [kind |-> "source", of |-> IF ev.source # "none" THEN ev.source ELSE ev.dso,
             shown |-> IF ev.source # "none" THEN IF s.source = ev.source THEN "" ELSE ev.source
                       ELSE IF s.dso = ev.dso THEN "" ELSE ev.dso]]
PrintSrccode(s, ev) ==
  [PrintSrccode_KeepsDso(s, ev) EXCEPT !.s.dso = IF ev.source # "none" THEN "none" ELSE ev.dso]
SrccodeRaises(s, ev) ==
  ev.name = "instructions" /\ s.mode = "source" /\ s.disassembler /\ ~ev.bytes

\* do_process_event: a switch of the cpu that waits to be printed comes first.
\* The state and the lines printed.
DoProcessEvent(s, ev) ==
  LET switch == IF ev.cpu \in DOMAIN s.switchStr THEN <<s.switchStr[ev.cpu]>> ELSE <<>>
      t == [s EXCEPT !.switchStr = [c \in DOMAIN @ \ {ev.cpu} |-> @[c]]]
  IN  IF ev.name \in {"instructions", "branches"} /\ s.mode = "source"
      THEN LET printed == PrintSrccode(t, ev)
           IN  [s |-> printed.s, lines |-> Append(switch, printed.line)]
      ELSE [s |-> t, lines |-> Append(switch, [kind |-> ev.name, of |-> "", shown |-> ""])]

\* interleave_events and process_event.
InterleaveEvents(s, ev) ==
  LET flushed == IF s.time # ev.time THEN FlushStashedOutput(s) ELSE s
      done == DoProcessEvent([flushed EXCEPT !.time = ev.time], ev)
  IN  Stashed(done.s, ev.cpu, String(ev.cpu, ev.time, done.lines))
ProcessEvent(s, ev) ==
  IF SrccodeRaises(s, ev) THEN [s EXCEPT !.over = "raised"]
  ELSE IF s.interleave # 0 THEN InterleaveEvents(s, ev)
  ELSE LET done == DoProcessEvent(s, ev)
       IN  Printed(done.s, String(ev.cpu, ev.time, done.lines))

AuxtraceError(s, cpu, time) ==
  Printed(FlushIfInterleaved(s),
          String(cpu, time, <<[kind |-> "error", of |-> "", shown |-> ""]>>))

\* context_switch: without --all-switch-events the line waits for the next event
\* of the cpu, and one that waits is replaced.
ContextSwitch(s, cpu, time) ==
  LET t == FlushIfInterleaved(s)
      line == [kind |-> "switch", of |-> "", shown |-> ""]
  IN  IF s.allSwitches THEN Printed(t, String(cpu, time, <<line>>))
      ELSE [t EXCEPT !.switchStr = [c \in DOMAIN @ \cup {cpu} |-> line]]

TraceEnd(s) == [FlushIfInterleaved(s) EXCEPT !.over = "ended"]
-----------------------------------------------------------------------------
(* perf.  calls: how many lines each cpu has been due, for the properties.      *)
Init ==
  \E mode \in {"branch", "source"}, interleave \in Interleaves,
     allSwitches \in BOOLEAN, disassembler \in BOOLEAN :
    /\ mode = "branch" => ~disassembler   \* it changes nothing there
    /\ (mode = "source") = (interleave = 0)   \* what a line says and where it goes
                                              \* do not depend on one another
    /\ st = [clock |-> 0, now |-> 0, calls |-> [c \in Cpus |-> <<>>],
             script |-> [mode |-> mode, interleave |-> interleave, allSwitches |-> allSwitches,
                         disassembler |-> disassembler, source |-> "none", dso |-> "none",
                         switchStr |-> <<>>, stash |-> <<>>, out |-> <<>>, flushes |-> 0,
                         time |-> 0, over |-> "no"]]

Call(cpu, kind, Handler(_)) ==
  /\ st.clock < MaxEvents[st.script.interleave] /\ st.script.over = "no"
  /\ st.clock = 0 => cpu = CHOOSE c \in Cpus : TRUE   \* the cpus are alike
  \* The time is only looked at with --interleave.
  /\ \E now \in IF st.script.interleave = 0 THEN {0} ELSE {st.now, st.now + 1} :
       LET s == Handler(now)
       IN  st' = [st EXCEPT !.clock = @ + 1, !.now = now, !.script = s,
                    !.calls[cpu] = IF s.over = "raised" THEN @ ELSE Append(@, [time |-> now, kind |-> kind])]

Events == [cpu : Cpus, name : {"instructions", "branches", "ptwrite"},
           source : Sources, dso : Dsos, bytes : BOOLEAN]
\* Details that the script does not look at in this mode are fixed.
Plain(ev) ==
  IF st.script.mode = "source" /\ ev.name # "ptwrite"
  THEN /\ ev.source # "none" => ev.dso = CHOOSE d \in Dsos : TRUE
       /\ st.script.disassembler = (ev.name = "instructions")
       /\ ev.name = "branches" => ev.bytes
  ELSE /\ ev.name = "ptwrite" /\ ev.bytes
       /\ ev.source = (CHOOSE q \in Sources : TRUE) /\ ev.dso = CHOOSE d \in Dsos : TRUE
Next ==
  \/ \E ev \in Events :
       /\ Plain(ev)
       /\ Call(ev.cpu, ev.name, LAMBDA now :
                 ProcessEvent(st.script, [time |-> now] @@ ev))
  \/ \E cpu \in Cpus :
       \/ Call(cpu, "error", LAMBDA now : AuxtraceError(st.script, cpu, now))
       \/ Call(cpu, "switch", LAMBDA now : ContextSwitch(st.script, cpu, now))
  \/ /\ st.script.over = "no"
     /\ st' = [st EXCEPT !.script = TraceEnd(@)]
-----------------------------------------------------------------------------
Written == st.script.out \o FlattenSeq([i \in DOMAIN st.script.stash |-> st.script.stash[i].items])

TypeOK ==
  LET s == st.script
  IN  /\ \A i \in DOMAIN s.stash : s.stash[i].items # <<>> /\ s.stash[i].cpu \in Cpus
      /\ \A i, j \in DOMAIN s.stash : s.stash[i].cpu = s.stash[j].cpu => i = j
      /\ DOMAIN s.switchStr \subseteq Cpus

\* The events and errors of each cpu are written once and in their order, switches
\* too when all are asked for; the output does not go back in time; in one flush
\* a cpu has more strings in a row than --interleave only if no other cpu has one
\* left; and after the end nothing is left in the stash.
OutputInOrder ==
  LET s == st.script
      Due(cpu) == SelectSeq(st.calls[cpu], LAMBDA q : q.kind # "switch" \/ s.allSwitches)
      Mine(cpu) == SelectSeq(Written, LAMBDA q : q.cpu = cpu)
  IN  /\ \A cpu \in Cpus :
           /\ Len(Mine(cpu)) = Len(Due(cpu))
           /\ \A i \in DOMAIN Mine(cpu) :
                /\ Mine(cpu)[i].time = Due(cpu)[i].time
                /\ Last(Mine(cpu)[i].lines).kind \in {Due(cpu)[i].kind, "source"}
      /\ \A i, j \in DOMAIN s.out : i < j => s.out[i].time <= s.out[j].time
      /\ \A i \in DOMAIN s.out :
           LET row == i..(i + s.interleave)
           IN  (s.out[i].flush # 0 /\ row \subseteq DOMAIN s.out
                /\ \A k \in row : s.out[k].flush = s.out[i].flush /\ s.out[k].cpu = s.out[i].cpu)
               => \A k \in DOMAIN s.out :
                    (k > i /\ s.out[k].flush = s.out[i].flush) => s.out[k].cpu = s.out[i].cpu
      /\ s.over = "ended" => s.stash = <<>>

\* Without --interleave, a line of a source trace that shows nothing is about what
\* the nearest line before it shows.
SourceReadable ==
  LET lines == SelectSeq(FlattenSeq([i \in DOMAIN st.script.out |-> st.script.out[i].lines]),
                         LAMBDA q : q.kind = "source")
  IN  st.script.interleave = 0 =>
        \A i \in DOMAIN lines :
          LET shown == {k \in 1..i : lines[k].shown # ""}
          IN  shown # {} /\ lines[Max(shown)].shown = lines[i].of
=============================================================================
