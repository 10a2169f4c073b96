------------------------------ MODULE CallScripts ------------------------------
(***************************************************************************)
(* futex-contention.py with add_stats of Util.py, powerpc-hcalls.py,             *)
(* syscall-counts-by-pid.py and failed-syscalls-by-pid.py: statistics of calls    *)
(* from the events that enter and leave them.                                  *)
(*                                                                         *)
(* The environment makes calls of a few numbers, one at a time on each actor: a   *)
(* thread, or for the hypervisor calls a cpu.  An event may be missing.  Reports  *)
(* print the tables as they are.                                             *)
(***************************************************************************)
EXTENDS Integers, Sequences, FiniteSets, FiniteSetsExt, SequencesExt, TLC

CONSTANTS
  Actors, Locks,
  Filters,             \* of the counts: {} or the one actor whose calls are counted
  MaxEvents, MaxLost   \* bounds of a trace

VARIABLE st

\* A call: a futex operation on a lock.
Calls == {"wait", "wake"} \X Locks
Put(f, key, value) == (key :> value) @@ f
Without(f, key) == [k \in DOMAIN f \ {key} |-> f[k]]
-----------------------------------------------------------------------------
(* futex-contention.py.  The average is a fraction: half of the last value and   *)
(* half of the average before it.                                            *)
AddStats(dict, key, value) ==
  IF key \notin DOMAIN dict
  THEN Put(dict, key, [min |-> value, max |-> value, avg |-> <<value, 1>>, count |-> 1])
  ELSE LET d == dict[key]
       IN  Put(dict, key,
               [min |-> Min({d.min, value}), max |-> Max({d.max, value}),
                avg |-> <<d.avg[1] + value * d.avg[2], 2 * d.avg[2]>>, count |-> d.count + 1])

EnterFutex(s, tid, call, now) ==
  IF call[1] # "wait" THEN s
  ELSE [s EXCEPT !.blocked = Put(@, tid, [lock |-> call[2], time |-> now])]
ExitFutex(s, tid, now) ==
  IF tid \notin DOMAIN s.blocked THEN s
  ELSE [s EXCEPT !.waits = AddStats(@, <<tid, s.blocked[tid].lock>>, now - s.blocked[tid].time),
                 !.blocked = Without(@, tid)]
-----------------------------------------------------------------------------
(* powerpc-hcalls.py: the entry of a call is kept for its cpu and number.       *)
HcallEntry(s, cpu, call, now) == [s EXCEPT !.entered = Put(@, <<cpu, call>>, now)]
HcallExit_KeepsEntry(s, cpu, call, now) ==
  IF <<cpu, call>> \notin DOMAIN s.entered THEN s
  ELSE LET diff == now - s.entered[<<cpu, call>>]
           o == IF call \in DOMAIN s.output THEN s.output[call]
                ELSE [time |-> 0, cnt |-> 0, min |-> diff, max |-> diff]
       IN  [s EXCEPT !.output = Put(@, call, [time |-> o.time + diff, cnt |-> o.cnt + 1,
                                              min |-> Min({o.min, diff}), max |-> Max({o.max, diff})])]
HcallExit(s, cpu, call, now) ==
  [HcallExit_KeepsEntry(s, cpu, call, now) EXCEPT !.entered = Without(@, <<cpu, call>>)]
-----------------------------------------------------------------------------
(* The counts by process: of calls entered, and of calls that failed            *)
Counted(counts, filter, actor, key) ==
  IF filter # {} /\ actor \notin filter THEN counts
  ELSE Put(counts, <<actor, key>>,
           IF <<actor, key>> \in DOMAIN counts THEN counts[<<actor, key>>] + 1 ELSE 1)

Entered(s, a, call, now) ==
  [HcallEntry(EnterFutex(s, a, call, now), a, call, now)
     EXCEPT !.calls = Counted(@, s.filter, a, call)]
Left(s, a, call, now, ret) ==
  [HcallExit(ExitFutex(s, a, now), a, call, now)
     EXCEPT !.errors = IF ret < 0 THEN Counted(@, s.filter, a, <<call, ret>>) ELSE @]
-----------------------------------------------------------------------------
(* The environment.  open: the call each actor is in; made: the events of all.    *)
Init ==
  \E filter \in Filters :
    st = [clock |-> 0, lost |-> 0, open |-> [a \in Actors |-> <<>>], made |-> <<>>,
          script |-> [filter |-> filter, blocked |-> <<>>, waits |-> <<>>, entered |-> <<>>,
                      output |-> <<>>, calls |-> <<>>, errors |-> <<>>]]

\* Time goes on by dt, and an event that is not lost reaches the scripts.
Event(a, call, dt, ret, Handler(_)) ==
  /\ Len(st.made) < MaxEvents
  /\ \E seen \in BOOLEAN :
       LET now == st.clock + dt
           enter == st.open[a] = <<>>
       IN  /\ seen \/ st.lost < MaxLost
           /\ st' = [st EXCEPT !.clock = now, !.lost = IF seen THEN @ ELSE @ + 1,
                       !.open[a] = IF enter THEN <<call>> ELSE <<>>,
                       !.made = Append(@, [a |-> a, call |-> call, enter |-> enter,
                                           time |-> now, ret |-> ret, seen |-> seen]),
                       !.script = IF seen THEN Handler(now) ELSE @]

Enter(a, call, dt) ==
  /\ st.open[a] = <<>>
  /\ Event(a, call, dt, 0, LAMBDA now : Entered(st.script, a, call, now))

Exit(a, dt, ret) ==
  /\ st.open[a] # <<>>
  /\ LET call == st.open[a][1]
     IN  Event(a, call, dt, ret, LAMBDA now : Left(st.script, a, call, now, ret))

Next ==
  \E a \in Actors, dt \in 1..2 :
    \/ \E call \in Calls : Enter(a, call, dt)
    \/ \E ret \in {-1, 0} : Exit(a, dt, ret)
-----------------------------------------------------------------------------
TypeOK ==
  LET s == st.script
  IN  /\ DOMAIN s.blocked \subseteq Actors
      /\ DOMAIN s.waits \subseteq Actors \X Locks
      /\ DOMAIN s.output \subseteq Calls

\* Places in made; the finished calls, as pairs of them, and how long they took.
Entries == {i \in DOMAIN st.made : st.made[i].enter}
Exits == DOMAIN st.made \ Entries
Finished ==
  {<<i, j>> \in Entries \X Exits :
     /\ i < j /\ st.made[i].a = st.made[j].a
     /\ \A k \in (i + 1)..(j - 1) : st.made[k].a # st.made[i].a}
Took(f) == st.made[f[2]].time - st.made[f[1]].time
Seen(f) == st.made[f[1]].seen /\ st.made[f[2]].seen

\* A seen entry of a kind and the seen exit that comes next on its actor, but for
\* events that Passes says do not matter to the kind.
Paired(Kind(_), Passes(_, _)) ==
  {<<i, j>> \in {k \in Entries : st.made[k].seen /\ Kind(st.made[k])} \X Exits :
     /\ i < j /\ st.made[j].seen /\ st.made[i].a = st.made[j].a
     /\ ~Passes(st.made[i], st.made[j])
     /\ \A k \in (i + 1)..(j - 1) :
          st.made[k].seen /\ st.made[k].a = st.made[i].a => Passes(st.made[i], st.made[k])}

\* A pair that is no call: the exit of its entry and the entry of its exit are lost.
\* It counts a time of nothing that happened (powerpc-hcalls.py has no way to tell).
LostBetween(p) ==
  \E k, l \in (p[1] + 1)..(p[2] - 1) :
    /\ k < l /\ ~st.made[k].seen /\ ~st.made[k].enter /\ ~st.made[l].seen /\ st.made[l].enter
    /\ st.made[k].a = st.made[p[1]].a /\ st.made[l].a = st.made[p[1]].a

\* The count, sum and extremes of times are those of some pairs.
TimesOf(pairs, out) ==
  LET times == {Took(p) : p \in pairs}
  IN  /\ out.cnt = Cardinality(pairs) /\ out.time = MapThenSumSet(Took, pairs)
      /\ out.min = Min(times) /\ out.max = Max(times)

\* The hypervisor calls seen to begin and end are counted with their times, whatever
\* is lost; one lost entry or exit is not taken for another's. Only an exit and a later
\* entry of the same call that are both lost make one call of two.
HcallsRight ==
  LET finished == {f \in Finished : Seen(f)} IN
  \A call \in Calls :
    LET mine(e) == e.call = call
        pairs == Paired(mine, LAMBDA i, k : k.call # i.call)
        out == st.script.output
    IN  /\ {f \in finished : mine(st.made[f[1]])} \subseteq pairs
        /\ \A p \in pairs \ finished : LostBetween(p)
        /\ (pairs # {}) = (call \in DOMAIN out)
        /\ pairs # {} => TimesOf(pairs, out[call])

\* The waits seen to begin and end are counted on their lock for their thread, with the
\* shortest and the longest; what is shown as the average lies between them, and is the
\* average of two. A wait whose exit is lost is ended by the next exit seen of its thread,
\* unless that is after the entry of another wait, and so is counted too long.
WaitsRight ==
  LET finished == Finished IN
  \A a \in Actors, lock \in Locks :
    LET mine(e) == e.a = a /\ e.call = <<"wait", lock>>
        pairs == Paired(mine, LAMBDA i, k : k.enter /\ k.call[1] # "wait")
        times == {Took(p) : p \in pairs}
        waits == st.script.waits
    IN  /\ {f \in finished : Seen(f) /\ mine(st.made[f[1]])} \subseteq pairs
        /\ \A p \in pairs \ finished :
             \E f \in finished : f[1] = p[1] /\ f[2] < p[2] /\ ~st.made[f[2]].seen
        /\ (pairs # {}) = (<<a, lock>> \in DOMAIN waits)
        /\ pairs # {} =>
             LET w == waits[<<a, lock>>]
             IN  /\ w.count = Cardinality(pairs) /\ w.min = Min(times) /\ w.max = Max(times)
                 /\ w.min * w.avg[2] <= w.avg[1] /\ w.avg[1] <= w.max * w.avg[2]
                 /\ w.count = 2 => w.avg[1] = MapThenSumSet(Took, pairs)

\* The failures that are counted are those that were seen, of the actors the filter
\* lets through, and no more than the calls that were counted and the entries missing.
FailuresCounted ==
  \A a \in Actors, call \in Calls :
    LET let == st.script.filter = {} \/ a \in st.script.filter
        entries(seen) == {i \in DOMAIN st.made :
          LET e == st.made[i] IN e.a = a /\ e.call = call /\ e.enter /\ e.seen = seen}
        failed == {i \in DOMAIN st.made :
          LET e == st.made[i] IN e.a = a /\ e.call = call /\ ~e.enter /\ e.seen /\ e.ret = -1}
        At(f, key) == IF key \in DOMAIN f THEN f[key] ELSE 0
        errors == At(st.script.errors, <<a, <<call, -1>>>>)
        calls == At(st.script.calls, <<a, call>>)
    IN  /\ errors = IF let THEN Cardinality(failed) ELSE 0
        /\ errors <= calls + Cardinality(entries(FALSE))
        /\ let => calls = Cardinality(entries(TRUE))

CallsTimed == HcallsRight /\ WaitsRight /\ FailuresCounted
=============================================================================
