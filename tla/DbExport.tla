-------------------------------- MODULE DbExport --------------------------------
(***************************************************************************)
(* export-to-postgresql.py and export-to-sqlite.py, told of the same trace: the     *)
(* first writes the rows to a file for each table, which the end of the trace       *)
(* copies to the database, where it adds the keys; the second inserts every row at   *)
(* once.  Both then drop the tables and views that nothing was written to.          *)
(*                                                                         *)
(* The environment is perf, which numbers what it exports from 1 and exports what a  *)
(* row refers to before the row; 0 refers to what is not known.  A row is            *)
(* [id, refs, mhz, name]: its references, the frequency of a cbr record in thousandths *)
(* and the name of an event.  The other columns, the text of the queries and the     *)
(* format of the files are left out.                                             *)
(***************************************************************************)
EXTENDS Integers, Sequences, SequencesExt, FiniteSets, TLC

CONSTANTS
  Threads,       \* thread 1 is the process of all
  Frequencies,   \* in kHz, of cbr records
  MaxEvents      \* the bound of a trace

VARIABLE st

-----------------------------------------------------------------------------
(* The tables, with the references that the end of the trace makes foreign keys, and  *)
(* the views, with what they select from.                                         *)
PowerKinds == {"mwait", "pwre", "exstop", "pwrx"}
SynthKinds == PowerKinds \cup {"ptwrite", "cbr"}

BaseTables ==
  {"selected_events", "machines", "threads", "comms", "comm_threads", "dsos", "symbols",
   "samples", "context_switches"} \cup SynthKinds
Tables(opts) ==
  BaseTables \cup (IF opts.calls \/ opts.callchains THEN {"call_paths"} ELSE {})
             \cup (IF opts.calls THEN {"calls"} ELSE {})

ForeignKeys ==
  [threads |-> [machine_id |-> "machines", process_id |-> "threads"],
   comms |-> [c_thread_id |-> "threads"],
   comm_threads |-> [comm_id |-> "comms", thread_id |-> "threads"],
   dsos |-> [machine_id |-> "machines"],
   symbols |-> [dso_id |-> "dsos"],
   samples |-> [evsel_id |-> "selected_events", machine_id |-> "machines",
                thread_id |-> "threads", comm_id |-> "comms", dso_id |-> "dsos",
                symbol_id |-> "symbols", to_dso_id |-> "dsos", to_symbol_id |-> "symbols"],
   call_paths |-> [parent_id |-> "call_paths", symbol_id |-> "symbols"],
   calls |-> [thread_id |-> "threads", comm_id |-> "comms", call_path_id |-> "call_paths",
              call_id |-> "samples", return_id |-> "samples",
              parent_call_path_id |-> "call_paths"],
   context_switches |-> [machine_id |-> "machines", thread_out_id |-> "threads",
                         comm_out_id |-> "comms", thread_in_id |-> "threads",
                         comm_in_id |-> "comms"]]
  @@ [kind \in SynthKinds |-> [id |-> "samples"]]
KeysOf(table) == IF table \in DOMAIN ForeignKeys THEN ForeignKeys[table] ELSE <<>>

\* The view of a table is named for it here; comms and selected_events have none.
Views ==
  [machines |-> {"machines"}, dsos |-> {"dsos", "machines"}, symbols |-> {"symbols", "dsos"},
   threads |-> {"threads", "machines"}, comm_threads |-> {"comm_threads", "comms", "threads"},
   call_paths |-> {"call_paths", "symbols", "dsos"},
   calls |-> {"calls", "call_paths", "threads", "comms", "symbols"},
   samples |-> {"samples", "threads", "comms", "selected_events", "symbols", "dsos"},
   power_events |-> {"samples", "selected_events", "cbr"} \cup PowerKinds,
   context_switches |-> {"context_switches", "threads", "comms"}]
  @@ [kind \in SynthKinds |-> {kind, "samples"}]
-----------------------------------------------------------------------------
(* Rows                                                                     *)
Row(id, refs) == [id |-> id, refs |-> refs, mhz |-> 0, name |-> ""]
Zero(table) == Row(0, [column \in DOMAIN KeysOf(table) |-> 0])

\* The handlers of the tables: PostgreSQL gets whole MHz, SQLite the quotient of a
\* division, as Python 3 makes it.
Put(s, table, row) ==
  [s EXCEPT !.given[table] = Append(@, row),
            !.files[table] = Append(@, [row EXCEPT !.mhz = 1000 * ((@ + 500) \div 1000)]),
            !.lite.rows[table] = Append(@, IF table = "cbr" THEN [row EXCEPT !.mhz = @ + 500]
                                           ELSE row)]

\* trace_begin: without calls there is no file, and no query, for the row of that table.
ZeroTables_NoSample(opts) == {"selected_events", "machines", "threads", "comms", "dsos", "symbols"}
                               \cup (Tables(opts) \cap {"call_paths", "calls"})
ZeroTables(opts) ==
  {"selected_events", "machines", "threads", "comms", "dsos", "symbols", "samples"}
    \cup (Tables(opts) \cap {"call_paths", "calls"})
BeginRaises(opts) == opts.callchains /\ ~opts.calls
TraceBegin ==
  /\ st.phase = "begin"
  /\ LET zeros(rows) == [t \in Tables(st.opts) |->
                           IF t \in ZeroTables(st.opts) THEN <<Zero(t)>> ELSE <<>>]
     IN  st' = [st EXCEPT !.phase = IF BeginRaises(st.opts) THEN "raised" ELSE "trace",
                  !.files = zeros(@), !.lite.rows = zeros(@)]
-----------------------------------------------------------------------------
(* What perf exports                                                          *)
Next0(s, table) == Len(s.given[table]) + 1

\* An object is exported when it is first referred to; ids remembers its number.
Known(s, key) == key \in DOMAIN s.ids
IdOf(s, key) == IF Known(s, key) THEN s.ids[key] ELSE 0
New(s, key, table, refs, name) ==
  IF Known(s, key) THEN s
  ELSE [Put(s, table, [Row(Next0(s, table), refs) EXCEPT !.name = name])
          EXCEPT !.ids = (key :> Next0(s, table)) @@ @]

WithMachine(s) == New(s, <<"machine">>, "machines", <<>>, "")
WithThread(s, t) ==
  LET main(r) == IF Known(r, <<"thread", 1>>) THEN r
                 ELSE New(r, <<"thread", 1>>, "threads",
                          [machine_id |-> 1, process_id |-> Next0(r, "threads")], "")
  IN  New(main(WithMachine(s)), <<"thread", t>>, "threads",
          [machine_id |-> 1, process_id |-> 1], "")
WithComm(s, t) ==
  LET key == <<"comm", t, s.execs[t]>>
      comm(r) == New(r, key, "comms", [c_thread_id |-> IdOf(r, <<"thread", 1>>)], "")
      both(r) == New(r, <<"comm_thread", t, s.execs[t]>>, "comm_threads",
                     [comm_id |-> IdOf(r, key), thread_id |-> IdOf(r, <<"thread", t>>)], "")
  IN  both(comm(WithThread(s, t)))
WithSymbol(s, known) ==
  IF ~known THEN s
  ELSE New(New(WithMachine(s), <<"dso">>, "dsos", [machine_id |-> 1], ""),
           <<"symbol">>, "symbols", [dso_id |-> 1], "")
WithPath(s, known) ==
  LET root == New(s, <<"root">>, "call_paths", [parent_id |-> 0, symbol_id |-> 0], "")
  IN  New(WithSymbol(root, known), <<"path", known>>, "call_paths",
          [parent_id |-> 1, symbol_id |-> IF known THEN 1 ELSE 0], "")
CommOf(s, t) == IdOf(s, <<"comm", t, s.execs[t]>>)
ThreadOf(s, t) == IdOf(s, <<"thread", t>>)

Step(s) == s.phase = "trace" /\ s.n < MaxEvents
Done(s) == st' = [s EXCEPT !.n = @ + 1]

\* A sample of an event, with what synth_data or nothing records of it: known says whether
\* its symbol is, to whether that of the branch's target is.
WithSample(s, t, known, to, event) ==
  LET base == New(WithSymbol(WithComm(s, t), known \/ to), <<"event", event>>, "selected_events",
                  <<>>, event)
      full == IF s.opts.callchains THEN WithPath(base, known) ELSE base
      symbol == IF known THEN 1 ELSE 0
      target == IF to THEN 1 ELSE 0
  IN  Put(full, "samples",
          Row(Next0(full, "samples"),
              [evsel_id |-> IdOf(full, <<"event", event>>), machine_id |-> 1,
               thread_id |-> ThreadOf(full, t), comm_id |-> CommOf(full, t),
               dso_id |-> symbol, symbol_id |-> symbol,
               to_dso_id |-> target, to_symbol_id |-> target]))
WithSynth(s, kind, mhz) ==
  LET id == Len(s.given["samples"])
  IN  Put(s, kind, [Row(id, [id |-> id]) EXCEPT !.mhz = mhz])

Sample(t, known, to) == Step(st) /\ Done(WithSample(st, t, known, to, "branches"))
Synth(t, kind, mhz) ==
  /\ Step(st) /\ (kind = "cbr" \/ mhz = 0)
  /\ Done(WithSynth(WithSample(st, t, FALSE, FALSE, kind), kind, mhz))
CallReturn(t, known, call, return) ==
  /\ Step(st) /\ st.opts.calls
  /\ LET s == WithPath(WithComm(st, t), known)
     IN  Done(Put(s, "calls", Row(Next0(s, "calls"),
           [thread_id |-> ThreadOf(s, t), comm_id |-> CommOf(s, t),
            call_path_id |-> IdOf(s, <<"path", known>>), call_id |-> call,
            return_id |-> return, parent_call_path_id |-> 1])))
ContextSwitch(out, in) ==
  /\ Step(st) /\ out # in
  /\ LET with(s, t) == IF t = 0 THEN s ELSE WithComm(s, t)
         s == with(with(WithMachine(st), out), in)
         comm(t) == IF t = 0 THEN 0 ELSE CommOf(s, t)
         thread(t) == IF t = 0 THEN 0 ELSE ThreadOf(s, t)
     IN  Done(Put(s, "context_switches", Row(Next0(s, "context_switches"),
           [machine_id |-> 1, thread_out_id |-> thread(out), comm_out_id |-> comm(out),
            thread_in_id |-> thread(in), comm_in_id |-> comm(in)])))
Exec(t) == Step(st) /\ Done([st EXCEPT !.execs[t] = @ + 1])
-----------------------------------------------------------------------------
(* The end of the trace.  A database is [rows, views, hasCalls, broken], where broken  *)
(* says that a query failed, after which nothing is done to it.                     *)
Refers(db, table, row) ==
  \A column \in DOMAIN KeysOf(table) :
    \E target \in Range(db.rows[KeysOf(table)[column]]) : target.id = row.refs[column]
KeysHold(db) ==
  \A table \in DOMAIN db.rows :
    /\ \A i, j \in DOMAIN db.rows[table] :
         db.rows[table][i].id = db.rows[table][j].id => i = j
    /\ \A i \in DOMAIN db.rows[table] : Refers(db, table, db.rows[table][i])

AddCalls(db) ==
  IF "calls" \notin DOMAIN db.rows THEN db
  ELSE [db EXCEPT !.hasCalls = {row.refs["comm_id"] : row \in Range(db.rows["calls"])}]

IsTableEmpty(db, table) == db.rows[table] = <<>>

\* drop: PostgreSQL refuses a table that a view still needs.
DropView(db, view) == [db EXCEPT !.views = @ \ {view}]
DropTable(db, table) ==
  IF db.broken \/ (db.checks /\ \E view \in db.views : table \in Views[view])
  THEN [db EXCEPT !.broken = TRUE]
  ELSE [db EXCEPT !.rows = [t \in DOMAIN @ \ {table} |-> @[t]]]
Drop(db, table) == DropTable(DropView(db, table), table)

DropIfEmpty(db, table) == IF IsTableEmpty(db, table) THEN Drop(db, table) ELSE db
DropPower(db) ==
  IF \A kind \in PowerKinds : IsTableEmpty(db, kind)
  THEN DropIfEmpty(FoldLeft(Drop, DropView(db, "power_events"),
                            <<"mwait", "pwre", "exstop", "pwrx">>), "cbr")
  ELSE db
DropUnused(db) == DropIfEmpty(DropPower(DropIfEmpty(db, "ptwrite")), "context_switches")

TraceEnd ==
  /\ st.phase = "trace"
  /\ LET pg == [st.pg EXCEPT !.rows = st.files]
         keyed == IF KeysHold(pg) THEN DropUnused(AddCalls(pg)) ELSE [pg EXCEPT !.broken = TRUE]
     IN  st' = [st EXCEPT !.phase = "end", !.pg = keyed, !.lite = DropUnused(AddCalls(@))]
-----------------------------------------------------------------------------
Init ==
  \E calls, callchains \in BOOLEAN :
    LET opts == [calls |-> calls, callchains |-> callchains]
        none == [table \in Tables(opts) |-> <<>>]
        db == [rows |-> none, checks |-> FALSE, hasCalls |-> {}, broken |-> FALSE,
               views |-> (Tables(opts) \cap DOMAIN Views) \cup {"power_events"}]
    IN  st = [opts |-> opts, phase |-> "begin", n |-> 0, ids |-> <<>>, given |-> none,
              files |-> none, pg |-> [db EXCEPT !.checks = TRUE], lite |-> db,
              execs |-> [t \in Threads |-> 0]]

Next ==
  \/ TraceBegin \/ TraceEnd
  \/ \E t \in Threads :
       \/ Exec(t)
       \/ \E known \in BOOLEAN :
            \/ \E to \in BOOLEAN : Sample(t, known, to)
            \/ \E call, return \in {0, Len(st.given["samples"])} : CallReturn(t, known, call, return)
       \/ \E kind \in SynthKinds, mhz \in {0} \cup Frequencies : Synth(t, kind, mhz)
  \/ \E out, in \in {0} \cup Threads : ContextSwitch(out, in)
-----------------------------------------------------------------------------
(* Properties                                                                *)
TypeOK ==
  /\ st.phase \in {"begin", "trace", "end", "raised"} /\ st.n \in 0..MaxEvents
  /\ DOMAIN st.given = Tables(st.opts)
  /\ st.phase # "end" => DOMAIN st.lite.rows = Tables(st.opts) /\ ~st.lite.broken

\* What the viewer is to find of the records of a table.
Exported(db, table) ==
  IF table \notin DOMAIN db.rows THEN <<>>
  ELSE [i \in DOMAIN SelectSeq(db.rows[table], LAMBDA row : row.id # 0) |->
          LET row == SelectSeq(db.rows[table], LAMBDA r : r.id # 0)[i]
          IN  [row EXCEPT !.mhz = @ \div 1000]]

\* power_events_view: PostgreSQL joins the tables, SQLite goes by the event's name.
PowerEventsPg(db) == {row.id : row \in UNION {Range(db.rows[k]) : k \in PowerKinds \cup {"cbr"}}}
PowerEventsLite(db) ==
  {row.id : row \in {row \in Range(db.rows["samples"]) :
     \E event \in Range(db.rows["selected_events"]) :
       event.id = row.refs["evsel_id"] /\ event.name \in PowerKinds \cup {"cbr"}}}

\* At the end both databases hold every record that perf exported, and a table was
\* dropped only without one; every reference of a row is to a row that is there, also
\* where SQLite was not told to look; every view has its tables; the view of power events
\* shows the same ones; and the comms marked as having calls are those with calls, and the
\* unknown one.
ExportComplete ==
  st.phase = "end" =>
    /\ ~st.pg.broken /\ ~st.lite.broken
    /\ DOMAIN st.pg.rows = DOMAIN st.lite.rows /\ st.pg.views = st.lite.views
    /\ \A table \in Tables(st.opts) :
         /\ Exported(st.pg, table) = Exported(st.lite, table)
         /\ Len(Exported(st.pg, table)) = Len(st.given[table])
    /\ KeysHold(st.pg) /\ KeysHold(st.lite)
    /\ \A view \in st.pg.views : Views[view] \subseteq DOMAIN st.pg.rows
    /\ "power_events" \in st.pg.views => PowerEventsPg(st.pg) = PowerEventsLite(st.lite)
    /\ st.pg.hasCalls = IF ~st.opts.calls THEN {}
                        ELSE {0} \cup {row.refs["comm_id"] : row \in Range(st.given["calls"])}
    /\ st.lite.hasCalls = st.pg.hasCalls
=============================================================================
