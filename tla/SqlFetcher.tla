------------------------------ MODULE SqlFetcher -------------------------------
(***************************************************************************)
(* The background fetching of database records in exported-sql-viewer.py   *)
(* (scripts/python): a process runs the query and writes records into a    *)
(* ring buffer in shared memory, a helper thread turns the count of        *)
(* published records into queued signals, and the GUI thread takes the     *)
(* records out, shows them and asks for more (SQLFetcherProcess,           *)
(* SQLFetcher, Thread, BranchModel / SQLTableModel, FetchMoreRecordsBar).  *)
(*                                                                         *)
(* A record is the position of its row in the result; its pickled form is  *)
(* a header of Hdr cells and a body of SizeOf[row] cells, and each cell of  *)
(* the buffer knows the row and the part of it last written there.  The    *)
(* two waits are on multiprocessing Events, one flag each.  head.value is  *)
(* written and never read, and is left out.                                *)
(*                                                                         *)
(* A definition named X_Y is a deliberately wrong variant of X, kept to    *)
(* see which property notices.                                             *)
(***************************************************************************)
EXTENDS Integers, Sequences

CONSTANTS
  SizeOf,    \* the pickled size of each row a query may return
  Queries,   \* queries, as pairs of the number of rows and whether it is paged
  Hdr,       \* glb_nsz, the size of a pickled size
  Size,      \* the size of the buffer
  Chunk,     \* glb_chunk_sz: rows of a batch, and of a page of the query
  Margin,    \* rows before the last one at which a scrolling view asks for more
  Numbers,   \* of chunks the user asks for
  Bars       \* the "fetch more records" bars of the windows on the model

RecordSize(row) == Hdr + SizeOf[row]

\* A record fits in the buffer.  (A batch is published when it is complete, so
\* for rows to be served the buffer must hold a batch and what is left unused
\* below its top: the instances that check liveness have such a buffer.)
ASSUME FetcherAssumption ==
  /\ {Hdr, Size, Chunk} \subseteq Nat \ {0} /\ Margin \in Nat
  /\ Numbers \subseteq Nat \ {0}
  /\ SizeOf \in Seq(Nat \ {0}) /\ SizeOf # <<>>
  /\ Queries \subseteq (0..Len(SizeOf)) \X BOOLEAN
  /\ \A row \in DOMAIN SizeOf : RecordSize(row) < Size

VARIABLES
  query,     \* the query: rows it has, paged or not, and where it stands
  proc,      \* the process: pc, its attributes and the record in hand
  thread,    \* the helper thread: pc, count, last_count, fetched
  gui,       \* the GUI thread: pc, records left to take, local_tail, target
  model,     \* the model's rows, child_count, more and last_row_read
  bars,      \* each bar: state, start, Target()
  buffer, tail, fetchCount, fetchingDone, processTarget,
  waitEvent, fetchedEvent,   \* shared memory and events
  more,      \* SQLFetcher.more, of the thread and the GUI
  signals,   \* done(count) signals queued for the GUI
  lapped,    \* history: the writer took a full buffer for an empty one
  missed     \* history: the thread gave up with a published batch unseen

shared == <<buffer, tail, fetchCount, fetchingDone, processTarget, waitEvent,
            fetchedEvent>>
history == <<lapped, missed>>
guiVars == <<gui, model, bars>>
vars == <<query, proc, thread, guiVars, shared, more, signals, history>>

Least(a, b) == IF a < b THEN a ELSE b
Blank == <<0, -1>>
EndMark == <<0, 0>>              \* a pickled 0 where a size is expected
Cells == 0..(Size - 1)

\* Where the GUI is in Shutdown: what it does next.
Farewell == {"wakeProcess", "stopTask", "endFetching", "wakeThread"}

TypeOK ==
  /\ query \in [rows : 0..Len(SizeOf), paged : BOOLEAN, last : 0..Len(SizeOf),
                left : 0..Len(SizeOf), limit : 0..2]
  /\ proc.pc \in {"clear", "target", "wait", "next", "space", "tail", "full",
                  "publish", "signal", "done", "exit", "exited"}
  /\ proc.head \in 0..Size /\ proc.tail \in 0..Size /\ proc.more \in BOOLEAN
  /\ {proc.fetched, proc.added, proc.row} \subseteq 0..Len(SizeOf)
  /\ proc.left \in 0..Chunk
  /\ thread.pc \in {"start", "clear", "count", "check", "emit", "wait", "exited"}
  /\ {thread.count, thread.last, thread.fetched} \subseteq 0..Len(SizeOf)
  /\ gui.pc \in {"idle", "take", "update", "events", "exited", "garbled"} \cup Farewell
  /\ model.rows \in Seq(1..Len(SizeOf)) /\ model.more \in BOOLEAN
  /\ model.shown \in 0..Len(model.rows)
  /\ \A b \in Bars : bars[b].state \in {"none", "idle", "busy", "done"}
  /\ DOMAIN buffer = Cells
  /\ \A c \in Cells : buffer[c][1] \in 0..Len(SizeOf) /\ buffer[c][2] >= -1
  /\ tail \in 0..Size /\ fetchCount \in 0..Len(SizeOf) /\ processTarget \in Int
  /\ {fetchingDone, waitEvent, fetchedEvent, more, lapped, missed} \subseteq BOOLEAN
  /\ signals \in Seq(0..Len(SizeOf))
-----------------------------------------------------------------------------
Init ==
  /\ \E q \in Queries :
       query = [rows |-> q[1], paged |-> q[2], last |-> 0, left |-> 0,
                limit |-> IF q[2] THEN 0 ELSE 2]
  /\ proc = [pc |-> "clear", fetched |-> 0, added |-> 0, left |-> 0, row |-> 0,
             head |-> 0, tail |-> 0, more |-> TRUE]
  /\ thread = [pc |-> "start", count |-> 0, last |-> 0, fetched |-> 0]
  \* the model's constructor has asked for the first chunk
  /\ gui = [pc |-> "idle", count |-> 0, left |-> 0, tail |-> 0, target |-> Chunk]
  /\ model = [rows |-> <<>>, shown |-> 0, more |-> TRUE, lastRead |-> 0]
  /\ bars = [b \in Bars |-> [state |-> "none", start |-> 0, target |-> 0]]
  /\ buffer = [c \in Cells |-> Blank]
  /\ tail = 0 /\ fetchCount = 0 /\ fetchingDone = FALSE
  /\ processTarget = Chunk /\ waitEvent = TRUE /\ fetchedEvent = FALSE
  /\ more = TRUE /\ signals = <<>>
  /\ lapped = FALSE /\ missed = FALSE
-----------------------------------------------------------------------------
(* The process.                                                            *)

\* WaitForTarget: clear the event, look at the target, wait.
ClearForTarget ==
  /\ proc.pc = "clear"
  /\ waitEvent' = FALSE /\ proc' = [proc EXCEPT !.pc = "target"]
  /\ UNCHANGED <<query, thread, guiVars, buffer, tail, fetchCount, fetchingDone,
                 processTarget, fetchedEvent, more, signals, history>>

BatchSize == Least(Chunk, processTarget - proc.fetched)

ReadTarget ==
  /\ proc.pc = "target"
  /\ proc' =
       IF processTarget < 0 THEN [proc EXCEPT !.pc = "done"]
       ELSE IF processTarget > proc.fetched
       THEN [proc EXCEPT !.pc = "next", !.left = BatchSize, !.added = 0]
       ELSE [proc EXCEPT !.pc = "wait"]
  /\ UNCHANGED <<query, thread, guiVars, shared, more, signals, history>>

WaitForTarget ==
  /\ proc.pc = "wait" /\ waitEvent
  /\ proc' = [proc EXCEPT !.pc = "clear"]
  /\ UNCHANGED <<query, thread, guiVars, shared, more, signals, history>>

\* Select: a query with $$last_id$$ continues after the last row, another one
\* runs once.
Select(q) ==
  IF q.limit = 1 THEN q
  ELSE [q EXCEPT !.left = IF q.paged THEN Least(q.rows - q.last, Chunk)
                          ELSE q.rows - q.last,
                 !.limit = IF q.paged THEN 0 ELSE @ - 1]

\* HasSpace: whether sz cells fit, where the record goes, and whether the top
\* of the buffer was closed with a 0 on the way.
HasSpace_AtTail(head, ltail, sz) ==
  LET top == ltail <= head
      fitsTop == top /\ Size - head > sz
      newHead == IF top /\ ~fitsTop THEN 0 ELSE head
  IN  [ok |-> fitsTop \/ ltail - newHead >= sz, head |-> newHead,
       mark |-> top /\ ~fitsTop /\ Size - head >= Hdr]
HasSpace(head, ltail, sz) ==
  LET top == ltail <= head
      fitsTop == top /\ Size - head > sz
      newHead == IF top /\ ~fitsTop THEN 0 ELSE head
  IN  [ok |-> fitsTop \/ ltail - newHead > sz, head |-> newHead,
       mark |-> top /\ ~fitsTop /\ Size - head >= Hdr]

Marked(space, head) ==
  [c \in Cells |-> IF space.mark /\ c = head THEN EndMark ELSE buffer[c]]

Written(buf, pos, row) ==
  [c \in Cells |-> IF c \in pos..(pos + RecordSize(row) - 1) THEN <<row, c - pos>>
                   ELSE buf[c]]

\* WaitForSpace's attempt with the tail ltail, and the rest of AddToBuffer.
TryToAdd(p, row, ltail, otherwise) ==
  LET space == HasSpace(p.head, ltail, RecordSize(row))
      buf == Marked(space, p.head)
  IN  /\ buffer' = IF space.ok THEN Written(buf, space.head, row) ELSE buf
      /\ proc' = IF space.ok
                 THEN [p EXCEPT !.pc = "next", !.tail = ltail, !.row = 0,
                         !.head = space.head + RecordSize(row), !.added = @ + 1]
                 ELSE [p EXCEPT !.pc = otherwise, !.tail = ltail, !.row = row,
                         !.head = space.head]
      /\ lapped' = (lapped \/ (space.ok /\ ltail = 0 /\ p.head = 0 /\ row > 1))

\* FetchBatch's loop, with Next and AddToBuffer.
FetchRow ==
  LET q == IF query.left = 0 THEN Select(query) ELSE query
  IN  /\ proc.pc = "next" /\ proc.added < proc.left
      /\ IF q.left = 0
         THEN /\ query' = q
              /\ proc' = [proc EXCEPT !.more = FALSE, !.pc = "publish"]
              /\ UNCHANGED <<buffer, lapped>>
         ELSE /\ query' = [q EXCEPT !.last = @ + 1, !.left = @ - 1]
              /\ TryToAdd(proc, q.last + 1, proc.tail, "space")
      /\ UNCHANGED <<thread, guiVars, tail, fetchCount, fetchingDone, processTarget,
                     waitEvent, fetchedEvent, more, signals, missed>>

ClearForSpace ==
  /\ proc.pc = "space"
  /\ waitEvent' = FALSE /\ proc' = [proc EXCEPT !.pc = "tail"]
  /\ UNCHANGED <<query, thread, guiVars, buffer, tail, fetchCount, fetchingDone,
                 processTarget, fetchedEvent, more, signals, history>>

ReadTail ==
  /\ proc.pc = "tail"
  /\ TryToAdd(proc, proc.row, tail, "full")
  /\ UNCHANGED <<query, thread, guiVars, tail, fetchCount, fetchingDone,
                 processTarget, waitEvent, fetchedEvent, more, signals, missed>>

WaitForSpace ==
  /\ proc.pc = "full" /\ waitEvent
  /\ proc' = [proc EXCEPT !.pc = "space"]
  /\ UNCHANGED <<query, thread, guiVars, shared, more, signals, history>>

\* The end of FetchBatch, and Run's loop when nothing was fetched.
Publish ==
  /\ proc.pc = "publish" \/ (proc.pc = "next" /\ proc.added = proc.left)
  /\ fetchCount' = fetchCount + proc.added
  /\ proc' = [proc EXCEPT !.fetched = @ + proc.added, !.added = 0, !.left = 0,
                          !.pc = IF proc.added > 0 THEN "signal"
                                 ELSE IF proc.more THEN "clear" ELSE "done"]
  /\ UNCHANGED <<query, thread, guiVars, buffer, tail, fetchingDone, processTarget,
                 waitEvent, fetchedEvent, more, signals, history>>

SignalFetched ==
  /\ proc.pc = "signal"
  /\ fetchedEvent' = TRUE
  /\ proc' = [proc EXCEPT !.pc = IF proc.more THEN "clear" ELSE "done"]
  /\ UNCHANGED <<query, thread, guiVars, buffer, tail, fetchCount, fetchingDone,
                 processTarget, waitEvent, more, signals, history>>

\* Run: what follows the loop.
SetDone ==
  /\ proc.pc = "done"
  /\ fetchingDone' = TRUE /\ proc' = [proc EXCEPT !.pc = "exit"]
  /\ UNCHANGED <<query, thread, guiVars, buffer, tail, fetchCount, processTarget,
                 waitEvent, fetchedEvent, more, signals, history>>

ProcessExit ==
  /\ proc.pc = "exit"
  /\ fetchedEvent' = TRUE /\ proc' = [proc EXCEPT !.pc = "exited"]
  /\ UNCHANGED <<query, thread, guiVars, buffer, tail, fetchCount, fetchingDone,
                 processTarget, waitEvent, more, signals, history>>

Process ==
  \/ ClearForTarget \/ ReadTarget \/ WaitForTarget
  \/ FetchRow \/ ClearForSpace \/ ReadTail \/ WaitForSpace
  \/ Publish \/ SignalFetched \/ SetDone \/ ProcessExit
-----------------------------------------------------------------------------
(* The helper thread: SQLFetcher.Thread, called again and again by         *)
(* Thread.run, which emits what it returns.                                *)

StartTask ==
  /\ thread.pc = "start"
  /\ IF more THEN thread' = [thread EXCEPT !.pc = "clear"] /\ UNCHANGED signals
     ELSE thread' = [thread EXCEPT !.pc = "exited"] /\ signals' = Append(signals, 0)
  /\ UNCHANGED <<query, proc, guiVars, shared, more, history>>

ClearFetched ==
  /\ thread.pc = "clear"
  /\ fetchedEvent' = FALSE /\ thread' = [thread EXCEPT !.pc = "count"]
  /\ UNCHANGED <<query, proc, guiVars, buffer, tail, fetchCount, fetchingDone,
                 processTarget, waitEvent, more, signals, history>>

ReadCount ==
  /\ thread.pc = "count"
  /\ thread' = [thread EXCEPT !.count = fetchCount,
                  !.pc = IF fetchCount # thread.last THEN "emit" ELSE "check"]
  /\ UNCHANGED <<query, proc, guiVars, shared, more, signals, history>>

CheckDone ==
  /\ thread.pc = "check"
  /\ IF fetchingDone
     THEN /\ more' = FALSE /\ signals' = Append(signals, 0)
          /\ thread' = [thread EXCEPT !.pc = "exited"]
          /\ missed' = (missed \/ fetchCount # thread.last)
     ELSE /\ thread' = [thread EXCEPT !.pc = "wait"]
          /\ UNCHANGED <<more, signals, missed>>
  /\ UNCHANGED <<query, proc, guiVars, shared, lapped>>

WaitFetched ==
  /\ thread.pc = "wait" /\ fetchedEvent
  /\ thread' = [thread EXCEPT !.pc = "clear"]
  /\ UNCHANGED <<query, proc, guiVars, shared, more, signals, history>>

EmitCount == thread.count - thread.last
Emit ==
  /\ thread.pc = "emit"
  /\ signals' = Append(signals, EmitCount)
  /\ thread' = [thread EXCEPT !.pc = "start", !.last = @ + EmitCount,
                              !.fetched = @ + EmitCount]
  /\ UNCHANGED <<query, proc, guiVars, shared, more, history>>

HelperThread ==
  StartTask \/ ClearFetched \/ ReadCount \/ CheckDone \/ WaitFetched \/ Emit
-----------------------------------------------------------------------------
(* The GUI thread.                                                         *)

Rest(s) == SubSeq(s, 2, Len(s))

\* ProcessData: one record at a time, then the tail, the event and done.
BeginProcessData ==
  /\ gui.pc = "idle" /\ signals # <<>>
  /\ signals' = Rest(signals)
  /\ gui' = [gui EXCEPT !.pc = "take", !.count = Head(signals), !.left = Head(signals)]
  /\ UNCHANGED <<query, proc, thread, model, bars, shared, more, history>>

\* RemoveFromBuffer: the place of the next record.
NextRecord(pos) == IF Size - pos < Hdr \/ buffer[pos] = EndMark THEN 0 ELSE pos

Intact(pos, row) ==
  /\ row > 0 /\ pos + RecordSize(row) <= Size
  /\ \A k \in 0..(RecordSize(row) - 1) : buffer[pos + k] = <<row, k>>

\* What is not a record raises an exception, and the rest of ProcessData is
\* not done; what happens after it is not followed.
RemoveFromBuffer ==
  LET pos == NextRecord(gui.tail)
      row == buffer[pos][1]
  IN  /\ gui.pc = "take" /\ gui.left > 0
      /\ IF Intact(pos, row)
         THEN /\ model' = [model EXCEPT !.rows = Append(@, row)]
              /\ gui' = [gui EXCEPT !.left = @ - 1, !.tail = pos + RecordSize(row)]
         ELSE gui' = [gui EXCEPT !.pc = "garbled"] /\ UNCHANGED model
      /\ UNCHANGED <<query, proc, thread, bars, shared, more, signals, history>>

SetTail ==
  /\ gui.pc = "take" /\ gui.left = 0
  /\ tail' = gui.tail /\ gui' = [gui EXCEPT !.pc = "update"]
  /\ UNCHANGED <<query, proc, thread, model, bars, buffer, fetchCount, fetchingDone,
                 processTarget, waitEvent, fetchedEvent, more, signals, history>>

\* FetchMoreRecordsBar.Progress(count): 100 per cent, or 0 for no more.
Progress(bar, count) ==
  IF bar.state = "none" THEN bar
  ELSE IF count = 0 THEN [bar EXCEPT !.state = "done"]
  ELSE IF bar.state = "busy" /\ count - bar.start >= bar.target
  THEN [bar EXCEPT !.state = "idle"]
  ELSE bar

\* The last of ProcessData, and BranchModel.Update or SQLTableModel.Update.
WakesProcess_No == waitEvent
WakesProcess == TRUE
Update ==
  LET ended == gui.count = 0
      grown == Len(model.rows) > model.shown
      told(bar) == IF ended THEN Progress(bar, 0) ELSE bar
  IN  /\ gui.pc = "update"
      /\ waitEvent' = WakesProcess
      /\ model' = [model EXCEPT !.more = @ /\ ~ended, !.shown = Len(model.rows)]
      /\ bars' = [b \in Bars |-> IF grown THEN Progress(told(bars[b]), Len(model.rows))
                                 ELSE told(bars[b])]
      /\ gui' = [gui EXCEPT !.pc = "idle", !.count = 0]
      /\ UNCHANGED <<query, proc, thread, buffer, tail, fetchCount, fetchingDone,
                     processTarget, fetchedEvent, more, signals, history>>

\* SQLFetcher.Fetch up to the new target; SetTarget and WakeForTarget follow.
Extra(nr) == thread.fetched + nr - gui.target
Fetch(nr) ==
  IF more /\ Extra(nr) > 0
  THEN /\ gui' = [gui EXCEPT !.target = @ + Extra(nr), !.pc = "events"]
       /\ processTarget' = IF processTarget >= 0 THEN gui.target + Extra(nr)
                           ELSE processTarget
  ELSE UNCHANGED <<gui, processTarget>>

WakeForTarget ==
  /\ gui.pc = "events"
  /\ waitEvent' = TRUE /\ gui' = [gui EXCEPT !.pc = "idle"]
  /\ UNCHANGED <<query, proc, thread, model, bars, buffer, tail, fetchCount,
                 fetchingDone, processTarget, fetchedEvent, more, signals, history>>

fetchRest == <<query, proc, thread, buffer, tail, fetchCount, fetchingDone,
               waitEvent, fetchedEvent, more, signals, history>>

\* FetchIfNeeded: the view shows row.
Scroll(row) ==
  /\ gui.pc = "idle" /\ row < model.shown /\ row > model.lastRead
  /\ model' = [model EXCEPT !.lastRead = row]
  /\ IF row + Margin >= model.shown THEN Fetch(Chunk)
     ELSE UNCHANGED <<gui, processTarget>>
  /\ UNCHANGED <<bars, fetchRest>>

OpenBar(b) ==
  /\ gui.pc = "idle" /\ bars[b].state = "none"
  /\ bars' = [bars EXCEPT ![b].state = IF model.more THEN "idle" ELSE "done"]
  /\ UNCHANGED <<gui, model, processTarget, fetchRest>>

\* FetchMoreRecordsBar.FetchMoreRecords with Target() = nr, and that of the model.
FetchMoreRecords(b, nr) ==
  /\ gui.pc = "idle" /\ bars[b].state = "idle"
  /\ IF model.more
     THEN /\ bars' = [bars EXCEPT ![b] = [state |-> "busy", start |-> model.shown,
                                         target |-> nr]]
          /\ Fetch(nr)
     ELSE /\ bars' = [c \in Bars |-> IF bars[c].state = "none" THEN bars[c]
                                     ELSE [bars[c] EXCEPT !.state = "done"]]
          /\ UNCHANGED <<gui, processTarget>>
  /\ UNCHANGED <<model, fetchRest>>

\* Shutdown, when the application ends: no signal is handled any more.  First
\* the process is told, then the thread, one assignment or call after the other.
Shutdown ==
  /\ gui.pc = "idle" /\ gui' = [gui EXCEPT !.pc = "wakeProcess"]
  /\ processTarget' = -1
  /\ UNCHANGED <<query, proc, thread, model, bars, buffer, tail, fetchCount,
                 fetchingDone, waitEvent, fetchedEvent, more, signals, history>>

WakeProcess ==
  /\ gui.pc = "wakeProcess" /\ gui' = [gui EXCEPT !.pc = "stopTask"]
  /\ waitEvent' = TRUE
  /\ UNCHANGED <<query, proc, thread, model, bars, buffer, tail, fetchCount,
                 fetchingDone, processTarget, fetchedEvent, more, signals, history>>

StopTask ==
  /\ gui.pc = "stopTask" /\ gui' = [gui EXCEPT !.pc = "endFetching"]
  /\ more' = FALSE
  /\ UNCHANGED <<query, proc, thread, model, bars, shared, signals, history>>

EndFetching ==
  /\ gui.pc = "endFetching" /\ gui' = [gui EXCEPT !.pc = "wakeThread"]
  /\ fetchingDone' = TRUE
  /\ UNCHANGED <<query, proc, thread, model, bars, buffer, tail, fetchCount,
                 processTarget, waitEvent, fetchedEvent, more, signals, history>>

WakesThread_No == fetchedEvent
WakesThread == TRUE
ShutdownThread ==
  /\ gui.pc = "wakeThread" /\ gui' = [gui EXCEPT !.pc = "exited"]
  /\ fetchedEvent' = WakesThread
  /\ UNCHANGED <<query, proc, thread, model, bars, buffer, tail, fetchCount,
                 fetchingDone, processTarget, waitEvent, more, signals, history>>

ShutdownRest == WakeProcess \/ StopTask \/ EndFetching \/ ShutdownThread

GuiStep ==
  \/ BeginProcessData \/ RemoveFromBuffer \/ SetTail \/ Update
  \/ WakeForTarget \/ ShutdownRest

User ==
  \/ \E row \in 1..Len(SizeOf) : Scroll(row)
  \/ \E b \in Bars :
       OpenBar(b) \/ \E n \in Numbers : FetchMoreRecords(b, n * Chunk)
  \/ Shutdown

Next == Process \/ HelperThread \/ GuiStep \/ User

\* The operating system runs the process and the thread, and Qt delivers the
\* queued signals; the user need not do anything.
Spec == Init /\ [][Next]_vars
        /\ WF_vars(Process) /\ WF_vars(HelperThread) /\ WF_vars(GuiStep)
-----------------------------------------------------------------------------
(* Properties.                                                             *)

Leaving == gui.pc \in Farewell \cup {"exited"}

\* The records the GUI takes from the ring buffer are the rows of the query, in
\* order and each once: the writer never runs into what is unread, and the
\* reader follows it over the top.  (Unless the writer reaches the top
\* before a first tail is published: HasSpace takes equal positions for empty.)
ReadsInOrder ==
  lapped \/ (gui.pc # "garbled" /\ \A i \in DOMAIN model.rows : model.rows[i] = i)

\* The sum of a sequence of counts.
Total(counts) ==
  LET sum[n \in 0..Len(counts)] == IF n = 0 THEN 0 ELSE sum[n - 1] + counts[n]
  IN  sum[Len(counts)]

\* What the thread has seen published is queued in signals, being taken, or
\* taken, and nothing is announced before it is published (Thread, ProcessData).
CountsAddUp ==
  gui.pc # "garbled" =>
    /\ thread.last = Len(model.rows) + (IF gui.pc = "take" THEN gui.left ELSE 0)
                       + Total(signals)
    /\ thread.last <= fetchCount

\* "All records fetched" is shown only when all rows of the query are in the
\* model (Run, Thread, Update, FetchMoreRecordsBar.Done).
AllFetched ==
  \A b \in Bars : bars[b].state = "done" => Len(model.rows) = query.rows

\* The same, unless the thread looked between the last batch and the end, or
\* the unread part of the buffer was overwritten.
AllFetchedUnlessMissed == AllFetched \/ missed \/ lapped

\* What has been fetched reaches the model (SQLFetcherProcess, SQLFetcher).
FetchInv == TypeOK /\ ReadsInOrder /\ CountsAddUp /\ AllFetchedUnlessMissed

\* Rows that were asked for are shown in the end, unless there are not so many
\* or the user leaves: neither side waits for an event the other will not set.
RequestServed ==
  \A n \in {1, Len(SizeOf)} :
    (gui.target >= n)
      ~> (model.shown >= n \/ ~model.more \/ Leaving \/ lapped)

\* A bar that shows its progress goes back to idle or done.
BarReturns ==
  \A b \in Bars :
    (bars[b].state = "busy") ~> (bars[b].state # "busy" \/ Leaving \/ lapped)

\* Nobody waits for ever for rows (WaitForTarget, WaitForSpace, Thread).
FetchServed == RequestServed /\ BarReturns

\* After Shutdown the thread ends and so does the process, so that the viewer
\* can exit.
ShutdownEnds ==
  (gui.pc = "exited") ~> (thread.pc = "exited" /\ proc.pc = "exited")

\* The same, except for a process that waits for space in the buffer.
ShutdownEndsUnlessFull ==
  (gui.pc = "exited")
    ~> (thread.pc = "exited" /\ proc.pc \in {"exited", "full"})
=============================================================================
