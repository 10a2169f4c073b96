------------------------------ MODULE ReportWindow ------------------------------
(***************************************************************************)
(* exported-sql-viewer.py: the dialog that selects branches, with the ranges of     *)
(* times that it turns into ranges of sample ids, and the window with their table,  *)
(* which is filled piece by piece: the bar that fetches more and the search of the   *)
(* rows that are there.                                                      *)
(*                                                                         *)
(* The environment is the database, the fetcher, whose inside is SqlFetcher, and     *)
(* the user.  Sample i has the id i; a set of ids stands for a condition of the SQL   *)
(* query.  The other columns, the raw clause and the report's name are left out.     *)
(***************************************************************************)
EXTENDS Integers, Sequences, FiniteSets, FiniteSetsExt, SequencesExt

CONSTANTS
  Cpus,          \* what samples show beside their times
  Slacks,        \* how far switches go beyond the samples, at either end
  Chunk, Margin, \* 10000 and 10 in the program
  Cases          \* the bounds of a behaviour, see Init

VARIABLE st

-----------------------------------------------------------------------------
(* The dialog                                                                *)
FirstTime(db) == db.samples[1].time - db.slack
LastTime(db) == Last(db.samples).time + db.slack
LastId(db) == Len(db.samples)

\* BinarySearchTime, for ids that have no gap.
BinarySearchTime_Strict(db, lower, higher, target, floor) ==
  LET before == {i \in DOMAIN db.samples : db.samples[i].time < target}
  IN  IF floor THEN Cardinality(before) + 1 ELSE Cardinality(before)
BinarySearchTime(db, lower, higher, target, floor) ==
  LET search[w \in (0..LastId(db) + 1) \X (0..LastId(db) + 1)] ==
        LET mid == (w[1] + w[2]) \div 2
            time == IF mid = 0 THEN 0 ELSE db.samples[mid].time
            above == IF floor THEN target > time ELSE target >= time
            next == IF above THEN <<mid, w[2]>> ELSE <<w[1], mid>>
        IN  IF next[2] =< next[1] + 1 THEN IF floor THEN next[2] ELSE next[1]
            ELSE search[next]
  IN  search[<<lower, higher>>]

\* ConvertRelativeTime and what an empty end stands for.
EndOf(db, end, empty) ==
  CASE end.kind = "empty" -> empty
    [] end.kind = "time" -> end.value
    [] OTHER -> end.value + IF end.value >= 0 THEN FirstTime(db) ELSE LastTime(db)

\* ConvertTimeRange: whether the range is valid, and the first and last id.
ConvertTimeRange(db, range) ==
  LET beg == Max({EndOf(db, range[1], FirstTime(db)), FirstTime(db)})
      end == Min({EndOf(db, range[2], LastTime(db)), LastTime(db)})
      valid == beg =< LastTime(db) /\ end >= FirstTime(db)
  IN  [valid |-> valid,
       ids |-> IF valid THEN BinarySearchTime(db, 0, LastId(db), beg, TRUE)
                             ..BinarySearchTime(db, 1, LastId(db) + 1, end, FALSE)
               ELSE {}]

\* The value of an item is the sequence of its alternatives, which OR joins.
IdsWith(db, P(_)) == {i \in DOMAIN db.samples : P(db.samples[i])}
TimesValue(db, ranges) == [i \in DOMAIN ranges |-> ConvertTimeRange(db, ranges[i]).ids]
CpusValue(db, input) ==
  [i \in DOMAIN input.ranges |->
     IdsWith(db, LAMBDA s : s.cpu \in input.ranges[i][1]..input.ranges[i][2])]
    \o IF input.singles = {} THEN <<>> ELSE <<IdsWith(db, LAMBDA s : s.cpu \in input.singles)>>

\* Ok: the values are joined by AND without brackets, which binds closer than OR.
And(v, w) ==
  IF v = <<>> THEN w ELSE IF w = <<>> THEN v
  ELSE Front(v) \o <<Last(v) \cap Head(w)>> \o Tail(w)
WhereClause(db, input) ==
  LET where == And(TimesValue(db, input.times), CpusValue(db, input.cpus))
  IN  IF where = <<>> THEN DOMAIN db.samples ELSE UNION Range(where)

InputValid(db, input) ==
  \A i \in DOMAIN input.times : ConvertTimeRange(db, input.times[i]).valid
-----------------------------------------------------------------------------
(* The table and the bar that fetches more                                   *)
\* SQLFetcher.Fetch.
Fetch(w, nr) == IF w.more THEN [w EXCEPT !.target = Max({@, Len(w.items) + nr})] ELSE w

\* FetchIfNeeded, for a row that is displayed.
FetchIfNeeded(w, row) ==
  IF row > w.lastRowRead
  THEN LET read == [w EXCEPT !.lastRowRead = row]
       IN  IF row + Margin >= Len(w.items) THEN Fetch(read, Chunk) ELSE read
  ELSE w

\* Progress, which Update emits with the number of rows, or with 0 at the end.
Target(w) == w.count * Chunk
Progress(w, count) ==
  LET idle == w.inProgress /\ count > 0 /\ count - w.start >= Target(w)
  IN  [w EXCEPT !.inProgress = @ /\ ~idle /\ count > 0, !.done = @ \/ count = 0]

\* ProcessData, AddSample and Update.
Received(k) ==
  /\ st.phase = "window" /\ st.w.more
  /\ k =< Min({st.w.target, Len(st.rows)}) - Len(st.w.items)
  /\ LET items == st.w.items \o SubSeq(st.rows, Len(st.w.items) + 1, Len(st.w.items) + k)
     IN  st' = [st EXCEPT !.w = Progress([@ EXCEPT !.items = items], Len(items))]
NoMore ==
  /\ st.phase = "window" /\ st.w.more
  /\ Len(st.w.items) = Len(st.rows) /\ st.w.target > Len(st.rows)
  /\ st' = [st EXCEPT !.w = Progress([@ EXCEPT !.more = FALSE], 0)]

Step(s) == s.phase = "window" /\ s.steps < s.case.steps
Display(row) ==
  /\ Step(st)
  /\ st' = [st EXCEPT !.steps = @ + 1, !.w = FetchIfNeeded(@, row)]

\* FetchMoreRecords of the bar and of the model, with the number in the box.
Begun(w, count) ==
  LET busy == [w EXCEPT !.count = count, !.inProgress = TRUE, !.start = Len(w.items)]
  IN  IF w.more THEN Fetch(busy, count * Chunk) ELSE Progress(busy, 0)
FetchMoreRecords(count) ==
  /\ Step(st) /\ ~st.w.inProgress /\ ~st.w.done
  /\ st' = [st EXCEPT !.steps = @ + 1, !.w = Begun(@, count)]
-----------------------------------------------------------------------------
(* ChildDataItemFinder: the rows that match are those that are there when the       *)
(* value or the kind of pattern changes.  A row matches by its cpu.                 *)
FindSelect(s, value) ==
  SelectSeq([i \in DOMAIN s.w.items |-> i], LAMBDA i : s.db.samples[s.w.items[i]].cpu = value)

FindThread(s, f) ==
  IF f.direction = 0 \/ f.value # f.lastValue
  THEN [f EXCEPT !.pos = 1,
                 !.rows = IF f.lastValue # f.value THEN FindSelect(s, f.value) ELSE @]
  ELSE IF f.rows = <<>> THEN f
  ELSE IF f.direction > 0
  THEN [f EXCEPT !.pos = IF @ = Len(f.rows) THEN 1 ELSE @ + 1]
  ELSE [f EXCEPT !.pos = IF @ = 1 THEN Len(f.rows) ELSE @ - 1]

Find(value, direction) ==
  /\ Step(st)
  /\ LET f == FindThread(st, [st.finder EXCEPT !.lastValue = st.finder.value,
                                !.value = value, !.direction = direction])
         again == direction # 0 /\ value = st.finder.value
         turn == IF again THEN st.turn + direction ELSE 0
         row == IF f.rows = <<>> THEN 0 ELSE f.rows[f.pos]
     IN  st' = [st EXCEPT !.steps = @ + 1, !.finder = f, !.turn = turn,
                  !.current = IF row = 0 THEN @ ELSE row,
                  !.found = row,
                  !.visited = (IF again THEN @ ELSE {}) \cup {<<turn, row>>},
                  !.known = IF value = st.finder.value THEN @ ELSE Len(st.w.items)]
-----------------------------------------------------------------------------
\* A case is [samples, times, inputs, steps]: how many samples there may be and at what
\* times, what may be entered, and how many things the user does in the window.
Init ==
  \E case \in Cases :
    \E samples \in UNION {[1..n -> [time : case.times, cpu : Cpus]] : n \in case.samples},
       slack \in Slacks :
      /\ \A i \in 1..Len(samples) - 1 : samples[i].time =< samples[i + 1].time
      /\ slack < samples[1].time
      /\ st = [phase |-> "dialog", case |-> case, db |-> [samples |-> samples, slack |-> slack],
               input |-> [times |-> <<>>, cpus |-> [ranges |-> <<>>, singles |-> {}]],
               rows |-> <<>>, steps |-> 0,
               w |-> [items |-> <<>>, more |-> TRUE, target |-> 0, lastRowRead |-> 0,
                      count |-> 0, inProgress |-> FALSE, start |-> 0, done |-> FALSE],
               finder |-> [rows |-> <<>>, pos |-> 1, value |-> -1, direction |-> 0,
                           lastValue |-> -1],
               current |-> 0, found |-> 0, turn |-> 0, visited |-> {}, known |-> 0]

\* The dialog accepts what is entered, and the window opens with a first chunk asked for.
Ok(input) ==
  /\ st.phase = "dialog" /\ InputValid(st.db, input)
  /\ st' = [st EXCEPT !.phase = "window", !.input = input,
              !.rows = SetToSortSeq(WhereClause(st.db, input), <),
              !.w = Fetch(@, Chunk)]

Next ==
  \/ \E input \in st.case.inputs : Ok(input)
  \/ \E k \in 1..LastId(st.db) : Received(k)
  \/ NoMore
  \/ \E row \in DOMAIN st.w.items : Display(row)
  \/ \E count \in 1..2 : FetchMoreRecords(count)
  \/ \E value \in Cpus, direction \in {-1, 0, 1} : Find(value, direction)
-----------------------------------------------------------------------------
(* Properties                                                                *)
TypeOK ==
  /\ st.phase \in {"dialog", "window"} /\ st.steps \in 0..st.case.steps
  /\ st.current \in 0..Len(st.w.items)
  /\ Range(st.rows) \subseteq DOMAIN st.db.samples

\* The samples that the entries of the dialog ask for.
Asked(db, input) ==
  LET in(s, range) == /\ s.time >= EndOf(db, range[1], FirstTime(db))
                      /\ s.time =< EndOf(db, range[2], LastTime(db))
  IN  {i \in DOMAIN db.samples :
         LET s == db.samples[i]
         IN  /\ \/ input.times = <<>>
                \/ \E k \in DOMAIN input.times : in(s, input.times[k])
             /\ \/ input.cpus.ranges = <<>> /\ input.cpus.singles = {}
                \/ s.cpu \in input.cpus.singles
                \/ \E k \in DOMAIN input.cpus.ranges :
                     s.cpu \in input.cpus.ranges[k][1]..input.cpus.ranges[k][2]}

\* One alternative for each item, or one item only: then the missing brackets are not
\* missed.
Unambiguous(input) ==
  LET times == Len(input.times)
      cpus == Len(input.cpus.ranges) + IF input.cpus.singles = {} THEN 0 ELSE 1
  IN  (times =< 1 /\ cpus =< 1) \/ times = 0 \/ cpus = 0

\* The table shows the first of the samples that were asked for, each one once and in
\* their order, when the recording begins and ends with a sample.
RowsAsked ==
  st.phase = "window" =>
    /\ IsPrefix(st.w.items, st.rows)
    /\ ~st.w.more => st.w.items = st.rows
    /\ Unambiguous(st.input) /\ st.db.slack = 0 =>
         st.rows = SetToSortSeq(Asked(st.db, st.input), <)

\* The bar is busy only as long as it waits for rows that the fetcher was asked for.
BarNotStuck ==
  st.phase = "window" /\ st.w.inProgress =>
    st.w.more /\ Len(st.w.items) < st.w.target /\ Len(st.w.items) < st.w.start + Target(st.w)

\* A search goes round all rows that matched when its value was entered, and finds none
\* only when none did.
SearchGoesRound ==
  st.phase = "window" /\ st.finder.value # -1 =>
    LET matches == {i \in 1..st.known : st.db.samples[st.w.items[i]].cpu = st.finder.value}
        n == Cardinality(matches)
    IN  IF n = 0 THEN st.found = 0
        ELSE /\ {v[2] : v \in st.visited} \subseteq matches
             /\ \A v, w \in st.visited : ((v[1] - w[1]) % n = 0) = (v[2] = w[2])
=============================================================================
