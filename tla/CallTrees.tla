------------------------------- MODULE CallTrees -------------------------------
(***************************************************************************)
(* exported-sql-viewer.py: the context-sensitive call graph and the call tree,    *)
(* whose items are selected from the database when they are first opened, the      *)
(* find bar with its search that goes on from match to match, and the jump to a    *)
(* thread at a time.                                                         *)
(*                                                                         *)
(* The environment is the program that was traced, which fills the database, and  *)
(* the user.  A model is a function from the place of an item, which is the        *)
(* sequence of the ids from the root to it, to what is known of the item.  Counts  *)
(* of instructions, cycles and branches are treated like times and left out, as    *)
(* are columns and names.                                                     *)
(***************************************************************************)
EXTENDS Integers, Sequences, FiniteSets, FiniteSetsExt, SequencesExt, TLC

CONSTANTS
  Threads, Comms, Symbols,   \* threads begin with the least comm
  Values,                    \* what is searched for: symbols and "*"
  Cost,                      \* the time that a call of a symbol takes for itself
  Bounds                     \* the bounds: calls of each thread, steps of the user

VARIABLE st

-----------------------------------------------------------------------------
(* The database: calls, and call paths, where path 1 is the root.               *)
Time(c) == c.ret - c.call

\* The queries of Select for an item at a place: the rows in their order.
GraphRows(db, place) ==
  LET path == IF Len(place) = 2 THEN 1 ELSE Last(place)
      calls == {c \in db.calls : /\ db.paths[c.path].parent = path
                                 /\ c.comm = place[1] /\ c.thread = place[2]}
      row(p, of) == [dbid |-> p, count |-> Cardinality(of),
                     time |-> MapThenSumSet(Time, of), call |-> 0]
      rows == {row(p, {c \in calls : c.path = p}) : p \in {c.path : c \in calls}}
  IN  SetToSortSeq(rows, LAMBDA a, b : a.dbid < b.dbid)
TreeRows(db, place) ==
  LET calls == {c \in db.calls : IF Len(place) = 2
                                 THEN c.parent = 0 /\ c.comm = place[1] /\ c.thread = place[2]
                                 ELSE c.parent = Last(place)}
      rows == {[dbid |-> c.id, count |-> 1, time |-> Time(c), call |-> c.call] : c \in calls}
  IN  SetToSortSeq(rows, LAMBDA a, b : a.call < b.call \/ (a.call = b.call /\ a.dbid < b.dbid))

\* The rows of comm_threads, which is in the order in which they were exported.
ThreadRows(db, comm) == [i \in DOMAIN db.threadsOf[comm] |->
                           [dbid |-> db.threadsOf[comm][i], count |-> 0, time |-> 0, call |-> 0]]
-----------------------------------------------------------------------------
(* The items of a model                                                      *)
Item(row, of) ==
  [done |-> FALSE, kids |-> <<>>, count |-> row.count, time |-> row.time,
   share |-> <<row.time, of>>, call |-> row.call]

\* CallGraphRootItem and CallTreeRootItem: only the comms that have calls.
Root(db) ==
  LET comms == SetToSortSeq({c.comm : c \in db.calls}, <)
      none == [count |-> 0, time |-> 0, call |-> 0]
  IN  (<<>> :> [Item(none, 0) EXCEPT !.done = TRUE, !.kids = comms])
        @@ [place \in {<<c>> : c \in Range(comms)} |-> Item(none, 0)]

\* Select: the rows become items.  The time of a thread is that of its children, whose
\* shares are then those of the thread.
WithRows(m, place, rows) ==
  [kid \in {Append(place, row.dbid) : row \in Range(rows)} |->
     Item(CHOOSE row \in Range(rows) : row.dbid = Last(kid), m[place].time)]
  @@ (place :> [m[place] EXCEPT !.done = TRUE,
                                !.kids = [i \in DOMAIN rows |-> rows[i].dbid]]) @@ m
WithTotal(m, place, total) ==
  [q \in DOMAIN m |->
     IF q = place THEN [m[q] EXCEPT !.time = total]
     ELSE IF q # <<>> /\ Front(q) = place THEN [m[q] EXCEPT !.share[2] = total] ELSE m[q]]
Summed_No(m, place, rows) == WithRows(m, place, rows)
Summed(m, place, rows) ==
  IF Len(place) # 2 THEN WithRows(m, place, rows)
  ELSE WithTotal(WithRows(m, place, rows), place,
                 FoldLeft(LAMBDA sum, row : sum + row.time, 0, rows))
Select(m, db, graph, place) ==
  Summed(m, place, CASE Len(place) = 1 -> ThreadRows(db, place[1])
                     [] graph -> GraphRows(db, place)
                     [] OTHER -> TreeRows(db, place))

\* rowCount and index.
Opened(m, db, graph, place) == IF m[place].done THEN m ELSE Select(m, db, graph, place)
-----------------------------------------------------------------------------
(* Find                                                                     *)
\* The patterns of the model are the names and one that matches every name.
Matches(db, c, value, pattern) ==
  db.paths[c.path].symbol = value \/ (pattern /\ value = "*")

\* DoFindSelect: the rows [dbid, comm, thread].
FindRows(db, graph, value, pattern) ==
  LET calls == {c \in db.calls : Matches(db, c, value, pattern)}
      less(a, b) == \/ a.comm < b.comm
                    \/ a.comm = b.comm /\ a.thread < b.thread
                    \/ a.comm = b.comm /\ a.thread = b.thread /\ a.key < b.key
                    \/ a.comm = b.comm /\ a.thread = b.thread /\ a.key = b.key /\ a.dbid < b.dbid
  IN  SetToSortSeq({[comm |-> c.comm, thread |-> c.thread,
                     dbid |-> IF graph THEN c.path ELSE c.id,
                     key |-> IF graph THEN c.path ELSE c.call] : c \in calls}, less)

\* FindPath: the ids that the view walks; the call path root is not one.
FindPath(db, graph, row) ==
  LET up[id \in Nat] ==
        IF id = 0 THEN <<>>
        ELSE Append(up[IF graph THEN db.paths[id].parent
                       ELSE (CHOOSE c \in db.calls : c.id = id).parent], id)
      ids == up[row.dbid]
  IN  <<row.comm, row.thread>> \o IF graph /\ ids[1] = 1 THEN Tail(ids) ELSE ids

\* FindThread: the rows and the position of the query, 0 before the first.
WithFirst(c, rows) == [c EXCEPT !.rows = rows, !.pos = IF rows = <<>> THEN 0 ELSE 1]
FindValue(c, db, graph) ==
  WithFirst(c, IF c.lastValue = c.value /\ c.lastPattern = c.pattern THEN c.rows
               ELSE FindRows(db, graph, c.value, c.pattern))
FindThread_Again(c, db, graph) ==
  IF c.value # c.lastValue \/ c.pattern # c.lastPattern \/ c.rows = <<>>
  THEN FindValue(c, db, graph)
  ELSE [c EXCEPT !.pos = IF c.direction = 0 THEN 1 ELSE Min({Max({1, @ + c.direction}), Len(c.rows)})]
FindThread(c, db, graph) ==
  IF c.direction = 0 \/ c.value # c.lastValue \/ c.pattern # c.lastPattern
  THEN FindValue(c, db, graph)
  ELSE IF c.rows = <<>> THEN c
  ELSE IF c.direction > 0
  THEN [c EXCEPT !.pos = IF @ = Len(c.rows) THEN 1 ELSE @ + 1]
  ELSE [c EXCEPT !.pos = IF @ = 1 THEN Len(c.rows) ELSE @ - 1]

\* DisplayFound: the model, the place that is current, and whether all was found.
Stepped(w, id, opened) ==
  IF id \in Range(opened[w.parent].kids)
  THEN [m |-> opened, parent |-> Append(w.parent, id), current |-> Append(w.parent, id),
        found |-> TRUE]
  ELSE [w EXCEPT !.m = opened, !.found = FALSE]
DisplayFound(m, db, graph, current, ids) ==
  FoldLeft(LAMBDA w, id :
             IF w.found THEN Stepped(w, id, Opened(w.m, db, graph, w.parent)) ELSE w,
           [m |-> m, parent |-> <<>>, current |-> current, found |-> ids # <<>>], ids)
-----------------------------------------------------------------------------
(* The jump to a thread at a time                                             *)
\* The walk down the calls of a thread: at each place the call of that time, or the last
\* one before it and on among the calls it made, or the first if nothing was found yet.
\* What has no calls has no rows: rowCount makes 0 of the -1 of childCount.
WalkStep(w, time, opened) ==
  LET kids == opened[w.parent].kids
      call(i) == opened[Append(w.parent, kids[i])].call
      same == {i \in DOMAIN kids : call(i) = time}
      before == {i \in DOMAIN kids : call(i) < time}
      to(i) == Append(w.parent, kids[i])
      here == [w EXCEPT !.m = opened, !.walks = FALSE]
  IN  IF kids = <<>> THEN here
      ELSE IF same # {} THEN [here EXCEPT !.current = to(Min(same))]
      ELSE IF before # {}
      THEN [w EXCEPT !.m = opened, !.parent = to(Max(before)), !.current = to(Max(before)),
                     !.found = TRUE]
      ELSE IF w.found THEN here ELSE [here EXCEPT !.current = to(1)]
WalkDown(w, db, time) ==
  FoldLeft(LAMBDA v, i :
             IF v.walks THEN WalkStep(v, time, Opened(v.m, db, FALSE, v.parent)) ELSE v,
           w, [i \in 1..Cardinality(db.calls) + 1 |-> i])

DisplayThreadAtTime(m, db, comm, thread, time, current) ==
  LET shown == DisplayFound(m, db, FALSE, current, <<comm, thread>>)
  IN  IF ~shown.found THEN shown
      ELSE WalkDown([m |-> shown.m, parent |-> <<comm, thread>>, current |-> shown.current,
                     found |-> FALSE, walks |-> TRUE], db, time)
-----------------------------------------------------------------------------
(* The traced program.  A call that is open has a number, and an id once a call   *)
(* that it made has returned; chain and by are what the properties know of a call. *)
FirstComm == Min(Comms)

\* The id of a chain of symbols among the call paths, new ones at the end.
Interned(paths, chain) ==
  FoldLeft(LAMBDA w, symbol :
             LET known == {i \in DOMAIN w.paths : w.paths[i] = [parent |-> w.id, symbol |-> symbol]}
             IN  IF known # {} THEN [w EXCEPT !.id = Min(known)]
                 ELSE [paths |-> Append(w.paths, [parent |-> w.id, symbol |-> symbol]),
                       id |-> Len(w.paths) + 1],
           [paths |-> paths, id |-> 1], chain)

\* The innermost call of thread t returns.
Returned(s, t) ==
  LET stack == s.stack[t]
      c == Last(stack)
      id == IF c.id = 0 THEN s.lastId + 1 ELSE c.id
      own == Max({s.lastId, id})
      outer == Len(stack) > 1
      parent == IF ~outer THEN 0
                ELSE IF stack[Len(stack) - 1].id = 0 THEN own + 1
                ELSE stack[Len(stack) - 1].id
      chain == [i \in DOMAIN stack |-> stack[i].symbol]
      path == Interned(s.db.paths, chain)
      row == [id |-> id, parent |-> parent, path |-> path.id, comm |-> s.comm[t],
              thread |-> t, call |-> c.call, ret |-> s.now, chain |-> chain, n |-> c.n,
              by |-> IF outer THEN stack[Len(stack) - 1].n ELSE 0]
  IN  [s EXCEPT !.lastId = Max({own, parent}),
                !.stack[t] = IF ~outer THEN <<>>
                             ELSE [Front(stack) EXCEPT ![Len(stack) - 1].id = parent],
                !.db.paths = path.paths, !.db.calls = @ \cup {row}]
Flushed(s, t) == FoldLeft(LAMBDA w, c : Returned(w, t), s, s.stack[t])

Call(t, symbol) ==
  /\ st.phase = "trace" /\ st.calls[t] < st.bound.calls[t]
  /\ st' = [st EXCEPT !.n = @ + 1, !.calls[t] = @ + 1,
              !.stack[t] = Append(@, [n |-> st.n + 1, symbol |-> symbol, id |-> 0,
                                      call |-> st.now])]
Return(t) ==
  /\ st.phase = "trace" /\ st.stack[t] # <<>>
  /\ st' = Returned([st EXCEPT !.now = @ + Cost[Last(st.stack[t]).symbol]], t)
Exec(t, comm) ==
  /\ st.phase = "trace" /\ st.calls[t] > 0 /\ comm > st.comm[t]
  /\ LET s == Flushed(st, t)
     IN  st' = [s EXCEPT !.comm[t] = comm, !.db.threadsOf[comm] = Append(@, t)]

\* The trace ends, and one of the two windows is opened on what was exported.
OpenWindow(graph) ==
  /\ st.phase = "trace"
  /\ LET s == FoldLeft(Flushed, st, SetToSeq(Threads))
     IN  st' = [s EXCEPT !.phase = "view", !.graph = graph, !.m = Root(s.db)]
-----------------------------------------------------------------------------
(* The user                                                                  *)
Expand(place) ==
  /\ st.phase = "view" /\ st.steps < st.bound.steps /\ ~st.m[place].done
  /\ st' = [st EXCEPT !.steps = @ + 1, !.m = Opened(@, st.db, st.graph, place)]

\* FindBar.Find and the window's Find: the context keeps the last value.
FreshContext(old, value, pattern, direction) ==
  [old EXCEPT !.value = value, !.pattern = pattern, !.direction = direction,
              !.lastValue = old.value, !.lastPattern = old.pattern]
FoundIds(s, c) == IF c.pos = 0 THEN <<>> ELSE FindPath(s.db, s.graph, c.rows[c.pos])
Shown(s, c, shown) ==
  LET again == c.direction # 0 /\ c.value = c.lastValue /\ c.pattern = c.lastPattern
      turn == IF again THEN s.turn + c.direction ELSE 0
  IN  [s EXCEPT !.context = c, !.m = shown.m, !.current = shown.current,
                !.bar.text = c.value, !.bar.checked = c.pattern,
                !.bar.lastValue = c.value, !.bar.lastPattern = c.pattern,
                !.answer = [kind |-> "find", found |-> shown.found], !.turn = turn,
                !.visited = (IF again THEN @ ELSE {}) \cup {<<turn, shown.current>>}]
ShowFound(s, c) == Shown(s, c, DisplayFound(s.m, s.db, s.graph, s.current, FoundIds(s, c)))
BarFind(s, value, pattern, direction) ==
  ShowFound(s, FindThread(FreshContext(s.context, value, pattern, direction), s.db, s.graph))

\* What ValueChanged looks for, for the item that became current, and the bar with what
\* it remembers of the item.
ItemPattern(bar, index, checked) ==
  IF bar.items[index].pattern = {} THEN checked ELSE bar.items[index].pattern = {TRUE}
Chosen(bar, index, checked) ==
  [bar EXCEPT !.index = index, !.items[index].pattern = {ItemPattern(bar, index, checked)}]

\* Enter adds a new text and makes its item current; choosing an item does that too.
Listed(items, text) == {i \in DOMAIN items : items[i].text = text}
Entered(bar, text, pattern) ==
  IF Listed(bar.items, text) # {} THEN bar
  ELSE [bar EXCEPT !.items = Append(@, [text |-> text, pattern |-> pattern])]
Search(bar, text, pattern, direction) ==
  st' = BarFind([st EXCEPT !.steps = @ + 1, !.bar = bar], text, pattern, direction)
Enter(text, checked) ==
  /\ st.phase = "view" /\ st.steps < st.bound.steps
  /\ LET bar == Entered(st.bar, text, {})
         index == Min(Listed(bar.items, text))
     IN  /\ index # st.bar.index
         /\ Search(Chosen(bar, index, checked), text, ItemPattern(bar, index, checked), 0)

\* NextPrev, with what the text box and the check box then hold: a new text becomes the
\* current item, and else the pattern is kept with the item.
NextPrev(text, checked, direction) ==
  /\ st.phase = "view" /\ st.steps < st.bound.steps
  /\ LET old == st.bar
         known == Listed(old.items, text)
         new == text # old.lastValue /\ known = {}
         bar == IF new THEN Chosen(Entered(old, text, {checked}), Len(old.items) + 1, checked)
                ELSE IF text # old.lastValue THEN [old EXCEPT !.items[Min(known)].pattern = {checked}]
                ELSE IF checked # old.lastPattern
                THEN [old EXCEPT !.items[old.index].pattern = {checked}]
                ELSE old
     IN  Search(bar, text, checked, IF new THEN 0 ELSE direction)

\* The jump of the time chart to a thread at a time, in a call tree.
Jump(thread, comm, time) ==
  /\ st.phase = "view" /\ ~st.graph /\ st.steps < st.bound.steps
  /\ \E shown \in {DisplayThreadAtTime(st.m, st.db, comm, thread, time, st.current)} :
       st' = [st EXCEPT !.steps = @ + 1, !.m = shown.m, !.current = shown.current,
                  !.answer = [kind |-> "jump", thread |-> thread, comm |-> comm,
                              time |-> time]]

Init ==
  \E bound \in Bounds :
  st = [bound |-> bound, phase |-> "trace", graph |-> FALSE, now |-> 0, n |-> 0, lastId |-> 0,
        calls |-> [t \in Threads |-> 0],
        comm |-> [t \in Threads |-> FirstComm], stack |-> [t \in Threads |-> <<>>],
        db |-> [calls |-> {}, paths |-> <<[parent |-> 0, symbol |-> "none"]>>,
                threadsOf |-> [c \in Comms |-> IF c = FirstComm THEN SetToSeq(Threads)
                                               ELSE <<>>]],
        m |-> <<>>, current |-> <<>>, steps |-> 0, answer |-> [kind |-> "none"],
        context |-> [value |-> "", pattern |-> FALSE, direction |-> 0, lastValue |-> "",
                     lastPattern |-> FALSE, rows |-> <<>>, pos |-> 0],
        bar |-> [items |-> <<>>, index |-> 0, text |-> "", checked |-> FALSE,
                 lastValue |-> "", lastPattern |-> FALSE],
        turn |-> 0, visited |-> {}]

Next ==
  \/ \E t \in Threads :
       \/ Return(t)
       \/ \E symbol \in Symbols : Call(t, symbol)
       \/ \E comm \in Comms : Exec(t, comm)
  \/ \E graph \in BOOLEAN : OpenWindow(graph)
  \/ \E place \in DOMAIN st.m : Expand(place)
  \/ \E text \in Values, checked \in BOOLEAN :
       \/ Enter(text, checked)
       \/ \E direction \in {-1, 1} : NextPrev(text, checked, direction)
  \/ \E thread \in Threads, comm \in Comms, time \in 0..st.now : Jump(thread, comm, time)
-----------------------------------------------------------------------------
(* Properties                                                                *)
TypeOK ==
  /\ st.phase \in {"trace", "view"} /\ st.graph \in BOOLEAN
  /\ st.steps \in 0..st.bound.steps /\ \A t \in Threads : st.calls[t] =< st.bound.calls[t]
  /\ st.current = <<>> \/ st.current \in DOMAIN st.m
  /\ \A c \in st.db.calls : c.path \in 2..Len(st.db.paths) /\ c.call =< c.ret
  /\ st.phase = "view" =>
       \A place \in DOMAIN st.m : st.m[place].done =>
         \A i \in DOMAIN st.m[place].kids : Append(place, st.m[place].kids[i]) \in DOMAIN st.m

\* The calls an item stands for, by what the traced program did.
ChainOf(path) ==
  (CHOOSE c \in st.db.calls : c.path = path).chain
CallsAt(place) ==
  {c \in st.db.calls :
     /\ c.comm = place[1] /\ c.thread = place[2]
     /\ IF st.graph THEN /\ Len(c.chain) = Len(place) - 2
                         /\ c.chain = ChainOf(Last(place))
        ELSE c.id = Last(place)}
CallsBelow(place) ==
  {c \in st.db.calls :
     /\ c.comm = place[1] /\ c.thread = place[2]
     /\ \/ Len(place) = 2 /\ c.by = 0
        \/ Len(place) > 2 /\ c.by \in {d.n : d \in CallsAt(place)}}
Sum(calls) == MapThenSumSet(Time, calls)

\* An item shows the calls that it stands for, with their number and their time, and
\* its children all the calls that these made, each in one child, with their share of
\* the time of the item, which is for a thread the time of all its outermost calls.
ItemsRight ==
  st.phase = "view" =>
    \A place \in DOMAIN st.m :
      LET item == st.m[place]
          kids == {Append(place, item.kids[i]) : i \in DOMAIN item.kids}
      IN  /\ Len(place) > 2 =>
               /\ CallsAt(place) # {}
               /\ item.count = Cardinality(CallsAt(place))
               /\ item.time = Sum(CallsAt(place))
               /\ item.share[2] = IF Len(place) = 3
                                  THEN Sum(CallsBelow(SubSeq(place, 1, 2)))
                                  ELSE Sum(CallsAt(Front(place)))
          /\ Len(place) >= 2 /\ item.done =>
               /\ UNION {CallsAt(k) : k \in kids} = CallsBelow(place)
               /\ Len(place) = 2 => item.time = Sum(CallsBelow(place))

\* The calls that match what is searched for.
Wanted ==
  {c \in st.db.calls : Last(c.chain) = st.bar.text \/ (st.bar.checked /\ st.bar.text = "*")}

\* A search says that there is no match only when there is none, and else makes an item
\* current that matches, with all the items that it is in; going on in one direction
\* reaches every match before one comes again.
FindGoesRound ==
  st.phase = "view" /\ st.answer.kind = "find" =>
    LET matches == {IF st.graph THEN <<c.comm, c.thread, c.path>>
                    ELSE <<c.comm, c.thread, c.id>> : c \in Wanted}
        n == Cardinality(matches)
    IN  /\ st.answer.found = (matches # {})
        /\ n > 0 =>
             /\ Len(st.current) > 2 /\ CallsAt(st.current) \cap Wanted # {}
             /\ \A v, w \in st.visited :
                  ((v[1] - w[1]) % n = 0) = (v[2] = w[2])

\* A jump makes the latest call that the thread began at or before the time current, or
\* its first call when there is none.
JumpRight ==
  st.phase = "view" /\ st.answer.kind = "jump" =>
    LET a == st.answer
        calls == {c \in st.db.calls : c.comm = a.comm /\ c.thread = a.thread}
        before == {c.call : c \in {c \in calls : c.call =< a.time}}
    IN  calls # {} =>
          /\ SubSeq(st.current, 1, 2) = <<a.comm, a.thread>>
          /\ Len(st.current) > 2
          /\ st.m[st.current].call = IF before # {} THEN Max(before)
                                     ELSE Min({c.call : c \in calls})
=============================================================================
