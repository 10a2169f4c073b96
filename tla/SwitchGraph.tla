------------------------------ MODULE SwitchGraph ------------------------------
(***************************************************************************)
(* exported-sql-viewer.py: the time chart, one graph for each cpu, made of the     *)
(* context switches and the execs in the database; how it is painted, what is read  *)
(* off it under the pointer, and zooming with its way back and forward.            *)
(*                                                                         *)
(* The environment is the traced machine and the user.  Times are counted in ns,    *)
(* from the start of the machine; Width stands for the 1000 pixels of the window.   *)
(* The vertical axis, titles, the scale below the graphs and the legend are left    *)
(* out.                                                                     *)
(***************************************************************************)
EXTENDS Integers, Sequences, FiniteSets, FiniteSetsExt, SequencesExt

CONSTANTS
  Cpus, Tasks,   \* threads other than the idle thread 0
  Width,         \* of a graph, in pixels
  Gaps,          \* the times from one event to the next
  Bounds         \* the bounds: events of the trace, steps of the user

VARIABLE st

Idle == 0
-----------------------------------------------------------------------------
(* The points of a graph.  A comm is a record [thread, time, exec], its id is its    *)
(* place in the table.                                                       *)
\* ExecComm: the program of the thread at the time, or its first comm.
ExecComm(comms, thread, time) ==
  LET own == {i \in DOMAIN comms : comms[i].thread = thread}
      execs == {i \in own : comms[i].exec /\ comms[i].time =< time}
  IN  IF execs # {} THEN Max(execs) ELSE Min(own)

\* HRegion, for the points added so far: the first region of a thread and comm is kept.
HRegion(s, regions, thread, comm, time) ==
  IF \E r \in regions : r.thread = thread /\ r.comm = comm
  THEN CHOOSE r \in regions : r.thread = thread /\ r.comm = comm
  ELSE [thread |-> thread, comm |-> comm, exec |-> ExecComm(s.comms, thread, time)]

Plotted(s, g, time, thread, comm) ==
  LET r == HRegion(s, g.regions, thread, comm, time)
  IN  [g EXCEPT !.points = Append(@, [x |-> time - s.start, region |-> r]),
                !.regions = @ \cup {r}]

\* SelectComms: the execs of a thread that is switched out with another comm.
SelectComms(s, g, thread, lastComm, from, to) ==
  LET execs == SelectSeq([i \in DOMAIN s.comms |-> i],
                 LAMBDA i : /\ s.comms[i].thread = thread /\ s.comms[i].exec
                            /\ s.comms[i].time \in from..to /\ i # lastComm)
  IN  FoldLeft(LAMBDA h, i : Plotted(s, h, s.comms[i].time, thread, i), g, execs)

\* SelectSwitches; the regions are those of all graphs.
SelectSwitches(s, cpu, regions) ==
  FoldLeft(
    LAMBDA g, row :
      IF row.out
      THEN IF g.last # <<>> /\ g.last[1].to = row.from /\ g.last[1].commTo # row.commFrom
           THEN SelectComms(s, g, row.from, g.last[1].commTo, g.last[1].time, row.time)
           ELSE g
      ELSE LET begun == IF g.points # <<>> THEN g
                        ELSE Plotted(s, g, s.start, row.from, row.commFrom)
           IN  [Plotted(s, begun, row.time, row.to, row.commTo) EXCEPT !.last = <<row>>],
    [points |-> <<>>, regions |-> regions, last |-> <<>>],
    SelectSeq(s.rows, LAMBDA row : row.cpu = cpu))

\* SwitchGraphDataCollection: a graph for each cpu that has switches.
Collection(s) ==
  LET cpus == SetToSortSeq({s.rows[i].cpu : i \in DOMAIN s.rows}, <)
      all == FoldLeft(LAMBDA w, cpu :
                        LET g == SelectSwitches(s, cpu, w.regions)
                        IN  [data |-> Append(w.data, [cpu |-> cpu, points |-> g.points]),
                             regions |-> g.regions],
                      [data |-> <<>>, regions |-> {}], cpus)
  IN  all.data

\* GetStartTime and GetFinishTime.  The queries of the calls fail, for they name a column
\* that is not there, and what fails counts as no value.
StartTime(s) ==
  Min({s.rows[1].time} \cup (IF s.samples = <<>> THEN {} ELSE {s.samples[1]}))
FinishTime(s) ==
  Max({Last(s.rows).time} \cup (IF s.samples = <<>> THEN {} ELSE {Last(s.samples)}))
-----------------------------------------------------------------------------
(* Pixels.  A view is [lo, hi, range, pdp], with the scale Width / range.          *)
\* a / b rounded to the nearest integer, and a half to the even one.
RoundDiv(a, b) ==
  LET q == a \div b
      r == 2 * (a % b)
  IN  IF r > b \/ (r = b /\ q % 2 = 1) THEN q + 1 ELSE q

\* ToPDP: no places when the scale is 1 or more, else two for a scale from 1/10 on.
ToPDP(range) ==
  IF range =< Width THEN 0
  ELSE 1 + (CHOOSE k \in 1..range : range =< Width * 10^k /\ (k = 1 \/ range > Width * 10^(k - 1)))
Scaled(view) == [view EXCEPT !.range = view.hi - view.lo, !.pdp = ToPDP(view.hi - view.lo)]

XToPixel(view, x) ==
  LET up(d) == RoundDiv(d * Width * 10^view.pdp, view.range) \div 10^view.pdp
  IN  IF x >= view.lo THEN up(x - view.lo) ELSE -up(view.lo - x)
PixelToXRounded(view, px) == RoundDiv(px * view.range, Width) + view.lo
PixelToX(view, px) ==
  LET x == PixelToXRounded(view, px)
  IN  IF view.pdp = 0 /\ XToPixel(view, x) > px THEN x - 1 ELSE x

\* PaintPoint and paint: the bars [from, to, region, empty] in the order they are drawn.
PaintPoint(view, point, x) ==
  LET x0 == IF point.x < view.lo THEN view.lo ELSE point.x
      x1 == IF x > view.hi THEN view.hi ELSE x - 1
      p0 == XToPixel(view, x0)
      p1 == XToPixel(view, x1)
  IN  IF point.region.thread = Idle \/ x < view.lo THEN <<>>
      ELSE <<[from |-> p0, to |-> IF p1 - p0 + 1 < 2 THEN p0 ELSE p1,
              region |-> point.region, empty |-> x1 < x0]>>
Paint(view, points) ==
  LET shown == SelectSeq(points, LAMBDA p : p.x =< view.hi)
  IN  FlattenSeq([i \in DOMAIN shown |->
        PaintPoint(view, shown[i],
                   IF i < Len(shown) THEN shown[i + 1].x ELSE view.hi + 1)])

\* BinarySearchPoint: the halving of lower..higher.
BinarySearchPoint(points, target) ==
  LET search[w \in (0..Len(points)) \X (0..Len(points))] ==
        LET pos == (w[1] + w[2]) \div 2
            next == IF target >= points[pos + 1].x THEN <<pos, w[2]>> ELSE <<w[1], pos>>
        IN  IF next[2] =< next[1] + 1 THEN next[1] + 1 ELSE search[next]
  IN  search[<<0, Len(points)>>]

\* XPixelToData and EventToData: the regions under a pixel.
Position(points, x) == IF x < points[1].x THEN 1 ELSE BinarySearchPoint(points, x)
Under(view, points, px) ==
  LET from == PixelToX(view, px)
      to == PixelToX(view, px + 1)
  IN  IF to < points[1].x THEN {}
      ELSE {points[i].region : i \in Position(points, from)..Position(points, to)}
-----------------------------------------------------------------------------
(* The traced machine                                                        *)
\* Every event comes some time after the one before.
Event(s, gap) == [s EXCEPT !.now = @ + gap, !.n = @ + 1]
CommOf(s, thread) == Max({i \in DOMAIN s.comms : s.comms[i].thread = thread})

Switch(cpu, thread) ==
  /\ st.phase = "trace" /\ st.n < st.bound.events
  /\ st.on[cpu] # thread /\ \A c \in Cpus : thread = Idle \/ st.on[c] # thread
  /\ \E gap \in Gaps :
       LET s == Event(st, gap)
           row == [time |-> s.now, cpu |-> cpu, from |-> s.on[cpu], to |-> thread,
                   commFrom |-> CommOf(s, s.on[cpu]), commTo |-> CommOf(s, thread),
                   out |-> TRUE]
       IN  st' = [s EXCEPT !.on[cpu] = thread,
                           !.rows = @ \o <<row, [row EXCEPT !.out = FALSE]>>,
                           !.ran[cpu] = Append(@, [time |-> s.now, thread |-> thread,
                                                   comm |-> row.commTo])]
Exec(cpu) ==
  /\ st.phase = "trace" /\ st.n < st.bound.events /\ st.on[cpu] # Idle
  /\ \E gap \in Gaps :
       LET s == Event(st, gap)
           comms == Append(s.comms, [thread |-> s.on[cpu], time |-> s.now, exec |-> TRUE])
       IN  st' = [s EXCEPT !.comms = comms,
                           !.ran[cpu] = Append(@, [time |-> s.now, thread |-> s.on[cpu],
                                                   comm |-> Len(comms)])]
Sample ==
  /\ st.phase = "trace" /\ st.n < st.bound.events
  /\ \E gap \in Gaps : LET s == Event(st, gap) IN st' = [s EXCEPT !.samples = Append(@, s.now)]
-----------------------------------------------------------------------------
(* The window.  Its state is [view, selected, rect, forward]: the part that is      *)
(* shown, the one that is selected with the rectangle that shows it, and the        *)
(* bracket that shows where forward goes.                                       *)
NoRect == <<>>

OpenChart ==
  /\ st.phase = "trace" /\ st.rows # <<>>
  /\ LET s == [st EXCEPT !.start = StartTime(st)]
         all == [lo |-> 0, hi |-> FinishTime(st) - s.start + 1, range |-> 1, pdp |-> 0]
         window == [view |-> Scaled(all), selected |-> <<>>, rect |-> NoRect, forward |-> NoRect]
     IN  st' = [s EXCEPT !.phase = "view", !.data = Collection(s), !.window = window,
                         !.views = <<window.view>>, !.at = 1]

\* RBReleaseEvent and SelectEvent, from pixel px0 to px1 or outside the graph.
SelectEvent(px0, px1) ==
  LET view == st.window.view
      x0 == PixelToX(view, px0)
      x1 == PixelToX(view, px1 + 1)
  IN  /\ st.phase = "view" /\ st.steps < st.bound.steps
      /\ st' = [st EXCEPT !.steps = @ + 1,
                 !.window.selected = <<x0, IF x1 - x0 < 1 THEN x1 + 1 ELSE x1>>,
                 !.window.rect = <<px0, px1>>]
SelectNothing ==
  /\ st.phase = "view" /\ st.steps < st.bound.steps
  /\ st' = [st EXCEPT !.steps = @ + 1, !.window.selected = <<>>, !.window.rect = NoRect]

\* Zoom: what is pushed is a copy of the state, with the bracket of the new view.
Pushed(s, view) == [s.window EXCEPT !.forward = s.window.rect]
Zoom ==
  /\ st.phase = "view" /\ st.steps < st.bound.steps /\ st.window.selected # <<>>
  /\ LET view == Scaled([st.window.view EXCEPT !.lo = st.window.selected[1],
                                              !.hi = st.window.selected[2]])
     IN  st' = [st EXCEPT !.steps = @ + 1, !.back = Append(@, Pushed(st, view)),
                 !.fwd = <<>>,
                 !.window = [view |-> view, selected |-> <<>>, rect |-> NoRect,
                             forward |-> NoRect],
                 !.views = Append(SubSeq(@, 1, st.at), view), !.at = @ + 1]

Updated(window) == [window EXCEPT !.view.pdp = ToPDP(window.view.range)]
Back ==
  /\ st.phase = "view" /\ st.steps < st.bound.steps /\ st.back # <<>>
  /\ st' = [st EXCEPT !.steps = @ + 1, !.fwd = Append(@, st.window),
              !.window = Updated(Last(st.back)), !.back = Front(@), !.at = @ - 1]
Forward ==
  /\ st.phase = "view" /\ st.steps < st.bound.steps /\ st.fwd # <<>>
  /\ st' = [st EXCEPT !.steps = @ + 1, !.back = Append(@, st.window),
              !.window = Updated(Last(st.fwd)), !.fwd = Front(@), !.at = @ + 1]

Init ==
  \E bound \in Bounds, first \in {Idle, Min(Tasks)} :
    LET threads == SetToSortSeq({Idle} \cup Tasks, <)
        comms == [i \in DOMAIN threads |-> [thread |-> threads[i], time |-> 0, exec |-> FALSE]]
        on == [c \in Cpus |-> IF c = Min(Cpus) THEN first ELSE Idle]
        comm(t) == CHOOSE i \in DOMAIN comms : comms[i].thread = t
    IN  st = [bound |-> bound, phase |-> "trace", now |-> 0, n |-> 0, on |-> on,
              comms |-> comms, rows |-> <<>>, samples |-> <<>>, start |-> 0,
              ran |-> [c \in Cpus |-> <<[time |-> 0, thread |-> on[c], comm |-> comm(on[c])]>>],
              data |-> <<>>, window |-> <<>>, back |-> <<>>, fwd |-> <<>>, steps |-> 0,
              views |-> <<>>, at |-> 0]

Next ==
  \/ \E cpu \in Cpus : Exec(cpu) \/ \E thread \in {Idle} \cup Tasks : Switch(cpu, thread)
  \/ Sample \/ OpenChart
  \/ \E px0 \in 0..Width, px1 \in 0..Width : px0 =< px1 /\ SelectEvent(px0, px1)
  \/ SelectNothing \/ Zoom \/ Back \/ Forward
-----------------------------------------------------------------------------
(* Properties                                                                *)
TypeOK ==
  /\ st.phase \in {"trace", "view"} /\ st.n \in 0..st.bound.events
  /\ st.steps \in 0..st.bound.steps
  /\ st.phase = "view" =>
       /\ st.window.view.lo < st.window.view.hi
       /\ Len(st.back) = st.at - 1 /\ Len(st.back) + Len(st.fwd) + 1 = Len(st.views)
  /\ \A i \in DOMAIN st.data : \A k \in 1..Len(st.data[i].points) - 1 :
       0 =< st.data[i].points[k].x /\ st.data[i].points[k].x =< st.data[i].points[k + 1].x

\* What a graph shows at a time is the thread that ran on the cpu, with the program that
\* it ran, except for execs before the first switch and after the last.
PointsRight ==
  \A i \in DOMAIN st.data :
    LET g == st.data[i]
        switches == {st.rows[k].time : k \in {k \in DOMAIN st.rows : st.rows[k].cpu = g.cpu}}
    IN  \A time \in st.start..st.now :
          LET ran == Last(SelectSeq(st.ran[g.cpu], LAMBDA r : r.time =< time))
              shown == Last(SelectSeq(g.points, LAMBDA p : p.x =< time - st.start)).region
          IN  /\ shown.thread = ran.thread
              /\ time \in Min(switches)..(Max(switches) - 1) =>
                   shown.comm = ran.comm /\ shown.exec = ran.comm

\* Of the task that a pixel shows, the pointer on the pixel tells; unless the pixel is
\* that of a bar of no length, which is drawn although the task has already gone.  The
\* time that is read off a pixel is, when there are pixels enough, the last one that is
\* drawn at the pixel or before it.
PaintedIsRead ==
  /\ st.phase = "view" /\ st.window.view.pdp = 0 =>
       \A px \in 0..Width :
         LET x == PixelToX(st.window.view, px)
         IN  XToPixel(st.window.view, x) =< px /\ px < XToPixel(st.window.view, x + 1)
  /\ \A i \in DOMAIN st.data :
       LET view == st.window.view
           points == st.data[i].points
           bars == Paint(view, points)
       IN  \A px \in 0..Width :
             LET on == SelectSeq(bars, LAMBDA b : b.from =< px /\ px =< b.to)
             IN  on # <<>> /\ ~Last(on).empty => Last(on).region \in Under(view, points, px)

\* Going back and forward shows the views that were shown, at their scale, and the
\* bracket shows what was selected for the next one.
HistoryKept ==
  st.phase = "view" =>
    /\ st.window.view = st.views[st.at] /\ st.window.view = Scaled(st.views[st.at])
    /\ st.at < Len(st.views) => st.window.forward # NoRect
    /\ st.at = Len(st.views) => st.window.forward = NoRect
=============================================================================
