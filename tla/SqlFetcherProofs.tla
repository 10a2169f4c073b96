-------------------------- MODULE SqlFetcherProofs ---------------------------
(***************************************************************************)
(* That the records reach the model (FetchInv of SqlFetcher) for every     *)
(* buffer, every sequence of record sizes and every query.                 *)
(*                                                                         *)
(* The invariant says where each unread row lies in the ring buffer.  It   *)
(* has three layouts: the writer is ahead of the reader (SameLap), it has  *)
(* gone over the top and the reader has not (SplitLap), or both have and   *)
(* the process still knows an older tail (NextLap).  The lemmas about them *)
(* speak of constants: a buffer, the places of the rows and the four       *)
(* positions, so that the steps only have to say which they are.           *)
(***************************************************************************)
EXTENDS SqlFetcher, WellFoundedInduction, TLAPS
-----------------------------------------------------------------------------
(* The inductive invariant.                                                *)

Rows == 1..Len(SizeOf)
Taken == Len(model.rows)
Stored == proc.fetched + proc.added

QueryRec == [rows : 0..Len(SizeOf), paged : BOOLEAN, last : 0..Len(SizeOf),
             left : 0..Len(SizeOf), limit : 0..2]
ProcRec == [pc : {"clear", "target", "wait", "next", "space", "tail", "full",
                  "publish", "signal", "done", "exit", "exited"},
            fetched : Nat, added : Nat, left : 0..Chunk, row : Nat,
            head : 0..Size, tail : 0..Size, more : BOOLEAN]
ThreadRec == [pc : {"start", "clear", "count", "check", "emit", "wait", "exited"},
              count : Nat, last : Nat, fetched : Nat]
GuiRec == [pc : {"idle", "take", "update", "events", "exited", "garbled"} \cup Farewell,
           count : Nat, left : Nat, tail : 0..Size, target : Int]
ModelRec == {m \in [rows : Seq(Rows), shown : Nat, more : BOOLEAN, lastRead : Nat] :
               m.shown <= Len(m.rows)}
BarRec == [state : {"none", "idle", "busy", "done"}, start : Nat, target : Nat]
Buffers == [Cells -> (0..Len(SizeOf)) \X (Nat \cup {-1})]

FetchTypes ==
  /\ query \in QueryRec /\ proc \in ProcRec /\ thread \in ThreadRec
  /\ gui \in GuiRec /\ model \in ModelRec /\ bars \in [Bars -> BarRec]
  /\ buffer \in Buffers /\ tail \in 0..Size /\ fetchCount \in Nat
  /\ processTarget \in Int /\ signals \in Seq(0..Len(SizeOf))
  /\ fetchingDone \in BOOLEAN /\ waitEvent \in BOOLEAN /\ fetchedEvent \in BOOLEAN
  /\ more \in BOOLEAN /\ lapped \in BOOLEAN /\ missed \in BOOLEAN

\* Where the process and its query stand.
ProcessInv ==
  /\ query.last = Stored + (IF proc.row = 0 THEN 0 ELSE 1)
  /\ query.last + query.left <= query.rows
  /\ query.paged => query.limit = 0
  /\ ~query.paged => \/ query.limit = 2 /\ query.last = 0 /\ query.left = 0
                     \/ query.limit = 1 /\ query.last + query.left = query.rows
  /\ proc.row # 0 <=> proc.pc \in {"space", "tail", "full"}
  /\ proc.row # 0 => proc.row = Stored + 1 /\ proc.added < proc.left
  /\ proc.added <= proc.left
  /\ proc.pc \notin {"next", "space", "tail", "full", "publish"} => proc.added = 0
  /\ fetchCount = proc.fetched
  /\ ~proc.more => /\ query.last = query.rows
                   /\ proc.pc \in {"publish", "signal", "done", "exit", "exited"}
  /\ proc.pc \in {"done", "exit", "exited"} => ~proc.more \/ Leaving
  /\ processTarget >= 0 \/ Leaving
  /\ fetchingDone => proc.pc \in {"exit", "exited"} \/ Leaving

\* What the helper thread has announced, and why it ended.
ThreadInv ==
  /\ thread.fetched = thread.last /\ thread.last <= fetchCount
  /\ thread.count <= fetchCount
  /\ thread.pc = "emit" => thread.last < thread.count
  /\ ~more => thread.pc = "exited" \/ Leaving
  /\ thread.pc = "exited" => missed \/ Leaving \/ thread.last = query.rows

\* An announced 0 is the last thing the GUI hears, when it has all the rows.
EndInv ==
  /\ \A i \in 1..Len(signals) :
       signals[i] = 0 => i = Len(signals) /\ thread.pc = "exited"
  /\ gui.left <= gui.count
  /\ gui.pc = "update" => gui.left = 0
  /\ gui.pc \in {"take", "update"} /\ gui.count = 0 =>
       signals = <<>> /\ thread.pc = "exited"
  /\ ~model.more => /\ thread.pc = "exited" /\ signals = <<>>
                    /\ gui.pc \notin {"take", "update"}
                    /\ missed \/ Taken = query.rows
  /\ \A b \in Bars : bars[b].state = "done" => ~model.more
-----------------------------------------------------------------------------
(* The unread rows in the ring buffer: row u lies at pos[u].  Of the other *)
(* letters, r is the rows taken and w those stored; the reader stands at   *)
(* g and the writer at h, t is the published tail and k what the process   *)
(* knows of it.                                                            *)

After(pos, u) == pos[u] + RecordSize(u)

\* Rows a to b lie one after the other from x to y.
Stretch(pos, a, b, x, y) ==
  /\ x <= y
  /\ y = IF b < a THEN x ELSE After(pos, b)
  /\ \A u \in a..b : /\ pos[u] = IF u = a THEN x ELSE After(pos, u - 1)
                     /\ x <= pos[u] /\ After(pos, u) <= y
  /\ \A u, v \in a..b : u < v => After(pos, u) <= pos[v]

Kept(buf, pos, a, b) ==
  \A u \in a..b :
    /\ After(pos, u) < Size
    /\ \A i \in 0..(RecordSize(u) - 1) : buf[pos[u] + i] = <<u, i>>

\* Whether a reader at x goes on at the bottom of the buffer.
Closed(buf, x) == Size - x < Hdr \/ buf[x] = EndMark

\* The writer is before the reader, who is not behind the tail that the process knows.
SameLap(pos, r, w, g, h, t, k) ==
  Stretch(pos, r + 1, w, g, h) /\ k <= t /\ t <= g

\* Reader and writer are both below it.
NextLap(pos, r, w, g, h, t, k) ==
  /\ Stretch(pos, r + 1, w, g, h) /\ h < k /\ 0 < g
  /\ k <= t \/ (0 < t /\ t <= g)

\* Only the writer is: the rows from m on lie at the bottom of the buffer.
SplitLap(buf, pos, r, w, g, h, t, k, m) ==
  /\ h <= k /\ (h = k => k = 0) /\ k <= t /\ t <= g /\ w >= 1
  /\ \E top \in 0..Size : Closed(buf, top) /\ Stretch(pos, r + 1, m - 1, g, top)
  /\ Stretch(pos, m, w, 0, h)

Laid(buf, pos, r, w, g, h, t, k) ==
  /\ Kept(buf, pos, r + 1, w)
  /\ \/ SameLap(pos, r, w, g, h, t, k)
     \/ NextLap(pos, r, w, g, h, t, k)
     \/ \E m \in (r + 1)..(w + 1) : SplitLap(buf, pos, r, w, g, h, t, k, m)

RingInv ==
  lapped \/ /\ gui.pc # "garbled"
            /\ \A i \in 1..Taken : model.rows[i] = i
            /\ Taken = 0 => gui.tail = 0
            /\ \E pos \in [Rows -> Nat] :
                 Laid(buffer, pos, Taken, Stored, gui.tail, proc.head, tail, proc.tail)

IInv == FetchTypes /\ ProcessInv /\ ThreadInv /\ EndInv /\ CountsAddUp /\ RingInv
-----------------------------------------------------------------------------
(* The sum of a sequence of counts.                                        *)

LEMMA LeastNumber ==
  ASSUME NEW T \in SUBSET Nat, T # {}
  PROVE  \E m \in T : \A k \in T : m <= k
<1> DEFINE R == OpToRel(<, Nat)
<1>1. IsWellFoundedOn(R, Nat)
  BY NatLessThanWellFounded
<1>2. R = {ss \in Nat \X Nat : ss[1] < ss[2]}
  BY DEF OpToRel
<1> HIDE DEF R
<1>3. PICK m \in T : \A k \in T : <<k, m>> \notin R
  BY <1>1, WFMin
<1>4. \A k \in T : ~(k < m)
  BY <1>2, <1>3
<1> QED
  BY <1>3, <1>4

\* A set of numbers that has 0, and with each number the next, has all of them.
LEMMA Induction ==
  ASSUME NEW T \in SUBSET Nat, 0 \in T, \A n \in T : n + 1 \in T
  PROVE  T = Nat
<1> SUFFICES ASSUME T # Nat PROVE FALSE
  OBVIOUS
<1>1. PICK m \in Nat \ T : \A k \in Nat \ T : m <= k
  BY LeastNumber
<1>2. m - 1 \in T
  BY <1>1
<1> QED
  BY <1>1, <1>2

\* A sequence of sums that goes up by each count ends with the total.
LEMMA TotalIsLast ==
  ASSUME NEW s \in Seq(Nat), NEW sums \in [0..Len(s) -> Nat],
         \A n \in 1..Len(s) : sums[n] = sums[n - 1] + s[n]
  PROVE  Total(s) \in Nat /\ sums[Len(s)] = sums[0] + Total(s)
<1> DEFINE Adds(f) == f = [n \in 0..Len(s) |-> IF n = 0 THEN 0 ELSE f[n - 1] + s[n]]
           sum == CHOOSE f : Adds(f)
           from0 == [n \in 0..Len(s) |-> sums[n] - sums[0]]
<1>1. Adds(from0)
  <2>1. ASSUME NEW n \in 0..Len(s)
        PROVE  from0[n] = IF n = 0 THEN 0 ELSE from0[n - 1] + s[n]
    <3>1. CASE n = 0
      BY <3>1
    <3>2. CASE n # 0
      <4>1. n \in 1..Len(s) /\ n - 1 \in 0..Len(s)
        BY <3>2
      <4>2. sums[n] = sums[n - 1] + s[n] /\ s[n] \in Nat
        BY <4>1
      <4>3. Len(s) \in Nat /\ 0 \in 0..Len(s)
        OBVIOUS
      <4>4. sums[n] \in Nat /\ sums[n - 1] \in Nat /\ sums[0] \in Nat
        BY <4>1, <4>3
      <4>5. from0[n] = sums[n] - sums[0] /\ from0[n - 1] = sums[n - 1] - sums[0]
        BY <4>1
      <4> QED
        BY <3>2, <4>2, <4>4, <4>5
    <3> QED
      BY <3>1, <3>2
  <2> QED
    BY <2>1
<1>2. Adds(sum)
  BY <1>1
<1>3. Total(s) = sum[Len(s)]
  BY DEF Total
<1> HIDE DEF sum
<1>4. \A n \in 0..Len(s) : sum[n] = IF n = 0 THEN 0 ELSE sum[n - 1] + s[n]
  BY <1>2
<1> DEFINE T == {n \in Nat : n <= Len(s) => sums[n] = sums[0] + sum[n] /\ sum[n] \in Nat}
<1>5. 0 \in T
  BY <1>4
<1>6. ASSUME NEW n \in T PROVE n + 1 \in T
  <2> SUFFICES ASSUME n + 1 <= Len(s)
               PROVE  sums[n + 1] = sums[0] + sum[n + 1] /\ sum[n + 1] \in Nat
    OBVIOUS
  <2>1. n \in 0..Len(s) /\ n + 1 \in 1..Len(s) /\ n + 1 \in 0..Len(s) /\ (n + 1) - 1 = n
    OBVIOUS
  <2>2. sums[n] = sums[0] + sum[n] /\ sum[n] \in Nat
    BY <2>1
  <2>3. sums[n + 1] = sums[n] + s[n + 1]
    BY <2>1
  <2>4. sum[n + 1] = sum[n] + s[n + 1]
    BY <2>1, <1>4
  <2>5. s[n + 1] \in Nat /\ 0 \in 0..Len(s)
    BY <2>1
  <2>6. sums[0] \in Nat
    BY <2>5
  <2> QED
    BY <2>2, <2>3, <2>4, <2>5, <2>6
<1>7. T = Nat
  <2> HIDE DEF T
  <2> QED
    BY <1>5, <1>6, Induction DEF T
<1>8. Len(s) \in T
  BY <1>7
<1> QED
  BY <1>3, <1>8

\* There are such sums.
LEMMA SumsExist ==
  ASSUME NEW s \in Seq(Nat)
  PROVE  \E sums \in [0..Len(s) -> Nat] :
           sums[0] = 0 /\ \A n \in 1..Len(s) : sums[n] = sums[n - 1] + s[n]
<1> DEFINE Summed(k) == \E f \in [0..k -> Nat] :
                          f[0] = 0 /\ \A n \in 1..k : f[n] = f[n - 1] + s[n]
           T == {k \in Nat : k <= Len(s) => Summed(k)}
<1>1. 0 \in T
  <2>1. [n \in 0..0 |-> 0] \in [0..0 -> Nat] /\ [n \in 0..0 |-> 0][0] = 0
        /\ 1..0 = {}
    OBVIOUS
  <2> QED
    BY <2>1
<1>2. ASSUME NEW k \in Nat, k \in T PROVE k + 1 \in T
  <2> SUFFICES ASSUME k + 1 <= Len(s) PROVE Summed(k + 1)
    <3> HIDE DEF Summed
    <3> QED
      BY <1>2
  <2>1. k <= Len(s) /\ k + 1 \in 1..Len(s)
    OBVIOUS
  <2>2. PICK f \in [0..k -> Nat] : f[0] = 0 /\ \A n \in 1..k : f[n] = f[n - 1] + s[n]
    BY <1>2, <2>1
  <2>3. s[k + 1] \in Nat /\ f[k] \in Nat
    BY <2>1
  <2> DEFINE g == [n \in 0..(k + 1) |-> IF n <= k THEN f[n] ELSE f[k] + s[k + 1]]
  <2>4. g \in [0..(k + 1) -> Nat] /\ g[0] = 0
    BY <2>2, <2>3
  <2>5. ASSUME NEW n \in 1..(k + 1) PROVE g[n] = g[n - 1] + s[n]
    <3>1. n \in 0..(k + 1) /\ n - 1 \in 0..(k + 1) /\ n - 1 <= k
      OBVIOUS
    <3>2. CASE n <= k
      BY <2>2, <3>1, <3>2
    <3>3. CASE n = k + 1
      BY <2>2, <3>1, <3>3
    <3> QED
      BY <3>2, <3>3
  <2> QED
    BY <2>4, <2>5
<1>3. T = Nat
  <2>1. T \in SUBSET Nat
    OBVIOUS
  <2> HIDE DEF T
  <2> QED
    BY <1>1, <1>2, <2>1, Induction
<1>4. Summed(Len(s))
  <2> HIDE DEF Summed
  <2>1. Len(s) \in Nat /\ Len(s) <= Len(s)
    OBVIOUS
  <2> QED
    BY <1>3, <2>1
<1> QED
  BY <1>4

LEMMA TotalOfNone == Total(<<>>) = 0
<1> DEFINE sums == [n \in 0..0 |-> 0]
<1>1. <<>> \in Seq(Nat) /\ Len(<<>>) = 0
  OBVIOUS
<1>2. sums \in [0..Len(<<>>) -> Nat]
      /\ \A n \in 1..Len(<<>>) : sums[n] = sums[n - 1] + <<>>[n]
  BY <1>1
<1>3. Total(<<>>) \in Nat /\ sums[Len(<<>>)] = sums[0] + Total(<<>>)
  <2> HIDE DEF sums
  <2> QED
    BY ONLY <1>1, <1>2, TotalIsLast
<1> QED
  BY <1>1, <1>3

LEMMA TotalOfAppend ==
  ASSUME NEW s \in Seq(Nat), NEW x \in Nat
  PROVE  Total(s) \in Nat /\ Total(Append(s, x)) = Total(s) + x
<1>1. PICK sums \in [0..Len(s) -> Nat] :
         sums[0] = 0 /\ \A n \in 1..Len(s) : sums[n] = sums[n - 1] + s[n]
  BY SumsExist
<1>2. Total(s) \in Nat /\ sums[Len(s)] = sums[0] + Total(s)
  BY <1>1, TotalIsLast
<1> DEFINE t == Append(s, x)
           longer == [n \in 0..Len(t) |-> IF n <= Len(s) THEN sums[n] ELSE sums[Len(s)] + x]
<1>3. t \in Seq(Nat) /\ Len(t) = Len(s) + 1 /\ t[Len(t)] = x
      /\ \A n \in 1..Len(s) : t[n] = s[n]
  OBVIOUS
<1>4. longer \in [0..Len(t) -> Nat] /\ \A n \in 1..Len(t) : longer[n] = longer[n - 1] + t[n]
  <2>1. ASSUME NEW n \in 0..Len(t) PROVE longer[n] \in Nat
    <3>1. sums[Len(s)] \in Nat /\ (n <= Len(s) => n \in 0..Len(s) /\ sums[n] \in Nat)
      BY <1>3
    <3> QED
      BY <3>1
  <2>2. ASSUME NEW n \in 1..Len(t) PROVE longer[n] = longer[n - 1] + t[n]
    <3>1. n \in 0..Len(t) /\ n - 1 \in 0..Len(t) /\ n - 1 <= Len(s)
          /\ (n <= Len(s) \/ n = Len(s) + 1)
      BY <1>3
    <3>2. CASE n <= Len(s)
      BY <1>1, <1>3, <3>1, <3>2
    <3>3. CASE n = Len(s) + 1
      BY <1>1, <1>3, <3>1, <3>3
    <3> QED
      BY ONLY <3>1, <3>2, <3>3
  <2>3. longer \in [0..Len(t) -> Nat]
    BY <2>1
  <2> QED
    BY <2>2, <2>3
<1>5. Total(t) \in Nat /\ longer[Len(t)] = longer[0] + Total(t)
  <2> HIDE DEF t, longer
  <2> QED
    BY <1>3, <1>4, TotalIsLast
<1>6. longer[Len(t)] = sums[Len(s)] + x /\ longer[0] = 0
  BY <1>1, <1>3
<1> QED
  BY <1>1, <1>2, <1>5, <1>6

LEMMA RestOf ==
  ASSUME NEW s \in Seq(Nat), s # <<>>
  PROVE  /\ Rest(s) \in Seq(Nat) /\ Len(Rest(s)) = Len(s) - 1
         /\ Len(s) \in Nat /\ Len(s) >= 1 /\ s[1] = Head(s)
         /\ \A i \in 1..Len(Rest(s)) : Rest(s)[i] = s[i + 1]
         /\ Len(s) = 1 => Rest(s) = <<>>
<1>1. PICK n \in Nat : n = Len(s) /\ n >= 1
  OBVIOUS
<1>2. Rest(s) \in Seq(Nat)
  BY DEF Rest
<1>3. Len(Rest(s)) = Len(s) - 1
  <2>1. Len(SubSeq(s, 2, n)) = n - 1
    BY <1>1
  <2> QED
    BY <1>1, <2>1 DEF Rest
<1>4. \A i \in 1..Len(Rest(s)) : Rest(s)[i] = s[i + 1]
  BY <1>1 DEF Rest
<1>5. Len(s) = 1 => Rest(s) = <<>>
  BY <1>2, <1>3
<1> QED
  BY <1>1, <1>2, <1>3, <1>4, <1>5

LEMMA TotalOfRest ==
  ASSUME NEW s \in Seq(Nat), s # <<>>
  PROVE  /\ Rest(s) \in Seq(Nat) /\ Head(s) \in Nat
         /\ Total(Rest(s)) \in Nat /\ Total(s) = Head(s) + Total(Rest(s))
<1>1. PICK sums \in [0..Len(s) -> Nat] :
         sums[0] = 0 /\ \A n \in 1..Len(s) : sums[n] = sums[n - 1] + s[n]
  BY SumsExist
<1>2. Total(s) \in Nat /\ sums[Len(s)] = sums[0] + Total(s)
  BY <1>1, TotalIsLast
<1> DEFINE t == Rest(s)
           shorter == [n \in 0..Len(t) |-> sums[n + 1]]
<1>3. t \in Seq(Nat) /\ Len(t) = Len(s) - 1 /\ \A n \in 1..Len(t) : t[n] = s[n + 1]
  BY RestOf
<1>4. shorter \in [0..Len(t) -> Nat]
      /\ \A n \in 1..Len(t) : shorter[n] = shorter[n - 1] + t[n]
  <2>1. shorter \in [0..Len(t) -> Nat]
    BY <1>1, <1>3
  <2>2. ASSUME NEW n \in 1..Len(t)
        PROVE  shorter[n] = shorter[n - 1] + t[n]
    <3>1. n + 1 \in 1..Len(s) /\ (n + 1) - 1 = n /\ (n - 1) + 1 = n
          /\ n \in 0..Len(t) /\ n - 1 \in 0..Len(t)
      BY <1>3
    <3>2. sums[n + 1] = sums[n] + s[n + 1]
      BY <1>1, <3>1
    <3> QED
      BY <1>3, <3>1, <3>2
  <2> QED
    BY <2>1, <2>2
<1>5. Total(t) \in Nat /\ shorter[Len(t)] = shorter[0] + Total(t)
  <2> HIDE DEF t, shorter
  <2> QED
    BY <1>3, <1>4, TotalIsLast
<1>6. shorter[Len(t)] = sums[Len(s)] /\ shorter[0] = sums[1]
  BY <1>3
<1>7. Len(s) >= 1 /\ sums[1] = sums[0] + s[1] /\ Head(s) = s[1] /\ s[1] \in Nat
  BY <1>1
<1> QED
  BY <1>1, <1>2, <1>3, <1>5, <1>6, <1>7
-----------------------------------------------------------------------------
(* Stretches of rows.                                                      *)

LEMMA Sizes ==
  ASSUME NEW u \in Rows
  PROVE  /\ RecordSize(u) \in Nat /\ Hdr \in Nat \ {0} /\ Size \in Nat
         /\ Hdr < RecordSize(u) /\ RecordSize(u) < Size
<1>1. SizeOf[u] \in Nat \ {0} /\ u \in DOMAIN SizeOf
  BY FetcherAssumption DEF Rows
<1>2. Hdr \in Nat \ {0} /\ Size \in Nat
  BY FetcherAssumption
<1>3. RecordSize(u) \in Nat /\ Hdr < RecordSize(u)
  BY <1>1, <1>2 DEF RecordSize
<1>4. RecordSize(u) < Size
  BY <1>1, FetcherAssumption
<1> QED
  BY <1>2, <1>3, <1>4

LEMMA Places ==
  ASSUME NEW pos \in [Rows -> Nat], NEW u \in Rows
  PROVE  /\ pos[u] \in Nat /\ After(pos, u) \in Nat /\ pos[u] < After(pos, u)
         /\ After(pos, u) = pos[u] + RecordSize(u)
BY Sizes DEF After

LEMMA EmptyStretch ==
  ASSUME NEW pos, NEW a \in Nat, NEW x \in Nat
  PROVE  Stretch(pos, a, a - 1, x, x)
<1>1. a - 1 < a /\ a..(a - 1) = {} /\ x <= x
  OBVIOUS
<1> QED
  BY <1>1 DEF Stretch

\* Only the places of its rows matter.
LEMMA SameStretch ==
  ASSUME NEW pos, NEW q, NEW a \in Nat, NEW b \in Int, NEW x \in Nat, NEW y \in Nat,
         Stretch(pos, a, b, x, y), \A u \in a..b : q[u] = pos[u]
  PROVE  Stretch(q, a, b, x, y)
<1>1. \A u \in a..b : After(q, u) = After(pos, u)
  BY DEF After
<1>2. ASSUME NEW u \in a..b
      PROVE  /\ q[u] = IF u = a THEN x ELSE After(q, u - 1)
             /\ x <= q[u] /\ After(q, u) <= y
  <2>1. /\ pos[u] = IF u = a THEN x ELSE After(pos, u - 1)
        /\ x <= pos[u] /\ After(pos, u) <= y
    BY DEF Stretch
  <2>2. u # a => u - 1 \in a..b
    OBVIOUS
  <2> QED
    BY <1>1, <2>1, <2>2
<1>3. \A u, v \in a..b : u < v => After(q, u) <= q[v]
  BY <1>1 DEF Stretch
<1>4. x <= y /\ y = IF b < a THEN x ELSE After(q, b)
  <2>1. ~(b < a) => b \in a..b
    OBVIOUS
  <2> QED
    BY <1>1, <2>1 DEF Stretch
<1> QED
  BY <1>2, <1>3, <1>4 DEF Stretch

\* A row written at its end makes it longer.
LEMMA StretchGrows ==
  ASSUME NEW pos \in [Rows -> Nat], NEW a \in Nat, NEW b \in Nat, a..b \subseteq Rows,
         NEW x \in Nat, NEW y \in Nat, Stretch(pos, a, b, x, y),
         NEW row \in Rows, row = b + 1, a <= row,
         NEW q, q = [pos EXCEPT ![row] = y]
  PROVE  Stretch(q, a, row, x, y + RecordSize(row))
<1>1. /\ row \notin a..b /\ a..row = (a..b) \cup {row} /\ row \in Nat /\ a \in Int /\ b \in Int
      /\ \A u \in a..b : u < row
  OBVIOUS
<1>2. q \in [Rows -> Nat] /\ q[row] = y /\ \A u \in a..b : q[u] = pos[u]
  BY <1>1
<1>3. After(q, row) = y + RecordSize(row) /\ RecordSize(row) \in Nat
      /\ \A u \in a..b : After(q, u) = After(pos, u)
  BY <1>2, Sizes DEF After
<1>4. x <= y /\ y = IF b < a THEN x ELSE After(pos, b)
  BY DEF Stretch
<1>5. \A u \in a..b : /\ pos[u] = IF u = a THEN x ELSE After(pos, u - 1)
                      /\ x <= pos[u] /\ After(pos, u) <= y /\ After(pos, u) \in Nat
  BY Places DEF Stretch
<1>6. ASSUME NEW u \in a..row
      PROVE  /\ q[u] = IF u = a THEN x ELSE After(q, u - 1)
             /\ x <= q[u] /\ After(q, u) <= y + RecordSize(row)
  <2>1. CASE u \in a..b
    <3>1. u # a => u - 1 \in a..b
      BY <2>1
    <3>2. After(q, u) <= y + RecordSize(row)
      <4>1. After(q, u) = After(pos, u) /\ After(pos, u) <= y /\ After(pos, u) \in Nat
        BY <1>3, <1>5, <2>1
      <4> QED
        BY ONLY <1>3, <4>1, y \in Nat
    <3> QED
      BY <1>2, <1>3, <1>5, <2>1, <3>1, <3>2
  <2>2. CASE u = row
    <3>1. u # a => ~(b < a) /\ b \in a..b /\ u - 1 = b
      BY <2>2
    <3>2. u = a => b < a
      BY <2>2
    <3>3. y + RecordSize(row) <= y + RecordSize(row)
      BY <1>3
    <3>4. q[u] = IF u = a THEN x ELSE After(q, u - 1)
      <4>1. CASE u = a
        BY <1>2, <1>4, <2>2, <3>2, <4>1
      <4>2. CASE u # a
        BY <1>2, <1>3, <1>4, <2>2, <3>1, <4>2
      <4> QED
        BY <4>1, <4>2
    <3> QED
      BY <1>2, <1>3, <1>4, <2>2, <3>3, <3>4
  <2> QED
    BY <1>1, <2>1, <2>2
<1>7. ASSUME NEW u \in a..row, NEW v \in a..row, u < v
      PROVE  After(q, u) <= q[v]
  <2>1. u \in a..b
    BY <1>7
  <2>2. CASE v \in a..b
    <3>1. After(pos, u) <= pos[v]
      BY <1>7, <2>1, <2>2 DEF Stretch
    <3> QED
      BY <1>2, <1>3, <2>1, <2>2, <3>1
  <2>3. CASE v = row
    BY <1>2, <1>3, <1>5, <2>1, <2>3
  <2> QED
    BY <1>1, <2>2, <2>3
<1>8. ~(row < a) /\ x <= y + RecordSize(row)
  BY <1>1, <1>3, <1>4
<1> QED
  BY <1>3, <1>6, <1>7, <1>8 DEF Stretch

\* The first row of it lies at its beginning; without that row it begins behind it.
LEMMA StretchShrinks ==
  ASSUME NEW pos \in [Rows -> Nat], NEW a \in Nat, NEW b \in Nat, a..b \subseteq Rows,
         NEW x \in Nat, NEW y \in Nat, Stretch(pos, a, b, x, y), a <= b
  PROVE  /\ pos[a] = x /\ After(pos, a) \in Nat /\ x < After(pos, a) /\ After(pos, a) <= y
         /\ Stretch(pos, a + 1, b, After(pos, a), y)
<1>1. a \in a..b /\ a \in Rows
  OBVIOUS
<1>2. pos[a] = x /\ After(pos, a) \in Nat /\ x < After(pos, a) /\ After(pos, a) <= y
  BY <1>1, Places DEF Stretch
<1>3. y = IF b < a + 1 THEN After(pos, a) ELSE After(pos, b)
  BY DEF Stretch
<1>4. ASSUME NEW u \in (a + 1)..b
      PROVE  /\ pos[u] = IF u = a + 1 THEN After(pos, a) ELSE After(pos, u - 1)
             /\ After(pos, a) <= pos[u] /\ After(pos, u) <= y
  <2>1. u \in a..b /\ u # a /\ a < u /\ (u = a + 1 => u - 1 = a)
    OBVIOUS
  <2>2. pos[u] = After(pos, u - 1) /\ After(pos, u) <= y /\ After(pos, a) <= pos[u]
    BY <1>1, <2>1 DEF Stretch
  <2> QED
    BY <2>1, <2>2
<1>5. \A u, v \in (a + 1)..b : u < v => After(pos, u) <= pos[v]
  <2>1. (a + 1)..b \subseteq a..b
    OBVIOUS
  <2> QED
    BY <2>1 DEF Stretch
<1> QED
  BY <1>2, <1>3, <1>4, <1>5 DEF Stretch

\* Nothing is written to the cells of rows a to b.
Untouched(buf, b1, pos, a, b) ==
  \A u \in a..b, c \in Cells :
    pos[u] <= c /\ c < After(pos, u) => b1[c] = buf[c]

LEMMA StaysKept ==
  ASSUME NEW buf, NEW b1, NEW pos \in [Rows -> Nat], NEW q, NEW a \in Nat, NEW b \in Nat,
         a..b \subseteq Rows, Kept(buf, pos, a, b), \A u \in a..b : q[u] = pos[u],
         Untouched(buf, b1, pos, a, b)
  PROVE  Kept(b1, q, a, b)
<1>1. ASSUME NEW u \in a..b
      PROVE  /\ After(q, u) < Size
             /\ \A i \in 0..(RecordSize(u) - 1) : b1[q[u] + i] = <<u, i>>
  <2>1. /\ After(pos, u) = pos[u] + RecordSize(u) /\ pos[u] \in Nat /\ Size \in Nat
        /\ RecordSize(u) \in Nat /\ q[u] = pos[u] /\ After(q, u) = After(pos, u)
    BY Sizes DEF After
  <2>2. After(pos, u) < Size /\ \A i \in 0..(RecordSize(u) - 1) : buf[pos[u] + i] = <<u, i>>
    BY DEF Kept
  <2>3. ASSUME NEW i \in 0..(RecordSize(u) - 1)
        PROVE  b1[q[u] + i] = <<u, i>>
    <3>1. pos[u] + i \in Cells /\ pos[u] <= pos[u] + i /\ pos[u] + i < After(pos, u)
      BY <2>1, <2>2 DEF Cells
    <3> QED
      BY <2>1, <2>2, <3>1 DEF Untouched
  <2> QED
    BY <2>1, <2>2, <2>3
<1> QED
  BY <1>1 DEF Kept

LEMMA KeptGrows ==
  ASSUME NEW b1, NEW q \in [Rows -> Nat], NEW a \in Nat, NEW b \in Nat,
         Kept(b1, q, a, b), NEW row \in Rows, row = b + 1,
         q[row] + RecordSize(row) < Size,
         \A c \in Cells :
           c \in q[row]..(q[row] + RecordSize(row) - 1) => b1[c] = <<row, c - q[row]>>
  PROVE  Kept(b1, q, a, row)
<1>1. RecordSize(row) \in Nat /\ Size \in Nat /\ q[row] \in Nat
  BY Sizes
<1>2. ASSUME NEW i \in 0..(RecordSize(row) - 1)
      PROVE  b1[q[row] + i] = <<row, i>>
  <2>1. /\ q[row] + i \in Cells /\ (q[row] + i) - q[row] = i
        /\ q[row] + i \in q[row]..(q[row] + RecordSize(row) - 1)
    BY <1>1 DEF Cells
  <2> QED
    BY <2>1
<1>3. \A u \in a..row : u \in a..b \/ u = row
  OBVIOUS
<1> QED
  BY <1>2, <1>3 DEF Kept, After
-----------------------------------------------------------------------------
(* What the process does to the layout: it learns the tail and adds a row. *)

LEMMA LayoutRefreshed ==
  ASSUME NEW buf, NEW pos, NEW r \in Nat, NEW w \in Nat, NEW g \in Nat, NEW h \in Nat,
         NEW t \in Nat, NEW k \in Nat, Laid(buf, pos, r, w, g, h, t, k)
  PROVE  Laid(buf, pos, r, w, g, h, t, t)
<1>1. CASE SameLap(pos, r, w, g, h, t, k)
  BY <1>1 DEF Laid, SameLap
<1>2. CASE NextLap(pos, r, w, g, h, t, k)
  <2>1. CASE k <= t
    <3>1. h < t /\ t <= t
      BY <1>2, <2>1 DEF NextLap
    <3> QED
      BY <1>2, <3>1 DEF Laid, NextLap
  <2>2. CASE 0 < t /\ t <= g
    <3>1. t <= t
      OBVIOUS
    <3> QED
      BY <1>2, <2>2, <3>1 DEF Laid, NextLap, SameLap
  <2> QED
    BY <1>2, <2>1, <2>2 DEF NextLap
<1>3. ASSUME NEW m \in (r + 1)..(w + 1), SplitLap(buf, pos, r, w, g, h, t, k, m)
      PROVE  SplitLap(buf, pos, r, w, g, h, t, t, m)
  <2>1. h <= t /\ (h = t => t = 0) /\ t <= t
    BY <1>3 DEF SplitLap
  <2> QED
    BY <1>3, <2>1 DEF SplitLap
<1> QED
  BY <1>1, <1>2, <1>3 DEF Laid

\* HasSpace in the cases of the layout.
LEMMA SpaceBelow ==
  ASSUME NEW h \in Nat, NEW k \in Nat, NEW sz \in Nat, h < k
  PROVE  /\ HasSpace(h, k, sz).head = h /\ ~HasSpace(h, k, sz).mark
         /\ HasSpace(h, k, sz).ok <=> h + sz < k
<1>1. ~(k <= h)
  OBVIOUS
<1>2. k - h > sz <=> h + sz < k
  OBVIOUS
<1> QED
  BY <1>1, <1>2 DEF HasSpace

LEMMA SpaceAbove ==
  ASSUME NEW h \in Nat, NEW k \in Nat, NEW sz \in Nat, k <= h, Size \in Nat, Hdr \in Nat
  PROVE  /\ h + sz < Size => /\ HasSpace(h, k, sz).head = h /\ ~HasSpace(h, k, sz).mark
                             /\ HasSpace(h, k, sz).ok
         /\ ~(h + sz < Size) => /\ HasSpace(h, k, sz).head = 0
                                /\ HasSpace(h, k, sz).ok <=> sz < k
                                /\ HasSpace(h, k, sz).mark <=> Size - h >= Hdr
<1>1. Size - h > sz <=> h + sz < Size
  OBVIOUS
<1>2. CASE h + sz < Size
  BY <1>1, <1>2 DEF HasSpace
<1>3. CASE ~(h + sz < Size)
  <2>1. k - 0 > sz <=> sz < k
    OBVIOUS
  <2> QED
    BY <1>1, <1>3, <2>1 DEF HasSpace
<1> QED
  BY <1>2, <1>3

\* The row goes where the writer stands, in the lap of the tail or above it.
LEMMA AddedOnStretch ==
  ASSUME NEW buf, NEW b1, NEW pos \in [Rows -> Nat],
         NEW r \in Nat, NEW w \in Nat, r <= w, (r + 1)..w \subseteq Rows,
         NEW g \in Nat, NEW h \in Nat, NEW t \in Nat, NEW k \in Nat,
         NEW row \in Rows, row = w + 1,
         Kept(buf, pos, r + 1, w),
         \/ SameLap(pos, r, w, g, h, t, k) /\ h + RecordSize(row) < Size
         \/ NextLap(pos, r, w, g, h, t, k) /\ h + RecordSize(row) < k /\ k <= Size,
         \A c \in Cells :
           b1[c] = IF c \in h..(h + RecordSize(row) - 1) THEN <<row, c - h>> ELSE buf[c],
         NEW q, q = [pos EXCEPT ![row] = h]
  PROVE  Laid(b1, q, r, w + 1, g, h + RecordSize(row), t, k)
<1>1. RecordSize(row) \in Nat /\ Size \in Nat
  BY Sizes
<1>2. Stretch(pos, r + 1, w, g, h)
  BY DEF SameLap, NextLap
<1>3. Stretch(q, r + 1, w + 1, g, h + RecordSize(row))
  <2>1. r + 1 \in Nat /\ r + 1 <= row
    OBVIOUS
  <2>2. Stretch(q, r + 1, row, g, h + RecordSize(row))
    BY ONLY <1>2, <2>1, StretchGrows, w \in Nat, h \in Nat, g \in Nat, row \in Rows,
       row = w + 1, (r + 1)..w \subseteq Rows, pos \in [Rows -> Nat],
       q = [pos EXCEPT ![row] = h]
  <2> QED
    BY <2>2
<1>4. h + RecordSize(row) < Size
  BY <1>1
<1>5. Kept(b1, q, r + 1, w + 1)
  <2>1. ASSUME NEW u \in (r + 1)..w, NEW c \in Cells, pos[u] <= c, c < After(pos, u)
        PROVE  b1[c] = buf[c]
    <3>1. After(pos, u) <= h /\ After(pos, u) \in Nat
      BY <1>2, Places DEF Stretch
    <3>2. ~(c \in h..(h + RecordSize(row) - 1))
      BY <1>1, <2>1, <3>1 DEF Cells
    <3> QED
      BY <3>2
  <2>2. r + 1 \in Nat /\ \A u \in (r + 1)..w : q[u] = pos[u]
    OBVIOUS
  <2>3. Untouched(buf, b1, pos, r + 1, w)
    BY <2>1 DEF Untouched
  <2>4. Kept(b1, q, r + 1, w)
    BY <2>2, <2>3, StaysKept
  <2>5. Kept(b1, q, r + 1, row)
    BY <1>4, <2>2, <2>4, KeptGrows
  <2> QED
    BY <2>5
<1>6. CASE SameLap(pos, r, w, g, h, t, k)
  BY <1>3, <1>5, <1>6 DEF SameLap, Laid
<1>7. CASE NextLap(pos, r, w, g, h, t, k) /\ h + RecordSize(row) < k
  BY <1>3, <1>5, <1>7 DEF NextLap, Laid
<1> QED
  BY <1>6, <1>7

\* It goes on the stretch at the bottom of the buffer, below the tail.
LEMMA AddedBelow ==
  ASSUME NEW buf, NEW b1, NEW pos \in [Rows -> Nat],
         NEW r \in Nat, NEW w \in Nat, r <= w, (r + 1)..w \subseteq Rows,
         NEW g \in Nat, NEW h \in Nat, NEW t \in Nat, NEW k \in Nat, k <= Size,
         NEW row \in Rows, row = w + 1,
         Kept(buf, pos, r + 1, w),
         NEW m \in (r + 1)..(w + 1), SplitLap(buf, pos, r, w, g, h, t, k, m),
         h + RecordSize(row) < k,
         \A c \in Cells :
           b1[c] = IF c \in h..(h + RecordSize(row) - 1) THEN <<row, c - h>> ELSE buf[c],
         NEW q, q = [pos EXCEPT ![row] = h]
  PROVE  Laid(b1, q, r, w + 1, g, h + RecordSize(row), t, k)
<1>1. RecordSize(row) \in Nat /\ Size \in Nat /\ Hdr \in Nat
  BY Sizes
<1>2. PICK top \in 0..Size : Closed(buf, top) /\ Stretch(pos, r + 1, m - 1, g, top)
  BY DEF SplitLap
<1>3. /\ Stretch(pos, m, w, 0, h) /\ m \in Nat /\ m <= row /\ m..w \subseteq Rows
      /\ k <= t /\ t <= g /\ w >= 1 /\ g <= top /\ top \in Nat
  BY <1>1, <1>2 DEF SplitLap, Stretch
<1>4. Stretch(q, m, row, 0, h + RecordSize(row))
  <2>1. 0 \in Nat
    OBVIOUS
  <2> QED
    BY <1>3, <2>1, StretchGrows
<1>5. Stretch(q, r + 1, m - 1, g, top)
  <2>1. \A u \in (r + 1)..(m - 1) : q[u] = pos[u]
    BY <1>3
  <2>2. r + 1 \in Nat /\ m - 1 \in Int
    BY <1>3
  <2> QED
    BY ONLY <1>2, <1>3, <2>1, <2>2, SameStretch, g \in Nat
<1>6. Closed(b1, top)
  <2>1. CASE Size - top < Hdr
    BY <2>1 DEF Closed
  <2>2. CASE ~(Size - top < Hdr) /\ Hdr # 0
    <3>1. top \in Cells /\ ~(top \in h..(h + RecordSize(row) - 1))
      BY <1>1, <1>3, <2>2 DEF Cells
    <3>2. buf[top] = EndMark
      BY <1>2, <2>2 DEF Closed
    <3>3. b1[top] = EndMark
      BY <3>1, <3>2
    <3> QED
      BY <3>3 DEF Closed
  <2>3. Hdr # 0
    BY Sizes
  <2> QED
    BY <2>1, <2>2, <2>3
<1>7. Kept(b1, q, r + 1, w + 1)
  <2>1. ASSUME NEW u \in (r + 1)..w, NEW c \in Cells, pos[u] <= c, c < After(pos, u)
        PROVE  b1[c] = buf[c]
    <3>1. pos[u] \in Nat /\ After(pos, u) \in Nat
      BY Places
    <3>2. CASE u >= m
      <4>1. u \in m..w
        BY <1>3, <3>2
      <4>2. After(pos, u) <= h
        BY <1>3, <4>1 DEF Stretch
      <4>3. ~(c \in h..(h + RecordSize(row) - 1))
        BY <1>1, <2>1, <3>1, <4>2 DEF Cells
      <4> QED
        BY <4>3
    <3>3. CASE u < m
      <4>1. u \in (r + 1)..(m - 1)
        BY <1>3, <3>3
      <4>2. g <= pos[u]
        BY <1>2, <4>1 DEF Stretch
      <4>3. ~(c \in h..(h + RecordSize(row) - 1))
        BY <1>1, <1>3, <2>1, <3>1, <4>2 DEF Cells
      <4> QED
        BY <4>3
    <3> QED
      BY <1>3, <3>2, <3>3
  <2>2. r + 1 \in Nat /\ \A u \in (r + 1)..w : q[u] = pos[u]
    OBVIOUS
  <2>3. Untouched(buf, b1, pos, r + 1, w)
    BY <2>1 DEF Untouched
  <2>4. Kept(b1, q, r + 1, w)
    BY <2>2, <2>3, StaysKept
  <2>5. h + RecordSize(row) < Size
    BY <1>1
  <2>6. Kept(b1, q, r + 1, row)
    BY <2>2, <2>4, <2>5, KeptGrows
  <2> QED
    BY <2>6
<1>8. SplitLap(b1, q, r, w + 1, g, h + RecordSize(row), t, k, m)
  <2>1. h + RecordSize(row) <= k /\ h + RecordSize(row) # k /\ w + 1 >= 1
    BY <1>1
  <2> QED
    BY <1>2, <1>3, <1>4, <1>5, <1>6, <2>1 DEF SplitLap
<1>9. m \in (r + 1)..((w + 1) + 1)
  OBVIOUS
<1> QED
  BY <1>7, <1>8, <1>9 DEF Laid

\* The top of the buffer is closed, and the row does not fit at the bottom.
LEMMA TopClosed ==
  ASSUME NEW buf, NEW b1, NEW pos \in [Rows -> Nat],
         NEW r \in Nat, NEW w \in Nat, r <= w, (r + 1)..w \subseteq Rows, w >= 1,
         NEW g \in Nat, NEW h \in Nat, NEW t \in Nat, NEW k \in Nat, h <= Size,
         Size \in Nat, Hdr \in Nat \ {0},
         Kept(buf, pos, r + 1, w), SameLap(pos, r, w, g, h, t, k),
         \A c \in Cells :
           b1[c] = IF c = h /\ Size - h >= Hdr THEN EndMark ELSE buf[c]
  PROVE  Laid(b1, pos, r, w, g, 0, t, k)
<1>1. Stretch(pos, r + 1, w, g, h) /\ k <= t /\ t <= g /\ g <= h
  BY DEF SameLap, Stretch
<1>2. Closed(b1, h)
  <2>1. CASE Size - h < Hdr
    BY <2>1 DEF Closed
  <2>2. CASE Size - h >= Hdr
    <3>1. h \in Cells
      BY <2>2 DEF Cells
    <3> QED
      BY <2>2, <3>1 DEF Closed
  <2> QED
    BY <2>1, <2>2
<1>3. (w + 1) - 1 = w /\ w + 1 \in Nat /\ r + 1 \in Nat
  OBVIOUS
<1>4. Untouched(buf, b1, pos, r + 1, w)
  <2>1. ASSUME NEW u \in (r + 1)..w, NEW c \in Cells, pos[u] <= c, c < After(pos, u)
        PROVE  c # h
    <3>1. After(pos, u) <= h /\ After(pos, u) \in Nat
      BY <1>1, Places DEF Stretch
    <3> QED
      BY <2>1, <3>1 DEF Cells
  <2> QED
    BY <2>1 DEF Untouched
<1>5. Kept(b1, pos, r + 1, w)
  BY <1>3, <1>4, StaysKept
<1>6. Stretch(pos, w + 1, w, 0, 0)
  BY <1>3, EmptyStretch
<1>7. SplitLap(b1, pos, r, w, g, 0, t, k, w + 1)
  <2>1. 0 <= k /\ (0 = k => k = 0) /\ h \in 0..Size
    OBVIOUS
  <2> QED
    BY <1>1, <1>2, <1>3, <1>6, <2>1 DEF SplitLap
<1>8. w + 1 \in (r + 1)..(w + 1)
  OBVIOUS
<1> QED
  BY <1>5, <1>7, <1>8 DEF Laid

\* The same, and the row goes to the bottom.
LEMMA AddedAtBottom ==
  ASSUME NEW buf, NEW b1, NEW pos \in [Rows -> Nat],
         NEW r \in Nat, NEW w \in Nat, r <= w, (r + 1)..w \subseteq Rows, w >= 1,
         NEW g \in Nat, NEW h \in Nat, NEW t \in Nat, NEW k \in Nat, h <= Size,
         Kept(buf, pos, r + 1, w), SameLap(pos, r, w, g, h, t, k),
         NEW row \in Rows, row = w + 1, RecordSize(row) < k,
         \A c \in Cells :
           b1[c] = IF c \in 0..(RecordSize(row) - 1) THEN <<row, c>>
                   ELSE IF c = h /\ Size - h >= Hdr THEN EndMark ELSE buf[c],
         NEW q, q = [pos EXCEPT ![row] = 0]
  PROVE  Laid(b1, q, r, w + 1, g, RecordSize(row), t, k)
<1>1. RecordSize(row) \in Nat /\ Size \in Nat /\ Hdr \in Nat \ {0}
  BY Sizes
<1>2. Stretch(pos, r + 1, w, g, h) /\ k <= t /\ t <= g /\ g <= h
  BY DEF SameLap, Stretch
<1>3. Closed(b1, h)
  <2>1. CASE Size - h < Hdr
    BY <2>1 DEF Closed
  <2>2. CASE Size - h >= Hdr
    <3>1. h \in Cells /\ ~(h \in 0..(RecordSize(row) - 1))
      BY <1>1, <1>2, <2>2 DEF Cells
    <3> QED
      BY <2>2, <3>1 DEF Closed
  <2> QED
    BY <1>1, <2>1, <2>2
<1>4. (w + 1) - 1 = w /\ w + 1 \in Nat /\ r + 1 \in Nat /\ w \in Int
  OBVIOUS
<1>5. q \in [Rows -> Nat] /\ q[row] = 0 /\ \A u \in (r + 1)..w : q[u] = pos[u]
  OBVIOUS
<1>6. Untouched(buf, b1, pos, r + 1, w)
  <2>1. ASSUME NEW u \in (r + 1)..w, NEW c \in Cells, pos[u] <= c, c < After(pos, u)
        PROVE  c # h /\ ~(c \in 0..(RecordSize(row) - 1))
    <3>1. After(pos, u) <= h /\ g <= pos[u] /\ After(pos, u) \in Nat /\ pos[u] \in Nat
      BY <1>2, Places DEF Stretch
    <3> QED
      BY <1>1, <1>2, <2>1, <3>1 DEF Cells
  <2> QED
    BY <2>1 DEF Untouched
<1>7. Kept(b1, q, r + 1, w)
  BY <1>4, <1>5, <1>6, StaysKept
<1>8. Kept(b1, q, r + 1, w + 1)
  <2>1. 0 + RecordSize(row) < Size /\ 0 + RecordSize(row) - 1 = RecordSize(row) - 1
    BY <1>1, Sizes
  <2>2. \A c \in Cells : c - 0 = c
    BY <1>1 DEF Cells
  <2>3. Kept(b1, q, r + 1, row)
    BY <1>4, <1>5, <1>7, <2>1, <2>2, KeptGrows
  <2> QED
    BY <2>3
<1>9. Stretch(q, w + 1, row, 0, RecordSize(row))
  <2>1. Stretch(pos, w + 1, w, 0, 0)
    BY <1>4, EmptyStretch
  <2>2. (w + 1)..w = {} /\ 0 \in Nat /\ 0 + RecordSize(row) = RecordSize(row) /\ w + 1 <= row
    BY <1>1
  <2>3. Stretch(q, w + 1, row, 0, 0 + RecordSize(row))
    BY ONLY <1>4, <2>1, <2>2, StretchGrows, w \in Nat, row \in Rows, row = w + 1,
       pos \in [Rows -> Nat], q = [pos EXCEPT ![row] = 0]
  <2> QED
    BY <2>2, <2>3
<1>10. Stretch(q, r + 1, (w + 1) - 1, g, h)
  <2>1. (w + 1) - 1 = w /\ w \in Int /\ r + 1 \in Nat
    OBVIOUS
  <2>2. Stretch(q, r + 1, w, g, h)
    BY ONLY <1>2, <1>4, <1>5, <2>1, SameStretch, g \in Nat, h \in Nat
  <2> QED
    BY ONLY <2>1, <2>2
<1>11. SplitLap(b1, q, r, w + 1, g, RecordSize(row), t, k, w + 1)
  <2>1. RecordSize(row) <= k /\ RecordSize(row) # k /\ h \in 0..Size /\ w + 1 >= 1
    BY <1>1
  <2> QED
    BY <1>2, <1>3, <1>9, <1>10, <2>1 DEF SplitLap
<1>12. w + 1 \in (r + 1)..((w + 1) + 1)
  OBVIOUS
<1> QED
  BY <1>8, <1>11, <1>12 DEF Laid

IsBuffer(buf) == buf = [c \in Cells |-> buf[c]]

\* The buffer after an attempt to add the row, where space is what HasSpace said.
Tried(buf, space, h, row) ==
  [c \in Cells |-> IF space.ok /\ c \in space.head..(space.head + RecordSize(row) - 1)
                   THEN <<row, c - space.head>>
                   ELSE IF space.mark /\ c = h THEN EndMark ELSE buf[c]]

LEMMA RowAdded ==
  ASSUME NEW buf, IsBuffer(buf), NEW pos \in [Rows -> Nat],
         NEW r \in Nat, NEW w \in Nat, r <= w, (r + 1)..w \subseteq Rows,
         NEW g \in Nat, NEW h \in Nat, NEW t \in Nat, NEW k \in Nat, h <= Size, k <= Size,
         Laid(buf, pos, r, w, g, h, t, k), r = 0 => g = 0,
         NEW row \in Rows, row = w + 1,
         NEW space, space = HasSpace(h, k, RecordSize(row)),
         ~(space.ok /\ k = 0 /\ h = 0 /\ row > 1),
         NEW b1, b1 = Tried(buf, space, h, row)
  PROVE  /\ space.ok => /\ \E q \in [Rows -> Nat] :
                             Laid(b1, q, r, w + 1, g, space.head + RecordSize(row), t, k)
                        /\ space.head + RecordSize(row) <= Size
         /\ ~space.ok => Laid(b1, pos, r, w, g, space.head, t, k)
         /\ space.head \in 0..Size
<1>1. RecordSize(row) \in Nat /\ Size \in Nat /\ Hdr \in Nat \ {0} /\ RecordSize(row) < Size
      /\ RecordSize(row) # 0
  BY Sizes
<1>2. /\ r \in Nat /\ w \in Nat /\ r <= w /\ (r + 1)..w \subseteq Rows /\ g \in Nat
      /\ h \in Nat /\ t \in Nat /\ k \in Nat /\ pos \in [Rows -> Nat]
      /\ row \in Rows /\ row = w + 1 /\ k <= Size /\ h <= Size
  OBVIOUS
<1>3. Kept(buf, pos, r + 1, w)
  BY DEF Laid
<1>4. ASSUME ~space.ok, ~space.mark
      PROVE  b1 = buf
  BY <1>4 DEF Tried, IsBuffer
<1>5. ASSUME NEW at \in Nat, space.ok, ~space.mark, space.head = at
      PROVE  \A c \in Cells :
               b1[c] = IF c \in at..(at + RecordSize(row) - 1) THEN <<row, c - at>>
                       ELSE buf[c]
  BY <1>5 DEF Tried
<1>6. ASSUME NEW at \in Nat
      PROVE  [pos EXCEPT ![row] = at] \in [Rows -> Nat]
  OBVIOUS
<1>7. CASE NextLap(pos, r, w, g, h, t, k)
  <2>1. h < k
    BY <1>7 DEF NextLap
  <2>2. space.head = h /\ ~space.mark /\ (space.ok <=> h + RecordSize(row) < k)
    BY <1>1, <2>1, SpaceBelow
  <2>3. CASE ~space.ok
    BY <1>4, <2>2, <2>3
  <2>4. CASE space.ok
    <3>1. PICK q : q = [pos EXCEPT ![row] = h]
      OBVIOUS
    <3>2. h + RecordSize(row) < k
      BY <2>2, <2>4
    <3>3. \A c \in Cells :
            b1[c] = IF c \in h..(h + RecordSize(row) - 1) THEN <<row, c - h>> ELSE buf[c]
      BY <1>5, <2>2, <2>4
    <3>4. Laid(b1, q, r, w + 1, g, h + RecordSize(row), t, k)
      BY ONLY <1>2, <1>3, <1>7, <3>1, <3>2, <3>3, AddedOnStretch
    <3>5. h + RecordSize(row) <= Size /\ h \in 0..Size /\ q \in [Rows -> Nat]
      BY <1>1, <1>6, <3>1, <3>2
    <3> QED
      BY <2>2, <2>4, <3>4, <3>5
  <2> QED
    BY <2>3, <2>4
<1>8. ASSUME NEW m \in (r + 1)..(w + 1), SplitLap(buf, pos, r, w, g, h, t, k, m)
      PROVE  /\ space.ok => /\ \E q \in [Rows -> Nat] :
                                 Laid(b1, q, r, w + 1, g, space.head + RecordSize(row), t, k)
                            /\ space.head + RecordSize(row) <= Size
             /\ ~space.ok => Laid(b1, pos, r, w, g, space.head, t, k)
             /\ space.head \in 0..Size
  <2>1. CASE h < k
    <3>1. space.head = h /\ ~space.mark /\ (space.ok <=> h + RecordSize(row) < k)
      BY <1>1, <2>1, SpaceBelow
    <3>2. CASE ~space.ok
      BY <1>4, <3>1, <3>2
    <3>3. CASE space.ok
      <4>1. PICK q : q = [pos EXCEPT ![row] = h]
        OBVIOUS
      <4>2. h + RecordSize(row) < k
        BY <3>1, <3>3
      <4>3. \A c \in Cells :
              b1[c] = IF c \in h..(h + RecordSize(row) - 1) THEN <<row, c - h>> ELSE buf[c]
        BY <1>5, <3>1, <3>3
      <4>4. Laid(b1, q, r, w + 1, g, h + RecordSize(row), t, k)
        BY ONLY <1>2, <1>3, <1>8, <4>1, <4>2, <4>3, AddedBelow, m \in (r + 1)..(w + 1)
      <4>5. h + RecordSize(row) <= Size /\ h \in 0..Size /\ q \in [Rows -> Nat]
        BY <1>1, <1>6, <4>1, <4>2
      <4> QED
        BY <3>1, <3>3, <4>4, <4>5
    <3> QED
      BY <3>2, <3>3
  <2>2. CASE h = 0 /\ k = 0
    <3>1. row > 1 /\ h + RecordSize(row) < Size /\ k <= h
      BY <1>1, <1>8, <2>2 DEF SplitLap
    <3>2. space.ok
      BY <1>1, <3>1, SpaceAbove
    <3> QED
      BY <2>2, <3>1, <3>2
  <2>3. h < k \/ (h = 0 /\ k = 0)
    <3>1. h <= k /\ (h = k => k = 0)
      BY <1>8 DEF SplitLap
    <3> QED
      BY <3>1
  <2> QED
    BY <2>1, <2>2, <2>3
<1>9. CASE SameLap(pos, r, w, g, h, t, k)
  <2>1. k <= h /\ g <= h
    BY <1>9 DEF SameLap, Stretch
  <2>2. CASE h + RecordSize(row) < Size
    <3>1. space.head = h /\ ~space.mark /\ space.ok
      BY <1>1, <2>1, <2>2, SpaceAbove
    <3>2. PICK q : q = [pos EXCEPT ![row] = h]
      OBVIOUS
    <3>3. \A c \in Cells :
            b1[c] = IF c \in h..(h + RecordSize(row) - 1) THEN <<row, c - h>> ELSE buf[c]
      BY <1>5, <3>1
    <3>4. Laid(b1, q, r, w + 1, g, h + RecordSize(row), t, k)
      BY ONLY <1>2, <1>3, <1>9, <2>2, <3>2, <3>3, AddedOnStretch
    <3>5. h + RecordSize(row) <= Size /\ h \in 0..Size /\ q \in [Rows -> Nat]
      BY <1>1, <1>6, <2>2, <3>2
    <3> QED
      BY <3>1, <3>4, <3>5
  <2>3. CASE ~(h + RecordSize(row) < Size)
    <3>1. /\ space.head = 0 /\ (space.ok <=> RecordSize(row) < k)
          /\ space.mark <=> Size - h >= Hdr
      BY <1>1, <2>1, <2>3, SpaceAbove
    <3>2. w >= 1
      <4>1. CASE w = 0
        <5>1. r = 0 /\ g = 0 /\ w < r + 1
          BY <4>1
        <5>2. h = 0
          BY <1>9, <5>1 DEF SameLap, Stretch
        <5> QED
          BY <1>1, <2>3, <5>2
      <4> QED
        BY <4>1
    <3>3. CASE space.ok
      <4>1. PICK q : q = [pos EXCEPT ![row] = 0]
        OBVIOUS
      <4>2. \A c \in Cells :
              b1[c] = IF c \in 0..(RecordSize(row) - 1) THEN <<row, c>>
                      ELSE IF c = h /\ Size - h >= Hdr THEN EndMark ELSE buf[c]
        <5>1. \A c \in Cells : c - 0 = c
          BY <1>1 DEF Cells
        <5>2. 0 + RecordSize(row) - 1 = RecordSize(row) - 1
          BY <1>1
        <5> QED
          BY <3>1, <3>3, <5>1, <5>2 DEF Tried
      <4>3. RecordSize(row) < k
        BY <3>1, <3>3
      <4>4. Laid(b1, q, r, w + 1, g, RecordSize(row), t, k)
        BY ONLY <1>2, <1>3, <1>9, <3>2, <4>1, <4>2, <4>3, AddedAtBottom
      <4>5. q \in [Rows -> Nat] /\ space.head + RecordSize(row) = RecordSize(row)
            /\ RecordSize(row) <= Size /\ space.head \in 0..Size
        BY <1>1, <1>6, <3>1, <4>1
      <4> QED
        BY <3>3, <4>4, <4>5
    <3>4. CASE ~space.ok
      <4>1. \A c \in Cells :
              b1[c] = IF c = h /\ Size - h >= Hdr THEN EndMark ELSE buf[c]
        BY <3>1, <3>4 DEF Tried
      <4>2. Laid(b1, pos, r, w, g, 0, t, k)
        BY ONLY <1>1, <1>2, <1>3, <1>9, <3>2, <4>1, TopClosed
      <4> QED
        BY <1>1, <3>1, <3>4, <4>2
    <3> QED
      BY <3>3, <3>4
  <2> QED
    BY <2>2, <2>3
<1> QED
  BY <1>7, <1>8, <1>9 DEF Laid

-----------------------------------------------------------------------------
(* What the GUI does to it: it takes a row and publishes its tail.         *)

\* The reader at x finds the next record at at.
NextAt(buf, x, at) == at = IF Closed(buf, x) THEN 0 ELSE x

LEMMA RowTaken ==
  ASSUME NEW buf, NEW pos \in [Rows -> Nat],
         NEW r \in Nat, NEW w \in Nat, r < w, (r + 1)..w \subseteq Rows,
         NEW g \in Nat, NEW h \in Nat, NEW t \in Nat, NEW k \in Nat,
         Laid(buf, pos, r, w, g, h, t, k),
         NEW at, NextAt(buf, g, at)
  PROVE  /\ at = pos[r + 1] /\ at \in Nat /\ After(pos, r + 1) < Size
         /\ \A i \in 0..(RecordSize(r + 1) - 1) : buf[at + i] = <<r + 1, i>>
         /\ Laid(buf, pos, r + 1, w, After(pos, r + 1), h, t, k)
         /\ After(pos, r + 1) \in Nat /\ 0 < After(pos, r + 1)
<1>1. /\ r + 1 \in (r + 1)..w /\ r + 1 \in Rows /\ r + 1 \in Nat /\ r + 1 <= w
      /\ ((r + 1) + 1)..w \subseteq (r + 1)..w
  OBVIOUS
<1>2. /\ pos[r + 1] \in Nat /\ After(pos, r + 1) = pos[r + 1] + RecordSize(r + 1)
      /\ RecordSize(r + 1) \in Nat /\ Hdr \in Nat \ {0} /\ Size \in Nat
      /\ Hdr < RecordSize(r + 1) /\ After(pos, r + 1) \in Nat /\ 0 < After(pos, r + 1)
  BY <1>1, Places, Sizes
<1>3. /\ After(pos, r + 1) < Size
      /\ \A i \in 0..(RecordSize(r + 1) - 1) : buf[pos[r + 1] + i] = <<r + 1, i>>
  BY <1>1 DEF Laid, Kept
<1>4. Kept(buf, pos, (r + 1) + 1, w)
  BY <1>1 DEF Laid, Kept
<1>5. ASSUME pos[r + 1] = g
      PROVE  at = pos[r + 1]
  <2>1. 0 \in 0..(RecordSize(r + 1) - 1) /\ pos[r + 1] + 0 = g
    BY <1>2, <1>5
  <2>2. buf[pos[r + 1] + 0] = <<r + 1, 0>> /\ r + 1 # 0
    BY <1>3, <2>1
  <2>3. buf[g] # EndMark
    BY <2>1, <2>2 DEF EndMark
  <2>4. ~(Size - g < Hdr)
    BY <1>2, <1>3, <1>5
  <2> QED
    BY <1>5, <2>3, <2>4 DEF Closed, NextAt
<1>6. CASE Stretch(pos, r + 1, w, g, h)
           /\ (SameLap(pos, r, w, g, h, t, k) \/ NextLap(pos, r, w, g, h, t, k))
  <2>1. /\ pos[r + 1] = g /\ g < After(pos, r + 1)
        /\ Stretch(pos, (r + 1) + 1, w, After(pos, r + 1), h)
    BY ONLY <1>1, <1>6, StretchShrinks, pos \in [Rows -> Nat], w \in Nat, g \in Nat, h \in Nat,
       (r + 1)..w \subseteq Rows
  <2>2. CASE SameLap(pos, r, w, g, h, t, k)
    <3>1. SameLap(pos, r + 1, w, After(pos, r + 1), h, t, k)
      BY <1>2, <2>1, <2>2 DEF SameLap
    <3> QED
      BY <1>2, <1>3, <1>4, <1>5, <2>1, <3>1 DEF Laid
  <2>3. CASE NextLap(pos, r, w, g, h, t, k)
    <3>1. NextLap(pos, r + 1, w, After(pos, r + 1), h, t, k)
      BY <1>2, <2>1, <2>3 DEF NextLap
    <3> QED
      BY <1>2, <1>3, <1>4, <1>5, <2>1, <3>1 DEF Laid
  <2> QED
    BY <1>6, <2>2, <2>3
<1>7. ASSUME NEW m \in (r + 1)..(w + 1), SplitLap(buf, pos, r, w, g, h, t, k, m)
      PROVE  /\ at = pos[r + 1]
             /\ Laid(buf, pos, r + 1, w, After(pos, r + 1), h, t, k)
  <2>1. PICK top \in 0..Size : Closed(buf, top) /\ Stretch(pos, r + 1, m - 1, g, top)
    BY <1>7 DEF SplitLap
  <2>2. Stretch(pos, m, w, 0, h) /\ k <= t /\ t <= g /\ h <= k /\ (h = k => k = 0) /\ w >= 1
    BY <1>7 DEF SplitLap
  <2>3. CASE m = r + 1
    <3>1. top = g
      BY <2>1, <2>3 DEF Stretch
    <3>2. /\ pos[r + 1] = 0 /\ After(pos, r + 1) <= h
          /\ Stretch(pos, (r + 1) + 1, w, After(pos, r + 1), h)
      BY ONLY <1>1, <2>2, <2>3, StretchShrinks, pos \in [Rows -> Nat], w \in Nat, h \in Nat,
         (r + 1)..w \subseteq Rows, 0 \in Nat, SMTT(30)
    <3>3. at = 0
      BY <2>1, <3>1 DEF NextAt
    <3>4. h < k
      BY <1>2, <2>2, <3>2
    <3>5. NextLap(pos, r + 1, w, After(pos, r + 1), h, t, k)
      BY <1>2, <2>2, <3>2, <3>4 DEF NextLap
    <3> QED
      BY <1>4, <3>2, <3>3, <3>5 DEF Laid
  <2>4. CASE m # r + 1
    <3>1. /\ m - 1 \in Nat /\ r + 1 <= m - 1 /\ (r + 1)..(m - 1) \subseteq Rows
          /\ top \in Nat /\ m \in ((r + 1) + 1)..(w + 1)
      BY <1>1, <1>2, <2>4
    <3>2. /\ pos[r + 1] = g /\ g < After(pos, r + 1)
          /\ Stretch(pos, (r + 1) + 1, m - 1, After(pos, r + 1), top)
      BY ONLY <1>1, <2>1, <3>1, StretchShrinks, pos \in [Rows -> Nat], g \in Nat
    <3>3. t <= After(pos, r + 1)
      BY <1>2, <2>2, <3>2
    <3>4. SplitLap(buf, pos, r + 1, w, After(pos, r + 1), h, t, k, m)
      BY <2>1, <2>2, <3>2, <3>3 DEF SplitLap
    <3> QED
      BY <1>4, <1>5, <3>1, <3>2, <3>4 DEF Laid
  <2> QED
    BY <2>3, <2>4
<1>8. at = pos[r + 1] /\ Laid(buf, pos, r + 1, w, After(pos, r + 1), h, t, k)
  <2>1. SameLap(pos, r, w, g, h, t, k) \/ NextLap(pos, r, w, g, h, t, k)
        => Stretch(pos, r + 1, w, g, h)
    BY DEF SameLap, NextLap
  <2> QED
    BY <1>6, <1>7, <2>1 DEF Laid
<1> QED
  BY <1>2, <1>3, <1>8

LEMMA TailPublished ==
  ASSUME NEW buf, NEW pos, NEW r \in Nat, NEW w \in Nat, NEW g \in Nat, NEW h \in Nat,
         NEW t \in Nat, NEW k \in Nat, Laid(buf, pos, r, w, g, h, t, k)
  PROVE  Laid(buf, pos, r, w, g, h, g, k)
<1>1. g <= g
  OBVIOUS
<1>2. CASE SameLap(pos, r, w, g, h, t, k)
  <2>1. k <= g
    BY <1>2 DEF SameLap
  <2> QED
    BY <1>1, <1>2, <2>1 DEF Laid, SameLap
<1>3. CASE NextLap(pos, r, w, g, h, t, k)
  BY <1>1, <1>3 DEF Laid, NextLap
<1>4. ASSUME NEW m \in (r + 1)..(w + 1), SplitLap(buf, pos, r, w, g, h, t, k, m)
      PROVE  SplitLap(buf, pos, r, w, g, h, g, k, m)
  <2>1. k <= g
    BY <1>4 DEF SplitLap
  <2> QED
    BY <1>1, <1>4, <2>1 DEF SplitLap
<1> QED
  BY <1>2, <1>3, <1>4 DEF Laid
-----------------------------------------------------------------------------
(* Counts, and the query.                                                  *)

LEMMA Params ==
  /\ Hdr \in Nat \ {0} /\ Size \in Nat \ {0} /\ Chunk \in Nat \ {0} /\ Margin \in Nat
  /\ Numbers \subseteq Nat /\ Len(SizeOf) \in Nat
BY FetcherAssumption

LEMMA Fields ==
  ASSUME FetchTypes
  PROVE  /\ query.rows \in 0..Len(SizeOf) /\ query.last \in Nat /\ query.left \in Nat
         /\ query.last <= Len(SizeOf) /\ query.paged \in BOOLEAN /\ query.limit \in 0..2
         /\ proc.fetched \in Nat /\ proc.added \in Nat /\ proc.left \in 0..Chunk
         /\ proc.row \in Nat /\ proc.head \in 0..Size /\ proc.tail \in 0..Size
         /\ proc.more \in BOOLEAN
         /\ thread.count \in Nat /\ thread.last \in Nat /\ thread.fetched \in Nat
         /\ gui.count \in Nat /\ gui.left \in Nat /\ gui.tail \in 0..Size /\ gui.target \in Int
         /\ model.rows \in Seq(Rows) /\ model.shown \in Nat /\ model.shown <= Len(model.rows)
         /\ model.more \in BOOLEAN /\ model.lastRead \in Nat
BY Params DEF FetchTypes, QueryRec, ProcRec, ThreadRec, GuiRec, ModelRec

LEMMA Counts ==
  ASSUME FetchTypes
  PROVE  Taken \in Nat /\ Stored \in Nat /\ model.rows \in Seq(Rows) /\ signals \in Seq(Nat)
<1>1. model.rows \in Seq(Rows) /\ proc.fetched \in Nat /\ proc.added \in Nat
      /\ signals \in Seq(0..Len(SizeOf)) /\ Len(SizeOf) \in Nat
  BY Params, Fields DEF FetchTypes
<1>2. Taken \in Nat
  BY <1>1 DEF Taken
<1>3. signals \in Seq(Nat)
  <2>1. Seq(0..Len(SizeOf)) \subseteq Seq(Nat)
    BY <1>1
  <2> QED
    BY <1>1, <2>1
<1> QED
  BY <1>1, <1>2, <1>3 DEF Stored

\* No more rows are taken than are stored, or than the query has.
LEMMA StoredRows ==
  ASSUME FetchTypes, ProcessInv, CountsAddUp
  PROVE  /\ query.rows \in 0..Len(SizeOf) /\ Stored <= query.last /\ query.last <= query.rows
         /\ proc.fetched <= Stored /\ Stored <= Len(SizeOf)
         /\ (Taken + 1)..Stored \subseteq Rows
         /\ gui.pc # "garbled" => Taken <= Stored
         /\ gui.pc = "take" /\ gui.left > 0 => Taken < Stored
<1>1. /\ query.rows \in 0..Len(SizeOf) /\ query.last \in Nat /\ query.left \in Nat
      /\ proc.fetched \in Nat /\ proc.added \in Nat /\ gui.left \in Nat
      /\ Taken \in Nat /\ Stored \in Nat /\ Len(SizeOf) \in Nat
  BY Params, Counts, Fields
<1>2. Stored <= query.last /\ query.last <= query.rows
  BY <1>1 DEF ProcessInv
<1>3. proc.fetched <= Stored /\ Stored <= Len(SizeOf)
  BY <1>1, <1>2 DEF Stored
<1>4. (Taken + 1)..Stored \subseteq Rows
  BY <1>1, <1>3 DEF Rows
<1>5. Total(signals) \in Nat
  <2>1. signals \in Seq(Nat) /\ 0 \in Nat
    BY Counts
  <2> QED
    BY <2>1, TotalOfAppend
<1>6. ASSUME gui.pc # "garbled"
      PROVE  Taken + (IF gui.pc = "take" THEN gui.left ELSE 0) <= Stored
  <2>1. /\ thread.last = Taken + (IF gui.pc = "take" THEN gui.left ELSE 0) + Total(signals)
        /\ thread.last <= proc.fetched
    BY <1>6 DEF CountsAddUp, ProcessInv, Taken
  <2> QED
    BY <1>1, <1>3, <1>5, <2>1
<1> QED
  BY <1>1, <1>2, <1>3, <1>4, <1>6

\* Where the query stands when FetchRow looks at it.
Looked == IF query.left = 0 THEN Select(query) ELSE query

LEMMA LookedAt ==
  ASSUME FetchTypes, ProcessInv
  PROVE  /\ Looked \in QueryRec
         /\ Looked.rows = query.rows /\ Looked.last = query.last
         /\ Looked.paged = query.paged
         /\ Looked.last + Looked.left <= Looked.rows
         /\ Looked.left = 0 => Looked.last = Looked.rows
         /\ Looked.paged => Looked.limit = 0
         /\ ~Looked.paged => Looked.limit = 1 /\ Looked.last + Looked.left = Looked.rows
<1>1. /\ query \in [rows : 0..Len(SizeOf), paged : BOOLEAN, last : 0..Len(SizeOf),
                    left : 0..Len(SizeOf), limit : 0..2]
      /\ Len(SizeOf) \in Nat /\ Chunk \in Nat \ {0}
  BY Params DEF FetchTypes, QueryRec
<1>2. /\ query.last + query.left <= query.rows
      /\ query.paged => query.limit = 0
      /\ ~query.paged => \/ query.limit = 2 /\ query.last = 0 /\ query.left = 0
                         \/ query.limit = 1 /\ query.last + query.left = query.rows
  BY DEF ProcessInv
<1>3. CASE query.left # 0
  BY <1>1, <1>2, <1>3 DEF Looked, QueryRec
<1>4. CASE query.left = 0 /\ query.limit = 1
  BY <1>1, <1>2, <1>4 DEF Looked, Select, QueryRec
<1>5. CASE query.left = 0 /\ query.limit # 1 /\ query.paged
  <2>1. Looked = [query EXCEPT !.left = Least(query.rows - query.last, Chunk), !.limit = 0]
    BY <1>1, <1>5 DEF Looked, Select
  <2>2. query.rows - query.last \in 0..Len(SizeOf)
    BY <1>1, <1>2
  <2>3. /\ Least(query.rows - query.last, Chunk) \in 0..Len(SizeOf)
        /\ Least(query.rows - query.last, Chunk) <= query.rows - query.last
        /\ Least(query.rows - query.last, Chunk) = 0 => query.rows = query.last
    BY <1>1, <2>2 DEF Least
  <2>4. PICK n : n = Least(query.rows - query.last, Chunk)
    OBVIOUS
  <2>5. Looked = [query EXCEPT !.left = n, !.limit = 0]
    BY <2>1, <2>4
  <2>6. n \in 0..Len(SizeOf) /\ query.last + n <= query.rows
        /\ (n = 0 => query.last = query.rows)
    BY ONLY <1>1, <2>2, <2>3, <2>4
  <2> QED
    BY ONLY <1>1, <1>2, <1>5, <2>5, <2>6 DEF QueryRec
<1>6. CASE query.left = 0 /\ query.limit # 1 /\ ~query.paged
  <2>1. Looked = [query EXCEPT !.left = query.rows - query.last, !.limit = query.limit - 1]
    BY <1>1, <1>6 DEF Looked, Select
  <2>2. query.limit = 2 /\ query.last = 0
    BY <1>2, <1>6
  <2>3. query.rows - query.last = query.rows /\ query.limit - 1 = 1
        /\ query.rows \in 0..Len(SizeOf) /\ query.last + query.rows = query.rows
    BY <1>1, <2>2
  <2>4. PICK n : n = query.rows
    OBVIOUS
  <2>5. Looked = [query EXCEPT !.left = n, !.limit = 1]
    BY <2>1, <2>3, <2>4
  <2>6. n \in 0..Len(SizeOf) /\ query.last + n = n /\ 1 \in 0..2
    BY <2>3, <2>4
  <2>7. /\ Looked.rows = query.rows /\ Looked.last = query.last
        /\ Looked.paged = query.paged /\ Looked.left = n /\ Looked.limit = 1
        /\ Looked \in QueryRec
    BY ONLY <1>1, <2>5, <2>6 DEF QueryRec
  <2> QED
    BY ONLY <1>1, <1>6, <2>2, <2>3, <2>4, <2>7
<1> QED
  BY <1>3, <1>4, <1>5, <1>6
-----------------------------------------------------------------------------
(* The attempt to add a row.                                               *)

LEMMA TryProc ==
  ASSUME FetchTypes, NEW row, NEW known \in 0..Size, NEW otherwise,
         TryToAdd(proc, row, known, otherwise)
  PROVE  /\ proc'.fetched = proc.fetched /\ proc'.left = proc.left /\ proc'.more = proc.more
         /\ proc'.tail = known
         /\ \/ /\ proc'.pc = "next" /\ proc'.row = 0 /\ proc'.added = proc.added + 1
            \/ /\ proc'.pc = otherwise /\ proc'.row = row /\ proc'.added = proc.added
         /\ row \in Nat /\ otherwise \in {"space", "full"} /\ proc'.head \in 0..Size =>
              proc' \in ProcRec
<1>1. proc \in ProcRec
  BY DEF FetchTypes
<1>2. PICK s : s = HasSpace(proc.head, known, RecordSize(row))
  OBVIOUS
<1>3. PICK end, n : end = s.head + RecordSize(row) /\ n = proc.added + 1
  OBVIOUS
<1>4. proc' = IF s.ok
              THEN [proc EXCEPT !.pc = "next", !.tail = known, !.row = 0,
                                !.head = end, !.added = n]
              ELSE [proc EXCEPT !.pc = otherwise, !.tail = known, !.row = row,
                                !.head = s.head]
  BY <1>2, <1>3 DEF TryToAdd
<1>5. CASE s.ok
  <2>1. n \in Nat
    <3>1. proc.added \in Nat
      BY Fields
    <3> QED
      BY ONLY <1>3, <3>1
  <2>2. proc' = [proc EXCEPT !.pc = "next", !.tail = known, !.row = 0,
                             !.head = end, !.added = n]
    BY <1>4, <1>5
  <2>3. /\ proc'.fetched = proc.fetched /\ proc'.left = proc.left /\ proc'.more = proc.more
        /\ proc'.tail = known /\ proc'.pc = "next" /\ proc'.row = 0 /\ proc'.added = n
    BY <1>1, <2>2 DEF ProcRec
  <2>4. proc'.head \in 0..Size => proc' \in ProcRec
    BY <1>1, <2>1, <2>2 DEF ProcRec
  <2> QED
    BY <1>3, <2>3, <2>4
<1>6. CASE ~s.ok
  BY <1>1, <1>4, <1>6 DEF ProcRec
<1> QED
  BY <1>5, <1>6

LEMMA TryTypes ==
  ASSUME FetchTypes, NEW row \in Rows, NEW known \in 0..Size, NEW otherwise,
         TryToAdd(proc, row, known, otherwise)
  PROVE  /\ buffer' \in Buffers
         /\ proc'.head \in 0..Size
         /\ lapped' \in BOOLEAN
<1>1. /\ buffer \in Buffers /\ proc.head \in 0..Size
      /\ lapped \in BOOLEAN /\ Size \in Nat /\ Hdr \in Nat \ {0}
      /\ row \in 0..Len(SizeOf) /\ RecordSize(row) \in Nat /\ 0 \in 0..Len(SizeOf)
  BY Params, Sizes, Fields DEF FetchTypes, Rows
<1> DEFINE space == HasSpace(proc.head, known, RecordSize(row))
           marked == Marked(space, proc.head)
<1>2. /\ space.head \in 0..Size
      /\ space.ok => space.head + RecordSize(row) \in 0..Size
  <2>1. PICK sz \in Nat : sz = RecordSize(row)
    BY <1>1
  <2>2. PICK h \in 0..Size : h = proc.head
    BY <1>1
  <2>3. HasSpace(h, known, sz).head \in {0, h}
    BY DEF HasSpace
  <2>4. HasSpace(h, known, sz).ok
        => HasSpace(h, known, sz).head + sz < Size
    <3>1. CASE known <= h /\ Size - h > sz
      <4>1. HasSpace(h, known, sz).head = h
        BY <3>1 DEF HasSpace
      <4> QED
        BY <1>1, <3>1, <4>1
    <3>2. CASE ~(known <= h /\ Size - h > sz)
      <4>1. HasSpace(h, known, sz).ok => known - HasSpace(h, known, sz).head > sz
        BY <3>2 DEF HasSpace
      <4> QED
        BY <1>1, <2>3, <4>1
    <3> QED
      BY <3>1, <3>2
  <2> QED
    BY <1>1, <2>1, <2>2, <2>3, <2>4
<1>3. /\ buffer' = IF space.ok THEN Written(marked, space.head, row) ELSE marked
      /\ proc'.head = IF space.ok THEN space.head + RecordSize(row) ELSE space.head
      /\ lapped' = (lapped \/ (space.ok /\ known = 0 /\ proc.head = 0 /\ row > 1))
  <2>1. proc \in ProcRec
    BY DEF FetchTypes
  <2> HIDE DEF space, marked
  <2> QED
    BY <2>1 DEF TryToAdd, space, marked, ProcRec
<1> HIDE DEF space
<1>4. marked \in Buffers
  BY <1>1 DEF Marked, EndMark, Buffers
<1> HIDE DEF marked
<1>5. Written(marked, space.head, row) \in Buffers
  <2>1. ASSUME NEW c \in Cells
        PROVE  Written(marked, space.head, row)[c] \in (0..Len(SizeOf)) \X (Nat \cup {-1})
    <3>1. c \in Int
      BY <1>1 DEF Cells
    <3>2. CASE c \in space.head..(space.head + RecordSize(row) - 1)
      <4>1. Written(marked, space.head, row)[c] = <<row, c - space.head>>
        BY <3>2 DEF Written
      <4>2. c - space.head \in Nat
        BY <1>1, <1>2, <3>1, <3>2
      <4> QED
        BY <1>1, <4>1, <4>2
    <3>3. CASE ~(c \in space.head..(space.head + RecordSize(row) - 1))
      <4>1. Written(marked, space.head, row)[c] = marked[c]
        BY <3>3 DEF Written
      <4> QED
        BY <1>4, <4>1 DEF Buffers
    <3> QED
      BY <3>2, <3>3
  <2> QED
    BY <2>1 DEF Written, Buffers
<1> QED
  BY <1>1, <1>2, <1>3, <1>4, <1>5

LEMMA TryKeepsRing ==
  ASSUME FetchTypes, RingInv, gui.pc # "garbled" => Taken <= Stored,
         (Taken + 1)..Stored \subseteq Rows,
         NEW row \in Rows, row = Stored + 1, NEW otherwise,
         NEW known, known = proc.tail \/ known = tail,
         TryToAdd(proc, row, known, otherwise),
         UNCHANGED <<model, gui, tail>>
  PROVE  RingInv'
<1> SUFFICES ASSUME ~lapped' PROVE RingInv'
  BY DEF RingInv
<1>1. /\ proc \in ProcRec
      /\ gui.tail \in Nat /\ tail \in Nat /\ tail <= Size /\ Size \in Nat
      /\ IsBuffer(buffer) /\ lapped \in BOOLEAN /\ Taken \in Nat /\ Stored \in Nat
  <2>1. Taken \in Nat /\ Stored \in Nat /\ Size \in Nat
    BY Params, Counts
  <2> QED
    BY <2>1, Fields DEF FetchTypes, IsBuffer, Buffers
<1>2. proc.head \in Nat /\ proc.head <= Size /\ proc.tail \in Nat /\ proc.tail <= Size
      /\ known \in Nat /\ known <= Size
  <2>1. proc.head \in 0..Size /\ proc.tail \in 0..Size
    BY Fields
  <2> QED
    BY <1>1, <2>1
<1> DEFINE space == HasSpace(proc.head, known, RecordSize(row))
           marked == Marked(space, proc.head)
<1>3. /\ buffer' = IF space.ok THEN Written(marked, space.head, row) ELSE marked
      /\ proc'.head = IF space.ok THEN space.head + RecordSize(row) ELSE space.head
      /\ proc'.tail = known /\ proc'.fetched = proc.fetched
      /\ proc'.added = IF space.ok THEN proc.added + 1 ELSE proc.added
      /\ lapped' = (lapped \/ (space.ok /\ known = 0 /\ proc.head = 0 /\ row > 1))
  <2> HIDE DEF space, marked
  <2> QED
    BY <1>1 DEF TryToAdd, space, marked, ProcRec
<1>4. /\ ~lapped /\ ~(space.ok /\ known = 0 /\ proc.head = 0 /\ row > 1)
  BY <1>3
<1>5. /\ gui.pc # "garbled" /\ \A i \in 1..Taken : model.rows[i] = i
      /\ Taken = 0 => gui.tail = 0
  BY <1>4 DEF RingInv
<1>6. Taken <= Stored
  BY <1>5
<1>7. PICK pos \in [Rows -> Nat] :
        Laid(buffer, pos, Taken, Stored, gui.tail, proc.head, tail, proc.tail)
  BY <1>4 DEF RingInv
<1>8. Laid(buffer, pos, Taken, Stored, gui.tail, proc.head, tail, known)
  <2>1. CASE known = proc.tail
    BY <1>7, <2>1
  <2>2. CASE known = tail
    <3>1. Laid(buffer, pos, Taken, Stored, gui.tail, proc.head, tail, tail)
      BY ONLY <1>1, <1>2, <1>7, LayoutRefreshed
    <3> QED
      BY <2>2, <3>1
  <2> QED
    BY <2>1, <2>2
<1>9. buffer' = Tried(buffer, space, proc.head, row)
  <2> HIDE DEF space
  <2> QED
    BY <1>3 DEF Written, Marked, Tried
<1>10. PICK s : s = space
  OBVIOUS
<1> HIDE DEF space, marked
<1>11. /\ s.ok => /\ \E q \in [Rows -> Nat] :
                       Laid(buffer', q, Taken, Stored + 1, gui.tail,
                            s.head + RecordSize(row), tail, known)
                  /\ s.head + RecordSize(row) <= Size
       /\ ~s.ok => Laid(buffer', pos, Taken, Stored, gui.tail, s.head, tail, known)
  <2>1. s = HasSpace(proc.head, known, RecordSize(row))
    BY <1>10 DEF space
  <2>2. buffer' = Tried(buffer, s, proc.head, row)
    BY <1>9, <1>10
  <2>3. ~(s.ok /\ known = 0 /\ proc.head = 0 /\ row > 1)
    BY <1>4, <1>10
  <2>4. /\ Taken \in Nat /\ Stored \in Nat /\ gui.tail \in Nat /\ proc.head \in Nat
        /\ tail \in Nat /\ known \in Nat /\ proc.head <= Size /\ known <= Size
        /\ IsBuffer(buffer)
    BY <1>1, <1>2
  <2>5. Taken = 0 => gui.tail = 0
    BY <1>5
  <2>6. PICK buf, b1, r, w, g, h, t : /\ buf = buffer /\ b1 = buffer' /\ r = Taken
                                      /\ w = Stored /\ g = gui.tail /\ h = proc.head /\ t = tail
    OBVIOUS
  <2>7. /\ r \in Nat /\ w \in Nat /\ g \in Nat /\ h \in Nat /\ t \in Nat /\ r <= w
        /\ known \in Nat /\ h <= Size /\ known <= Size /\ IsBuffer(buf) /\ (r = 0 => g = 0)
        /\ (r + 1)..w \subseteq Rows /\ row = w + 1 /\ Laid(buf, pos, r, w, g, h, t, known)
        /\ s = HasSpace(h, known, RecordSize(row)) /\ b1 = Tried(buf, s, h, row)
        /\ ~(s.ok /\ known = 0 /\ h = 0 /\ row > 1)
    BY <1>6, <1>8, <2>1, <2>2, <2>3, <2>4, <2>5, <2>6
  <2>8. /\ s.ok => /\ \E q \in [Rows -> Nat] :
                        Laid(b1, q, r, w + 1, g, s.head + RecordSize(row), t, known)
                   /\ s.head + RecordSize(row) <= Size
        /\ ~s.ok => Laid(b1, pos, r, w, g, s.head, t, known)
    BY ONLY <2>7, RowAdded, row \in Rows, pos \in [Rows -> Nat], ZenonT(60)
  <2> QED
    BY <2>6, <2>8
<1>12. Taken' = Taken /\ gui' = gui /\ model' = model /\ tail' = tail
  BY DEF Taken
<1>13. \E q \in [Rows -> Nat] :
         Laid(buffer', q, Taken', Stored', gui'.tail, proc'.head, tail', proc'.tail)
  <2>1. CASE s.ok
    <3>1. Stored' = Stored + 1 /\ proc'.head = s.head + RecordSize(row)
      <4>1. proc.added \in Nat /\ proc.fetched \in Nat
        BY Fields
      <4>2. proc'.added = proc.added + 1 /\ proc'.fetched = proc.fetched
            /\ proc'.head = s.head + RecordSize(row)
        BY <1>3, <1>10, <2>1
      <4> QED
        BY ONLY <4>1, <4>2 DEF Stored
    <3> QED
      BY <1>3, <1>11, <1>12, <2>1, <3>1
  <2>2. CASE ~s.ok
    <3>1. Stored' = Stored /\ proc'.head = s.head
      BY <1>1, <1>3, <1>10, <2>2 DEF Stored
    <3> QED
      BY <1>3, <1>11, <1>12, <2>2, <3>1
  <2> QED
    BY <2>1, <2>2
<1>14. /\ gui'.pc # "garbled" /\ \A i \in 1..Taken' : model'.rows[i] = i
       /\ Taken' = 0 => gui'.tail = 0
  BY <1>5, <1>12
<1> QED
  BY <1>13, <1>14 DEF RingInv, Laid, Kept, SameLap, NextLap, SplitLap, Closed
-----------------------------------------------------------------------------
(* Types.                                                                  *)

LEMMA ProcessTypes ==
  ASSUME FetchTypes, ProcessInv, ThreadInv, CountsAddUp, Process
  PROVE  FetchTypes'
<1>1. CASE ClearForTarget
  <2>1. proc' \in ProcRec
    BY <1>1 DEF ClearForTarget, FetchTypes, ProcRec
  <2> QED
    BY <1>1, <2>1 DEF ClearForTarget, FetchTypes, guiVars, history
<1>2. CASE ReadTarget
  <2>1. processTarget \in Int /\ proc.fetched \in Nat /\ Chunk \in Nat \ {0} /\ proc \in ProcRec
    BY Params, Fields DEF FetchTypes
  <2>2. PICK n : n = BatchSize
    OBVIOUS
  <2>3. processTarget > proc.fetched => n \in 0..Chunk
    BY <2>1, <2>2 DEF BatchSize, Least
  <2>4. proc' = IF processTarget < 0 THEN [proc EXCEPT !.pc = "done"]
                ELSE IF processTarget > proc.fetched
                THEN [proc EXCEPT !.pc = "next", !.left = n, !.added = 0]
                ELSE [proc EXCEPT !.pc = "wait"]
    BY <1>2, <2>2 DEF ReadTarget
  <2>5. proc' \in ProcRec
    BY <2>1, <2>3, <2>4 DEF ProcRec
  <2> QED
    BY <1>2, <2>5 DEF ReadTarget, FetchTypes, guiVars, shared, history
<1>3. CASE WaitForTarget
  <2>1. proc' \in ProcRec
    BY <1>3 DEF WaitForTarget, FetchTypes, ProcRec
  <2> QED
    BY <1>3, <2>1 DEF WaitForTarget, FetchTypes, guiVars, shared, history
<1>4. CASE FetchRow
  <2>1. CASE Looked.left = 0
    <3>1. query' = Looked /\ proc' = [proc EXCEPT !.more = FALSE, !.pc = "publish"]
          /\ UNCHANGED <<buffer, lapped>>
      BY <1>4, <2>1 DEF FetchRow, Looked
    <3>2. proc' \in ProcRec
      BY <3>1 DEF FetchTypes, ProcRec
    <3> QED
      BY <1>4, <3>1, <3>2, LookedAt DEF FetchRow, FetchTypes, guiVars
  <2>2. CASE Looked.left # 0
    <3>1. query' = [Looked EXCEPT !.last = @ + 1, !.left = @ - 1]
          /\ TryToAdd(proc, Looked.last + 1, proc.tail, "space")
      BY <1>4, <2>2 DEF FetchRow, Looked
    <3>2. PICK row, left : row = Looked.last + 1 /\ left = Looked.left - 1
      OBVIOUS
    <3>3. row \in Rows /\ row \in 0..Len(SizeOf) /\ left \in 0..Len(SizeOf) /\ row \in Nat
      <4>1. /\ Looked.last \in 0..Len(SizeOf) /\ Looked.left \in 0..Len(SizeOf)
            /\ Looked.rows \in 0..Len(SizeOf) /\ Looked.last + Looked.left <= Looked.rows
        BY LookedAt DEF QueryRec
      <4>2. Len(SizeOf) \in Nat
        BY Params
      <4> QED
        BY ONLY <2>2, <3>2, <4>1, <4>2 DEF Rows
    <3>4. query' \in QueryRec
      <4>1. query' = [Looked EXCEPT !.last = row, !.left = left] /\ Looked \in QueryRec
        BY <3>1, <3>2, LookedAt
      <4> QED
        BY <3>3, <4>1 DEF QueryRec
    <3>5. TryToAdd(proc, row, proc.tail, "space") /\ proc.tail \in 0..Size
      BY <3>1, <3>2, Fields
    <3>6. buffer' \in Buffers /\ proc'.head \in 0..Size /\ lapped' \in BOOLEAN
      BY <3>3, <3>5, TryTypes
    <3>7. proc' \in ProcRec
      BY <3>3, <3>5, <3>6, TryProc
    <3> QED
      BY <1>4, <3>4, <3>6, <3>7 DEF FetchRow, FetchTypes, guiVars
  <2> QED
    BY <2>1, <2>2
<1>5. CASE ClearForSpace
  <2>1. proc' \in ProcRec
    BY <1>5 DEF ClearForSpace, FetchTypes, ProcRec
  <2> QED
    BY <1>5, <2>1 DEF ClearForSpace, FetchTypes, guiVars, history
<1>6. CASE ReadTail
  <2>1. proc.row \in Rows /\ proc.row \in Nat
    <3>1. proc.row = Stored + 1 /\ query.last = Stored + 1
      BY <1>6 DEF ReadTail, ProcessInv
    <3>2. query.last <= Len(SizeOf) /\ Stored \in Nat
      BY Counts, Fields
    <3> QED
      BY <3>1, <3>2, Params DEF Rows
  <2>2. TryToAdd(proc, proc.row, tail, "full") /\ tail \in 0..Size
    BY <1>6 DEF ReadTail, FetchTypes
  <2>3. PICK row : row = proc.row
    OBVIOUS
  <2>4. buffer' \in Buffers /\ proc'.head \in 0..Size /\ lapped' \in BOOLEAN
    BY <2>1, <2>2, <2>3, TryTypes
  <2>5. proc' \in ProcRec
    BY <2>1, <2>2, <2>3, <2>4, TryProc
  <2> QED
    BY <1>6, <2>4, <2>5 DEF ReadTail, FetchTypes, guiVars
<1>7. CASE WaitForSpace
  <2>1. proc' \in ProcRec
    BY <1>7 DEF WaitForSpace, FetchTypes, ProcRec
  <2> QED
    BY <1>7, <2>1 DEF WaitForSpace, FetchTypes, guiVars, shared, history
<1>8. CASE Publish
  <2>1. proc.fetched \in Nat /\ proc.added \in Nat /\ fetchCount \in Nat /\ proc \in ProcRec
        /\ 0 \in 0..Chunk
    BY Fields, Params DEF FetchTypes
  <2>2. PICK n : n = proc.fetched + proc.added
    OBVIOUS
  <2>3. n \in Nat /\ fetchCount + proc.added \in Nat
    BY <2>1, <2>2
  <2>4. proc' = [proc EXCEPT !.fetched = n, !.added = 0, !.left = 0,
                             !.pc = IF proc.added > 0 THEN "signal"
                                    ELSE IF proc.more THEN "clear" ELSE "done"]
        /\ fetchCount' \in Nat
    BY <1>8, <2>2, <2>3 DEF Publish
  <2>5. proc' \in ProcRec
    BY <2>1, <2>3, <2>4 DEF ProcRec
  <2> QED
    BY <1>8, <2>4, <2>5 DEF Publish, FetchTypes, guiVars, history
<1>9. CASE SignalFetched
  <2>1. proc' \in ProcRec
    BY <1>9 DEF SignalFetched, FetchTypes, ProcRec
  <2> QED
    BY <1>9, <2>1 DEF SignalFetched, FetchTypes, guiVars, history
<1>10. CASE SetDone
  <2>1. proc' \in ProcRec
    BY <1>10 DEF SetDone, FetchTypes, ProcRec
  <2> QED
    BY <1>10, <2>1 DEF SetDone, FetchTypes, guiVars, history
<1>11. CASE ProcessExit
  <2>1. proc' \in ProcRec
    BY <1>11 DEF ProcessExit, FetchTypes, ProcRec
  <2> QED
    BY <1>11, <2>1 DEF ProcessExit, FetchTypes, guiVars, history
<1> QED
  BY <1>1, <1>2, <1>3, <1>4, <1>5, <1>6, <1>7, <1>8, <1>9, <1>10, <1>11 DEF Process

LEMMA ThreadTypes ==
  ASSUME FetchTypes, ProcessInv, ThreadInv, CountsAddUp, HelperThread
  PROVE  FetchTypes'
<1>1. signals \in Seq(0..Len(SizeOf)) /\ 0 \in 0..Len(SizeOf) /\ thread \in ThreadRec
  BY Params DEF FetchTypes
<1>2. ASSUME NEW n \in 0..Len(SizeOf) PROVE Append(signals, n) \in Seq(0..Len(SizeOf))
  BY <1>1
<1>3. CASE StartTask
  <2>1. thread' \in ThreadRec /\ signals' \in Seq(0..Len(SizeOf))
    <3>1. CASE more
      BY <1>1, <1>3, <3>1 DEF StartTask, ThreadRec
    <3>2. CASE ~more
      <4>1. thread' = [thread EXCEPT !.pc = "exited"] /\ signals' = Append(signals, 0)
        BY <1>3, <3>2 DEF StartTask
      <4>2. thread' \in ThreadRec
        BY <1>1, <4>1 DEF ThreadRec
      <4> QED
        BY <1>1, <1>2, <4>1, <4>2
    <3> QED
      BY <3>1, <3>2
  <2> QED
    BY <1>3, <2>1 DEF StartTask, FetchTypes, guiVars, shared, history
<1>4. CASE ClearFetched
  <2>1. thread' \in ThreadRec
    BY <1>1, <1>4 DEF ClearFetched, ThreadRec
  <2> QED
    BY <1>4, <2>1 DEF ClearFetched, FetchTypes, guiVars, history
<1>5. CASE ReadCount
  <2>1. thread' \in ThreadRec
    BY <1>1, <1>5 DEF ReadCount, ThreadRec, FetchTypes
  <2> QED
    BY <1>5, <2>1 DEF ReadCount, FetchTypes, guiVars, shared, history
<1>6. CASE CheckDone
  <2>1. /\ thread' \in ThreadRec /\ signals' \in Seq(0..Len(SizeOf))
        /\ more' \in BOOLEAN /\ missed' \in BOOLEAN
    <3>1. CASE fetchingDone
      <4>1. /\ thread' = [thread EXCEPT !.pc = "exited"] /\ signals' = Append(signals, 0)
            /\ more' = FALSE /\ missed' = (missed \/ fetchCount # thread.last)
        BY <1>6, <3>1 DEF CheckDone
      <4>2. thread' \in ThreadRec
        BY <1>1, <4>1 DEF ThreadRec
      <4> QED
        BY <1>1, <1>2, <4>1, <4>2
    <3>2. CASE ~fetchingDone
      BY <1>1, <1>6, <3>2 DEF CheckDone, ThreadRec, FetchTypes
    <3> QED
      BY <3>1, <3>2
  <2> QED
    BY <1>6, <2>1 DEF CheckDone, FetchTypes, guiVars, shared
<1>7. CASE WaitFetched
  <2>1. thread' \in ThreadRec
    BY <1>1, <1>7 DEF WaitFetched, ThreadRec
  <2> QED
    BY <1>7, <2>1 DEF WaitFetched, FetchTypes, guiVars, shared, history
<1>8. CASE Emit
  <2>1. /\ thread.last \in Nat /\ thread.count \in Nat /\ thread.fetched \in Nat
        /\ fetchCount \in Nat /\ Stored \in Nat /\ proc.fetched \in Nat
    BY Counts, Fields DEF FetchTypes
  <2>2. thread.last < thread.count /\ thread.count <= fetchCount /\ fetchCount = proc.fetched
    BY <1>8 DEF Emit, ThreadInv, ProcessInv
  <2>3. fetchCount <= Len(SizeOf)
    BY <2>1, <2>2, StoredRows, Params
  <2>4. EmitCount \in 0..Len(SizeOf)
    BY <2>1, <2>2, <2>3, Params DEF EmitCount
  <2>5. PICK n, last, fetched :
          n = EmitCount /\ last = thread.last + n /\ fetched = thread.fetched + n
    OBVIOUS
  <2>6. n \in 0..Len(SizeOf) /\ last \in Nat /\ fetched \in Nat
    BY <2>1, <2>4, <2>5
  <2>7. /\ signals' = Append(signals, n)
        /\ thread' = [thread EXCEPT !.pc = "start", !.last = last, !.fetched = fetched]
    BY <1>8, <2>5 DEF Emit
  <2>8. signals' \in Seq(0..Len(SizeOf)) /\ thread' \in ThreadRec
    <3>1. thread' \in ThreadRec
      BY <1>1, <2>6, <2>7 DEF ThreadRec
    <3> QED
      BY <1>2, <2>6, <2>7, <3>1
  <2> QED
    BY <1>8, <2>8 DEF Emit, FetchTypes, guiVars, shared, history
<1> QED
  BY <1>3, <1>4, <1>5, <1>6, <1>7, <1>8 DEF HelperThread

LEMMA GuiTypes ==
  ASSUME FetchTypes, ThreadInv, GuiStep
  PROVE  FetchTypes'
<1>1. gui \in GuiRec /\ model \in ModelRec /\ signals \in Seq(0..Len(SizeOf))
  BY DEF FetchTypes
<1>2. CASE BeginProcessData
  <2>1. signals # <<>> /\ signals \in Seq(Nat)
    BY <1>2, Counts DEF BeginProcessData
  <2>2. Head(signals) \in Nat
    BY <2>1, TotalOfRest
  <2>3. Rest(signals) \in Seq(0..Len(SizeOf))
    BY <1>1, <2>1 DEF Rest
  <2>4. PICK n : n = Head(signals)
    OBVIOUS
  <2>5. gui' = [gui EXCEPT !.pc = "take", !.count = n, !.left = n]
    BY <1>2, <2>4 DEF BeginProcessData
  <2>6. gui' \in GuiRec
    BY <1>1, <2>2, <2>4, <2>5 DEF GuiRec
  <2> QED
    BY <1>2, <2>3, <2>6 DEF BeginProcessData, FetchTypes, shared, history
<1>3. CASE RemoveFromBuffer
  <2> DEFINE pos == NextRecord(gui.tail)
             row == buffer[pos][1]
  <2>1. CASE ~Intact(pos, row)
    <3>1. gui' = [gui EXCEPT !.pc = "garbled"] /\ UNCHANGED model
      BY <1>3, <2>1 DEF RemoveFromBuffer
    <3>2. gui' \in GuiRec
      BY <1>1, <3>1 DEF GuiRec
    <3> QED
      BY <1>3, <3>1, <3>2 DEF RemoveFromBuffer, FetchTypes, shared, history
  <2>2. CASE Intact(pos, row)
    <3>1. /\ gui.tail \in 0..Size /\ Size \in Nat \ {0} /\ Hdr \in Nat \ {0}
          /\ gui.left \in Nat /\ gui.left > 0
      BY <1>3, Fields, Params DEF RemoveFromBuffer
    <3>2. pos \in Cells
      BY <3>1 DEF NextRecord, Cells
    <3>3. row \in Rows
      <4>1. buffer[pos] \in (0..Len(SizeOf)) \X (Nat \cup {-1})
        BY <3>2 DEF FetchTypes, Buffers
      <4>2. row > 0
        BY <2>2 DEF Intact
      <4> QED
        BY <4>1, <4>2, Params DEF Rows
    <3>4. PICK n, end : n = gui.left - 1 /\ end = pos + RecordSize(row)
      OBVIOUS
    <3>5. end \in 0..Size /\ n \in Nat
      <4>1. RecordSize(row) \in Nat /\ pos \in Nat
        BY <3>1, <3>2, <3>3, Sizes DEF Cells
      <4>2. end <= Size
        BY <2>2, <3>4 DEF Intact
      <4> HIDE DEF pos, row
      <4> QED
        BY <3>1, <3>4, <4>1, <4>2
    <3>6. /\ model' = [model EXCEPT !.rows = Append(@, row)]
          /\ gui' = [gui EXCEPT !.left = n, !.tail = end]
      BY <1>3, <2>2, <3>4 DEF RemoveFromBuffer
    <3> HIDE DEF pos, row
    <3>7. gui' \in GuiRec
      BY <1>1, <3>5, <3>6 DEF GuiRec
    <3>8. model' \in ModelRec
      <4>1. /\ model \in [rows : Seq(Rows), shown : Nat, more : BOOLEAN, lastRead : Nat]
            /\ model.shown <= Len(model.rows) /\ model.shown \in Nat /\ model.rows \in Seq(Rows)
        BY <1>1 DEF ModelRec
      <4>2. PICK s : s = Append(model.rows, row)
        OBVIOUS
      <4>3. s \in Seq(Rows) /\ model.shown <= Len(s)
        <5>1. Len(s) = Len(model.rows) + 1 /\ Len(model.rows) \in Nat /\ s \in Seq(Rows)
          BY <3>3, <4>1, <4>2
        <5> QED
          BY <4>1, <5>1
      <4>4. model' = [model EXCEPT !.rows = s]
        BY <3>6, <4>2
      <4> QED
        BY <4>1, <4>3, <4>4 DEF ModelRec
    <3> QED
      BY <1>3, <3>7, <3>8 DEF RemoveFromBuffer, FetchTypes, shared, history
  <2> QED
    BY <2>1, <2>2
<1>4. CASE SetTail
  <2>1. gui' \in GuiRec /\ tail' \in 0..Size
    BY <1>1, <1>4 DEF SetTail, GuiRec
  <2> QED
    BY <1>4, <2>1 DEF SetTail, FetchTypes, history
<1>5. CASE Update
  <2>1. gui' \in GuiRec
    BY <1>1, <1>5 DEF Update, GuiRec
  <2>2. PICK n, b : n = Len(model.rows) /\ b = (model.more /\ ~(gui.count = 0))
    OBVIOUS
  <2>3. model' = [model EXCEPT !.more = b, !.shown = n]
    BY <1>5, <2>2 DEF Update
  <2>4. n \in Nat /\ b \in BOOLEAN /\ n <= n
    <3>1. model.rows \in Seq(Rows)
      BY Fields
    <3> QED
      BY <2>2, <3>1
  <2>5. model' \in ModelRec
    BY <1>1, <2>2, <2>3, <2>4 DEF ModelRec
  <2>6. ASSUME NEW bar \in BarRec, NEW count
        PROVE  Progress(bar, count) \in BarRec
    BY DEF Progress, BarRec
  <2>7. bars' \in [Bars -> BarRec]
    <3>1. \A c \in Bars : bars[c] \in BarRec
      BY DEF FetchTypes
    <3>2. ASSUME NEW c \in Bars PROVE bars'[c] \in BarRec
      <4>1. PICK told \in BarRec : told = IF gui.count = 0 THEN Progress(bars[c], 0) ELSE bars[c]
        BY <2>6, <3>1
      <4>2. bars'[c] = IF n > model.shown THEN Progress(told, n) ELSE told
        BY <1>5, <2>2, <4>1 DEF Update
      <4> QED
        BY <2>6, <4>1, <4>2
    <3>3. bars' = [c \in Bars |-> bars'[c]]
      BY <1>5 DEF Update
    <3> QED
      BY <3>2, <3>3
  <2> QED
    BY <1>5, <2>1, <2>5, <2>7 DEF Update, FetchTypes, history, WakesProcess
<1>6. CASE WakeForTarget
  <2>1. gui' \in GuiRec
    BY <1>1, <1>6 DEF WakeForTarget, GuiRec
  <2> QED
    BY <1>6, <2>1 DEF WakeForTarget, FetchTypes, history
<1>7. CASE ShutdownRest
  <2>1. gui' \in GuiRec
    BY <1>1, <1>7 DEF ShutdownRest, WakeProcess, StopTask, EndFetching, ShutdownThread, GuiRec,
                      Farewell
  <2> QED
    BY <1>7, <2>1 DEF ShutdownRest, WakeProcess, StopTask, EndFetching, ShutdownThread,
                      FetchTypes, shared, history, WakesThread
<1> QED
  BY <1>2, <1>3, <1>4, <1>5, <1>6, <1>7 DEF GuiStep

LEMMA FetchKeepsTypes ==
  ASSUME FetchTypes, NEW nr \in Nat, Fetch(nr)
  PROVE  gui' \in GuiRec /\ processTarget' \in Int
<1>1. gui \in GuiRec /\ processTarget \in Int /\ gui.target \in Int /\ thread.fetched \in Nat
  BY Fields DEF FetchTypes
<1>2. CASE more /\ Extra(nr) > 0
  <2>1. PICK n : n = gui.target + Extra(nr)
    OBVIOUS
  <2>2. n \in Int
    BY <1>1, <2>1 DEF Extra
  <2>3. /\ gui' = [gui EXCEPT !.target = n, !.pc = "events"]
        /\ processTarget' = IF processTarget >= 0 THEN n ELSE processTarget
    BY <1>2, <2>1 DEF Fetch
  <2> QED
    BY <1>1, <2>2, <2>3 DEF GuiRec
<1>3. CASE ~(more /\ Extra(nr) > 0)
  BY <1>1, <1>3 DEF Fetch
<1> QED
  BY <1>2, <1>3

LEMMA UserTypes ==
  ASSUME FetchTypes, User
  PROVE  FetchTypes'
<1>1. gui \in GuiRec /\ model \in ModelRec /\ bars \in [Bars -> BarRec]
  BY DEF FetchTypes
<1>2. ASSUME NEW row \in 1..Len(SizeOf), Scroll(row)
      PROVE  FetchTypes'
  <2>1. gui' \in GuiRec /\ processTarget' \in Int
    <3>1. CASE row + Margin >= model.shown
      <4>1. Fetch(Chunk) /\ Chunk \in Nat
        BY <1>2, <3>1, Params DEF Scroll
      <4> QED
        BY <4>1, FetchKeepsTypes
    <3>2. CASE ~(row + Margin >= model.shown)
      BY <1>2, <3>2 DEF Scroll, FetchTypes
    <3> QED
      BY <3>1, <3>2
  <2>2. model' \in ModelRec
    <3>1. row \in Nat /\ model' = [model EXCEPT !.lastRead = row]
      BY <1>2, Params DEF Scroll
    <3> QED
      BY <1>1, <3>1 DEF ModelRec
  <2> QED
    BY <1>2, <2>1, <2>2 DEF Scroll, FetchTypes, fetchRest, history
<1>3. ASSUME NEW b \in Bars, OpenBar(b)
      PROVE  FetchTypes'
  <2>1. bars' \in [Bars -> BarRec]
    BY <1>1, <1>3 DEF OpenBar, BarRec
  <2> QED
    BY <1>3, <2>1 DEF OpenBar, FetchTypes, fetchRest, history
<1>4. ASSUME NEW b \in Bars, NEW n \in Numbers, FetchMoreRecords(b, n * Chunk)
      PROVE  FetchTypes'
  <2>1. PICK nr \in Nat : nr = n * Chunk
    BY Params
  <2>2. FetchMoreRecords(b, nr)
    BY <1>4, <2>1
  <2>3. CASE model.more
    <3>1. Fetch(nr) /\ bars' = [bars EXCEPT ![b] = [state |-> "busy", start |-> model.shown,
                                                   target |-> nr]]
      BY <2>2, <2>3 DEF FetchMoreRecords
    <3>2. gui' \in GuiRec /\ processTarget' \in Int
      BY <3>1, FetchKeepsTypes
    <3>3. PICK m \in Nat : m = model.shown
      BY Fields
    <3>4. bars' \in [Bars -> BarRec]
      BY <1>1, <3>1, <3>3 DEF BarRec
    <3> QED
      BY <2>2, <3>2, <3>4 DEF FetchMoreRecords, FetchTypes, fetchRest, history
  <2>4. CASE ~model.more
    <3>1. bars' = [c \in Bars |-> IF bars[c].state = "none" THEN bars[c]
                                  ELSE [bars[c] EXCEPT !.state = "done"]]
          /\ UNCHANGED <<gui, processTarget>>
      BY <2>2, <2>4 DEF FetchMoreRecords
    <3>2. bars' \in [Bars -> BarRec]
      <4>1. ASSUME NEW c \in Bars PROVE bars'[c] \in BarRec
        BY <1>1, <3>1 DEF BarRec
      <4> QED
        BY <3>1, <4>1
    <3> QED
      BY <2>2, <3>1, <3>2 DEF FetchMoreRecords, FetchTypes, fetchRest, history
  <2> QED
    BY <2>3, <2>4
<1>5. CASE Shutdown
  <2>1. gui' \in GuiRec
    BY <1>1, <1>5 DEF Shutdown, GuiRec, Farewell
  <2> QED
    BY <1>5, <2>1 DEF Shutdown, FetchTypes, history
<1> QED
  BY <1>2, <1>3, <1>4, <1>5 DEF User
-----------------------------------------------------------------------------
(* The ring buffer, action by action.                                      *)

\* The frame: whatever leaves the buffer and the places of its ends alone.
LEMMA RingStays ==
  ASSUME RingInv, buffer' = buffer, tail' = tail, lapped' = lapped,
         model'.rows = model.rows, gui'.tail = gui.tail,
         gui'.pc = "garbled" => gui.pc = "garbled",
         proc'.head = proc.head, proc'.tail = proc.tail, Stored' = Stored
  PROVE  RingInv'
<1> SUFFICES ASSUME ~lapped' PROVE RingInv'
  BY DEF RingInv
<1>1. /\ gui.pc # "garbled" /\ \A i \in 1..Taken : model.rows[i] = i
      /\ Taken = 0 => gui.tail = 0
  BY DEF RingInv
<1>2. Taken' = Taken
  BY DEF Taken
<1>3. PICK pos \in [Rows -> Nat] :
        Laid(buffer, pos, Taken, Stored, gui.tail, proc.head, tail, proc.tail)
  BY DEF RingInv
<1>4. Laid(buffer', pos, Taken', Stored', gui'.tail, proc'.head, tail', proc'.tail)
  BY <1>2, <1>3
<1>5. /\ gui'.pc # "garbled" /\ \A i \in 1..Taken' : model'.rows[i] = i
      /\ Taken' = 0 => gui'.tail = 0
  BY <1>1, <1>2
<1> QED
  BY <1>4, <1>5 DEF RingInv, Laid, Kept, SameLap, NextLap, SplitLap, Closed

\* The process touches the ring only where it tries to add a row.
LEMMA ProcessKeepsRing ==
  ASSUME FetchTypes, ProcessInv, CountsAddUp, RingInv, Process
  PROVE  RingInv'
<1>1. /\ proc \in ProcRec /\ proc.fetched \in Nat /\ proc.added \in Nat
      /\ query.rows \in 0..Len(SizeOf) /\ query.last \in Nat /\ Stored \in Nat
  BY Fields, Counts DEF FetchTypes
<1>2. /\ gui.pc # "garbled" => Taken <= Stored
      /\ (Taken + 1)..Stored \subseteq Rows
  BY StoredRows
<1>3. ASSUME UNCHANGED <<buffer, tail, lapped, model, gui>>,
             proc'.head = proc.head, proc'.tail = proc.tail, Stored' = Stored
      PROVE  RingInv'
  BY <1>3, RingStays
<1>4. CASE \/ ClearForTarget \/ ReadTarget \/ WaitForTarget
           \/ ClearForSpace \/ WaitForSpace \/ SignalFetched \/ SetDone \/ ProcessExit
  <2>1. UNCHANGED <<buffer, tail, lapped, model, gui>>
    BY <1>4 DEF ClearForTarget, ReadTarget, WaitForTarget, ClearForSpace, WaitForSpace,
                SignalFetched, SetDone, ProcessExit, guiVars, shared, history
  <2>2. /\ proc'.head = proc.head /\ proc'.tail = proc.tail /\ proc'.fetched = proc.fetched
        /\ proc'.added = proc.added
    <3>1. CASE ReadTarget
      <4>1. proc.pc = "target" => proc.added = 0
        BY DEF ProcessInv
      <4>2. PICK n : n = BatchSize
        OBVIOUS
      <4>3. proc.added = 0
            /\ \/ \E pc \in {"done", "wait"} : proc' = [proc EXCEPT !.pc = pc]
               \/ proc' = [proc EXCEPT !.pc = "next", !.left = n, !.added = 0]
        BY <3>1, <4>1, <4>2 DEF ReadTarget
      <4> QED
        BY <1>1, <4>3 DEF ProcRec
    <3>2. CASE ~ReadTarget
      <4>1. \E pc \in {"target", "clear", "tail", "space", "done", "exit", "exited"} :
              proc' = [proc EXCEPT !.pc = pc]
        BY <1>4, <3>2 DEF ClearForTarget, WaitForTarget, ClearForSpace, WaitForSpace,
                          SignalFetched, SetDone, ProcessExit
      <4> QED
        BY <1>1, <4>1 DEF ProcRec
    <3> QED
      BY <3>1, <3>2
  <2> QED
    BY <1>3, <2>1, <2>2 DEF Stored
<1>5. CASE Publish
  <2>1. PICK n, pc : n = proc.fetched + proc.added
               /\ pc = IF proc.added > 0 THEN "signal" ELSE IF proc.more THEN "clear" ELSE "done"
    OBVIOUS
  <2>2. proc' = [proc EXCEPT !.fetched = n, !.added = 0, !.left = 0, !.pc = pc]
    BY <1>5, <2>1 DEF Publish
  <2>3. /\ proc'.head = proc.head /\ proc'.tail = proc.tail /\ proc'.fetched = n
        /\ proc'.added = 0
    BY <1>1, <2>2 DEF ProcRec
  <2>4. Stored' = Stored
    BY <1>1, <2>1, <2>3 DEF Stored
  <2>5. UNCHANGED <<buffer, tail, lapped, model, gui>>
    BY <1>5 DEF Publish, guiVars, history
  <2> QED
    BY <1>3, <2>3, <2>4, <2>5
<1>6. CASE FetchRow /\ Looked.left = 0
  <2>1. proc' = [proc EXCEPT !.more = FALSE, !.pc = "publish"]
        /\ UNCHANGED <<buffer, tail, lapped, model, gui>>
    BY <1>6 DEF FetchRow, Looked, guiVars
  <2>2. /\ proc'.head = proc.head /\ proc'.tail = proc.tail /\ proc'.fetched = proc.fetched
        /\ proc'.added = proc.added
    BY <1>1, <2>1 DEF ProcRec
  <2> QED
    BY <1>3, <2>1, <2>2 DEF Stored
<1>7. CASE FetchRow /\ Looked.left # 0
  <2>1. /\ TryToAdd(proc, Looked.last + 1, proc.tail, "space") /\ proc.pc = "next"
        /\ UNCHANGED <<model, gui, tail>>
    BY <1>7 DEF FetchRow, Looked, guiVars
  <2>2. PICK row : row = Looked.last + 1
    OBVIOUS
  <2>3. row = Stored + 1 /\ row \in Rows
    <3>1. proc.row = 0
      BY <2>1 DEF ProcessInv
    <3>2. query.last = Stored
      BY <1>1, <3>1 DEF ProcessInv
    <3>3. /\ Looked.last = query.last /\ Looked.rows = query.rows /\ Looked.left \in Nat
          /\ Looked.last + Looked.left <= Looked.rows
      BY LookedAt, Params DEF QueryRec
    <3> QED
      BY <1>1, <1>7, <2>2, <3>2, <3>3, Params DEF Rows
  <2>4. TryToAdd(proc, row, proc.tail, "space")
    BY <2>1, <2>2
  <2> QED
    BY <1>2, <2>1, <2>3, <2>4, TryKeepsRing
<1>8. CASE ReadTail
  <2>1. /\ TryToAdd(proc, proc.row, tail, "full") /\ proc.pc = "tail"
        /\ UNCHANGED <<model, gui, tail>>
    BY <1>8 DEF ReadTail, guiVars
  <2>2. PICK row : row = proc.row
    OBVIOUS
  <2>3. row = Stored + 1 /\ row \in Rows
    <3>1. proc.row # 0
      BY <2>1 DEF ProcessInv
    <3>2. proc.row = Stored + 1 /\ query.last = Stored + 1
          /\ query.last <= query.rows
      BY <1>1, <3>1, StoredRows DEF ProcessInv
    <3> QED
      BY <1>1, <2>2, <3>2, Params DEF Rows
  <2>4. TryToAdd(proc, row, tail, "full")
    BY <2>1, <2>2
  <2> QED
    BY <1>2, <2>1, <2>3, <2>4, TryKeepsRing
<1> QED
  BY <1>4, <1>5, <1>6, <1>7, <1>8 DEF Process

LEMMA RemovalKeepsRing ==
  ASSUME FetchTypes, ProcessInv, CountsAddUp, RingInv, RemoveFromBuffer
  PROVE  RingInv'
<1> SUFFICES ASSUME ~lapped' PROVE RingInv'
  BY DEF RingInv
<1>1. /\ gui \in GuiRec /\ model \in ModelRec /\ model.rows \in Seq(Rows)
      /\ gui.tail \in 0..Size /\ gui.left \in Nat /\ tail \in 0..Size
      /\ proc.head \in 0..Size /\ proc.tail \in 0..Size /\ Size \in Nat
      /\ Taken \in Nat /\ Stored \in Nat
  BY Fields, Counts, Params DEF FetchTypes
<1>2. /\ gui.pc = "take" /\ gui.left > 0
      /\ UNCHANGED <<query, proc, buffer, tail, lapped>>
  BY DEF RemoveFromBuffer, shared, history
<1>3. ~lapped
  BY <1>2
<1>4. \A i \in 1..Taken : model.rows[i] = i
  BY <1>3 DEF RingInv
<1>5. PICK pos \in [Rows -> Nat] :
        Laid(buffer, pos, Taken, Stored, gui.tail, proc.head, tail, proc.tail)
  BY <1>3 DEF RingInv
<1>6. PICK buf, r, w, g, h, t, k, at, row :
             /\ buf = buffer /\ r = Taken /\ w = Stored /\ g = gui.tail /\ h = proc.head
             /\ t = tail /\ k = proc.tail /\ at = NextRecord(gui.tail) /\ row = buffer[at][1]
  OBVIOUS
<1>7. /\ r \in Nat /\ w \in Nat /\ g \in Nat /\ h \in Nat /\ t \in Nat /\ k \in Nat
      /\ r < w /\ (r + 1)..w \subseteq Rows /\ Laid(buf, pos, r, w, g, h, t, k)
      /\ NextAt(buf, g, at)
  <2>1. Taken < Stored /\ (Taken + 1)..Stored \subseteq Rows
    BY <1>2, StoredRows
  <2>2. NextRecord(gui.tail) = IF Closed(buffer, gui.tail) THEN 0 ELSE gui.tail
    BY DEF NextRecord, Closed
  <2>3. NextAt(buf, g, at)
    BY <1>6, <2>2 DEF NextAt
  <2> QED
    BY <1>1, <1>5, <1>6, <2>1, <2>3
<1>8. PICK end : end = After(pos, r + 1)
  OBVIOUS
<1>9. /\ at = pos[r + 1] /\ at \in Nat /\ end < Size
      /\ \A i \in 0..(RecordSize(r + 1) - 1) : buf[at + i] = <<r + 1, i>>
      /\ Laid(buf, pos, r + 1, w, end, h, t, k)
      /\ end \in Nat /\ 0 < end
  <2>1. /\ at = pos[r + 1] /\ at \in Nat /\ After(pos, r + 1) < Size
        /\ \A i \in 0..(RecordSize(r + 1) - 1) : buf[at + i] = <<r + 1, i>>
        /\ Laid(buf, pos, r + 1, w, After(pos, r + 1), h, t, k)
        /\ After(pos, r + 1) \in Nat /\ 0 < After(pos, r + 1)
    BY ONLY <1>7, RowTaken, pos \in [Rows -> Nat]
  <2> QED
    BY ONLY <1>8, <2>1
<1>10. r + 1 \in Rows /\ RecordSize(r + 1) \in Nat /\ 0 < RecordSize(r + 1)
       /\ end = at + RecordSize(r + 1)
  <2>1. r + 1 \in Rows
    BY <1>7
  <2>2. RecordSize(r + 1) \in Nat /\ Hdr \in Nat \ {0} /\ Hdr < RecordSize(r + 1)
    BY <2>1, Sizes
  <2> QED
    BY <1>8, <1>9, <2>1, <2>2 DEF After
<1>11. row = r + 1
  <2>1. 0 \in 0..(RecordSize(r + 1) - 1) /\ at + 0 = at
    BY <1>9, <1>10
  <2>2. buf[at] = <<r + 1, 0>>
    BY <1>9, <2>1
  <2> QED
    BY <1>6, <2>2
<1>12. Intact(at, row)
  <2>1. \A i \in 0..(RecordSize(row) - 1) : buffer[at + i] = <<row, i>>
    BY <1>6, <1>9, <1>11
  <2>2. row > 0 /\ at + RecordSize(row) <= Size
    <3>1. Size \in Nat /\ RecordSize(row) = RecordSize(r + 1)
      BY <1>1, <1>11
    <3> QED
      BY ONLY <1>7, <1>9, <1>10, <1>11, <3>1
  <2> QED
    BY <2>1, <2>2 DEF Intact
<1>13. PICK n : n = gui.left - 1
  OBVIOUS
<1>14. /\ model' = [model EXCEPT !.rows = Append(model.rows, row)]
       /\ gui' = [gui EXCEPT !.left = n, !.tail = end]
  BY <1>6, <1>10, <1>11, <1>12, <1>13 DEF RemoveFromBuffer
<1>15. model'.rows = Append(model.rows, row) /\ gui'.tail = end /\ gui'.pc = "take"
  BY <1>1, <1>2, <1>14 DEF ModelRec, GuiRec
<1>16. /\ Taken' = r + 1 /\ \A i \in 1..Taken' : model'.rows[i] = i
  <2>1. Taken' = r + 1
    BY <1>1, <1>6, <1>15, <1>11 DEF Taken
  <2>2. ASSUME NEW i \in 1..(r + 1)
        PROVE  model'.rows[i] = i
    <3>1. CASE i = r + 1
      BY <1>1, <1>6, <1>11, <1>15, <3>1 DEF Taken
    <3>2. CASE i # r + 1
      <4>1. i \in 1..r
        BY <1>7, <3>2
      <4> QED
        BY <1>1, <1>4, <1>6, <1>11, <1>15, <4>1 DEF Taken
    <3> QED
      BY <3>1, <3>2
  <2> QED
    BY <2>1, <2>2
<1>17. Stored' = Stored /\ proc' = proc /\ tail' = tail /\ buffer' = buffer
  BY <1>2 DEF Stored
<1>18. Laid(buffer', pos, Taken', Stored', gui'.tail, proc'.head, tail', proc'.tail)
  BY <1>6, <1>9, <1>15, <1>16, <1>17
<1>19. gui'.pc # "garbled" /\ Taken' # 0
  BY <1>7, <1>15, <1>16
<1> QED
  BY <1>16, <1>18, <1>19 DEF RingInv, Laid, Kept, SameLap, NextLap, SplitLap, Closed

LEMMA TailKeepsRing ==
  ASSUME FetchTypes, RingInv, SetTail
  PROVE  RingInv'
<1> SUFFICES ASSUME ~lapped' PROVE RingInv'
  BY DEF RingInv
<1>1. /\ gui \in GuiRec /\ gui.tail \in 0..Size /\ tail \in 0..Size /\ Size \in Nat
      /\ proc.head \in 0..Size /\ proc.tail \in 0..Size
      /\ Taken \in Nat /\ Stored \in Nat
  BY Fields, Counts, Params DEF FetchTypes
<1>2. /\ tail' = gui.tail /\ gui' = [gui EXCEPT !.pc = "update"]
      /\ UNCHANGED <<proc, model, buffer, lapped>>
  BY DEF SetTail, history
<1>3. /\ \A i \in 1..Taken : model.rows[i] = i
      /\ Taken = 0 => gui.tail = 0
  BY <1>2 DEF RingInv
<1>4. PICK pos \in [Rows -> Nat] :
        Laid(buffer, pos, Taken, Stored, gui.tail, proc.head, tail, proc.tail)
  BY <1>2 DEF RingInv
<1>5. PICK buf, r, w, g, h, t, k :
             /\ buf = buffer /\ r = Taken /\ w = Stored /\ g = gui.tail /\ h = proc.head
             /\ t = tail /\ k = proc.tail
  OBVIOUS
<1>6. /\ r \in Nat /\ w \in Nat /\ g \in Nat /\ h \in Nat /\ t \in Nat /\ k \in Nat
      /\ Laid(buf, pos, r, w, g, h, t, k)
  BY <1>1, <1>4, <1>5
<1>7. Laid(buf, pos, r, w, g, h, g, k)
  BY ONLY <1>6, TailPublished
<1>8. /\ gui'.pc = "update" /\ gui'.tail = gui.tail /\ Taken' = Taken /\ Stored' = Stored
      /\ proc' = proc /\ buffer' = buffer /\ model' = model
  BY <1>1, <1>2 DEF GuiRec, Taken, Stored
<1>9. Laid(buffer', pos, Taken', Stored', gui'.tail, proc'.head, tail', proc'.tail)
  BY <1>2, <1>5, <1>7, <1>8
<1> QED
  BY <1>3, <1>8, <1>9 DEF RingInv, Laid, Kept, SameLap, NextLap, SplitLap, Closed

LEMMA OthersKeepRing ==
  ASSUME FetchTypes, ProcessInv, CountsAddUp, RingInv, HelperThread \/ GuiStep \/ User
  PROVE  RingInv'
<1>1. gui \in GuiRec /\ model \in ModelRec
  BY DEF FetchTypes
<1>2. ASSUME UNCHANGED <<proc, buffer, tail, lapped>>, model'.rows = model.rows,
             gui'.tail = gui.tail, gui'.pc = "garbled" => gui.pc = "garbled"
      PROVE  RingInv'
  <2>1. Stored' = Stored
    BY <1>2 DEF Stored
  <2> QED
    BY <1>2, <2>1, RingStays
<1>3. CASE HelperThread
  <2>1. UNCHANGED <<proc, buffer, tail, lapped, model, gui>>
    BY <1>3 DEF HelperThread, StartTask, ClearFetched, ReadCount, CheckDone, WaitFetched,
                Emit, guiVars, shared, history
  <2> QED
    BY <1>2, <2>1
<1>4. CASE GuiStep
  <2>1. CASE BeginProcessData
    <3>1. PICK n : n = Head(signals)
      OBVIOUS
    <3>2. gui' = [gui EXCEPT !.pc = "take", !.count = n, !.left = n]
          /\ UNCHANGED <<proc, buffer, tail, lapped, model>>
      BY <2>1, <3>1 DEF BeginProcessData, shared, history
    <3>3. gui'.tail = gui.tail /\ gui'.pc = "take"
      BY <1>1, <3>2 DEF GuiRec
    <3> QED
      BY <1>2, <3>2, <3>3
  <2>2. CASE Update
    <3>1. PICK n, b : n = Len(model.rows) /\ b = (model.more /\ ~(gui.count = 0))
      OBVIOUS
    <3>2. /\ gui' = [gui EXCEPT !.pc = "idle", !.count = 0]
          /\ model' = [model EXCEPT !.more = b, !.shown = n]
          /\ UNCHANGED <<proc, buffer, tail, lapped>>
      BY <2>2, <3>1 DEF Update, history
    <3>3. gui'.tail = gui.tail /\ gui'.pc = "idle" /\ model'.rows = model.rows
      BY <1>1, <3>2 DEF GuiRec, ModelRec
    <3> QED
      BY <1>2, <3>2, <3>3
  <2>3. CASE WakeForTarget \/ ShutdownRest
    <3>1. /\ \E pc \in {"idle", "exited"} \cup Farewell : gui' = [gui EXCEPT !.pc = pc]
          /\ UNCHANGED <<proc, buffer, tail, lapped, model>>
      BY <2>3 DEF WakeForTarget, ShutdownRest, WakeProcess, StopTask, EndFetching,
                  ShutdownThread, Farewell, shared, history
    <3>2. gui'.tail = gui.tail /\ gui'.pc # "garbled"
      BY <1>1, <3>1 DEF GuiRec, Farewell
    <3> QED
      BY <1>2, <3>1, <3>2
  <2> QED
    BY <1>4, <2>1, <2>2, <2>3, RemovalKeepsRing, TailKeepsRing DEF GuiStep
<1>5. CASE User
  <2>1. ASSUME NEW nr, Fetch(nr)
        PROVE  gui'.tail = gui.tail /\ (gui'.pc = "garbled" => gui.pc = "garbled")
    <3>1. PICK n : n = gui.target + Extra(nr)
      OBVIOUS
    <3>2. gui' = gui \/ gui' = [gui EXCEPT !.target = n, !.pc = "events"]
      BY <2>1, <3>1 DEF Fetch
    <3> QED
      BY <1>1, <3>2 DEF GuiRec
  <2>2. ASSUME NEW row, Scroll(row)
        PROVE  RingInv'
    <3>1. /\ model' = [model EXCEPT !.lastRead = row] /\ UNCHANGED <<proc, buffer, tail, lapped>>
          /\ Fetch(Chunk) \/ gui' = gui
      BY <2>2 DEF Scroll, fetchRest, history
    <3>2. model'.rows = model.rows
      BY <1>1, <3>1 DEF ModelRec
    <3> QED
      BY <1>2, <2>1, <3>1, <3>2
  <2>3. ASSUME NEW b \in Bars, OpenBar(b) \/ \E n \in Numbers : FetchMoreRecords(b, n * Chunk)
        PROVE  RingInv'
    <3>1. /\ UNCHANGED <<proc, buffer, tail, lapped, model>>
          /\ gui' = gui \/ \E n \in Numbers : Fetch(n * Chunk)
      BY <2>3 DEF OpenBar, FetchMoreRecords, fetchRest, history
    <3> QED
      BY <1>2, <2>1, <3>1
  <2>4. CASE Shutdown
    <3>1. gui' = [gui EXCEPT !.pc = "wakeProcess"] /\ UNCHANGED <<proc, buffer, tail, lapped, model>>
      BY <2>4 DEF Shutdown, history
    <3>2. gui'.tail = gui.tail /\ gui'.pc = "wakeProcess"
      BY <1>1, <3>1 DEF GuiRec
    <3> QED
      BY <1>2, <3>1, <3>2
  <2> QED
    BY <1>5, <2>2, <2>3, <2>4 DEF User
<1> QED
  BY <1>3, <1>4, <1>5
-----------------------------------------------------------------------------
(* The process and its query.                                              *)

\* What Process leaves alone, and that it only adds to what is published.
LEMMA ProcessFrame ==
  ASSUME FetchTypes, ProcessInv, Process
  PROVE  /\ UNCHANGED <<thread, gui, model, bars, signals, more, missed>>
         /\ query'.rows = query.rows
         /\ fetchCount' \in Nat /\ fetchCount <= fetchCount'
<1>1. /\ query \in QueryRec /\ Looked \in QueryRec /\ Looked.rows = query.rows
      /\ fetchCount \in Nat /\ proc.added \in Nat
  BY LookedAt, Fields DEF FetchTypes
<1>2. CASE FetchRow
  <2>1. /\ UNCHANGED <<thread, gui, model, bars, signals, more, missed, fetchCount>>
        /\ query' = Looked
           \/ query' = [Looked EXCEPT !.last = Looked.last + 1, !.left = Looked.left - 1]
    BY <1>2 DEF FetchRow, Looked, guiVars
  <2>2. query'.rows = Looked.rows
    <3>1. PICK m, n : m = Looked.last + 1 /\ n = Looked.left - 1
      OBVIOUS
    <3>2. query' = Looked \/ query' = [Looked EXCEPT !.last = m, !.left = n]
      BY <2>1, <3>1
    <3> QED
      BY <1>1, <3>2 DEF QueryRec
  <2> QED
    BY <1>1, <2>1, <2>2
<1>3. CASE Publish
  BY <1>1, <1>3 DEF Publish, guiVars, history
<1>4. CASE ~FetchRow /\ ~Publish
  <2>1. UNCHANGED <<query, thread, gui, model, bars, signals, more, missed, fetchCount>>
    BY <1>4 DEF Process, ClearForTarget, ReadTarget, WaitForTarget, ClearForSpace, ReadTail,
                WaitForSpace, SignalFetched, SetDone, ProcessExit, guiVars, shared, history
  <2> QED
    BY <1>1, <2>1
<1> QED
  BY <1>2, <1>3, <1>4

LEMMA TryKeepsProcess ==
  ASSUME FetchTypes, ProcessInv, NEW row \in Rows, row = Stored + 1,
         NEW known \in 0..Size, NEW otherwise \in {"space", "full"},
         TryToAdd(proc, row, known, otherwise), proc.added < proc.left, proc.more,
         query' \in QueryRec, query'.last = row, query'.last + query'.left <= query'.rows,
         query'.paged => query'.limit = 0,
         ~query'.paged => query'.limit = 1 /\ query'.last + query'.left = query'.rows,
         UNCHANGED <<gui, fetchCount, fetchingDone, processTarget>>,
         proc.pc \in {"next", "tail"}
  PROVE  ProcessInv'
<1>1. /\ proc.fetched \in Nat /\ proc.added \in Nat /\ proc.left \in Nat /\ row \in Nat
      /\ fetchCount = proc.fetched
      /\ processTarget >= 0 \/ Leaving
      /\ fetchingDone => Leaving
  <2>1. proc.left \in 0..Chunk /\ Chunk \in Nat /\ Len(SizeOf) \in Nat
    BY Fields, Params
  <2>2. /\ fetchCount = proc.fetched /\ (processTarget >= 0 \/ Leaving)
        /\ fetchingDone => Leaving
    BY DEF ProcessInv
  <2>3. row \in Nat
    BY <2>1 DEF Rows
  <2>4. proc.left \in Nat
    BY <2>1
  <2>5. proc.fetched \in Nat /\ proc.added \in Nat
    BY Fields
  <2> QED
    BY <2>2, <2>3, <2>4, <2>5
<1>2. /\ proc'.fetched = proc.fetched /\ proc'.left = proc.left /\ proc'.more = proc.more
      /\ \/ proc'.pc = "next" /\ proc'.row = 0 /\ proc'.added = proc.added + 1
         \/ proc'.pc = otherwise /\ proc'.row = row /\ proc'.added = proc.added
  BY TryProc
<1>3. Stored' = proc'.fetched + proc'.added /\ Stored = proc.fetched + proc.added
      /\ Leaving' = Leaving /\ gui' = gui
  BY DEF Stored, Leaving
<1>4. CASE proc'.pc = "next" /\ proc'.row = 0 /\ proc'.added = proc.added + 1
  <2>1. query'.last = Stored' /\ proc'.added <= proc'.left
    BY <1>1, <1>2, <1>3, <1>4
  <2> QED
    BY <1>1, <1>2, <1>3, <1>4, <2>1 DEF ProcessInv
<1>5. CASE proc'.pc = otherwise /\ proc'.row = row /\ proc'.added = proc.added
  <2>1. query'.last = Stored' + 1 /\ proc'.row = Stored' + 1 /\ proc'.row # 0
        /\ proc'.added < proc'.left /\ proc'.added <= proc'.left
    BY <1>1, <1>2, <1>3, <1>5
  <2> QED
    BY <1>1, <1>2, <1>3, <1>5, <2>1 DEF ProcessInv
<1> QED
  BY <1>2, <1>4, <1>5

LEMMA ProcessKeepsProcess ==
  ASSUME FetchTypes, ProcessInv, Process
  PROVE  ProcessInv'
<1>1. /\ proc \in ProcRec /\ proc.fetched \in Nat /\ proc.added \in Nat /\ proc.left \in Nat
      /\ proc.row \in Nat /\ proc.more \in BOOLEAN /\ query \in QueryRec
      /\ fetchCount \in Nat /\ processTarget \in Int
      /\ query.rows \in Nat /\ query.last \in Nat /\ query.left \in Nat
  <2>1. proc \in ProcRec /\ query \in QueryRec /\ fetchCount \in Nat /\ processTarget \in Int
    BY DEF FetchTypes
  <2>2. /\ proc.fetched \in Nat /\ proc.added \in Nat /\ proc.row \in Nat
        /\ proc.more \in BOOLEAN /\ query.last \in Nat /\ query.left \in Nat
    BY Fields
  <2>3. proc.left \in Nat /\ query.rows \in Nat
    <3>1. proc.left \in 0..Chunk /\ query.rows \in 0..Len(SizeOf)
      BY Fields
    <3>2. Chunk \in Nat /\ Len(SizeOf) \in Nat
      BY Params
    <3> QED
      BY ONLY <3>1, <3>2
  <2> QED
    BY <2>1, <2>2, <2>3
<1>2. CASE ClearForTarget \/ WaitForTarget \/ ClearForSpace \/ WaitForSpace
  <2>1. /\ UNCHANGED <<query, gui, fetchCount, fetchingDone, processTarget>>
        /\ \/ proc.pc = "clear" /\ proc' = [proc EXCEPT !.pc = "target"]
           \/ proc.pc = "wait" /\ proc' = [proc EXCEPT !.pc = "clear"]
           \/ proc.pc = "space" /\ proc' = [proc EXCEPT !.pc = "tail"]
           \/ proc.pc = "full" /\ proc' = [proc EXCEPT !.pc = "space"]
    BY <1>2 DEF ClearForTarget, WaitForTarget, ClearForSpace, WaitForSpace, guiVars, shared
  <2>2. /\ proc'.fetched = proc.fetched /\ proc'.added = proc.added /\ proc'.left = proc.left
        /\ proc'.row = proc.row /\ proc'.more = proc.more
        /\ \/ proc.pc = "clear" /\ proc'.pc = "target"
           \/ proc.pc = "wait" /\ proc'.pc = "clear"
           \/ proc.pc = "space" /\ proc'.pc = "tail"
           \/ proc.pc = "full" /\ proc'.pc = "space"
    BY <1>1, <2>1 DEF ProcRec
  <2> QED
    BY <2>1, <2>2 DEF ProcessInv, Stored, Leaving
<1>3. CASE ReadTarget
  <2>1. PICK n : n = BatchSize
    OBVIOUS
  <2>2. /\ UNCHANGED <<query, gui, fetchCount, fetchingDone, processTarget>>
        /\ proc.pc = "target" /\ proc.added = 0
        /\ \/ processTarget < 0 /\ proc' = [proc EXCEPT !.pc = "done"]
           \/ processTarget > proc.fetched
              /\ proc' = [proc EXCEPT !.pc = "next", !.left = n, !.added = 0]
           \/ proc' = [proc EXCEPT !.pc = "wait"]
    BY <1>3, <2>1 DEF ReadTarget, ProcessInv, guiVars, shared
  <2>3. processTarget > proc.fetched => n \in Nat
    BY <1>1, <2>1, Params DEF BatchSize, Least
  <2>4. /\ proc'.fetched = proc.fetched /\ proc'.added = 0 /\ proc'.row = proc.row
        /\ proc'.more = proc.more /\ proc'.left \in Nat
        /\ \/ processTarget < 0 /\ proc'.pc = "done"
           \/ proc'.pc \in {"next", "wait"}
    BY <1>1, <2>2, <2>3 DEF ProcRec
  <2> QED
    BY <1>1, <2>2, <2>4 DEF ProcessInv, Stored, Leaving
<1>4. CASE Publish
  <2>1. PICK n, pc : n = proc.fetched + proc.added
               /\ pc = IF proc.added > 0 THEN "signal" ELSE IF proc.more THEN "clear" ELSE "done"
    OBVIOUS
  <2>2. /\ proc' = [proc EXCEPT !.fetched = n, !.added = 0, !.left = 0, !.pc = pc]
        /\ fetchCount' = fetchCount + proc.added
        /\ proc.pc = "publish" \/ (proc.pc = "next" /\ proc.added = proc.left)
        /\ UNCHANGED <<query, gui, fetchingDone, processTarget>>
    BY <1>4, <2>1 DEF Publish, guiVars
  <2>3. /\ proc'.fetched = n /\ proc'.added = 0 /\ proc'.left = 0 /\ proc'.pc = pc
        /\ proc'.row = proc.row /\ proc'.more = proc.more
    BY <1>1, <2>2 DEF ProcRec
  <2>4. pc \in {"signal", "clear", "done"} /\ (pc = "clear" => proc.more)
        /\ (pc = "done" => ~proc.more) /\ proc.row = 0 /\ fetchCount = proc.fetched
    BY <2>1, <2>2 DEF ProcessInv
  <2>5. Stored' = Stored /\ fetchCount' = proc'.fetched /\ Leaving' = Leaving
    BY <1>1, <2>1, <2>2, <2>3, <2>4 DEF Stored, Leaving
  <2> QED
    BY <1>1, <2>2, <2>3, <2>4, <2>5 DEF ProcessInv
<1>5. CASE SignalFetched \/ SetDone \/ ProcessExit
  <2>1. /\ UNCHANGED <<query, gui, fetchCount, processTarget>>
        /\ \/ /\ proc.pc = "signal" /\ fetchingDone' = fetchingDone
              /\ \/ proc.more /\ proc' = [proc EXCEPT !.pc = "clear"]
                 \/ ~proc.more /\ proc' = [proc EXCEPT !.pc = "done"]
           \/ proc.pc = "done" /\ proc' = [proc EXCEPT !.pc = "exit"]
           \/ proc.pc = "exit" /\ proc' = [proc EXCEPT !.pc = "exited"]
              /\ fetchingDone' = fetchingDone
    BY <1>5 DEF SignalFetched, SetDone, ProcessExit, guiVars
  <2>2. /\ proc'.fetched = proc.fetched /\ proc'.added = proc.added /\ proc'.left = proc.left
        /\ proc'.row = proc.row /\ proc'.more = proc.more
        /\ \/ /\ proc.pc = "signal" /\ fetchingDone' = fetchingDone
              /\ \/ proc.more /\ proc'.pc = "clear"
                 \/ ~proc.more /\ proc'.pc = "done"
           \/ proc.pc = "done" /\ proc'.pc = "exit"
           \/ proc.pc = "exit" /\ proc'.pc = "exited" /\ fetchingDone' = fetchingDone
    BY <1>1, <2>1 DEF ProcRec
  <2> QED
    BY <2>1, <2>2 DEF ProcessInv, Stored, Leaving
<1>6. CASE FetchRow /\ Looked.left = 0
  <2>1. /\ proc' = [proc EXCEPT !.more = FALSE, !.pc = "publish"] /\ query' = Looked
        /\ proc.pc = "next" /\ UNCHANGED <<gui, fetchCount, fetchingDone, processTarget>>
    BY <1>6 DEF FetchRow, Looked, guiVars
  <2>2. /\ proc'.fetched = proc.fetched /\ proc'.added = proc.added /\ proc'.left = proc.left
        /\ proc'.row = proc.row /\ ~proc'.more /\ proc'.pc = "publish"
    BY <1>1, <2>1 DEF ProcRec
  <2>3. /\ Looked.last = query.last /\ Looked.last = Looked.rows
        /\ Looked.last + Looked.left <= Looked.rows
        /\ Looked.paged => Looked.limit = 0
        /\ ~Looked.paged => Looked.limit = 1 /\ Looked.last + Looked.left = Looked.rows
    BY <1>6, LookedAt
  <2>4. Stored' = Stored /\ Leaving' = Leaving /\ gui' = gui
    BY <2>1, <2>2 DEF Stored, Leaving
  <2> QED
    BY <2>1, <2>2, <2>3, <2>4 DEF ProcessInv
<1>7. CASE FetchRow /\ Looked.left # 0
  <2>1. /\ TryToAdd(proc, Looked.last + 1, proc.tail, "space") /\ proc.pc = "next"
        /\ query' = [Looked EXCEPT !.last = Looked.last + 1, !.left = Looked.left - 1]
        /\ proc.added < proc.left
        /\ UNCHANGED <<gui, fetchCount, fetchingDone, processTarget>>
    BY <1>7 DEF FetchRow, Looked, guiVars
  <2>2. PICK row, left : row = Looked.last + 1 /\ left = Looked.left - 1
    OBVIOUS
  <2>3. /\ Looked \in QueryRec /\ Looked.last \in Nat /\ Looked.left \in Nat
        /\ Looked.rows \in 0..Len(SizeOf) /\ Looked.last = query.last
        /\ Looked.last + Looked.left <= Looked.rows
        /\ Looked.paged => Looked.limit = 0
        /\ ~Looked.paged => Looked.limit = 1 /\ Looked.last + Looked.left = Looked.rows
    BY LookedAt, Params DEF QueryRec
  <2>4. row = Stored + 1 /\ row \in Rows /\ proc.more
    <3>1. proc.row = 0 /\ proc.more
      BY <2>1 DEF ProcessInv
    <3>2. query.last = Stored
      BY <1>1, <3>1, Counts DEF ProcessInv
    <3> QED
      BY <1>7, <2>2, <2>3, <3>1, <3>2, Params DEF Rows
  <2>5. /\ row \in 0..Len(SizeOf) /\ left \in 0..Len(SizeOf)
        /\ row + left = Looked.last + Looked.left
    <3>1. PICK a, b, n, m : a = Looked.last /\ b = Looked.left /\ n = Looked.rows /\ m = Len(SizeOf)
      OBVIOUS
    <3>2. a \in Nat /\ b \in Nat /\ b # 0 /\ m \in Nat /\ n \in 0..m /\ a + b <= n
          /\ row = a + 1 /\ left = b - 1
      BY <1>7, <2>2, <2>3, <3>1, Params
    <3>3. row \in 0..m /\ left \in 0..m /\ row + left = a + b
      BY ONLY <3>2
    <3> QED
      BY <3>1, <3>3
  <2>6. query' = [Looked EXCEPT !.last = row, !.left = left]
    BY <2>1, <2>2
  <2>7. /\ query' \in QueryRec /\ query'.last = row /\ query'.left = left
        /\ query'.rows = Looked.rows /\ query'.paged = Looked.paged
        /\ query'.limit = Looked.limit
    BY <2>3, <2>5, <2>6 DEF QueryRec
  <2>8. TryToAdd(proc, row, proc.tail, "space") /\ proc.tail \in 0..Size
    BY <2>1, <2>2, Fields
  <2> QED
    BY <2>1, <2>3, <2>4, <2>5, <2>7, <2>8, TryKeepsProcess
<1>8. CASE ReadTail
  <2>1. /\ TryToAdd(proc, proc.row, tail, "full") /\ proc.pc = "tail"
        /\ UNCHANGED <<query, gui, fetchCount, fetchingDone, processTarget>>
    BY <1>8 DEF ReadTail, guiVars
  <2>2. PICK row : row = proc.row
    OBVIOUS
  <2>3. /\ row = Stored + 1 /\ query.last = row /\ proc.added < proc.left /\ proc.more
        /\ query.last <= query.rows /\ query.rows \in 0..Len(SizeOf) /\ Stored \in Nat
    <3>1. proc.row # 0 /\ proc.more
      BY <2>1 DEF ProcessInv
    <3>2. proc.row = Stored + 1 /\ proc.added < proc.left /\ query.last = Stored + 1
          /\ query.last + query.left <= query.rows
      BY <3>1 DEF ProcessInv
    <3>3. query.rows \in 0..Len(SizeOf) /\ Stored \in Nat
      BY Fields, Counts
    <3>4. query.last <= query.rows
      BY <1>1, <3>2
    <3> QED
      BY <2>2, <3>1, <3>2, <3>3, <3>4
  <2>4. row \in Rows
    BY <2>3, Params DEF Rows
  <2>5. /\ query.last + query.left <= query.rows
        /\ query.paged => query.limit = 0
        /\ ~query.paged => query.limit = 1 /\ query.last + query.left = query.rows
    BY <2>3 DEF ProcessInv
  <2>6. /\ query' \in QueryRec /\ query'.last = row
        /\ query'.last + query'.left <= query'.rows
        /\ query'.paged => query'.limit = 0
        /\ ~query'.paged => query'.limit = 1 /\ query'.last + query'.left = query'.rows
    BY <1>1, <2>1, <2>3, <2>5
  <2>7. TryToAdd(proc, row, tail, "full") /\ tail \in 0..Size
    BY <2>1, <2>2 DEF FetchTypes
  <2> QED
    BY <2>1, <2>3, <2>4, <2>6, <2>7, TryKeepsProcess
<1> QED
  BY <1>2, <1>3, <1>4, <1>5, <1>6, <1>7, <1>8 DEF Process
-----------------------------------------------------------------------------
(* What is announced, and when it ends.                                    *)

LEMMA ProcessKeepsCounts ==
  ASSUME FetchTypes, ProcessInv, ThreadInv, EndInv, CountsAddUp, Process
  PROVE  ThreadInv' /\ EndInv' /\ CountsAddUp'
<1>1. /\ UNCHANGED <<thread, gui, model, bars, signals, more, missed>>
      /\ query'.rows = query.rows /\ fetchCount' \in Nat /\ fetchCount <= fetchCount'
  BY ProcessFrame
<1>2. thread.last \in Nat /\ thread.count \in Nat /\ fetchCount \in Nat
  BY Fields DEF FetchTypes
<1>3. ThreadInv'
  BY <1>1, <1>2 DEF ThreadInv, Leaving
<1>4. EndInv'
  BY <1>1 DEF EndInv, Taken
<1>5. CountsAddUp'
  BY <1>1, <1>2 DEF CountsAddUp, Total
<1> QED
  BY <1>3, <1>4, <1>5

\* The thread goes on until it has announced its end.
LEMMA ThreadWorks ==
  ASSUME FetchTypes, EndInv, HelperThread
  PROVE  /\ UNCHANGED <<query, proc, gui, model, bars, fetchCount, fetchingDone, processTarget>>
         /\ thread.pc # "exited" /\ model.more
         /\ \A i \in 1..Len(signals) : signals[i] # 0
         /\ gui.pc \in {"take", "update"} => gui.count # 0
         /\ \A b \in Bars : bars[b].state # "done"
<1>1. UNCHANGED <<query, proc, gui, model, bars, fetchCount, fetchingDone, processTarget>>
  BY DEF HelperThread, StartTask, ClearFetched, ReadCount, CheckDone, WaitFetched, Emit,
         guiVars, shared
<1>2. thread.pc # "exited"
  BY DEF HelperThread, StartTask, ClearFetched, ReadCount, CheckDone, WaitFetched, Emit
<1> QED
  BY <1>1, <1>2 DEF EndInv

LEMMA ThreadKeepsProcess ==
  ASSUME FetchTypes, ProcessInv, EndInv, HelperThread
  PROVE  ProcessInv'
BY ThreadWorks DEF ProcessInv, Stored, Leaving

\* An announcement is added to the signals, and is a 0 only at the end.
LEMMA Announced ==
  ASSUME FetchTypes, ProcessInv, EndInv, CountsAddUp, HelperThread,
         NEW n \in Nat, signals' = Append(signals, n), fetchCount' = fetchCount,
         thread'.last = thread.last + n, thread'.last <= fetchCount,
         n = 0 => thread'.pc = "exited"
  PROVE  EndInv' /\ CountsAddUp'
<1>1. /\ UNCHANGED <<gui, model, bars, query>> /\ model.more
      /\ \A i \in 1..Len(signals) : signals[i] # 0
      /\ gui.pc \in {"take", "update"} => gui.count # 0
      /\ \A b \in Bars : bars[b].state # "done"
  BY ThreadWorks
<1>2. signals \in Seq(Nat) /\ thread.last \in Nat /\ gui.left \in Nat /\ Taken \in Nat
  BY Counts, Fields
<1>3. EndInv'
  <2>1. /\ Len(signals') = Len(signals) + 1 /\ signals'[Len(signals')] = n
        /\ \A i \in 1..Len(signals) : signals'[i] = signals[i]
        /\ Len(signals) \in Nat
    BY <1>2
  <2>2. \A i \in 1..Len(signals') : signals'[i] = 0 => i = Len(signals') /\ thread'.pc = "exited"
    BY <1>1, <2>1
  <2> QED
    BY <1>1, <2>2 DEF EndInv
<1>4. CountsAddUp'
  <2>1. Total(signals) \in Nat /\ Total(Append(signals, n)) = Total(signals) + n
    BY <1>2, TotalOfAppend
  <2>2. Total(signals)' = Total(signals) + n
    <3>1. Total(signals') = Total(Append(signals, n))
      OBVIOUS
    <3> QED
      BY <2>1, <3>1 DEF Total
  <2>3. PICK before, after, left :
          /\ before = Total(signals) /\ after = Total(signals)'
          /\ left = (IF gui.pc = "take" THEN gui.left ELSE 0)
    OBVIOUS
  <2>4. gui.pc # "garbled" => thread.last = Taken + left + before
    BY <2>3 DEF CountsAddUp, Taken
  <2>5. before \in Nat /\ left \in Nat /\ after = before + n
    BY <1>2, <2>1, <2>2, <2>3
  <2>6. gui.pc # "garbled" => thread'.last = Taken + left + after
    BY <1>2, <2>4, <2>5
  <2>7. gui' = gui /\ model' = model /\ fetchCount' = fetchCount
    BY <1>1
  <2> QED
    BY <2>3, <2>6, <2>7 DEF CountsAddUp, Taken
<1> QED
  BY <1>3, <1>4

LEMMA ThreadKeepsCounts ==
  ASSUME FetchTypes, ProcessInv, ThreadInv, EndInv, CountsAddUp, HelperThread
  PROVE  ThreadInv' /\ EndInv' /\ CountsAddUp'
<1>1. /\ UNCHANGED <<query, proc, gui, model, bars, fetchCount, fetchingDone, processTarget>>
      /\ thread.pc # "exited" /\ model.more
      /\ gui.pc \in {"take", "update"} => gui.count # 0
      /\ \A b \in Bars : bars[b].state # "done"
  BY ThreadWorks
<1>2. /\ thread \in ThreadRec /\ thread.last \in Nat /\ thread.count \in Nat
      /\ thread.fetched \in Nat /\ fetchCount \in Nat
  BY Fields DEF FetchTypes
\* Steps that announce nothing.
<1>3. ASSUME UNCHANGED <<signals, more, missed>>, thread'.pc # "exited",
             thread'.last = thread.last, thread'.fetched = thread.fetched,
             thread'.count <= fetchCount, thread'.pc = "emit" => thread.last < thread'.count
      PROVE  ThreadInv' /\ EndInv' /\ CountsAddUp'
  <2>1. ThreadInv'
    BY <1>1, <1>3 DEF ThreadInv, Leaving
  <2>2. EndInv'
    <3>1. \A i \in 1..Len(signals) : signals[i] # 0
      BY ThreadWorks
    <3> QED
      BY <1>1, <1>3, <3>1 DEF EndInv
  <2>3. CountsAddUp'
    BY <1>1, <1>3 DEF CountsAddUp, Total
  <2> QED
    BY <2>1, <2>2, <2>3
<1>4. CASE ClearFetched \/ WaitFetched \/ (StartTask /\ more) \/ (CheckDone /\ ~fetchingDone)
  <2>1. /\ UNCHANGED <<signals, more, missed>>
        /\ \E pc \in {"clear", "count", "wait"} : thread' = [thread EXCEPT !.pc = pc]
    BY <1>4 DEF ClearFetched, WaitFetched, StartTask, CheckDone, history
  <2>2. /\ thread'.pc \in {"clear", "count", "wait"} /\ thread'.last = thread.last
        /\ thread'.fetched = thread.fetched /\ thread'.count = thread.count
    BY <1>2, <2>1 DEF ThreadRec
  <2>3. thread.count <= fetchCount
    BY DEF ThreadInv
  <2> QED
    BY <1>3, <2>1, <2>2, <2>3
<1>5. CASE ReadCount
  <2>1. PICK n, pc : n = fetchCount /\ pc = IF fetchCount # thread.last THEN "emit" ELSE "check"
    OBVIOUS
  <2>2. /\ thread' = [thread EXCEPT !.count = n, !.pc = pc] /\ UNCHANGED <<signals, more, missed>>
    BY <1>5, <2>1 DEF ReadCount, history
  <2>3. /\ thread'.pc = pc /\ thread'.last = thread.last
        /\ thread'.fetched = thread.fetched /\ thread'.count = n
    BY <1>2, <2>2 DEF ThreadRec
  <2>4. thread.last <= fetchCount
    BY DEF ThreadInv
  <2> QED
    BY <1>2, <1>3, <2>1, <2>2, <2>3, <2>4
<1>6. CASE Emit
  <2>1. PICK n, last, fetched :
          n = EmitCount /\ last = thread.last + n /\ fetched = thread.fetched + n
    OBVIOUS
  <2>2. /\ thread.last < thread.count /\ thread.count <= fetchCount
        /\ thread.fetched = thread.last
    BY <1>6 DEF Emit, ThreadInv
  <2>3. n \in Nat /\ n # 0 /\ last = thread.count /\ fetched = last /\ last <= fetchCount
    BY <1>2, <2>1, <2>2 DEF EmitCount
  <2>4. /\ signals' = Append(signals, n) /\ UNCHANGED <<more, missed>>
        /\ thread' = [thread EXCEPT !.pc = "start", !.last = last, !.fetched = fetched]
    BY <1>6, <2>1 DEF Emit, history
  <2>5. /\ thread'.pc = "start" /\ thread'.last = last /\ thread'.fetched = fetched
        /\ thread'.count = thread.count
    BY <1>2, <2>4 DEF ThreadRec
  <2>6. EndInv' /\ CountsAddUp'
    <3>1. thread'.last = thread.last + n /\ thread'.last <= fetchCount /\ fetchCount' = fetchCount
      BY <1>1, <2>1, <2>3, <2>5
    <3> QED
      BY <2>3, <2>4, <3>1, Announced
  <2>7. ThreadInv'
    BY <1>1, <2>2, <2>3, <2>4, <2>5 DEF ThreadInv, Leaving
  <2> QED
    BY <2>6, <2>7
<1>7. CASE (StartTask /\ ~more) \/ (CheckDone /\ fetchingDone)
  <2>1. /\ signals' = Append(signals, 0) /\ thread' = [thread EXCEPT !.pc = "exited"] /\ ~more'
        /\ \/ missed' = missed /\ ~more
           \/ missed' = (missed \/ fetchCount # thread.last) /\ fetchingDone
    BY <1>7 DEF StartTask, CheckDone, history
  <2>2. /\ thread'.pc = "exited" /\ thread'.last = thread.last
        /\ thread'.fetched = thread.fetched /\ thread'.count = thread.count
    BY <1>2, <2>1 DEF ThreadRec
  <2>3. thread.last <= fetchCount
    BY DEF ThreadInv
  <2>4. EndInv' /\ CountsAddUp'
    <3>1. thread'.last = thread.last + 0 /\ thread'.last <= fetchCount /\ fetchCount' = fetchCount
          /\ 0 \in Nat
      BY <1>1, <1>2, <2>2, <2>3
    <3> QED
      BY <2>1, <2>2, <3>1, Announced
  <2>5. missed' \/ Leaving \/ thread.last = query.rows
    <3>1. CASE ~more
      BY <1>1, <3>1 DEF ThreadInv, Leaving
    <3>2. CASE fetchingDone /\ fetchCount = thread.last /\ ~Leaving
      <4>1. ~proc.more /\ proc.pc \in {"exit", "exited"}
        BY <3>2 DEF ProcessInv, Leaving
      <4>2. proc.row = 0 /\ proc.added = 0 /\ query.last = query.rows /\ fetchCount = proc.fetched
        BY <4>1 DEF ProcessInv
      <4>3. query.last = proc.fetched + 0 /\ proc.fetched \in Nat
        BY <4>2, Fields DEF ProcessInv, Stored
      <4> QED
        BY <3>2, <4>2, <4>3
    <3> QED
      BY <2>1, <3>1, <3>2
  <2>6. ThreadInv'
    BY <1>1, <2>1, <2>2, <2>5 DEF ThreadInv, Leaving
  <2> QED
    BY <2>4, <2>6
<1> QED
  BY <1>4, <1>5, <1>6, <1>7 DEF HelperThread

\* The GUI leaves what the other two announce alone, and does not come back
\* from its end.
LEMMA GuiFrame ==
  ASSUME FetchTypes, ProcessInv, GuiStep \/ User
  PROVE  /\ UNCHANGED <<query, proc, thread, fetchCount, missed>>
         /\ Leaving => Leaving'
         /\ more' # more => Leaving' /\ ~more'
         /\ fetchingDone' # fetchingDone => Leaving'
         /\ processTarget' >= 0 \/ Leaving'
<1>1. /\ gui \in GuiRec /\ thread.fetched \in Nat /\ gui.target \in Int /\ processTarget \in Int
      /\ more \in BOOLEAN /\ fetchingDone \in BOOLEAN
  BY Fields DEF FetchTypes
<1>2. processTarget >= 0 \/ Leaving
  BY DEF ProcessInv
<1>3. UNCHANGED <<query, proc, thread, fetchCount, missed>>
  BY DEF GuiStep, User, BeginProcessData, RemoveFromBuffer, SetTail, Update, WakeForTarget,
         ShutdownRest, WakeProcess, StopTask, EndFetching, ShutdownThread, Scroll, OpenBar, FetchMoreRecords, Shutdown, shared, fetchRest, history
<1>4. CASE GuiStep /\ ~ShutdownRest
  <2>1. ~Leaving
    BY <1>4 DEF GuiStep, BeginProcessData, RemoveFromBuffer, SetTail, Update, WakeForTarget,
                Leaving, Farewell
  <2>2. UNCHANGED <<more, fetchingDone, processTarget>>
    BY <1>4 DEF GuiStep, BeginProcessData, RemoveFromBuffer, SetTail, Update, WakeForTarget,
                shared, history
  <2> QED
    BY <1>2, <1>3, <2>1, <2>2 DEF Leaving
<1>5. CASE ShutdownRest
  <2>1. /\ \E pc \in {"exited"} \cup Farewell : gui' = [gui EXCEPT !.pc = pc]
        /\ more' # more => ~more'
    BY <1>1, <1>5 DEF ShutdownRest, WakeProcess, StopTask, EndFetching, ShutdownThread,
                      Farewell, shared
  <2>2. Leaving'
    BY <1>1, <2>1 DEF GuiRec, Leaving
  <2> QED
    BY <1>3, <2>1, <2>2
<1>6. ASSUME NEW nr \in Nat, gui.pc = "idle", UNCHANGED <<more, fetchingDone>>,
             Fetch(nr) \/ UNCHANGED <<gui, processTarget>>
      PROVE  processTarget' >= 0
  <2>1. processTarget >= 0
    BY <1>2, <1>6 DEF Leaving, Farewell
  <2>2. CASE Fetch(nr) /\ more /\ Extra(nr) > 0
    <3>1. gui.target + Extra(nr) = thread.fetched + nr
      BY <1>1, <1>6 DEF Extra
    <3> QED
      BY <1>1, <1>6, <2>1, <2>2, <3>1 DEF Fetch
  <2> QED
    BY <1>6, <2>1, <2>2 DEF Fetch
<1>7. CASE User /\ ~Shutdown
  <2>1. gui.pc = "idle" /\ UNCHANGED <<more, fetchingDone>>
    BY <1>7 DEF User, Scroll, OpenBar, FetchMoreRecords, fetchRest
  <2>2. \E nr \in Nat : Fetch(nr) \/ UNCHANGED <<gui, processTarget>>
    <3>1. ASSUME NEW row, Scroll(row)
          PROVE  Fetch(Chunk) \/ UNCHANGED <<gui, processTarget>>
      BY <3>1 DEF Scroll
    <3>2. ASSUME NEW b \in Bars, NEW n \in Numbers, FetchMoreRecords(b, n * Chunk)
          PROVE  Fetch(n * Chunk) \/ UNCHANGED <<gui, processTarget>>
      BY <3>2 DEF FetchMoreRecords
    <3>3. ASSUME NEW b, OpenBar(b)
          PROVE  UNCHANGED <<gui, processTarget>>
      BY <3>3 DEF OpenBar
    <3>4. Chunk \in Nat /\ \A n \in Numbers : n * Chunk \in Nat
      BY Params
    <3> QED
      BY <1>7, <3>1, <3>2, <3>3, <3>4 DEF User
  <2> QED
    BY <1>3, <1>6, <2>1, <2>2 DEF Leaving, Farewell
<1>8. CASE Shutdown
  <2>1. gui' = [gui EXCEPT !.pc = "wakeProcess"] /\ gui.pc = "idle" /\ UNCHANGED <<more, fetchingDone>>
    BY <1>8 DEF Shutdown
  <2>2. gui'.pc = "wakeProcess"
    BY <1>1, <2>1 DEF GuiRec
  <2> QED
    BY <1>3, <2>1, <2>2 DEF Leaving, Farewell
<1> QED
  BY <1>4, <1>5, <1>7, <1>8

LEMMA GuiKeepsOthers ==
  ASSUME FetchTypes, ProcessInv, ThreadInv, GuiStep \/ User
  PROVE  ProcessInv' /\ ThreadInv'
<1>1. /\ UNCHANGED <<query, proc, thread, fetchCount, missed>>
      /\ Leaving => Leaving'
      /\ more' # more => Leaving' /\ ~more'
      /\ fetchingDone' # fetchingDone => Leaving'
      /\ processTarget' >= 0 \/ Leaving'
  BY GuiFrame
<1>2. ProcessInv'
  <2>1. Stored' = Stored
    BY <1>1 DEF Stored
  <2>2. fetchingDone' => proc.pc \in {"exit", "exited"} \/ Leaving'
    BY <1>1 DEF ProcessInv
  <2> QED
    BY <1>1, <2>1, <2>2 DEF ProcessInv
<1>3. ThreadInv'
  <2>1. ~more' => thread.pc = "exited" \/ Leaving'
    BY <1>1 DEF ThreadInv
  <2> QED
    BY <1>1, <2>1 DEF ThreadInv
<1> QED
  BY <1>2, <1>3

LEMMA ReceptionKeepsCounts ==
  ASSUME FetchTypes, EndInv, CountsAddUp, BeginProcessData
  PROVE  EndInv' /\ CountsAddUp'
<1>1. /\ gui \in GuiRec /\ signals \in Seq(Nat) /\ signals # <<>> /\ gui.pc = "idle"
      /\ signals' = Rest(signals)
      /\ UNCHANGED <<query, thread, model, bars, fetchCount, missed>>
  BY Counts DEF BeginProcessData, FetchTypes, shared, history
<1>2. PICK n : n = Head(signals)
  OBVIOUS
<1>3. gui' = [gui EXCEPT !.pc = "take", !.count = n, !.left = n]
  BY <1>2 DEF BeginProcessData
<1>4. gui'.pc = "take" /\ gui'.count = n /\ gui'.left = n
  BY <1>1, <1>3 DEF GuiRec
<1>5. n \in Nat /\ Total(Rest(signals)) \in Nat /\ Total(signals) = n + Total(Rest(signals))
  BY <1>1, <1>2, TotalOfRest
<1>6. /\ Len(signals') = Len(signals) - 1 /\ Len(signals) \in Nat /\ Len(signals) >= 1
      /\ signals[1] = n /\ \A i \in 1..Len(signals') : signals'[i] = signals[i + 1]
      /\ Len(signals) = 1 => signals' = <<>>
  BY <1>1, <1>2, RestOf
<1>7. EndInv'
  <2>1. \A i \in 1..Len(signals) : signals[i] = 0 => i = Len(signals) /\ thread.pc = "exited"
    BY DEF EndInv
  <2>2. \A i \in 1..Len(signals') : signals'[i] = 0 => i = Len(signals') /\ thread.pc = "exited"
    <3> SUFFICES ASSUME NEW i \in 1..Len(signals'), signals'[i] = 0
                 PROVE  i = Len(signals') /\ thread.pc = "exited"
      OBVIOUS
    <3>1. i + 1 \in 1..Len(signals) /\ signals[i + 1] = 0 /\ i \in Int
      BY <1>6
    <3> QED
      BY <1>6, <2>1, <3>1
  <2>3. n = 0 => signals' = <<>> /\ thread.pc = "exited"
    BY <1>6, <2>1
  <2>4. model.more /\ \A b \in Bars : bars[b].state # "done"
    BY <1>1 DEF EndInv
  <2> QED
    BY <1>1, <1>4, <1>5, <2>2, <2>3, <2>4 DEF EndInv
<1>8. CountsAddUp'
  <2>1. PICK before, after : before = Total(signals) /\ after = Total(signals)'
    OBVIOUS
  <2>2. after \in Nat /\ before = n + after
    <3>1. Total(signals)' = Total(Rest(signals))
      <4>1. Total(signals') = Total(Rest(signals))
        BY <1>1
      <4> QED
        BY <4>1 DEF Total
    <3> QED
      BY <1>5, <2>1, <3>1
  <2>3. thread.last = Taken + 0 + before /\ thread.last <= fetchCount
    BY <1>1, <2>1 DEF CountsAddUp, Taken
  <2>4. thread.last = Taken + n + after
    BY <1>5, <2>2, <2>3, Counts
  <2> QED
    BY <1>1, <1>4, <2>1, <2>3, <2>4 DEF CountsAddUp, Taken
<1> QED
  BY <1>7, <1>8

LEMMA RemovalKeepsCounts ==
  ASSUME FetchTypes, EndInv, CountsAddUp, RemoveFromBuffer
  PROVE  EndInv' /\ CountsAddUp'
<1>1. /\ gui \in GuiRec /\ model \in ModelRec /\ model.rows \in Seq(Rows)
      /\ gui.left \in Nat /\ gui.count \in Nat /\ Taken \in Nat
      /\ gui.pc = "take" /\ gui.left > 0
      /\ UNCHANGED <<query, thread, bars, signals, fetchCount, missed>>
  BY Fields, Counts DEF RemoveFromBuffer, FetchTypes, shared, history
<1>2. gui.left <= gui.count /\ gui.count # 0 /\ model.more
  BY <1>1 DEF EndInv
<1> DEFINE at == NextRecord(gui.tail)
           row == buffer[at][1]
<1>3. CASE ~Intact(at, row)
  <2>1. gui' = [gui EXCEPT !.pc = "garbled"] /\ UNCHANGED model
    BY <1>3 DEF RemoveFromBuffer
  <2>2. gui'.pc = "garbled" /\ gui'.left = gui.left /\ gui'.count = gui.count
    BY <1>1, <2>1 DEF GuiRec
  <2> QED
    BY <1>1, <1>2, <2>1, <2>2 DEF EndInv, CountsAddUp
<1>4. CASE Intact(at, row)
  <2>1. PICK n, end, rows : /\ n = gui.left - 1 /\ end = at + RecordSize(row)
                            /\ rows = Append(model.rows, row)
    OBVIOUS
  <2>2. /\ model' = [model EXCEPT !.rows = rows]
        /\ gui' = [gui EXCEPT !.left = n, !.tail = end]
    BY <1>4, <2>1 DEF RemoveFromBuffer
  <2>3. /\ model'.rows = rows /\ model'.more = model.more
        /\ gui'.pc = "take" /\ gui'.left = n /\ gui'.count = gui.count
    BY <1>1, <2>2 DEF ModelRec, GuiRec
  <2>4. Len(rows) = Taken + 1
    BY <1>1, <2>1 DEF Taken
  <2>5. n \in Nat /\ n <= gui.count /\ gui.left = n + 1
    BY <1>1, <1>2, <2>1
  <2>6. EndInv'
    BY <1>1, <1>2, <2>3, <2>5 DEF EndInv
  <2>7. CountsAddUp'
    <3>1. PICK total : total = Total(signals)
      OBVIOUS
    <3>2. total \in Nat /\ Total(signals)' = total
      <4>1. signals \in Seq(Nat) /\ 0 \in Nat
        BY Counts
      <4>2. Total(signals) \in Nat
        BY <4>1, TotalOfAppend
      <4> QED
        BY <1>1, <3>1, <4>2 DEF Total
    <3>3. thread.last = Taken + gui.left + total /\ thread.last <= fetchCount
      BY <1>1, <3>1 DEF CountsAddUp, Taken
    <3>4. thread.last = (Taken + 1) + n + total
      BY <1>1, <2>5, <3>2, <3>3
    <3> QED
      BY <1>1, <2>3, <2>4, <3>2, <3>3, <3>4 DEF CountsAddUp
  <2> QED
    BY <2>6, <2>7
<1> QED
  BY <1>3, <1>4

LEMMA UpdateKeepsCounts ==
  ASSUME FetchTypes, ThreadInv, EndInv, CountsAddUp, Update
  PROVE  EndInv' /\ CountsAddUp'
<1>1. /\ gui \in GuiRec /\ model \in ModelRec /\ model.rows \in Seq(Rows)
      /\ bars \in [Bars -> BarRec] /\ gui.pc = "update" /\ model.shown \in Nat
      /\ Taken \in Nat /\ model.more \in BOOLEAN /\ gui.left = 0
      /\ UNCHANGED <<query, thread, signals, fetchCount, missed>>
  BY Fields, Counts DEF Update, EndInv, FetchTypes, history
<1>2. PICK more1, n : more1 = (model.more /\ ~(gui.count = 0)) /\ n = Len(model.rows)
  OBVIOUS
<1>3. /\ model' = [model EXCEPT !.more = more1, !.shown = n]
      /\ gui' = [gui EXCEPT !.pc = "idle", !.count = 0]
  BY <1>2 DEF Update
<1>4. /\ model'.rows = model.rows /\ model'.more = more1
      /\ gui'.pc = "idle" /\ gui'.left = gui.left /\ gui'.count = 0
  BY <1>1, <1>3 DEF ModelRec, GuiRec
<1>5. model.more /\ more1 = (gui.count # 0)
  BY <1>1, <1>2 DEF EndInv
<1>6. thread.last = Taken + 0 + Total(signals)
  BY <1>1 DEF CountsAddUp, Taken
<1>7. CountsAddUp'
  <2>1. thread.last <= fetchCount
    BY <1>1 DEF CountsAddUp
  <2>2. PICK total : total = Total(signals)
    OBVIOUS
  <2>3. Total(signals)' = total
    BY <1>1, <2>2 DEF Total
  <2> QED
    BY <1>1, <1>4, <1>6, <2>1, <2>2, <2>3 DEF CountsAddUp, Taken
<1>8. \A b \in Bars : bars'[b].state = "done" => ~more1
  <2> SUFFICES ASSUME NEW b \in Bars, more1 PROVE bars'[b].state # "done"
    OBVIOUS
  <2>1. bars[b].state # "done" /\ bars[b] \in BarRec
    BY <1>1, <1>5 DEF EndInv
  <2>2. bars'[b] = IF n > model.shown THEN Progress(bars[b], n) ELSE bars[b]
    BY <1>2, <1>5 DEF Update
  <2>3. n > model.shown => n # 0
    BY <1>1, <1>2 DEF Taken
  <2>4. PICK bar : bar = bars[b]
    OBVIOUS
  <2>5. bar \in BarRec /\ bar.state # "done" /\ (n # 0 => Progress(bar, n).state # "done")
    BY <2>1, <2>4 DEF Progress, BarRec
  <2> QED
    BY <2>2, <2>3, <2>4, <2>5
<1>9. EndInv'
  <2>1. ~more1 => /\ thread.pc = "exited" /\ signals = <<>>
                  /\ missed \/ Taken = query.rows
    <3> SUFFICES ASSUME ~more1
                 PROVE  /\ thread.pc = "exited" /\ signals = <<>>
                        /\ missed \/ Taken = query.rows
      OBVIOUS
    <3>1. signals = <<>> /\ thread.pc = "exited"
      BY <1>1, <1>5 DEF EndInv
    <3>2. thread.last = Taken
      BY <1>1, <1>6, <3>1, TotalOfNone
    <3>3. missed \/ thread.last = query.rows
      BY <1>1, <3>1 DEF ThreadInv, Leaving, Farewell
    <3> QED
      BY <3>1, <3>2, <3>3
  <2>2. Taken' = Taken
    BY <1>4 DEF Taken
  <2>3. gui'.left <= gui'.count
    BY <1>1, <1>4
  <2> QED
    BY <1>1, <1>4, <1>8, <2>1, <2>2, <2>3 DEF EndInv
<1> QED
  BY <1>7, <1>9

LEMMA GuiKeepsCounts ==
  ASSUME FetchTypes, ProcessInv, ThreadInv, EndInv, CountsAddUp, GuiStep \/ User
  PROVE  EndInv' /\ CountsAddUp'
<1>1. /\ gui \in GuiRec /\ model \in ModelRec /\ bars \in [Bars -> BarRec]
      /\ UNCHANGED <<query, proc, thread, fetchCount, missed>>
  BY GuiFrame DEF FetchTypes
\* Steps that take nothing, receive nothing and leave the end of it open.
<1>2. ASSUME signals' = signals, model'.rows = model.rows, model'.more = model.more,
             gui'.left = gui.left, gui'.count = gui.count,
             \/ gui.pc = "take" /\ gui.left = 0 /\ gui'.pc = "update"
             \/ gui.pc \notin {"take", "update", "garbled"}
                /\ gui'.pc \notin {"take", "update"},
             \A b \in Bars : bars'[b].state = "done" => bars[b].state = "done" \/ ~model.more
      PROVE  EndInv' /\ CountsAddUp'
  <2>1. EndInv'
    <3>1. Taken' = Taken
      BY <1>2 DEF Taken
    <3>2. \A b \in Bars : bars'[b].state = "done" => ~model.more
      BY <1>2 DEF EndInv
    <3> QED
      BY <1>1, <1>2, <3>1, <3>2 DEF EndInv
  <2>2. CountsAddUp'
    <3>1. PICK total : total = Total(signals)
      OBVIOUS
    <3>2. Total(signals)' = total
      BY <1>2, <3>1 DEF Total
    <3>3. /\ thread.last = Taken + (IF gui.pc = "take" THEN gui.left ELSE 0) + total
          /\ thread.last <= fetchCount
      BY <1>2, <3>1 DEF CountsAddUp, Taken
    <3>4. (IF gui'.pc = "take" THEN gui'.left ELSE 0) = (IF gui.pc = "take" THEN gui.left ELSE 0)
      BY <1>2
    <3> QED
      BY <1>1, <1>2, <3>2, <3>3, <3>4 DEF CountsAddUp, Taken
  <2> QED
    BY <2>1, <2>2
<1>3. CASE SetTail \/ WakeForTarget \/ ShutdownRest \/ Shutdown
  <2>1. /\ UNCHANGED <<signals, model, bars>>
        /\ \/ gui.pc = "take" /\ gui.left = 0 /\ gui' = [gui EXCEPT !.pc = "update"]
           \/ gui.pc = "events" /\ gui' = [gui EXCEPT !.pc = "idle"]
           \/ gui.pc \in {"idle"} \cup Farewell
              /\ \E pc \in {"exited"} \cup Farewell : gui' = [gui EXCEPT !.pc = pc]
    BY <1>3 DEF SetTail, WakeForTarget, ShutdownRest, WakeProcess, StopTask, EndFetching,
                ShutdownThread, Shutdown, Farewell
  <2>2. /\ gui'.left = gui.left /\ gui'.count = gui.count
        /\ \/ gui.pc = "take" /\ gui.left = 0 /\ gui'.pc = "update"
           \/ gui.pc \notin {"take", "update", "garbled"} /\ gui'.pc \notin {"take", "update"}
    BY <1>1, <2>1 DEF GuiRec, Farewell
  <2> QED
    BY <1>2, <2>1, <2>2
<1>4. ASSUME NEW nr, gui.pc = "idle", Fetch(nr) \/ gui' = gui
      PROVE  gui'.left = gui.left /\ gui'.count = gui.count /\ gui'.pc \notin {"take", "update"}
  <2>1. PICK n : n = gui.target + Extra(nr)
    OBVIOUS
  <2>2. gui' = gui \/ gui' = [gui EXCEPT !.target = n, !.pc = "events"]
    BY <1>4, <2>1 DEF Fetch
  <2> QED
    BY <1>1, <1>4, <2>2 DEF GuiRec
<1>5. ASSUME NEW row, Scroll(row)
      PROVE  EndInv' /\ CountsAddUp'
  <2>1. /\ gui.pc = "idle" /\ UNCHANGED <<signals, bars>> /\ (Fetch(Chunk) \/ gui' = gui)
        /\ model' = [model EXCEPT !.lastRead = row]
    BY <1>5 DEF Scroll, fetchRest
  <2>2. model'.rows = model.rows /\ model'.more = model.more
    BY <1>1, <2>1 DEF ModelRec
  <2> QED
    BY <1>2, <1>4, <2>1, <2>2
<1>6. ASSUME NEW b \in Bars, OpenBar(b)
      PROVE  EndInv' /\ CountsAddUp'
  <2>1. /\ gui.pc = "idle" /\ UNCHANGED <<signals, model, gui>>
        /\ bars' = [bars EXCEPT ![b].state = IF model.more THEN "idle" ELSE "done"]
    BY <1>6 DEF OpenBar, fetchRest
  <2>2. \A c \in Bars : bars'[c].state = "done" => bars[c].state = "done" \/ ~model.more
    BY <1>1, <2>1 DEF BarRec
  <2> QED
    BY <1>2, <2>1, <2>2
<1>7. ASSUME NEW b \in Bars, NEW n \in Numbers, FetchMoreRecords(b, n * Chunk)
      PROVE  EndInv' /\ CountsAddUp'
  <2>1. PICK nr : nr = n * Chunk
    OBVIOUS
  <2>2. gui.pc = "idle" /\ UNCHANGED <<signals, model>> /\ (Fetch(nr) \/ gui' = gui)
    BY <1>7, <2>1 DEF FetchMoreRecords, fetchRest
  <2>3. \A c \in Bars : bars'[c].state = "done" => bars[c].state = "done" \/ ~model.more
    <3>1. CASE model.more
      <4>1. PICK s : s = model.shown
        OBVIOUS
      <4>2. bars' = [bars EXCEPT ![b] = [state |-> "busy", start |-> s, target |-> nr]]
        BY <1>7, <2>1, <3>1, <4>1 DEF FetchMoreRecords
      <4> QED
        BY <1>1, <4>2 DEF BarRec
    <3> QED
      BY <3>1
  <2> QED
    BY <1>2, <1>4, <2>2, <2>3
<1> QED
  BY <1>3, <1>5, <1>6, <1>7, ReceptionKeepsCounts, RemovalKeepsCounts, UpdateKeepsCounts
  DEF GuiStep, User
-----------------------------------------------------------------------------
(* The invariant.                                                          *)

LEMMA InitSettled ==
  ASSUME Init
  PROVE  IInv
<1>1. PICK q \in Queries :
        query = [rows |-> q[1], paged |-> q[2], last |-> 0, left |-> 0,
                 limit |-> IF q[2] THEN 0 ELSE 2]
  BY DEF Init
<1>2. q[1] \in 0..Len(SizeOf) /\ q[2] \in BOOLEAN /\ Len(SizeOf) \in Nat
  BY FetcherAssumption
<1>3. Chunk \in Nat \ {0} /\ Size \in Nat \ {0} /\ Numbers \subseteq Nat
  BY Params
<1>4. /\ Taken = 0 /\ Stored = 0 /\ Total(signals) = 0 /\ ~Leaving
  BY TotalOfNone DEF Init, Taken, Stored, Leaving, Farewell
<1>5. FetchTypes
  <2>1. query \in QueryRec
    <3>1. PICK n, b, m : n = q[1] /\ b = q[2] /\ m = IF q[2] THEN 0 ELSE 2
      OBVIOUS
    <3>2. query = [rows |-> n, paged |-> b, last |-> 0, left |-> 0, limit |-> m]
          /\ n \in 0..Len(SizeOf) /\ b \in BOOLEAN /\ 0 \in 0..Len(SizeOf) /\ m \in 0..2
      BY <1>1, <1>2, <3>1
    <3> QED
      BY <3>2 DEF QueryRec
  <2>2. proc \in ProcRec /\ thread \in ThreadRec
    BY <1>3 DEF Init, ProcRec, ThreadRec
  <2>3. gui \in GuiRec
    BY <1>3 DEF Init, GuiRec
  <2>4. model \in ModelRec
    BY DEF Init, ModelRec
  <2>5. bars \in [Bars -> BarRec]
    BY DEF Init, BarRec
  <2>6. buffer \in Buffers
    BY <1>2 DEF Init, Blank, Buffers
  <2>7. signals \in Seq(0..Len(SizeOf))
    BY DEF Init
  <2>8. tail \in 0..Size /\ fetchCount \in Nat /\ processTarget \in Int
    BY <1>3 DEF Init
  <2>9. /\ fetchingDone \in BOOLEAN /\ waitEvent \in BOOLEAN /\ fetchedEvent \in BOOLEAN
        /\ more \in BOOLEAN /\ lapped \in BOOLEAN /\ missed \in BOOLEAN
    BY Zenon DEF Init
  <2> QED
    BY <2>1, <2>2, <2>3, <2>4, <2>5, <2>6, <2>7, <2>8, <2>9 DEF FetchTypes
<1>6. ProcessInv
  <2>1. /\ query.rows \in 0..Len(SizeOf) /\ query.last = 0 /\ query.left = 0
        /\ query.paged \in BOOLEAN /\ (query.paged => query.limit = 0)
        /\ (~query.paged => query.limit = 2)
    BY <1>1, <1>2
  <2>2. /\ proc.pc = "clear" /\ proc.fetched = 0 /\ proc.added = 0 /\ proc.left = 0
        /\ proc.row = 0 /\ proc.more /\ fetchCount = 0 /\ processTarget = Chunk
        /\ ~fetchingDone
    BY DEF Init
  <2> QED
    BY <1>2, <1>3, <1>4, <2>1, <2>2 DEF ProcessInv
<1>7. ThreadInv
  BY DEF Init, ThreadInv
<1>8. EndInv
  <2>1. Len(signals) = 0
    BY DEF Init
  <2> QED
    BY <2>1 DEF Init, EndInv
<1>9. CountsAddUp
  BY <1>4 DEF Init, CountsAddUp, Taken
<1>10. RingInv
  <2> DEFINE pos == [u \in Rows |-> 0]
  <2>1. pos \in [Rows -> Nat]
    OBVIOUS
  <2>2. Stretch(pos, 1, 0, 0, 0)
    <3>1. 1 \in Nat /\ 0 \in Nat /\ 1 - 1 = 0
      OBVIOUS
    <3>2. Stretch(pos, 1, 1 - 1, 0, 0)
      BY EmptyStretch
    <3> QED
      BY <3>1, <3>2
  <2>3. gui.tail = 0 /\ proc.head = 0 /\ tail = 0 /\ proc.tail = 0 /\ gui.pc = "idle"
    BY DEF Init
  <2> HIDE DEF pos
  <2>4. SameLap(pos, 0, 0, 0, 0, 0, 0)
    BY <2>2 DEF SameLap
  <2>5. Kept(buffer, pos, 1, 0)
    BY DEF Kept
  <2>6. Laid(buffer, pos, 0, 0, 0, 0, 0, 0)
    BY <2>4, <2>5 DEF Laid
  <2> QED
    BY <1>4, <2>1, <2>3, <2>6 DEF RingInv
<1> QED
  BY <1>5, <1>6, <1>7, <1>8, <1>9, <1>10 DEF IInv

LEMMA StepSettled ==
  ASSUME IInv, [Next]_vars
  PROVE  IInv'
<1>1. FetchTypes /\ ProcessInv /\ ThreadInv /\ EndInv /\ CountsAddUp /\ RingInv
  BY DEF IInv
<1>2. CASE Process
  BY <1>1, <1>2, ProcessTypes, ProcessKeepsProcess, ProcessKeepsCounts, ProcessKeepsRing
  DEF IInv
<1>3. CASE HelperThread
  BY <1>1, <1>3, ThreadTypes, ThreadKeepsProcess, ThreadKeepsCounts, OthersKeepRing DEF IInv
<1>4. CASE GuiStep
  BY <1>1, <1>4, GuiTypes, GuiKeepsOthers, GuiKeepsCounts, OthersKeepRing DEF IInv
<1>5. CASE User
  BY <1>1, <1>5, UserTypes, GuiKeepsOthers, GuiKeepsCounts, OthersKeepRing DEF IInv
<1>6. CASE UNCHANGED vars
  <2>1. UNCHANGED <<query, proc, thread, gui, model, bars, buffer, tail, fetchCount,
                    fetchingDone, processTarget, waitEvent, fetchedEvent, more, signals,
                    lapped, missed>>
    BY <1>6 DEF vars, guiVars, shared, history
  <2>2. FetchTypes'
    BY <1>1, <2>1 DEF FetchTypes
  <2>3. ProcessInv' /\ ThreadInv' /\ EndInv'
    BY <1>1, <2>1 DEF ProcessInv, ThreadInv, EndInv, Stored, Taken, Leaving
  <2>4. CountsAddUp'
    BY <1>1, <2>1 DEF CountsAddUp, Total
  <2>5. RingInv'
    <3>1. Stored' = Stored
      BY <2>1 DEF Stored
    <3> QED
      BY <1>1, <2>1, <3>1, RingStays
  <2> QED
    BY <2>2, <2>3, <2>4, <2>5 DEF IInv
<1> QED
  BY <1>2, <1>3, <1>4, <1>5, <1>6 DEF Next

\* What the invariant says of the properties.
LEMMA SettledFetch ==
  ASSUME IInv
  PROVE  FetchInv
<1>1. FetchTypes /\ ProcessInv /\ ThreadInv /\ EndInv /\ CountsAddUp /\ RingInv
  BY DEF IInv
<1>2. /\ query.rows \in 0..Len(SizeOf) /\ Stored <= query.last /\ query.last <= query.rows
      /\ proc.fetched <= Stored /\ Stored <= Len(SizeOf)
  BY <1>1, StoredRows
<1>3. /\ proc.fetched \in Nat /\ proc.added \in Nat /\ proc.row \in Nat /\ query.last \in Nat
      /\ thread.count \in Nat /\ thread.last \in Nat /\ thread.fetched \in Nat
      /\ fetchCount \in Nat /\ Stored \in Nat /\ Len(SizeOf) \in Nat
  BY <1>1, Fields, Counts, Params DEF FetchTypes
<1>4. TypeOK
  <2>1. {proc.fetched, proc.added, proc.row} \subseteq 0..Len(SizeOf)
    <3>1. proc.added <= Stored
      BY <1>3 DEF Stored
    <3>2. proc.row = 0 \/ proc.row = query.last
      BY <1>1 DEF ProcessInv
    <3> QED
      BY <1>2, <1>3, <3>1, <3>2
  <2>2. fetchCount = proc.fetched /\ fetchCount \in 0..Len(SizeOf)
    BY <1>1, <1>2, <1>3 DEF ProcessInv
  <2>3. {thread.count, thread.last, thread.fetched} \subseteq 0..Len(SizeOf)
    <3>1. /\ thread.count <= fetchCount /\ thread.last <= fetchCount
          /\ thread.fetched = thread.last
      BY <1>1 DEF ThreadInv
    <3> QED
      BY <1>3, <2>2, <3>1
  <2>4. /\ query \in [rows : 0..Len(SizeOf), paged : BOOLEAN, last : 0..Len(SizeOf),
                      left : 0..Len(SizeOf), limit : 0..2]
    BY <1>1 DEF FetchTypes, QueryRec
  <2>5. /\ proc.pc \in {"clear", "target", "wait", "next", "space", "tail", "full",
                        "publish", "signal", "done", "exit", "exited"}
        /\ proc.head \in 0..Size /\ proc.tail \in 0..Size /\ proc.more \in BOOLEAN
        /\ proc.left \in 0..Chunk
    BY <1>1 DEF FetchTypes, ProcRec
  <2>6. /\ thread.pc \in {"start", "clear", "count", "check", "emit", "wait", "exited"}
        /\ gui.pc \in {"idle", "take", "update", "events", "exited", "garbled"} \cup Farewell
    BY <1>1 DEF FetchTypes, ThreadRec, GuiRec
  <2>7. /\ model.rows \in Seq(1..Len(SizeOf)) /\ model.more \in BOOLEAN
        /\ model.shown \in 0..Len(model.rows)
    <3>1. /\ model.rows \in Seq(Rows) /\ model.shown \in Nat /\ model.shown <= Len(model.rows)
          /\ model.more \in BOOLEAN
      BY <1>1, Fields
    <3> QED
      BY <3>1 DEF Rows
  <2>8. \A b \in Bars : bars[b].state \in {"none", "idle", "busy", "done"}
    BY <1>1 DEF FetchTypes, BarRec
  <2>9. /\ DOMAIN buffer = Cells
        /\ \A c \in Cells : buffer[c][1] \in 0..Len(SizeOf) /\ buffer[c][2] >= -1
    <3>1. buffer \in [Cells -> (0..Len(SizeOf)) \X (Nat \cup {-1})]
      BY <1>1 DEF FetchTypes, Buffers
    <3>2. ASSUME NEW c \in Cells
          PROVE  buffer[c][1] \in 0..Len(SizeOf) /\ buffer[c][2] >= -1
      <4>1. buffer[c][1] \in 0..Len(SizeOf) /\ buffer[c][2] \in Nat \cup {-1}
        BY <3>1
      <4> QED
        BY <4>1
    <3> QED
      BY <3>1, <3>2
  <2> QED
    BY <1>1, <2>1, <2>2, <2>3, <2>4, <2>5, <2>6, <2>7, <2>8, <2>9 DEF TypeOK, FetchTypes
<1>5. ReadsInOrder
  <2>1. model.rows \in Seq(Rows)
    BY <1>1, Fields
  <2> QED
    BY <1>1, <2>1 DEF ReadsInOrder, RingInv, Taken
<1>6. AllFetchedUnlessMissed
  BY <1>1 DEF AllFetchedUnlessMissed, AllFetched, EndInv, Taken
<1> QED
  BY <1>1, <1>4, <1>5, <1>6 DEF FetchInv

\* The records that the GUI takes from the ring buffer are the rows of the query,
\* in order and each once, what is announced adds up with what is taken, and
\* "all records fetched" is shown only when they all are, except in the two
\* cases that the history variables mark (SQLFetcherProcess, SQLFetcher, Thread).
THEOREM RecordsReachModel == Spec => []FetchInv
<1>1. Init => IInv
  BY InitSettled
<1>2. IInv /\ [Next]_vars => IInv'
  BY StepSettled
<1>3. IInv => FetchInv
  BY SettledFetch
<1> QED
  BY <1>1, <1>2, <1>3, PTL DEF Spec
=============================================================================
