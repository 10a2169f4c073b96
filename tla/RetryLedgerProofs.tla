--------------------------- MODULE RetryLedgerProofs ---------------------------
(***************************************************************************)
(* LedgerInv holds whatever the sizes, the workers, the files, the faults  *)
(* and the late joins are, as long as each kind of chunk fits in its half  *)
(* (LayoutFits, which is the configuration's to see to); and what the mount of a case is made of is undone whatever *)
(* the retries and the threads that use it are.                            *)
(***************************************************************************)
EXTENDS RetryLedger, TLAPS

-----------------------------------------------------------------------------
(* Slots                                                                     *)
LEMMA QuotientFits ==
  ASSUME NEW n \in Nat, NEW c \in Nat \ {0}
  PROVE  /\ n \div c \in Nat
         /\ (n \div c) * c <= n
         /\ c <= n => n \div c >= 1
OBVIOUS

LEMMA MultiplesGrow ==
  ASSUME NEW i \in Nat, NEW j \in Nat, NEW c \in Nat, i < j
  PROVE  i * c + c <= j * c
<1> DEFINE d == j - (i + 1)
<1>1. d \in Nat /\ j = i + 1 + d
  OBVIOUS
<1>2. d * c \in Nat
  BY <1>1
<1>3. j * c = i * c + c + d * c
  BY <1>1
<1> QED
  BY <1>2, <1>3

\* Two workers of a kind have no slot in common.
LEMMA SlotsApart ==
  ASSUME NEW total \in Nat, NEW count \in Nat \ {0},
         NEW i \in 0..(count - 1), NEW j \in 0..(count - 1), i # j,
         NEW s \in AssignedSlots(total, i, count),
         NEW t \in AssignedSlots(total, j, count)
  PROVE  s # t
<1>1. PICK k \in 0..total : s = i + k * count
  BY DEF AssignedSlots
<1>2. PICK m \in 0..total : t = j + m * count
  BY DEF AssignedSlots
<1>3. k \in Nat /\ m \in Nat /\ i \in Nat /\ j \in Nat /\ i < count /\ j < count
  OBVIOUS
<1>4. k * count \in Nat /\ m * count \in Nat
  BY <1>3
<1>5. CASE k = m
  BY <1>1, <1>2, <1>3, <1>4, <1>5
<1>6. CASE k < m
  <2>1. k * count + count <= m * count
    BY <1>3, <1>6, MultiplesGrow
  <2> QED
    BY <2>1, <1>1, <1>2, <1>3, <1>4
<1>7. CASE m < k
  <2>1. m * count + count <= k * count
    BY <1>3, <1>7, MultiplesGrow
  <2> QED
    BY <2>1, <1>1, <1>2, <1>3, <1>4
<1> QED
  BY <1>3, <1>5, <1>6, <1>7
LEMMA SlotFacts ==
  ASSUME NEW total, NEW i, NEW count, NEW s \in AssignedSlots(total, i, count)
  PROVE  s \in 0..(total - 1)
BY DEF AssignedSlots

LEMMA HalfFacts ==
  /\ FileSize \in Nat /\ FsyncChunk \in Nat \ {0} /\ BackgroundChunk \in Nat \ {0}
  /\ FsyncWorkers \in Nat \ {0} /\ BackgroundWriters \in Nat \ {0}
  /\ Half \in Nat /\ Half <= FileSize
BY SizeAssumption DEF Half

\* With a layout that fits, the slots of the first kind fill the lower half at most.
LEMMA FsyncSlotFits ==
  ASSUME LayoutFits, NEW s \in 0..(FsyncSlots - 1)
  PROVE  /\ FsyncOffset(s) \in Nat
         /\ FsyncOffset(s) + FsyncChunk <= Half
<1> DEFINE n == Half \div FsyncChunk
<1>1. n \in Nat /\ n * FsyncChunk <= Half /\ n >= 1
  BY HalfFacts, QuotientFits DEF LayoutFits
<1>2. FsyncSlots = n
  BY <1>1 DEF FsyncSlots, AtLeastOne
<1> HIDE DEF n
<1>3. s \in Nat /\ s < n
  BY <1>1, <1>2
<1>4. s * FsyncChunk + FsyncChunk <= n * FsyncChunk
  BY <1>1, <1>3, HalfFacts, MultiplesGrow
<1>5. s * FsyncChunk \in Nat /\ n * FsyncChunk \in Nat
  BY <1>1, <1>3, HalfFacts
<1> QED
  BY <1>1, <1>4, <1>5, HalfFacts DEF FsyncOffset

\* And those of the second kind the upper half: none is pulled back.
LEMMA BackgroundSlotFits ==
  ASSUME LayoutFits, NEW s \in 0..(BackgroundSlots - 1)
  PROVE  /\ BackgroundOffset(s) = Half + s * BackgroundChunk
         /\ s * BackgroundChunk \in Nat
         /\ BackgroundOffset(s) + BackgroundChunk <= FileSize
<1> DEFINE rest == FileSize - Half
<1> DEFINE n == rest \div BackgroundChunk
<1>1. rest \in Nat /\ BackgroundChunk <= rest /\ BackgroundSpan = rest
  BY HalfFacts DEF LayoutFits, BackgroundSpan
<1> HIDE DEF rest
<1>2. n \in Nat /\ n * BackgroundChunk <= rest /\ n >= 1
  BY <1>1, HalfFacts, QuotientFits
<1>3. BackgroundSlots = n
  BY <1>1, <1>2 DEF BackgroundSlots, AtLeastOne
<1> HIDE DEF n
<1>4. s \in Nat /\ s < n
  BY <1>2, <1>3
<1>5. s * BackgroundChunk + BackgroundChunk <= n * BackgroundChunk
  BY <1>2, <1>4, HalfFacts, MultiplesGrow
<1>6. s * BackgroundChunk \in Nat /\ n * BackgroundChunk \in Nat
  BY <1>2, <1>4, HalfFacts
<1>7. Half + s * BackgroundChunk + BackgroundChunk <= FileSize
  BY <1>1, <1>2, <1>5, <1>6, HalfFacts DEF rest
<1> QED
  BY <1>6, <1>7, HalfFacts DEF BackgroundOffset

\* Where the offsets of a worker come from.
LEMMA FsyncOffsets ==
  ASSUME LayoutFits, NEW w \in Workers, SyncsEveryWrite(w), NEW o \in OffsetsOf(w)
  PROVE  \E s \in AssignedSlots(FsyncSlots, w - 1, FsyncWorkers) :
           /\ s \in 0..(FsyncSlots - 1) /\ s \in Nat
           /\ o = FsyncOffset(s)
BY SlotFacts DEF OffsetsOf, AssignedSlots

LEMMA BackgroundOffsets ==
  ASSUME LayoutFits, NEW w \in Workers, ~SyncsEveryWrite(w), NEW o \in OffsetsOf(w)
  PROVE  \E s \in AssignedSlots(BackgroundSlots, w - 1 - FsyncWorkers, BackgroundWriters) :
           /\ s \in 0..(BackgroundSlots - 1) /\ s \in Nat
           /\ o = BackgroundOffset(s)
BY SlotFacts DEF OffsetsOf, AssignedSlots

LEMMA ChunkFacts ==
  ASSUME NEW w \in Workers
  PROVE  /\ ChunkOf(w) \in Nat \ {0} /\ ChunkOf(w) <= FileSize
         /\ ChunkOf(w) \in {FsyncChunk, BackgroundChunk}
BY SizeAssumption DEF ChunkOf

\* No write leaves its half of the file.
LEMMA OffsetFits ==
  ASSUME LayoutFits, NEW w \in Workers, NEW o \in OffsetsOf(w)
  PROVE  /\ o \in Nat /\ o + ChunkOf(w) <= FileSize /\ o \in Units
         /\ SyncsEveryWrite(w) => o + ChunkOf(w) <= Half
         /\ ~SyncsEveryWrite(w) => Half <= o
<1>1. CASE SyncsEveryWrite(w)
  <2>1. PICK s \in 0..(FsyncSlots - 1) : o = FsyncOffset(s)
    BY <1>1, FsyncOffsets
  <2> QED
    BY <1>1, <2>1, FsyncSlotFits, HalfFacts DEF ChunkOf, Units
<1>2. CASE ~SyncsEveryWrite(w)
  <2>1. PICK s \in 0..(BackgroundSlots - 1) : o = BackgroundOffset(s)
    BY <1>2, BackgroundOffsets
  <2> QED
    BY <1>2, <2>1, BackgroundSlotFits, HalfFacts DEF ChunkOf, Units
<1> QED
  BY <1>1, <1>2

LEMMA MultiplesApart ==
  ASSUME NEW s \in Nat, NEW t \in Nat, NEW c \in Nat, NEW base \in Nat, s # t
  PROVE  Span(base + s * c, c) \cap Span(base + t * c, c) = {}
<1>1. s * c \in Nat /\ t * c \in Nat
  OBVIOUS
<1>2. s * c + c <= t * c \/ t * c + c <= s * c
  <2>1. s < t \/ t < s
    OBVIOUS
  <2> QED
    BY <2>1, MultiplesGrow
<1> DEFINE p == s * c
<1> DEFINE q == t * c
<1>3. p \in Nat /\ q \in Nat /\ (p + c <= q \/ q + c <= p)
  BY <1>1, <1>2
<1> HIDE DEF p, q
<1>4. Span(base + p, c) \cap Span(base + q, c) = {}
  BY <1>3 DEF Span
<1> QED
  BY <1>4 DEF p, q

\* The slots of two workers have no unit in common, whatever the offsets they chose.
LEMMA SpansApart ==
  ASSUME LayoutFits, NEW v \in Workers, NEW w \in Workers, v # w,
         NEW o \in OffsetsOf(v), NEW p \in OffsetsOf(w)
  PROVE  Span(o, ChunkOf(v)) \cap Span(p, ChunkOf(w)) = {}
<1>1. CASE SyncsEveryWrite(v) /\ SyncsEveryWrite(w)
  <2>1. PICK s \in AssignedSlots(FsyncSlots, v - 1, FsyncWorkers) :
               s \in 0..(FsyncSlots - 1) /\ s \in Nat /\ o = FsyncOffset(s)
    BY <1>1, FsyncOffsets
  <2>2. PICK t \in AssignedSlots(FsyncSlots, w - 1, FsyncWorkers) :
               t \in 0..(FsyncSlots - 1) /\ t \in Nat /\ p = FsyncOffset(t)
    BY <1>1, FsyncOffsets
  <2>3. v - 1 \in 0..(FsyncWorkers - 1) /\ w - 1 \in 0..(FsyncWorkers - 1) /\ v - 1 # w - 1
    BY <1>1, HalfFacts DEF Workers, SyncsEveryWrite
  <2>4. FsyncSlots \in Nat
    BY HalfFacts, QuotientFits DEF FsyncSlots, AtLeastOne
  <2>5. s # t
    BY <2>3, <2>4, HalfFacts, SlotsApart
  <2>6. Span(0 + s * FsyncChunk, FsyncChunk) \cap Span(0 + t * FsyncChunk, FsyncChunk) = {}
    BY <2>1, <2>2, <2>5, HalfFacts, MultiplesApart
  <2>7. 0 + s * FsyncChunk = o /\ 0 + t * FsyncChunk = p
    BY <2>1, <2>2, HalfFacts DEF FsyncOffset
  <2> QED
    BY <1>1, <2>6, <2>7 DEF ChunkOf
<1>2. CASE ~SyncsEveryWrite(v) /\ ~SyncsEveryWrite(w)
  <2>1. PICK s \in AssignedSlots(BackgroundSlots, v - 1 - FsyncWorkers, BackgroundWriters) :
               s \in 0..(BackgroundSlots - 1) /\ s \in Nat /\ o = BackgroundOffset(s)
    BY <1>2, BackgroundOffsets
  <2>2. PICK t \in AssignedSlots(BackgroundSlots, w - 1 - FsyncWorkers, BackgroundWriters) :
               t \in 0..(BackgroundSlots - 1) /\ t \in Nat /\ p = BackgroundOffset(t)
    BY <1>2, BackgroundOffsets
  <2>3. /\ v - 1 - FsyncWorkers \in 0..(BackgroundWriters - 1)
        /\ w - 1 - FsyncWorkers \in 0..(BackgroundWriters - 1)
        /\ v - 1 - FsyncWorkers # w - 1 - FsyncWorkers
    BY <1>2, HalfFacts DEF Workers, SyncsEveryWrite
  <2>4. BackgroundSlots \in Nat
    BY HalfFacts, QuotientFits DEF BackgroundSlots, AtLeastOne, BackgroundSpan
  <2>5. s # t
    BY <2>3, <2>4, HalfFacts, SlotsApart
  <2>6. Span(Half + s * BackgroundChunk, BackgroundChunk)
          \cap Span(Half + t * BackgroundChunk, BackgroundChunk) = {}
    BY <2>1, <2>2, <2>5, HalfFacts, MultiplesApart
  <2> QED
    BY <1>2, <2>1, <2>2, <2>6, BackgroundSlotFits DEF ChunkOf
<1>3. CASE SyncsEveryWrite(v) # SyncsEveryWrite(w)
  <2>1. o + ChunkOf(v) <= p \/ p + ChunkOf(w) <= o
    BY <1>3, OffsetFits, ChunkFacts, HalfFacts DEF SyncsEveryWrite
  <2> QED
    BY <2>1, OffsetFits, ChunkFacts DEF Span
<1> QED
  BY <1>1, <1>2, <1>3 DEF SyncsEveryWrite
-----------------------------------------------------------------------------
(* The ledger                                                                *)
\* Covering and Expected, of a ledger e.
CoveringIn(e, f, u) ==
  {k \in Keys : k[1] = f /\ e[k].seq > 0 /\ u \in Span(k[2], k[3])}
IsLast(e, f, u, k) ==
  /\ k \in CoveringIn(e, f, u)
  /\ \A j \in CoveringIn(e, f, u) : e[j].seq <= e[k].seq
ExpectedIn(e, f, u) ==
  IF CoveringIn(e, f, u) = {} THEN Baseline
  ELSE e[CHOOSE k \in CoveringIn(e, f, u) :
           \A j \in CoveringIn(e, f, u) : e[j].seq <= e[k].seq].write

\* Entries of different keys have different numbers, and for every unit that is covered one
\* entry is the last.
Ordered(e, n) ==
  /\ e \in [Keys -> EntryType]
  /\ \A k \in Keys : e[k].seq <= n
  /\ \A j, k \in Keys : e[j].seq = e[k].seq /\ e[k].seq > 0 => j = k
  /\ \A f \in Files, u \in Units :
       CoveringIn(e, f, u) # {} => \E k \in Keys : IsLast(e, f, u, k)

LEMMA ExpectedOfLast ==
  ASSUME NEW e, NEW n, Ordered(e, n), NEW f \in Files, NEW u \in Units,
         NEW k \in Keys, IsLast(e, f, u, k)
  PROVE  ExpectedIn(e, f, u) = e[k].write
<1> DEFINE c == CHOOSE j \in CoveringIn(e, f, u) :
                  \A i \in CoveringIn(e, f, u) : e[i].seq <= e[j].seq
<1>1. /\ c \in CoveringIn(e, f, u)
      /\ \A i \in CoveringIn(e, f, u) : e[i].seq <= e[c].seq
  BY DEF IsLast
<1>2. k \in CoveringIn(e, f, u) /\ \A i \in CoveringIn(e, f, u) : e[i].seq <= e[k].seq
  BY DEF IsLast
<1>3. ExpectedIn(e, f, u) = e[c].write
  BY <1>2 DEF ExpectedIn
<1> HIDE DEF c
<1>4. c \in Keys /\ e[c].seq > 0
  BY <1>1 DEF CoveringIn
<1>5. e[c].seq \in Nat /\ e[k].seq \in Nat
  BY <1>4 DEF Ordered, EntryType
<1>6. e[c].seq = e[k].seq
  BY <1>1, <1>2, <1>5
<1>7. c = k
  BY <1>4, <1>6 DEF Ordered
<1> QED
  BY <1>3, <1>7

\* A note decides the units of its key, and changes nothing for the others.
LEMMA NoteDecides ==
  ASSUME NEW n \in Nat, NEW e, Ordered(e, n), NEW k \in Keys, NEW x \in Writes,
         NEW d \in [Keys -> EntryType],
         d[k] = [seq |-> n + 1, write |-> x], \A j \in Keys : j # k => d[j] = e[j]
  PROVE  /\ Ordered(d, n + 1)
         /\ \A f \in Files, u \in Units :
              ExpectedIn(d, f, u) = IF f = k[1] /\ u \in Span(k[2], k[3])
                                    THEN x ELSE ExpectedIn(e, f, u)
<1>1. /\ d \in [Keys -> EntryType]
      /\ d[k] = [seq |-> n + 1, write |-> x]
      /\ \A j \in Keys : j # k => d[j] = e[j]
      /\ \A j \in Keys : e[j].seq \in Nat /\ e[j].seq <= n /\ d[j].seq \in Nat
  BY DEF Ordered, EntryType
<1>2. /\ \A j \in Keys : d[j].seq <= n + 1
      /\ \A i, j \in Keys : d[i].seq = d[j].seq /\ d[j].seq > 0 => i = j
  BY <1>1 DEF Ordered
<1>3. ASSUME NEW f \in Files, NEW u \in Units, f = k[1], u \in Span(k[2], k[3])
      PROVE  IsLast(d, f, u, k)
  <2>1. k \in CoveringIn(d, f, u)
    BY <1>1, <1>3 DEF CoveringIn
  <2>2. \A j \in CoveringIn(d, f, u) : d[j].seq <= d[k].seq
    BY <1>1, <1>2 DEF CoveringIn
  <2> QED
    BY <2>1, <2>2 DEF IsLast
<1>4. ASSUME NEW f \in Files, NEW u \in Units, ~(f = k[1] /\ u \in Span(k[2], k[3]))
      PROVE  /\ CoveringIn(d, f, u) = CoveringIn(e, f, u)
             /\ \A j \in CoveringIn(e, f, u) : j # k
             /\ \A j \in Keys : IsLast(e, f, u, j) => IsLast(d, f, u, j)
  <2>1. \A j \in Keys : j[1] = f /\ u \in Span(j[2], j[3]) => j # k
    BY <1>4
  <2>2. CoveringIn(d, f, u) = CoveringIn(e, f, u)
    BY <1>1, <2>1 DEF CoveringIn
  <2>3. \A j \in CoveringIn(e, f, u) : j \in Keys /\ j # k
    BY <2>1 DEF CoveringIn
  <2> QED
    BY <1>1, <2>2, <2>3 DEF IsLast
<1>5. Ordered(d, n + 1)
  <2>1. \A f \in Files, u \in Units :
          CoveringIn(d, f, u) # {} => \E j \in Keys : IsLast(d, f, u, j)
    BY <1>3, <1>4 DEF Ordered
  <2> QED
    BY <1>1, <1>2, <2>1 DEF Ordered
<1>6. ASSUME NEW f \in Files, NEW u \in Units
      PROVE  ExpectedIn(d, f, u) = IF f = k[1] /\ u \in Span(k[2], k[3])
                                   THEN x ELSE ExpectedIn(e, f, u)
  <2>1. CASE f = k[1] /\ u \in Span(k[2], k[3])
    <3>1. ExpectedIn(d, f, u) = d[k].write
      BY <1>3, <1>5, <2>1, ExpectedOfLast
    <3> QED
      BY <1>1, <2>1, <3>1
  <2>2. CASE ~(f = k[1] /\ u \in Span(k[2], k[3])) /\ CoveringIn(e, f, u) = {}
    BY <1>4, <2>2 DEF ExpectedIn
  <2>3. CASE ~(f = k[1] /\ u \in Span(k[2], k[3])) /\ CoveringIn(e, f, u) # {}
    <3>1. PICK j \in Keys : IsLast(e, f, u, j)
      BY <2>3 DEF Ordered
    <3>2. IsLast(d, f, u, j) /\ j # k
      BY <1>4, <2>3, <3>1 DEF IsLast
    <3>3. ExpectedIn(d, f, u) = d[j].write /\ ExpectedIn(e, f, u) = e[j].write
      BY <1>5, <3>1, <3>2, ExpectedOfLast
    <3> QED
      BY <1>1, <2>3, <3>2, <3>3
  <2> QED
    BY <2>1, <2>2, <2>3
<1> QED
  BY <1>5, <1>6
-----------------------------------------------------------------------------
(* The inductive invariant                                                   *)
\* How far worker w has come with its write, and that the write is in one of its slots.
WriterInv(w) ==
  /\ wpc[w] = "open" => wpos[w] = 0 /\ opened[w] < TargetFiles
  /\ wpos[w] > 0 \/ wpc[w] \in {"write", "sync", "note"} => job[w].offset \in OffsetsOf(w)
  /\ wpc[w] \in {"write", "sync", "note"} => writeSeq[w] >= 1
  /\ wpc[w] = "write" => wpos[w] < ChunkOf(w)
  /\ wpc[w] \in {"sync", "note"} => wpos[w] = ChunkOf(w)

\* Unit u of file f belongs to the open write of w.
Open(w, f, u) ==
  /\ wpc[w] \in {"write", "sync", "note", "raised"}
  /\ f = job[w].idx
  /\ u \in Span(job[w].offset, wpos[w])

\* What the file holds, of the open writes and of the others.
LedgerFollows ==
  \A f \in Files, u \in Units :
    /\ \A w \in Workers : Open(w, f, u) => content[f][u] = CurrentWrite(w)
    /\ (\A w \in Workers : ~Open(w, f, u)) => content[f][u] = ExpectedIn(entries, f, u)

\* What the main thread has reached, if nothing disturbed it.
MainInv ==
  /\ mpc = "join" => mi \in Workers
  /\ mpc \in {"plan", "verify", "unmount"} => mi \in Files
  /\ Undisturbed =>
       /\ mpc = "join" => \A w \in Workers : w < mi => wpc[w] = "ended"
       /\ mpc \notin {"sleep", "join"} => \A w \in Workers : wpc[w] = "ended"
       /\ mpc = "plan" => \A f \in Files : f < mi => plan[f] = content[f]
       /\ mpc \notin {"sleep", "join", "plan"} => \A f \in Files : plan[f] = content[f]
       /\ mpc # "mismatch"

RunInv ==
  /\ TypeOK
  /\ \A w \in Workers : WriterInv(w)
  /\ Ordered(entries, ledgerSeq)
  /\ LedgerFollows
  /\ MainInv

LEMMA UnnotedIsOpen ==
  ASSUME NEW w \in Workers, NEW f, NEW u
  PROVE  <<f, u>> \in Unnoted(w) <=> Open(w, f, u)
BY DEF Unnoted, Open

LEMMA InvImplies == RunInv => LedgerInv
<1> SUFFICES ASSUME RunInv PROVE LedgerInv
  OBVIOUS
<1>1. \A f \in Files, u \in Units : Expected(f, u) = ExpectedIn(entries, f, u)
  BY DEF Expected, ExpectedIn, Covering, CoveringIn
<1>2. OnlyOpenWritesDiffer
  <2> SUFFICES ASSUME NEW f \in Files, NEW u \in Units
               PROVE  \/ \E w \in Workers :
                           <<f, u>> \in Unnoted(w) /\ content[f][u] = CurrentWrite(w)
                      \/ /\ \A w \in Workers : <<f, u>> \notin Unnoted(w)
                         /\ content[f][u] = Expected(f, u)
    BY DEF OnlyOpenWritesDiffer
  <2>1. \A w \in Workers : <<f, u>> \in Unnoted(w) <=> Open(w, f, u)
    BY UnnotedIsOpen
  <2>2. /\ \A w \in Workers : Open(w, f, u) => content[f][u] = CurrentWrite(w)
        /\ (\A w \in Workers : ~Open(w, f, u)) => content[f][u] = Expected(f, u)
    BY <1>1 DEF RunInv, LedgerFollows
  <2> QED
    BY <2>1, <2>2
<1>3. NoFalseAlarm
  BY DEF RunInv, MainInv, NoFalseAlarm
<1> QED
  BY <1>2, <1>3 DEF RunInv, LedgerInv

LEMMA InitEstablishes == Init => RunInv
<1> SUFFICES ASSUME Init PROVE RunInv
  OBVIOUS
<1>1. TypeOK
  <2>1. Baseline \in Writes /\ NotNoted \in EntryType
    BY DEF Writes, NotNoted, EntryType
  <2>2. 0 \in Files /\ 0 \in Units
    BY RunAssumption, SizeAssumption DEF Files, Units
  <2>3. [idx |-> 0, offset |-> 0] \in JobType
    BY <2>2 DEF JobType
  <2>4. \A w \in Workers : wpos[w] <= ChunkOf(w) /\ job[w].offset + wpos[w] <= FileSize
    BY ChunkFacts, HalfFacts DEF Init
  <2>5. content \in [Files -> [Units -> Writes]] /\ plan \in [Files -> [Units -> Writes]]
    BY <2>1 DEF Init
  <2>6. entries \in [Keys -> EntryType] /\ job \in [Workers -> JobType]
    BY <2>1, <2>3 DEF Init
  <2>7. wpc \in [Workers -> WorkerStates] /\ mpc \in MainStates
    BY DEF Init, WorkerStates, MainStates
  <2>8. /\ opened \in [Workers -> 0..TargetFiles] /\ writeSeq \in [Workers -> 0..WriteBound]
        /\ wpos \in [Workers -> 0..FileSize]
    BY RunAssumption, HalfFacts DEF Init
  <2>9. ledgerSeq \in Nat /\ mi \in Nat /\ stop \in BOOLEAN /\ late \subseteq Workers
        /\ phase \in {"mounted", "remount"}
    BY DEF Init
  <2> QED
    BY <2>4, <2>5, <2>6, <2>7, <2>8, <2>9 DEF TypeOK
<1>2. \A w \in Workers : WriterInv(w)
  BY RunAssumption DEF Init, WriterInv
<1>3. \A f \in Files, u \in Units : CoveringIn(entries, f, u) = {}
  BY DEF Init, CoveringIn, NotNoted
<1>4. Ordered(entries, ledgerSeq)
  BY <1>1, <1>3 DEF Init, Ordered, NotNoted, TypeOK
<1>5. LedgerFollows
  BY <1>3 DEF Init, LedgerFollows, Open, ExpectedIn
<1>6. MainInv
  BY DEF Init, MainInv
<1> QED
  BY <1>1, <1>2, <1>4, <1>5, <1>6 DEF RunInv
-----------------------------------------------------------------------------
(* The steps of the writers                                                  *)
\* What a step of w leaves alone.
Others(w) ==
  /\ \A v \in Workers : v # w =>
       /\ wpc'[v] = wpc[v] /\ opened'[v] = opened[v] /\ job'[v] = job[v]
       /\ wpos'[v] = wpos[v] /\ writeSeq'[v] = writeSeq[v]
  /\ UNCHANGED <<stop, mainVars>>

\* While a writer is not done, the main thread knows nothing yet.
LEMMA MainKnowsNothing ==
  ASSUME RunInv, NEW w \in Workers, ~Terminated(w), Others(w)
  PROVE  MainInv'
<1>1. UNCHANGED <<mpc, mi, plan, phase, late>>
  BY DEF Others, mainVars
<1>2. mi \in Nat /\ w \in Int
  BY HalfFacts DEF RunInv, TypeOK, Workers
<1>3. Undisturbed' => Undisturbed
  BY <1>1 DEF Undisturbed, Others, Terminated
<1>4. CASE Undisturbed'
  <2>1. mpc \in {"sleep", "join"}
    BY <1>3, <1>4 DEF RunInv, MainInv, Terminated
  <2>2. mpc = "join" => \A v \in Workers : v < mi => wpc'[v] = "ended"
    <3> SUFFICES ASSUME mpc = "join", NEW v \in Workers, v < mi PROVE wpc'[v] = "ended"
      OBVIOUS
    <3>1. wpc[v] = "ended"
      BY <1>3, <1>4 DEF RunInv, MainInv
    <3>2. v # w
      BY <3>1 DEF Terminated
    <3> QED
      BY <3>1, <3>2 DEF Others
  <2> QED
    BY <1>1, <2>1, <2>2 DEF RunInv, MainInv
<1>5. CASE ~Undisturbed'
  BY <1>1, <1>5 DEF RunInv, MainInv
<1> QED
  BY <1>4, <1>5

\* A step that writes and notes nothing keeps the ledger and the files together, if it opens
\* and closes no units either.
LEMMA LedgerUntouched ==
  ASSUME RunInv, NEW w \in Workers, Others(w), UNCHANGED <<content, ledgerSeq, entries>>,
         \A f \in Files, u \in Units :
           /\ (Open(w, f, u))' <=> Open(w, f, u)
           /\ Open(w, f, u) => writeSeq'[w] = writeSeq[w]
  PROVE  LedgerFollows' /\ Ordered(entries, ledgerSeq)'
<1>1. ASSUME NEW v \in Workers, NEW f \in Files, NEW u \in Units
      PROVE  /\ (Open(v, f, u))' <=> Open(v, f, u)
             /\ Open(v, f, u) => (CurrentWrite(v))' = CurrentWrite(v)
  BY DEF Others, Open, CurrentWrite
<1>2. LedgerFollows'
  <2> SUFFICES ASSUME NEW f \in Files, NEW u \in Units
               PROVE  /\ \A v \in Workers :
                           (Open(v, f, u))' => content'[f][u] = (CurrentWrite(v))'
                      /\ (\A v \in Workers : ~(Open(v, f, u))') =>
                           content'[f][u] = ExpectedIn(entries', f, u)
    BY DEF LedgerFollows
  <2>1. /\ \A v \in Workers : Open(v, f, u) => content[f][u] = CurrentWrite(v)
        /\ (\A v \in Workers : ~Open(v, f, u)) => content[f][u] = ExpectedIn(entries, f, u)
    BY DEF RunInv, LedgerFollows
  <2> QED
    BY <1>1, <2>1
<1>3. Ordered(entries, ledgerSeq)'
  BY DEF RunInv, Ordered, CoveringIn, IsLast
<1> QED
  BY <1>2, <1>3
LEMMA NothingWritten ==
  ASSUME NEW o \in Units, NEW u PROVE u \notin Span(o, 0)
BY HalfFacts DEF Span, Units

LEMMA JobFacts ==
  ASSUME TypeOK, NEW w \in Workers
  PROVE  /\ job[w] \in JobType /\ job[w].idx \in Files /\ job[w].offset \in Units
         /\ job[w].offset \in Nat /\ wpos[w] \in Nat
BY HalfFacts DEF TypeOK, JobType, Units

LEMMA OpenFilePreserves ==
  ASSUME LayoutFits, RunInv, NEW w \in Workers, OpenFile(w)
  PROVE  RunInv'
<1>1. ~Terminated(w) /\ Others(w) /\ UNCHANGED <<content, ledgerSeq, entries>>
  BY DEF RunInv, TypeOK, OpenFile, Terminated, Others, fileVars, ledgerVars, mainVars
<1>2. TypeOK'
  BY RunAssumption, HalfFacts DEF RunInv, WriterInv, TypeOK, OpenFile, WorkerStates, fileVars, ledgerVars, mainVars
<1>3. \A v \in Workers : WriterInv(v)'
  <2>1. \A v \in Workers : v # w => WriterInv(v)'
    BY <1>1 DEF RunInv, WriterInv, Others
  <2>2. /\ opened[w] \in Nat /\ opened'[w] = opened[w] + 1 /\ opened[w] < TargetFiles
        /\ wpc'[w] = IF opened'[w] = TargetFiles THEN "loop" ELSE "open"
        /\ wpos'[w] = 0
    BY RunAssumption DEF RunInv, TypeOK, WriterInv, OpenFile
  <2>3. WriterInv(w)'
    BY <2>2, RunAssumption DEF WriterInv
  <2> QED
    BY <2>1, <2>3
<1>4. LedgerFollows' /\ Ordered(entries, ledgerSeq)'
  <2>1. \A f \in Files, u \in Units :
           /\ (Open(w, f, u))' <=> Open(w, f, u)
           /\ Open(w, f, u) => writeSeq'[w] = writeSeq[w]
    BY JobFacts, NothingWritten DEF RunInv, TypeOK, WriterInv, Open, OpenFile
  <2> QED
    BY <1>1, <2>1, LedgerUntouched
<1> QED
  BY <1>1, <1>2, <1>3, <1>4, MainKnowsNothing DEF RunInv

LEMMA OpenRaisesPreserves ==
  ASSUME LayoutFits, RunInv, NEW w \in Workers, OpenRaises(w)
  PROVE  RunInv'
<1>1. ~Terminated(w) /\ Others(w) /\ UNCHANGED <<content, ledgerSeq, entries>>
  BY DEF RunInv, TypeOK, OpenRaises, Terminated, Others, fileVars, ledgerVars, mainVars
<1>2. TypeOK'
  BY RunAssumption, HalfFacts DEF RunInv, WriterInv, TypeOK, OpenRaises, WorkerStates, fileVars, ledgerVars, mainVars
<1>3. \A v \in Workers : WriterInv(v)'
  BY <1>1 DEF RunInv, TypeOK, WriterInv, Others, OpenRaises
<1>4. LedgerFollows' /\ Ordered(entries, ledgerSeq)'
  <2>1. \A f \in Files, u \in Units :
           /\ (Open(w, f, u))' <=> Open(w, f, u)
           /\ Open(w, f, u) => writeSeq'[w] = writeSeq[w]
    BY JobFacts, NothingWritten DEF RunInv, TypeOK, WriterInv, Open, OpenRaises
  <2> QED
    BY <1>1, <2>1, LedgerUntouched
<1> QED
  BY <1>1, <1>2, <1>3, <1>4, MainKnowsNothing DEF RunInv

LEMMA LeaveLoopPreserves ==
  ASSUME LayoutFits, RunInv, NEW w \in Workers, LeaveLoop(w)
  PROVE  RunInv'
<1>1. ~Terminated(w) /\ Others(w) /\ UNCHANGED <<content, ledgerSeq, entries>>
  BY DEF RunInv, TypeOK, LeaveLoop, Terminated, Others, fileVars, ledgerVars, mainVars
<1>2. TypeOK'
  BY RunAssumption, HalfFacts DEF RunInv, WriterInv, TypeOK, LeaveLoop, WorkerStates, fileVars, ledgerVars, mainVars, StopSeen
<1>3. \A v \in Workers : WriterInv(v)'
  BY <1>1 DEF RunInv, TypeOK, WriterInv, Others, LeaveLoop, StopSeen
<1>4. LedgerFollows' /\ Ordered(entries, ledgerSeq)'
  <2>1. \A f \in Files, u \in Units :
           /\ (Open(w, f, u))' <=> Open(w, f, u)
           /\ Open(w, f, u) => writeSeq'[w] = writeSeq[w]
    BY DEF RunInv, TypeOK, WriterInv, Open, Span, LeaveLoop, StopSeen
  <2> QED
    BY <1>1, <2>1, LedgerUntouched
<1> QED
  BY <1>1, <1>2, <1>3, <1>4, MainKnowsNothing DEF RunInv

LEMMA ChooseWritePreserves ==
  ASSUME LayoutFits, RunInv, NEW w \in Workers, ChooseWrite(w)
  PROVE  RunInv'
<1>1. ~Terminated(w) /\ Others(w) /\ UNCHANGED <<content, ledgerSeq, entries>>
  BY DEF RunInv, TypeOK, ChooseWrite, Terminated, Others, fileVars, ledgerVars, mainVars
<1>2. TypeOK'
  BY OffsetFits, ChunkFacts, RunAssumption, HalfFacts DEF RunInv, WriterInv, TypeOK, ChooseWrite, WorkerStates, fileVars, ledgerVars, mainVars, JobType
<1>3. \A v \in Workers : WriterInv(v)'
  BY <1>1, ChunkFacts DEF RunInv, TypeOK, WriterInv, Others, ChooseWrite, JobType
<1>4. LedgerFollows' /\ Ordered(entries, ledgerSeq)'
  <2>1. ASSUME NEW f \in Files, NEW u \in Units
        PROVE  /\ (Open(w, f, u))' <=> Open(w, f, u)
               /\ Open(w, f, u) => writeSeq'[w] = writeSeq[w]
    <3>1. ~Open(w, f, u)
      BY DEF ChooseWrite, Open
    <3>2. wpos'[w] = 0 /\ job'[w].offset \in Units
      BY <1>2, JobFacts DEF RunInv, TypeOK, ChooseWrite, JobType
    <3> QED
      BY <3>1, <3>2, NothingWritten DEF Open
  <2> QED
    BY <1>1, <2>1, LedgerUntouched
<1> QED
  BY <1>1, <1>2, <1>3, <1>4, MainKnowsNothing DEF RunInv

LEMMA FsyncPreserves ==
  ASSUME LayoutFits, RunInv, NEW w \in Workers, Fsync(w)
  PROVE  RunInv'
<1>1. ~Terminated(w) /\ Others(w) /\ UNCHANGED <<content, ledgerSeq, entries>>
  BY DEF RunInv, TypeOK, Fsync, Terminated, Others, fileVars, ledgerVars, mainVars
<1>2. TypeOK'
  BY RunAssumption, HalfFacts DEF RunInv, WriterInv, TypeOK, Fsync, WorkerStates, fileVars, ledgerVars, mainVars
<1>3. \A v \in Workers : WriterInv(v)'
  BY <1>1 DEF RunInv, TypeOK, WriterInv, Others, Fsync
<1>4. LedgerFollows' /\ Ordered(entries, ledgerSeq)'
  <2>1. \A f \in Files, u \in Units :
           /\ (Open(w, f, u))' <=> Open(w, f, u)
           /\ Open(w, f, u) => writeSeq'[w] = writeSeq[w]
    BY DEF RunInv, TypeOK, WriterInv, Open, Span, Fsync
  <2> QED
    BY <1>1, <2>1, LedgerUntouched
<1> QED
  BY <1>1, <1>2, <1>3, <1>4, MainKnowsNothing DEF RunInv

LEMMA WriteRaisesPreserves ==
  ASSUME LayoutFits, RunInv, NEW w \in Workers, WriteRaises(w)
  PROVE  RunInv'
<1>1. ~Terminated(w) /\ Others(w) /\ UNCHANGED <<content, ledgerSeq, entries>>
  BY DEF RunInv, TypeOK, WriteRaises, Terminated, Others, fileVars, ledgerVars, mainVars
<1>2. TypeOK'
  BY RunAssumption, HalfFacts DEF RunInv, WriterInv, TypeOK, WriteRaises, WorkerStates, fileVars, ledgerVars, mainVars
<1>3. \A v \in Workers : WriterInv(v)'
  BY <1>1 DEF RunInv, TypeOK, WriterInv, Others, WriteRaises
<1>4. LedgerFollows' /\ Ordered(entries, ledgerSeq)'
  <2>1. \A f \in Files, u \in Units :
           /\ (Open(w, f, u))' <=> Open(w, f, u)
           /\ Open(w, f, u) => writeSeq'[w] = writeSeq[w]
    BY DEF RunInv, TypeOK, WriterInv, Open, Span, WriteRaises
  <2> QED
    BY <1>1, <2>1, LedgerUntouched
<1> QED
  BY <1>1, <1>2, <1>3, <1>4, MainKnowsNothing DEF RunInv

LEMMA CurrentWriteFacts ==
  ASSUME RunInv, NEW w \in Workers, wpc[w] \in {"write", "sync", "note"}
  PROVE  CurrentWrite(w) \in Writes
BY RunAssumption DEF RunInv, TypeOK, WriterInv, CurrentWrite, Writes

LEMMA WriteUnitPreserves ==
  ASSUME LayoutFits, RunInv, NEW w \in Workers, WriteUnit(w)
  PROVE  RunInv'
<1> DEFINE file == job[w].idx
           unit == job[w].offset + wpos[w]
<1>1. ~Terminated(w) /\ Others(w) /\ UNCHANGED <<ledgerSeq, entries>>
  BY DEF RunInv, TypeOK, WriteUnit, Terminated, Others, ledgerVars, mainVars
<1>2. /\ job[w].offset \in OffsetsOf(w) /\ wpos[w] \in Nat /\ wpos[w] < ChunkOf(w)
      /\ wpos'[w] = wpos[w] + 1 /\ job' = job /\ writeSeq' = writeSeq /\ wpc[w] = "write"
  BY JobFacts DEF RunInv, TypeOK, WriterInv, WriteUnit
<1>3. /\ file \in Files /\ job[w].offset \in Nat /\ unit \in Units
      /\ job[w].offset + wpos'[w] <= FileSize
  BY <1>2, JobFacts, OffsetFits, ChunkFacts, HalfFacts DEF RunInv, Units
<1>4. \A f \in Files, u \in Units :
        content'[f][u] = IF f = file /\ u = unit THEN CurrentWrite(w) ELSE content[f][u]
  BY <1>3 DEF RunInv, TypeOK, WriteUnit
<1>5. TypeOK'
  <2>1. content' \in [Files -> [Units -> Writes]]
    BY <1>2, <1>3, CurrentWriteFacts DEF RunInv, TypeOK, WriteUnit
  <2>2. wpc' \in [Workers -> WorkerStates]
    BY DEF RunInv, TypeOK, WriteUnit, WorkerStates
  <2>3. wpos' \in [Workers -> 0..FileSize]
    BY <1>2, ChunkFacts, HalfFacts DEF RunInv, TypeOK, WriteUnit
  <2>4. \A v \in Workers : wpos'[v] <= ChunkOf(v) /\ job'[v].offset + wpos'[v] <= FileSize
    BY <1>1, <1>2, <1>3, ChunkFacts DEF RunInv, TypeOK, Others
  <2> QED
    BY <1>1, <1>2, <2>1, <2>2, <2>3, <2>4 DEF RunInv, TypeOK, WriteUnit, mainVars
<1>6. \A v \in Workers : WriterInv(v)'
  <2>1. \A v \in Workers : v # w => WriterInv(v)'
    BY <1>1 DEF RunInv, WriterInv, Others
  <2>2. wpc'[w] = IF wpos'[w] < ChunkOf(w) THEN "write"
                  ELSE IF SyncsEveryWrite(w) THEN "sync" ELSE "note"
    BY <1>2 DEF RunInv, TypeOK, WriteUnit
  <2>3. WriterInv(w)'
    BY <1>2, <2>2, ChunkFacts DEF RunInv, WriterInv
  <2> QED
    BY <2>1, <2>3
<1>7. \A f \in Files, u \in Units :
        /\ (Open(w, f, u))' <=> Open(w, f, u) \/ (f = file /\ u = unit)
        /\ \A v \in Workers : v # w => ((Open(v, f, u))' <=> Open(v, f, u))
  <2>1. \A u \in Units : u \in Span(job[w].offset, wpos'[w]) <=>
                          u \in Span(job[w].offset, wpos[w]) \/ u = unit
    BY <1>2, <1>3 DEF Span, Units
  <2>2. wpc'[w] \in {"write", "sync", "note", "raised"}
    BY <1>2 DEF RunInv, TypeOK, WriteUnit
  <2> QED
    BY <1>1, <1>2, <2>1, <2>2 DEF Open, Others
<1>8. ASSUME NEW v \in Workers, v # w PROVE ~Open(v, file, unit)
  <2> SUFFICES ASSUME Open(v, file, unit) PROVE FALSE
    OBVIOUS
  <2>1. unit \in Span(job[v].offset, wpos[v]) /\ wpos[v] \in Nat /\ job[v].offset \in Nat
    BY JobFacts DEF RunInv, Open
  <2>2. wpos[v] > 0 /\ wpos[v] <= ChunkOf(v)
    BY <1>3, <2>1 DEF RunInv, TypeOK, Span, Units
  <2>3. job[v].offset \in OffsetsOf(v)
    BY <2>2 DEF RunInv, WriterInv
  <2>4. unit \in Span(job[v].offset, ChunkOf(v))
    BY <2>1, <2>2, ChunkFacts DEF Span
  <2>5. unit \in Span(job[w].offset, ChunkOf(w))
    BY <1>2, <1>3, ChunkFacts DEF Span
  <2> QED
    BY <1>2, <1>8, <2>3, <2>4, <2>5, SpansApart
<1> HIDE DEF file, unit
<1>9. LedgerFollows'
  <2> SUFFICES ASSUME NEW f \in Files, NEW u \in Units
               PROVE  /\ \A v \in Workers :
                           (Open(v, f, u))' => content'[f][u] = (CurrentWrite(v))'
                      /\ (\A v \in Workers : ~(Open(v, f, u))') =>
                           content'[f][u] = ExpectedIn(entries', f, u)
    BY DEF LedgerFollows
  <2>1. /\ \A v \in Workers : Open(v, f, u) => content[f][u] = CurrentWrite(v)
        /\ (\A v \in Workers : ~Open(v, f, u)) => content[f][u] = ExpectedIn(entries, f, u)
    BY DEF RunInv, LedgerFollows
  <2>2. \A v \in Workers : (CurrentWrite(v))' = CurrentWrite(v)
    BY <1>2 DEF CurrentWrite
  <2>3. CASE f = file /\ u = unit
    BY <1>4, <1>7, <1>8, <2>2, <2>3
  <2>4. CASE ~(f = file /\ u = unit)
    BY <1>1, <1>4, <1>7, <2>1, <2>2, <2>4
  <2> QED
    BY <2>3, <2>4
<1>10. Ordered(entries, ledgerSeq)'
  BY <1>1 DEF RunInv, Ordered, CoveringIn, IsLast
<1> QED
  BY <1>1, <1>5, <1>6, <1>9, <1>10, MainKnowsNothing DEF RunInv

LEMMA NoteWritePreserves ==
  ASSUME LayoutFits, RunInv, NEW w \in Workers, NoteWrite(w)
  PROVE  RunInv'
<1> DEFINE k == KeyOf(w)
           x == CurrentWrite(w)
<1>1. /\ ~Terminated(w) /\ Others(w)
      /\ content' = content /\ job' = job /\ wpos' = wpos /\ writeSeq' = writeSeq
      /\ wpc[w] = "note" /\ wpc'[w] = "loop"
  BY DEF RunInv, TypeOK, NoteWrite, Terminated, Others, fileVars, mainVars
<1>2. /\ wpos[w] = ChunkOf(w) /\ k = <<job[w].idx, job[w].offset, ChunkOf(w)>> /\ k \in Keys
  BY <1>1, JobFacts, ChunkFacts DEF RunInv, WriterInv, KeyOf, Keys
<1>3. x \in Writes
  BY <1>1, CurrentWriteFacts
<1>4. /\ ledgerSeq \in Nat /\ ledgerSeq' = ledgerSeq + 1
      /\ entries' = [entries EXCEPT ![k] = [seq |-> ledgerSeq + 1, write |-> x]]
  BY DEF RunInv, TypeOK, NoteWrite
<1>5. /\ k[1] = job[w].idx /\ k[2] = job[w].offset /\ k[3] = wpos[w]
  BY <1>2
<1> HIDE DEF k, x
<1>6. /\ Ordered(entries', ledgerSeq + 1)
      /\ \A f \in Files, u \in Units :
           ExpectedIn(entries', f, u) = IF f = k[1] /\ u \in Span(k[2], k[3])
                                        THEN x ELSE ExpectedIn(entries, f, u)
  <2>1. Ordered(entries, ledgerSeq) /\ entries \in [Keys -> EntryType]
    BY DEF RunInv, TypeOK
  <2>2. [seq |-> ledgerSeq + 1, write |-> x] \in EntryType
    BY <1>3, <1>4 DEF EntryType
  <2>3. /\ entries' \in [Keys -> EntryType]
        /\ entries'[k] = [seq |-> ledgerSeq + 1, write |-> x]
        /\ \A j \in Keys : j # k => entries'[j] = entries[j]
    BY <1>2, <1>4, <2>1, <2>2
  <2>4. k \in Keys /\ ledgerSeq \in Nat
    BY <1>2, <1>4
  <2> QED
    BY <1>3, <2>1, <2>3, <2>4, NoteDecides
<1>7. TypeOK'
  <2>1. entries' \in [Keys -> EntryType] /\ ledgerSeq' \in Nat
    BY <1>4, <1>6 DEF Ordered
  <2>2. wpc' \in [Workers -> WorkerStates]
    BY DEF RunInv, TypeOK, NoteWrite, WorkerStates
  <2> QED
    BY <1>1, <2>1, <2>2 DEF RunInv, TypeOK, NoteWrite, mainVars
<1>8. \A v \in Workers : WriterInv(v)'
  BY <1>1 DEF RunInv, WriterInv, Others
<1>9. \A f \in Files, u \in Units :
        /\ ~(Open(w, f, u))'
        /\ Open(w, f, u) <=> f = k[1] /\ u \in Span(k[2], k[3])
        /\ \A v \in Workers : v # w => ((Open(v, f, u))' <=> Open(v, f, u))
  BY <1>1, <1>5 DEF Open, Others
<1>10. LedgerFollows'
  <2> SUFFICES ASSUME NEW f \in Files, NEW u \in Units
               PROVE  /\ \A v \in Workers :
                           (Open(v, f, u))' => content'[f][u] = (CurrentWrite(v))'
                      /\ (\A v \in Workers : ~(Open(v, f, u))') =>
                           content'[f][u] = ExpectedIn(entries', f, u)
    BY DEF LedgerFollows
  <2>1. /\ \A v \in Workers : Open(v, f, u) => content[f][u] = CurrentWrite(v)
        /\ (\A v \in Workers : ~Open(v, f, u)) => content[f][u] = ExpectedIn(entries, f, u)
    BY DEF RunInv, LedgerFollows
  <2>2. \A v \in Workers : (CurrentWrite(v))' = CurrentWrite(v)
    BY <1>1 DEF CurrentWrite
  <2>3. CASE f = k[1] /\ u \in Span(k[2], k[3])
    BY <1>1, <1>6, <1>9, <2>1, <2>2, <2>3 DEF x
  <2>4. CASE ~(f = k[1] /\ u \in Span(k[2], k[3]))
    BY <1>1, <1>6, <1>9, <2>1, <2>2, <2>4
  <2> QED
    BY <2>3, <2>4
<1> QED
  BY <1>1, <1>4, <1>6, <1>7, <1>8, <1>10, MainKnowsNothing DEF RunInv

-----------------------------------------------------------------------------
(* The steps of the main thread                                              *)
LEMMA FilesUntouched ==
  ASSUME RunInv, UNCHANGED <<fileVars, workerVars, ledgerVars>>
  PROVE  /\ \A w \in Workers : WriterInv(w)'
         /\ Ordered(entries, ledgerSeq)'
         /\ LedgerFollows'
<1>1. /\ content' = content /\ wpc' = wpc /\ opened' = opened /\ job' = job /\ wpos' = wpos
      /\ writeSeq' = writeSeq /\ ledgerSeq' = ledgerSeq /\ entries' = entries
  BY DEF fileVars, workerVars, ledgerVars
<1>2. \A w \in Workers : WriterInv(w)'
  BY <1>1 DEF RunInv, WriterInv
<1>3. Ordered(entries, ledgerSeq)'
  BY <1>1 DEF RunInv, Ordered, CoveringIn, IsLast
<1>4. LedgerFollows'
  <2> SUFFICES ASSUME NEW f \in Files, NEW u \in Units
               PROVE  /\ \A v \in Workers :
                           (Open(v, f, u))' => content'[f][u] = (CurrentWrite(v))'
                      /\ (\A v \in Workers : ~(Open(v, f, u))') =>
                           content'[f][u] = ExpectedIn(entries', f, u)
    BY DEF LedgerFollows
  <2>1. /\ \A v \in Workers : Open(v, f, u) => content[f][u] = CurrentWrite(v)
        /\ (\A v \in Workers : ~Open(v, f, u)) => content[f][u] = ExpectedIn(entries, f, u)
    BY DEF RunInv, LedgerFollows
  <2>2. \A v \in Workers : /\ (Open(v, f, u))' <=> Open(v, f, u)
                            /\ (CurrentWrite(v))' = CurrentWrite(v)
    BY <1>1 DEF Open, CurrentWrite
  <2>3. content'[f][u] = content[f][u] /\ ExpectedIn(entries', f, u) = ExpectedIn(entries, f, u)
    BY <1>1
  <2>4. \A v \in Workers : (Open(v, f, u))' => content'[f][u] = (CurrentWrite(v))'
    BY <2>1, <2>2, <2>3
  <2>5. (\A v \in Workers : ~(Open(v, f, u))') => content[f][u] = ExpectedIn(entries, f, u)
    <3>1. \A v \in Workers : ~(Open(v, f, u))' => ~Open(v, f, u)
      BY <1>1 DEF Open
    <3> QED
      BY <2>1, <3>1
  <2> QED
    BY <2>3, <2>4, <2>5
<1> QED
  BY <1>2, <1>3, <1>4

LEMMA StopWorkersPreserves ==
  ASSUME RunInv, StopWorkers
  PROVE  RunInv'
<1>1. TypeOK'
  BY DEF RunInv, TypeOK, StopWorkers, MainStates, fileVars, workerVars, ledgerVars
<1>2. MainInv'
  <2>1. mpc' = "join" /\ mi' = 1 /\ 1 \in Workers /\ \A w \in Workers : ~(w < 1)
    BY HalfFacts DEF StopWorkers, Workers
  <2> QED
    BY <2>1 DEF MainInv
<1> QED
  BY <1>1, <1>2, FilesUntouched DEF RunInv, StopWorkers

LEMMA JoinPreserves ==
  ASSUME RunInv, NEW w \in Workers, JoinWorker(w) \/ JoinTimesOut(w)
  PROVE  RunInv'
<1>1. /\ Joined(w) /\ wpc' = wpc /\ content' = content /\ plan' = plan
      /\ mpc = "join" /\ mi = w /\ w \in Nat
  BY HalfFacts DEF JoinWorker, JoinTimesOut, Joined, workerVars, fileVars, Workers
<1>2. \/ w + 1 \in Workers /\ mi' = w + 1 /\ mpc' = "join"
      \/ w + 1 \notin Workers /\ mi' = 0 /\ mpc' = "plan"
  BY <1>1 DEF Joined
<1>3. 0 \in Files /\ \A f \in Files : ~(f < 0)
  BY RunAssumption DEF Files
<1>4. TypeOK'
  <2>1. late' \subseteq Workers
    BY DEF RunInv, TypeOK, JoinWorker, JoinTimesOut
  <2>2. mi' \in Nat /\ mpc' \in MainStates
    BY <1>1, <1>2 DEF MainStates
  <2> QED
    BY <1>1, <2>1, <2>2 DEF RunInv, TypeOK, Joined, fileVars, workerVars, ledgerVars
<1>5. CASE JoinTimesOut(w)
  <2>1. ~Undisturbed'
    BY <1>5 DEF JoinTimesOut, Undisturbed
  <2>2. MainInv'
    BY <1>2, <1>3, <2>1 DEF MainInv
  <2> QED
    BY <1>1, <1>4, <2>2, FilesUntouched DEF RunInv, Joined
<1>6. CASE JoinWorker(w)
  <2>1. Undisturbed' <=> Undisturbed
    BY <1>1, <1>6 DEF JoinWorker, Undisturbed
  <2>2. Undisturbed => \A v \in Workers : v <= w => wpc[v] = "ended"
    <3> SUFFICES ASSUME Undisturbed, NEW v \in Workers, v <= w PROVE wpc[v] = "ended"
      OBVIOUS
    <3>1. CASE v = w
      BY <1>6, <3>1 DEF JoinWorker, Terminated, Undisturbed
    <3>2. CASE v < w
      BY <1>1, <3>2 DEF RunInv, MainInv
    <3> QED
      BY <3>1, <3>2 DEF Workers
  <2>3. CASE w + 1 \in Workers /\ mi' = w + 1 /\ mpc' = "join"
    <3>1. \A v \in Workers : v < w + 1 => v <= w
      BY <1>1 DEF Workers
    <3> QED
      BY <1>1, <2>1, <2>2, <2>3, <3>1, <1>4, FilesUntouched DEF RunInv, MainInv, Joined
  <2>4. CASE w + 1 \notin Workers /\ mi' = 0 /\ mpc' = "plan"
    <3>1. \A v \in Workers : v <= w
      BY <1>1, <2>4, HalfFacts DEF Workers
    <3> QED
      BY <1>1, <1>3, <2>1, <2>2, <2>4, <3>1, <1>4, FilesUntouched DEF RunInv, MainInv, Joined
  <2> QED
    BY <1>2, <2>3, <2>4
<1> QED
  BY <1>5, <1>6

\* Once all writers have ended, every file holds what the ledger says.
LEMMA AllNoted ==
  ASSUME RunInv, \A w \in Workers : wpc[w] = "ended", NEW f \in Files
  PROVE  content[f] = [u \in Units |-> Expected(f, u)]
<1>1. \A u \in Units : content[f][u] = Expected(f, u)
  <2> SUFFICES ASSUME NEW u \in Units PROVE content[f][u] = Expected(f, u)
    OBVIOUS
  <2>1. \A w \in Workers : ~Open(w, f, u)
    BY DEF Open
  <2>2. Expected(f, u) = ExpectedIn(entries, f, u)
    BY DEF Expected, ExpectedIn, Covering, CoveringIn
  <2> QED
    BY <2>1, <2>2 DEF RunInv, LedgerFollows
<1>2. content[f] \in [Units -> Writes]
  BY DEF RunInv, TypeOK
<1> QED
  BY <1>1, <1>2

LEMMA ExpectedIsAWrite ==
  ASSUME RunInv, NEW f \in Files, NEW u \in Units
  PROVE  Expected(f, u) \in Writes
<1>1. Expected(f, u) = ExpectedIn(entries, f, u)
  BY DEF Expected, ExpectedIn, Covering, CoveringIn
<1>2. CASE CoveringIn(entries, f, u) = {}
  BY <1>1, <1>2 DEF ExpectedIn, Writes
<1>3. CASE CoveringIn(entries, f, u) # {}
  <2>1. PICK k \in Keys : IsLast(entries, f, u, k)
    BY <1>3 DEF RunInv, Ordered
  <2>2. ExpectedIn(entries, f, u) = entries[k].write
    BY <2>1, ExpectedOfLast DEF RunInv
  <2> QED
    BY <1>1, <2>2 DEF RunInv, TypeOK, EntryType
<1> QED
  BY <1>2, <1>3

LEMMA BuildPlanPreserves ==
  ASSUME RunInv, BuildPlan
  PROVE  RunInv'
<1>1. /\ mpc = "plan" /\ mi \in Files /\ mi \in Nat
      /\ wpc' = wpc /\ content' = content /\ late' = late
  BY DEF RunInv, MainInv, TypeOK, BuildPlan, workerVars, fileVars
<1>2. \/ mi + 1 \in Files /\ mi' = mi + 1 /\ mpc' = "plan"
      \/ mi + 1 \notin Files /\ mi' = 0 /\ mpc' = "verify"
  BY <1>1 DEF BuildPlan
<1>3. /\ plan'[mi] = [u \in Units |-> Expected(mi, u)]
      /\ \A f \in Files : f # mi => plan'[f] = plan[f]
  BY <1>1 DEF RunInv, TypeOK, BuildPlan
<1>4. TypeOK'
  <2>1. [u \in Units |-> Expected(mi, u)] \in [Units -> Writes]
    BY <1>1, ExpectedIsAWrite
  <2>2. plan' \in [Files -> [Units -> Writes]]
    BY <1>1, <2>1 DEF RunInv, TypeOK, BuildPlan
  <2> QED
    BY <1>1, <1>2, <2>2 DEF RunInv, TypeOK, BuildPlan, MainStates, fileVars, workerVars, ledgerVars
<1>5. Undisturbed' <=> Undisturbed
  BY <1>1 DEF Undisturbed
<1>6. Undisturbed => /\ \A w \in Workers : wpc[w] = "ended"
                     /\ \A f \in Files : f <= mi => plan'[f] = content[f]
  <2> SUFFICES ASSUME Undisturbed
               PROVE  /\ \A w \in Workers : wpc[w] = "ended"
                      /\ \A f \in Files : f <= mi => plan'[f] = content[f]
    OBVIOUS
  <2>1. \A w \in Workers : wpc[w] = "ended"
    BY <1>1 DEF RunInv, MainInv
  <2>2. plan'[mi] = content[mi]
    BY <1>1, <1>3, <2>1, AllNoted
  <2>3. \A f \in Files : f < mi => plan'[f] = content[f]
    BY <1>1, <1>3 DEF RunInv, MainInv
  <2>4. \A f \in Files : f <= mi => f = mi \/ f < mi
    BY <1>1 DEF Files
  <2> QED
    BY <2>1, <2>2, <2>3, <2>4
<1>7. MainInv'
  <2>1. CASE mi + 1 \in Files /\ mi' = mi + 1 /\ mpc' = "plan"
    <3>1. \A f \in Files : f < mi + 1 => f <= mi
      BY <1>1 DEF Files
    <3> QED
      BY <1>1, <1>5, <1>6, <2>1, <3>1 DEF MainInv
  <2>2. CASE mi + 1 \notin Files /\ mi' = 0 /\ mpc' = "verify"
    <3>1. 0 \in Files /\ \A f \in Files : f <= mi
      BY <1>1, <2>2, RunAssumption DEF Files
    <3> QED
      BY <1>1, <1>5, <1>6, <2>2, <3>1 DEF MainInv
  <2> QED
    BY <1>2, <2>1, <2>2
<1> QED
  BY <1>4, <1>7, FilesUntouched DEF RunInv, BuildPlan

\* What the main thread knows once the plans are built stays true.
LEMMA KnowledgeKept ==
  ASSUME RunInv, mpc \notin {"sleep", "join", "plan"},
         UNCHANGED <<content, wpc, plan, late>>,
         mpc' \notin {"sleep", "join", "plan"},
         mpc' \in {"verify", "unmount"} => mi' \in Files,
         Undisturbed => mpc' # "mismatch"
  PROVE  MainInv'
<1>1. Undisturbed' <=> Undisturbed
  BY DEF Undisturbed
<1> QED
  BY <1>1 DEF RunInv, MainInv

LEMMA VerifyFilePreserves ==
  ASSUME RunInv, VerifyFile
  PROVE  RunInv'
<1>1. /\ mpc = "verify" /\ mi \in Files /\ mi \in Nat
      /\ UNCHANGED <<content, wpc, plan, late>>
  BY DEF RunInv, MainInv, TypeOK, VerifyFile, workerVars, fileVars
<1>2. \/ content[mi] # plan[mi] /\ mpc' = "mismatch" /\ mi' = mi
      \/ mi + 1 \in Files /\ mi' = mi + 1 /\ mpc' = "verify"
      \/ mi' = 0 /\ mpc' \in {"unmount", "passed"}
  BY <1>1 DEF VerifyFile
<1>3. 0 \in Files
  BY RunAssumption DEF Files
<1>4. TypeOK'
  BY <1>1, <1>2 DEF RunInv, TypeOK, VerifyFile, MainStates, fileVars, workerVars, ledgerVars
<1>5. Undisturbed => mpc' # "mismatch"
  BY <1>1, <1>2 DEF RunInv, MainInv
<1>6. MainInv'
  BY <1>1, <1>2, <1>5, <1>3, KnowledgeKept
<1> QED
  BY <1>4, <1>6, FilesUntouched DEF RunInv, VerifyFile

LEMMA UnmountPreserves ==
  ASSUME RunInv, Remount \/ UnmountGivesUp
  PROVE  RunInv'
<1>1. /\ mpc = "unmount" /\ mpc' \in {"verify", "busy"}
      /\ UNCHANGED <<fileVars, workerVars, ledgerVars>>
      /\ UNCHANGED <<content, wpc, plan, late, mi>>
  BY DEF Remount, UnmountGivesUp, workerVars, fileVars, ledgerVars
<1>2. TypeOK'
  BY <1>1 DEF RunInv, TypeOK, Remount, UnmountGivesUp, MainStates, fileVars, workerVars, ledgerVars
<1>3. mi' \in Files
  BY <1>1 DEF RunInv, MainInv
<1>4. MainInv'
  BY <1>1, <1>3, KnowledgeKept
<1> QED
  BY <1>1, <1>2, <1>4, FilesUntouched DEF RunInv

-----------------------------------------------------------------------------
(* The theorems                                                              *)
LEMMA StutterPreserves ==
  ASSUME RunInv, UNCHANGED vars
  PROVE  RunInv'
<1>1. /\ UNCHANGED <<fileVars, workerVars, ledgerVars>> /\ UNCHANGED <<mainVars, stop>>
      /\ UNCHANGED <<content, wpc, plan, late, mpc, mi, phase>>
  BY DEF vars, fileVars, workerVars, ledgerVars, mainVars
<1>2. TypeOK'
  BY <1>1 DEF RunInv, TypeOK, fileVars, workerVars, ledgerVars
<1>3. MainInv'
  BY <1>1 DEF RunInv, MainInv, Undisturbed
<1> QED
  BY <1>1, <1>2, <1>3, FilesUntouched DEF RunInv

LEMMA StepPreserves ==
  ASSUME LayoutFits, RunInv, [Next]_vars
  PROVE  RunInv'
<1>1. ASSUME NEW w \in Workers, Worker(w) PROVE RunInv'
  BY <1>1, OpenFilePreserves, OpenRaisesPreserves, LeaveLoopPreserves, ChooseWritePreserves,
     WriteUnitPreserves, FsyncPreserves, WriteRaisesPreserves, NoteWritePreserves DEF Worker
<1>2. ASSUME Main PROVE RunInv'
  BY <1>2, StopWorkersPreserves, JoinPreserves, BuildPlanPreserves, VerifyFilePreserves,
     UnmountPreserves DEF Main
<1>3. CASE UNCHANGED vars
  BY <1>3, StutterPreserves
<1> QED
  BY <1>1, <1>2, <1>3 DEF Next, Ended

\* Whatever the sizes, the workers, the faults and the late joins are, if each kind of chunk
\* fits in its half (the code does not check it): no write leaves its slot, the files differ
\* from the ledger in open writes only, and a run in which no writer raised and none outlasted
\* its join blames no correct file system (run_retry_fsync_writeback_race, verify_content).
THEOREM LedgerHolds ==
  ASSUME LayoutFits
  PROVE  Spec => []LedgerInv
<1>1. Init => RunInv
  BY InitEstablishes
<1>2. RunInv /\ [Next]_vars => RunInv'
  BY StepPreserves
<1>3. RunInv => LedgerInv
  BY InvImplies
<1> QED
  BY <1>1, <1>2, <1>3, PTL DEF Spec

-----------------------------------------------------------------------------
(* The mount that the cases run on (LoopMount)                               *)
CONSTANTS Users, Retries
VARIABLE lm
Mount == INSTANCE LoopMount

CountedRetries == Retries \in [verify : Nat, cleanup : Nat]

Mounts ==
  [pc : {"check", "attach", "mkfs", "mount", "body", "unmount", "again", "clean",
         "cleanUnmount", "detach", "image", "cleaned", "left"},
   guarded : BOOLEAN, keep : BOOLEAN, found : BOOLEAN, loopdev : BOOLEAN,
   mounted : BOOLEAN, lazy : BOOLEAN,
   image : {"none", "old", "new"}, device : {"none", "attached", "detaching"},
   users : SUBSET Users, tries : 0..(Retries.verify + Retries.cleanup),
   outcome : {"running", "passed", "failed"}]

\* What is done before the clean-up has unmounted, and after.
SettingUp == {"check", "attach", "mkfs", "mount"}
Unmounting == {"detach", "image", "cleaned"}

\* A file system in use or mounted has its device, one that is mounted nowhere is in use;
\* and a device is the case's, or was found with its file system.
DeviceInv ==
  /\ lm.mounted \/ lm.lazy => lm.device # "none"
  /\ lm.users # {} => lm.mounted \/ lm.lazy
  /\ lm.lazy => lm.users # {} /\ ~lm.mounted /\ lm.pc \in Unmounting
  /\ lm.device = "detaching" => lm.lazy
  /\ lm.loopdev => ~lm.found
  /\ lm.device # "none" /\ ~lm.found => lm.loopdev

\* What the case has done when it stands at a step.
StepInv ==
  /\ lm.found => lm.pc \notin {"attach", "mkfs", "mount", "body", "unmount", "again"}
  /\ lm.pc \in SettingUp => lm.users = {} /\ lm.mounted = lm.found
  /\ lm.pc \in {"mkfs", "mount", "body", "unmount", "again"} =>
       lm.loopdev /\ lm.device = "attached"
  /\ lm.pc = "body" => lm.mounted
  /\ lm.pc \in {"again"} \cup Unmounting => ~lm.mounted
  /\ lm.pc \in {"clean", "cleanUnmount"} \cup Unmounting => lm.outcome # "running"
  /\ lm.loopdev /\ lm.pc \in {"image", "cleaned"} => lm.device # "attached"
  /\ lm.pc = "cleaned" /\ lm.image # "none" => lm.keep /\ lm.outcome = "failed"

MountInv == lm \in Mounts /\ DeviceInv /\ StepInv

LEMMA MountInitial == CountedRetries /\ Mount!MountInit => MountInv
BY DEF CountedRetries, Mount!MountInit, MountInv, DeviceInv, StepInv, Mounts, SettingUp,
       Unmounting

\* A set-up or body that raises.
LEMMA RaisedPreserves ==
  ASSUME CountedRetries, MountInv, lm' = Mount!Raised(lm), lm.pc \in SettingUp \cup {"body"},
         lm.pc = "check" => lm.mounted
  PROVE  MountInv'
<1>1. CASE lm.guarded
  BY <1>1 DEF CountedRetries, MountInv, Mounts, DeviceInv, StepInv, SettingUp, Unmounting,
             Mount!Raised
<1>2. CASE ~lm.guarded
  BY <1>2 DEF CountedRetries, MountInv, Mounts, DeviceInv, StepInv, SettingUp, Unmounting,
             Mount!Raised
<1> QED
  BY <1>1, <1>2 DEF MountInv, Mounts

\* A body that has come to its end.
LEMMA EndedPreserves ==
  ASSUME CountedRetries, MountInv, NEW o \in {"passed", "failed"},
         lm' = Mount!To([lm EXCEPT !.outcome = o], "clean"),
         lm.pc \in {"body", "unmount", "again"}
  PROVE  MountInv'
BY DEF CountedRetries, MountInv, Mounts, DeviceInv, StepInv, SettingUp, Unmounting,
       Mount!To

LEMMA MountStep ==
  ASSUME CountedRetries, MountInv, [Mount!MountNext]_lm
  PROVE  MountInv'
<1> USE DEF CountedRetries, MountInv, Mounts, DeviceInv, StepInv, SettingUp, Unmounting,
            Mount!At, Mount!To
<1>0. {Retries.verify, Retries.cleanup} \subseteq 0..(Retries.verify + Retries.cleanup)
  OBVIOUS
<1>1. CASE Mount!MakeImage
  <2>1. CASE lm.mounted
    BY <1>1, <2>1, RaisedPreserves DEF Mount!MakeImage
  <2>2. CASE ~lm.mounted
    BY <1>1, <2>2 DEF Mount!MakeImage
  <2> QED
    BY <1>1, <2>1, <2>2 DEF Mount!MakeImage
<1>2. CASE Mount!Attach
  <2>1. CASE lm' = Mount!Raised(lm)
    BY <1>2, <2>1, RaisedPreserves DEF Mount!Attach
  <2>2. CASE lm' = Mount!To([lm EXCEPT !.device = "attached", !.loopdev = TRUE], "mkfs")
    BY <1>2, <2>2 DEF Mount!Attach
  <2> QED
    BY <1>2, <2>1, <2>2 DEF Mount!Attach
<1>3. CASE Mount!Mkfs
  <2>1. CASE lm' = Mount!Raised(lm)
    BY <1>3, <2>1, RaisedPreserves DEF Mount!Mkfs
  <2>2. CASE lm' = Mount!To(lm, "mount")
    BY <1>3, <2>2 DEF Mount!Mkfs
  <2> QED
    BY <1>3, <2>1, <2>2 DEF Mount!Mkfs
<1>4. CASE Mount!MountIt
  <2>1. CASE lm' = Mount!Raised(lm)
    BY <1>4, <2>1, RaisedPreserves DEF Mount!MountIt
  <2>2. CASE lm' = Mount!To([lm EXCEPT !.mounted = TRUE], "body")
    BY <1>4, <2>2 DEF Mount!MountIt
  <2> QED
    BY <1>4, <2>1, <2>2 DEF Mount!MountIt
<1>5. CASE Mount!EndBody
  <2>1. CASE lm' = Mount!Raised(lm)
    BY <1>5, <2>1, RaisedPreserves DEF Mount!EndBody
  <2>2. CASE lm' = Mount!To([lm EXCEPT !.tries = Retries.verify], "unmount")
    BY <1>0, <1>5, <2>2 DEF Mount!EndBody
  <2>3. CASE \E o \in {"passed", "failed"} : lm' = Mount!To([lm EXCEPT !.outcome = o], "clean")
    BY <1>5, <2>3, EndedPreserves DEF Mount!EndBody
  <2> QED
    BY <1>5, <2>1, <2>2, <2>3 DEF Mount!EndBody
<1>6. CASE Mount!Remount
  <2>1. CASE ~lm.mounted
    BY <1>6, <2>1 DEF Mount!Remount, Mount!Unmount, Mount!Unmounted, Mount!InUse
  <2>2. CASE lm.mounted /\ lm.tries = 0
    BY <1>6, <2>2, EndedPreserves DEF Mount!Remount, Mount!Unmount, Mount!Unmounted, Mount!InUse
  <2>3. CASE lm.mounted /\ lm.tries # 0 /\ lm.users # {}
    BY <1>6, <2>3 DEF Mount!Remount, Mount!Unmount, Mount!Unmounted, Mount!InUse
  <2>4. CASE lm.mounted /\ lm.tries # 0 /\ lm.users = {}
    BY <1>6, <2>4 DEF Mount!Remount, Mount!Unmount, Mount!Unmounted, Mount!InUse
  <2> QED
    BY <1>6, <2>1, <2>2, <2>3, <2>4 DEF Mount!Remount
<1>7. CASE Mount!MountExisting
  <2>1. CASE lm' = Mount!To([lm EXCEPT !.outcome = "failed"], "clean")
    BY <1>7, <2>1, EndedPreserves DEF Mount!MountExisting
  <2>2. CASE lm' = Mount!To([lm EXCEPT !.mounted = TRUE, !.outcome = "passed"], "clean")
    BY <1>7, <2>2 DEF Mount!MountExisting
  <2> QED
    BY <1>7, <2>1, <2>2 DEF Mount!MountExisting
<1>8. CASE Mount!CleanBegin
  BY <1>0, <1>8 DEF Mount!CleanBegin
<1>9. CASE Mount!CleanUnmount
  <2>1. CASE ~lm.mounted
    BY <1>9, <2>1 DEF Mount!CleanUnmount, Mount!Unmount, Mount!Unmounted, Mount!InUse,
                       Mount!Settled
  <2>2. CASE lm.mounted /\ lm.tries = 0 /\ lm.users # {}
    <3>1. lm' = [lm EXCEPT !.mounted = FALSE, !.lazy = TRUE, !.pc = "detach"]
      BY <1>9, <2>2 DEF Mount!CleanUnmount, Mount!Unmount, Mount!Unmounted, Mount!InUse,
                         Mount!Settled
    <3>2. lm.pc = "cleanUnmount"
      BY <1>9 DEF Mount!CleanUnmount, Mount!Unmount
    <3> QED
      BY <2>2, <3>1, <3>2
  <2>3. CASE lm.mounted /\ lm.tries = 0 /\ lm.users = {}
    <3>1. lm.device = "attached" /\ ~lm.lazy
      BY <2>3
    <3>2. lm' = [lm EXCEPT !.mounted = FALSE, !.pc = "detach"]
      BY <1>9, <2>3, <3>1 DEF Mount!CleanUnmount, Mount!Unmount, Mount!Unmounted, Mount!InUse,
                              Mount!Settled
    <3>3. lm.pc = "cleanUnmount"
      BY <1>9 DEF Mount!CleanUnmount, Mount!Unmount
    <3> QED
      BY <2>3, <3>1, <3>2, <3>3
  <2>4. CASE lm.mounted /\ lm.tries # 0 /\ lm.users # {}
    BY <1>9, <2>4 DEF Mount!CleanUnmount, Mount!Unmount, Mount!Unmounted, Mount!InUse,
                       Mount!Settled
  <2>5. CASE lm.mounted /\ lm.tries # 0 /\ lm.users = {}
    BY <1>9, <2>5 DEF Mount!CleanUnmount, Mount!Unmount, Mount!Unmounted, Mount!InUse,
                       Mount!Settled
  <2> QED
    BY <1>9, <2>1, <2>2, <2>3, <2>4, <2>5 DEF Mount!CleanUnmount
<1>10. CASE Mount!Detach
  <2>1. CASE ~lm.loopdev
    BY <1>10, <2>1 DEF Mount!Detach
  <2>2. CASE lm.loopdev /\ lm.lazy
    BY <1>10, <2>2 DEF Mount!Detach
  <2>3. CASE lm.loopdev /\ ~lm.lazy
    BY <1>10, <2>3 DEF Mount!Detach
  <2> QED
    BY <1>10, <2>1, <2>2, <2>3 DEF Mount!Detach
<1>11. CASE Mount!RemoveImage
  <2>1. CASE lm.keep /\ lm.outcome # "passed"
    BY <1>11, <2>1 DEF Mount!RemoveImage
  <2>2. CASE ~(lm.keep /\ lm.outcome # "passed")
    BY <1>11, <2>2 DEF Mount!RemoveImage
  <2> QED
    BY <1>11, <2>1, <2>2 DEF Mount!RemoveImage
<1>12. ASSUME NEW u \in Users, Mount!Use(u) PROVE MountInv'
  BY <1>12 DEF Mount!Use
<1>13. ASSUME NEW u \in Users, Mount!Close(u) PROVE MountInv'
  <2>1. CASE lm.lazy /\ lm.users = {u}
    <3>1. /\ lm.device = "attached" => lm' = [lm EXCEPT !.users = {}, !.lazy = FALSE]
          /\ lm.device = "detaching" =>
               lm' = [lm EXCEPT !.users = {}, !.lazy = FALSE, !.device = "none"]
      <4>1. lm' = Mount!Settled([lm EXCEPT !.users = {}])
        BY <1>13, <2>1 DEF Mount!Close
      <4>2. Mount!InUse([lm EXCEPT !.users = {}]) = FALSE
        BY DEF Mount!InUse
      <4> QED
        BY <2>1, <4>1, <4>2 DEF Mount!Settled
    <3>2. CASE lm.device = "attached"
      <4>1. lm' = [lm EXCEPT !.users = {}, !.lazy = FALSE]
        BY <3>1, <3>2
      <4> QED
        BY <2>1, <3>2, <4>1
    <3>3. CASE lm.device = "detaching"
      <4>1. lm' = [lm EXCEPT !.users = {}, !.lazy = FALSE, !.device = "none"]
        BY <3>1, <3>3
      <4> QED
        BY <2>1, <3>3, <4>1
    <3> QED
      BY <2>1, <3>2, <3>3
  <2>2. CASE ~lm.lazy
    BY <1>13, <2>2 DEF Mount!Close, Mount!Settled, Mount!InUse
  <2>3. CASE lm.users # {u}
    BY <1>13, <2>3 DEF Mount!Close, Mount!Settled, Mount!InUse
  <2> QED
    BY <1>13, <2>1, <2>2, <2>3 DEF Mount!Close
<1>14. CASE UNCHANGED lm
  BY <1>14
<1> QED
  BY <1>1, <1>2, <1>3, <1>4, <1>5, <1>6, <1>7, <1>8, <1>9, <1>10, <1>11, <1>12, <1>13, <1>14
     DEF Mount!MountNext

\* Whatever the number of retries and of threads that go on using it, wherever the set-up, the
\* body or the remount fails: the clean-up of a case leaves nothing mounted in the place, no
\* device it attached once the last user has gone, and no image that nobody asked for; and
\* what is in use stays on its device (LoopMount.setup, unmount, cleanup).
THEOREM MountIsReleased ==
  ASSUME CountedRetries
  PROVE  Mount!MountInit /\ [][Mount!MountNext]_lm =>
            [](Mount!MountTypeOK /\ Mount!MountReleased)
<1>1. Mount!MountInit => MountInv
  BY MountInitial
<1>2. MountInv /\ [Mount!MountNext]_lm => MountInv'
  BY MountStep
<1>3. MountInv => Mount!MountTypeOK /\ Mount!MountReleased
  BY DEF CountedRetries, MountInv, DeviceInv, StepInv, Mounts, SettingUp, Unmounting,
         Mount!MountTypeOK, Mount!MountReleased, Mount!InUse
<1> QED
  BY <1>1, <1>2, <1>3, PTL

=============================================================================
