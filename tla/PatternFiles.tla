----------------------------- MODULE PatternFiles ------------------------------
(***************************************************************************)
(* The files that the tests fill with patterns and judge by them: the      *)
(* patterns and their chunks (utils/patterns.py), the writers              *)
(* (utils/io.py, rw_test.py, utils/short_write.py) and the verifications   *)
(* (utils/verify.py), as their users put them together: the cases and the  *)
(* single regions of rw_test.py, the groups of the two-phase GC test, and  *)
(* the tests that write over a file atomically or with a faulting buffer.  *)
(*                                                                         *)
(* A file is the sequence of its bytes, sizes are a few bytes, and the     *)
(* moduli 256 and 251, the tokens and the half window of 64 are scaled     *)
(* down with them.  The file system is external: it may write less than    *)
(* it is asked, and before the verification it may change a byte or the    *)
(* size of the file.                                                       *)
(*                                                                         *)
(* A definition named X_Y is a deliberately wrong variant of X, kept to    *)
(* see which property notices.                                             *)
(***************************************************************************)
EXTENDS Integers, Sequences

CONSTANTS
  Cases,       \* what is run: records as MatrixPlan and the other plans read them
  Loops,       \* times that a case is repeated on its file; bounds the model
  Modulus, Cycle, HalfWindow   \* 256, 251 and 64 of the code

VARIABLE img

Least(a, b) == IF a <= b THEN a ELSE b
Greatest(a, b) == IF a >= b THEN a ELSE b
Hole == -1     \* the zero byte of a sparse file
Damaged == -2  \* a byte that nobody wrote
-----------------------------------------------------------------------------
(* Patterns                                                                  *)
RECURSIVE Cycled(_, _)
Cycled(token, n) ==
  IF n <= 0 THEN <<>>
  ELSE SubSeq(token, 1, Least(Len(token), n)) \o Cycled(token, n - Len(token))

RepeatBytes(token, start, n) ==
  LET at == start % Len(token)
      first == Least(n, Len(token) - at)
  IN  IF n <= 0 THEN <<>> ELSE SubSeq(token, at + 1, at + first) \o Cycled(token, n - first)

RenderPatternBytes(pos, n, config, overlayOff) ==
  CASE config.mode = "counter" -> [i \in 1..n |-> (config.seed + pos + i - 1) % Modulus]
    [] config.mode = "mod251" -> RepeatBytes([i \in 1..Cycle |-> i - 1], config.seed + pos, n)
    [] config.mode = "filepos" -> RepeatBytes(config.token, pos, n)
    [] config.mode = "repeat" -> RepeatBytes(config.token, pos - overlayOff, n)

\* iter_expected_chunks: pairs of a relative position and the bytes from there on.
ExpectedChunks(offset, size, config) ==
  [k \in 1..(size + config.chunk - 1) \div config.chunk |->
     LET rel == (k - 1) * config.chunk
     IN  <<rel, RenderPatternBytes(offset + rel, Least(config.chunk, size - rel), config, 0)>>]

RECURSIVE Joined(_)
Joined(chunks) == IF chunks = <<>> THEN <<>> ELSE Head(chunks)[2] \o Joined(Tail(chunks))

\* build_pattern_source: the chunks one by one, or all in one.
PatternSource(offset, size, config) ==
  LET chunks == ExpectedChunks(offset, size, config)
  IN  IF config.direct THEN <<<<0, Joined(chunks)>>>> ELSE chunks
-----------------------------------------------------------------------------
(* What the programs do to their files, as sequences of system calls         *)
Resized(file, size) == [i \in 1..size |-> IF i <= Len(file) THEN file[i] ELSE Hole]
Written(file, at, bytes) ==
  [i \in 1..Greatest(Len(file), at + Len(bytes)) |->
     IF i - at \in DOMAIN bytes THEN bytes[i - at] ELSE IF i <= Len(file) THEN file[i] ELSE Hole]
PRead(file, n, at) == SubSeq(file, at + 1, Least(at + n, Len(file)))

\* ftruncate, ftruncate if the file is shorter, the pwrites of the chunks that are not empty,
\* and the pwritev whose buffer goes on into a page that cannot be read.
Truncate(size) == <<[op |-> "truncate", size |-> size]>>
EnsureSize(size) == <<[op |-> "ensure", size |-> size]>>
Faulting(at, bytes) == <<[op |-> "faulting", at |-> at, bytes |-> bytes]>>
PWriteAll(offset, chunks) ==
  SelectSeq([k \in DOMAIN chunks |-> [op |-> "write", at |-> offset + chunks[k][1], bytes |-> chunks[k][2]]],
            LAMBDA w : w.bytes # <<>>)
PWritePattern(offset, size, config) == PWriteAll(offset, ExpectedChunks(offset, size, config))

Plain(mode, token, seed, chunk) ==
  [mode |-> mode, token |-> token, seed |-> seed, chunk |-> chunk, direct |-> FALSE]
LetterA == 65
FillConfig(chunk) == Plain("repeat", <<LetterA>>, 0, chunk)

DoWriteRegion(offset, size, config) ==
  EnsureSize(offset + size) \o PWriteAll(offset, PatternSource(offset, size, config))

WriteOffset(c) == IF c.style = "append" THEN c.baselineLen ELSE c.offset
ExpectedLen(c) == Greatest(c.baselineLen, WriteOffset(c) + c.size)

PrepareBaseline(c) ==
  Truncate(c.baselineLen)
  \o (IF c.kind = "existing_a" THEN DoWriteRegion(0, c.baselineLen, FillConfig(c.config.chunk)) ELSE <<>>)

MatrixPlan(c) == PrepareBaseline(c) \o DoWriteRegion(WriteOffset(c), c.size, c.config)

RegionPlan(c) == DoWriteRegion(c.offset, c.size, c.config)

\* The baseline once, and by each group the front and the tail with seeds of its own.
FrontConfig(c, loop) == Plain("mod251", <<>>, 2 * loop + 1, c.chunk)
TailConfig(c, loop) == Plain("mod251", <<>>, 2 * loop + 2, c.chunk)
InitFile(c) == Truncate(c.size) \o PWritePattern(0, c.size, FillConfig(c.chunk))
GroupPlan(c, loop) ==
  PWritePattern(0, c.front, FrontConfig(c, loop))
  \o PWritePattern(c.size - c.tail, c.tail, TailConfig(c, loop))

\* A new file, empty or filled with a baseline, and what is written over it.
CreateAndFillFile(size, config) ==
  Truncate(0) \o Truncate(size) \o PWritePattern(0, size, config)
OverPlan(c) ==
  (IF c.fresh THEN Truncate(0) ELSE CreateAndFillFile(c.size, c.baseline))
  \o (IF c.faulting THEN Faulting(c.offset, RenderPatternBytes(c.offset, c.length, c.config, 0))
      ELSE PWritePattern(c.offset, c.length, c.config))

PlanOf(c, loop) ==
  CASE c.program = "matrix" -> MatrixPlan(c)
    [] c.program = "region" -> RegionPlan(c)
    [] c.program = "groups" -> (IF loop = 1 THEN InitFile(c) ELSE <<>>) \o GroupPlan(c, loop)
    [] c.program = "over" -> OverPlan(c)
-----------------------------------------------------------------------------
(* What the verifications expect                                             *)
\* The chunk exp that begins at pos, with the bytes of an overlay put over its own.
Overlaid_Restarts(exp, pos, offset, length, config, overlayOff) ==
  LET from == Greatest(pos, offset)
      to == Least(pos + Len(exp), offset + length)
  IN  IF from >= to THEN exp
      ELSE Written(exp, from - pos, RenderPatternBytes(offset, to - from, config, overlayOff))
Overlaid(exp, pos, offset, length, config, overlayOff) ==
  LET from == Greatest(pos, offset)
      to == Least(pos + Len(exp), offset + length)
  IN  IF from >= to THEN exp
      ELSE Written(exp, from - pos, RenderPatternBytes(from, to - from, config, overlayOff))

BuildExpectedFullChunk(start, length, c) ==
  LET baselineEnd == Least(start + length, c.baselineLen)
      baseline == [i \in 1..length |->
                     IF c.kind = "existing_a" /\ i <= baselineEnd - start THEN LetterA ELSE Hole]
  IN  Overlaid(baseline, start, WriteOffset(c), c.size, c.config, WriteOffset(c))

\* What a test says it has written; count is what the faulting write returned.
OverLength(c, count) == IF c.faulting THEN count ELSE c.length
Overlays(c, loop, count) ==
  IF c.program = "groups"
  THEN <<[offset |-> 0, length |-> c.front, config |-> FrontConfig(c, loop), from |-> 0],
         [offset |-> c.size - c.tail, length |-> c.tail, config |-> TailConfig(c, loop), from |-> 0]>>
  ELSE IF c.fresh THEN <<>>
  ELSE <<[offset |-> c.offset, length |-> OverLength(c, count), config |-> c.config, from |-> c.offset]>>
Baseline(c) ==
  IF c.program = "groups" THEN FillConfig(c.chunk) ELSE IF c.fresh THEN c.config ELSE c.baseline

RECURSIVE AllOverlaid(_, _, _)
AllOverlaid(exp, pos, ovs) ==
  IF ovs = <<>> THEN exp
  ELSE LET ov == Head(ovs)
       IN  AllOverlaid(Overlaid(exp, pos, ov.offset, ov.length, ov.config, ov.from), pos, Tail(ovs))
BuildExpected(pos, n, c, loop, count) ==
  AllOverlaid(RenderPatternBytes(pos, n, Baseline(c), 0), pos, Overlays(c, loop, count))

ExpectedSize(c, count) ==
  CASE c.program = "matrix" -> ExpectedLen(c)
    [] c.program = "over" -> IF c.fresh THEN count ELSE Greatest(c.size, c.offset + c.length)
    [] OTHER -> c.size

ChunkOf(c) ==
  CASE c.program \in {"groups", "over"} -> c.chunk
    [] c.program = "region" /\ c.readback = "direct" -> Greatest(1, c.size)
    [] OTHER -> c.config.chunk

ExpectedAt(pos, n) ==
  LET c == img.case
  IN  CASE c.program = "matrix" -> BuildExpectedFullChunk(pos, n, c)
        [] c.program = "region" -> RenderPatternBytes(c.offset + pos, n, c.config, 0)
        [] OTHER -> BuildExpected(pos, n, c, img.loop, img.count)
-----------------------------------------------------------------------------
(* The run of a case                                                         *)
FilesInit ==
  \E c \in Cases :
    img = [case |-> c, loop |-> 1, pc |-> "write", todo |-> PlanOf(c, 1), file |-> <<>>, count |-> 0,
           pos |-> 0, verdict |-> "none", window |-> <<0, 0>>, damaged |-> FALSE]

Ends(verdict) == [img EXCEPT !.pc = "over", !.todo = <<>>, !.verdict = verdict]

\* The next system call.  Where less was written than was asked for, the case has failed;
\* the faulting write must write something, and cannot write all.
Call ==
  /\ img.pc = "write" /\ img.todo # <<>>
  /\ LET w == Head(img.todo)
         Done(file) == [img EXCEPT !.file = file, !.todo = Tail(@)]
         Wrote(n) == Written(img.file, w.at, SubSeq(w.bytes, 1, n))
     IN  \/ w.op = "truncate" /\ img' = Done(Resized(img.file, w.size))
         \/ w.op = "ensure" /\ img' = Done(Resized(img.file, Greatest(w.size, Len(img.file))))
         \/ w.op = "write" /\ img' = Done(Wrote(Len(w.bytes)))
         \/ w.op = "write" /\ \E n \in 0..Len(w.bytes) - 1 : img' = [Ends("failed") EXCEPT !.file = Wrote(n)]
         \/ w.op = "faulting" /\ \E n \in 1..Len(w.bytes) : img' = [Done(Wrote(n)) EXCEPT !.count = n]
         \/ w.op = "faulting" /\ img' = Ends("failed")

\* The caches are dropped, and what the file system has spoilt comes to light.
Damage ==
  /\ img.pc = "write" /\ img.todo = <<>> /\ ~img.damaged
  /\ \/ \E i \in DOMAIN img.file : img' = [img EXCEPT !.file[i] = Damaged, !.damaged = TRUE]
     \/ \E n \in {Len(img.file) - 1, Len(img.file) + 1} \cap Nat :
          img' = [img EXCEPT !.file = Resized(@, n), !.damaged = TRUE]

\* The size is looked at first, but for a region.
VerifyBegin ==
  /\ img.pc = "write" /\ img.todo = <<>>
  /\ img' = IF img.case.program # "region" /\ Len(img.file) # ExpectedSize(img.case, img.count)
            THEN Ends("size") ELSE [img EXCEPT !.pc = "verify"]

FirstDifference(got, exp) ==
  CHOOSE i \in DOMAIN exp : SubSeq(got, 1, i - 1) = SubSeq(exp, 1, i - 1) /\ SubSeq(got, i, i) # SubSeq(exp, i, i)

\* A region that is read chunk by chunk: a short read is no more than a mismatch.
Streamed(c) == c.program = "region" /\ c.readback # "direct"

\* What is shown of a mismatch: some bytes around the first, or the chunk of a region.
WindowOf(pos, n, first, size) ==
  IF Streamed(img.case) THEN <<pos, pos + n>>
  ELSE <<Greatest(0, first - HalfWindow), Least(size, first + HalfWindow)>>

VerifyChunk ==
  /\ img.pc = "verify"
  /\ LET c == img.case
         size == ExpectedSize(c, img.count)
         n == Least(ChunkOf(c), size - img.pos)
         got == PRead(img.file, n, img.pos + IF c.program = "region" THEN c.offset ELSE 0)
         exp == ExpectedAt(img.pos, n)
     IN  img' = IF img.pos >= size THEN Ends("ok")
                ELSE IF Len(got) # n /\ ~Streamed(c) THEN Ends("short")
                ELSE IF got = exp THEN [img EXCEPT !.pos = @ + n]
                ELSE [Ends("mismatch") EXCEPT
                        !.window = WindowOf(img.pos, n, img.pos + FirstDifference(got, exp) - 1, size)]

\* A case of the matrix is repeated whatever its verdict, a group only after one that passed.
Again ==
  /\ img.pc = "over" /\ img.loop < Loops
  /\ img.case.program = "matrix" \/ (img.case.program = "groups" /\ img.verdict = "ok")
  /\ img' = [img EXCEPT !.loop = @ + 1, !.pc = "write", !.todo = PlanOf(img.case, img.loop + 1),
                        !.count = 0, !.pos = 0, !.verdict = "none", !.window = <<0, 0>>]

FilesNext == Call \/ Damage \/ VerifyBegin \/ VerifyChunk \/ Again
-----------------------------------------------------------------------------
FilesTypeOK ==
  /\ img.case \in Cases /\ img.loop \in 1..Loops
  /\ img.pc \in {"write", "verify", "over"}
  /\ img.verdict \in {"none", "ok", "size", "short", "mismatch", "failed"}
  /\ img.pos \in Nat /\ img.count \in Nat /\ img.damaged \in BOOLEAN
  /\ \A i \in DOMAIN img.file : img.file[i] \in Int

\* The byte of a pattern at p, in a region that begins at start.
PatternByte(config, p, start) ==
  CASE config.mode = "counter" -> (config.seed + p) % Modulus
    [] config.mode = "mod251" -> (config.seed + p) % Cycle
    [] config.mode = "filepos" -> config.token[(p % Len(config.token)) + 1]
    [] config.mode = "repeat" -> config.token[((p - start) % Len(config.token)) + 1]

\* The byte at p, from what was last written there.
WantedByte(p) ==
  LET c == img.case
      Within(offset, length) == offset <= p /\ p < offset + length
  IN  CASE c.program = "region" -> PatternByte(c.config, p, c.offset)
        [] c.program = "matrix" ->
             IF Within(WriteOffset(c), c.size) THEN PatternByte(c.config, p, WriteOffset(c))
             ELSE IF c.kind = "existing_a" /\ p < c.baselineLen THEN LetterA ELSE Hole
        [] c.program = "groups" ->
             IF Within(c.size - c.tail, c.tail) THEN PatternByte(TailConfig(c, img.loop), p, 0)
             ELSE IF Within(0, c.front) THEN PatternByte(FrontConfig(c, img.loop), p, 0) ELSE LetterA
        [] c.program = "over" ->
             IF c.fresh \/ Within(c.offset, OverLength(c, img.count)) THEN PatternByte(c.config, p, c.offset)
             ELSE PatternByte(c.baseline, p, 0)

\* Where the verified part begins, and the places in it that are not as they should be.
Base == IF img.case.program = "region" THEN img.case.offset ELSE 0
Wrong ==
  {p \in 0..ExpectedSize(img.case, img.count) - 1 :
     Base + p >= Len(img.file) \/ img.file[Base + p + 1] # WantedByte(Base + p)}

\* A file is passed only if it has every byte that was last written there, and its size; the
\* window shown of a mismatch holds the first wrong byte; and a file that the file system has
\* not spoilt is never blamed, whatever earlier loops left in it (utils/verify.py).
FilesJudged ==
  /\ img.verdict = "ok" => Wrong = {} /\ (Base = 0 => Len(img.file) >= ExpectedSize(img.case, img.count))
  /\ img.verdict \in {"mismatch", "short"} => Wrong # {}
  /\ img.verdict = "mismatch" =>
       \E p \in Wrong : (\A q \in Wrong : p <= q) /\ img.window[1] <= p /\ p < img.window[2]
  /\ img.verdict \in {"size", "short", "mismatch"} => img.damaged
=============================================================================
