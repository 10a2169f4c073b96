------------------------------ MODULE VdexWriter -------------------------------
(***************************************************************************)
(* The files that the mmap stress tests write as Android writes its vdex   *)
(* files: write_oatwriter_like_file (utils/oatwriter_mmap.py) with its     *)
(* cold read, and write_one_vdex (case/test_vdex_mmap_msync_stress.py).    *)
(* The file is made as long as its pages, mapped, filled, cut to its       *)
(* length, what does not fit into the last page goes to a second mapping,  *)
(* and the header is written when all the rest is on the disk.             *)
(*                                                                         *)
(* A byte is a pair of the part of the file that it belongs to and its     *)
(* place in it.  Sizes are a few bytes: a page, and the alignment of 4,    *)
(* are scaled down.  The kernel is external: it writes back a page that    *)
(* was changed whenever it likes, an msync lasts until its pages are       *)
(* clean, or fails.                                                        *)
(*                                                                         *)
(* A definition named X_Y is a deliberately wrong variant of X, kept to    *)
(* see which property notices.                                             *)
(***************************************************************************)
EXTENDS Integers, Sequences

CONSTANTS
  Vdexes,   \* the files: records with writer, table, blobs and extra, the sizes of the parts
  Page, Align, HeaderLen

VARIABLE vd

RoundUp(n, align) == ((n + align - 1) \div align) * align
Zero == <<"zero", 0>>
Bytes(part, n) == [i \in 1..n |-> <<part, i>>]
Put(file, at, bytes) ==
  [i \in DOMAIN file |-> IF i - at \in DOMAIN bytes THEN bytes[i - at] ELSE file[i]]
-----------------------------------------------------------------------------
(* Where the parts lie                                                       *)
\* The oat writer's header has a page of its own; the other's table of sections follows it.
TableAt(c) == IF c.writer = "oat" THEN Page ELSE HeaderLen
BlobEnds(c) ==
  LET end[k \in 0..Len(c.blobs)] ==
        IF k = 0 THEN TableAt(c) + c.table ELSE RoundUp(end[k - 1], Align) + c.blobs[k]
  IN  end
BlobAt(c, k) == RoundUp(BlobEnds(c)[k - 1], Align)
OldVdexSize(c) == BlobEnds(c)[Len(c.blobs)]
PageAlignedSize(c) == RoundUp(OldVdexSize(c), Page)
TailAt(c) == IF c.writer = "oat" THEN OldVdexSize(c) ELSE RoundUp(OldVdexSize(c), Align)
FinalSize(c) == TailAt(c) + c.extra
FirstChunkSize(c) ==
  LET room == PageAlignedSize(c) - OldVdexSize(c) IN IF c.extra <= room THEN c.extra ELSE room

Header(c) == Bytes("header", HeaderLen) \o [i \in 1..TableAt(c) - HeaderLen |-> Zero]

Expected(c) ==
  LET PartAt(p) ==
        IF p <= TableAt(c) THEN Header(c)[p]
        ELSE IF p <= TableAt(c) + c.table THEN <<"table", p - TableAt(c)>>
        ELSE IF p > TailAt(c) THEN <<"extra", p - TailAt(c)>>
        ELSE LET within == {k \in DOMAIN c.blobs : BlobAt(c, k) < p /\ p <= BlobAt(c, k) + c.blobs[k]}
             IN  IF within = {} THEN Zero
                 ELSE LET k == CHOOSE k \in within : TRUE IN <<k, p - BlobAt(c, k)>>
  IN  [p \in 1..FinalSize(c) |-> PartAt(p)]
\* Sizes are numbers, and in the file of the second writer the tail begins where the
\* alignment lets it: the sizes of its parts, which are fixed, are multiples of it.
WellMade(c) ==
  /\ c.writer \in {"oat", "test"}
  /\ c.table \in Nat /\ c.extra \in Nat /\ c.blobs \in Seq(Nat \ {0})
  /\ c.writer = "test" => TailAt(c) = OldVdexSize(c)

SizesFit == Page \in Nat \ {0} /\ Align \in Nat \ {0} /\ HeaderLen \in 1..Page

VdexesFit == SizesFit /\ \A c \in Vdexes : WellMade(c)
-----------------------------------------------------------------------------
(* What the writers do, in their order; a copy goes through the mapping that *)
(* begins at base and is as long as map says                                 *)
Ftruncate(size) == <<[op |-> "truncate", size |-> size]>>
Memcpy(base, map, at, bytes) ==
  IF bytes = <<>> THEN <<>> ELSE <<[op |-> "copy", at |-> base + at, end |-> base + map, bytes |-> bytes]>>
Msync(base, length) == <<[op |-> "sync", from |-> base \div Page, to |-> (base + length - 1) \div Page]>>

Table(c) == Memcpy(0, PageAlignedSize(c), TableAt(c), Bytes("table", c.table))
Blobs(c) ==
  [k \in DOMAIN c.blobs |-> Memcpy(0, PageAlignedSize(c), BlobAt(c, k), Bytes(k, c.blobs[k]))[1]]

\* The extra buffer: up to the end of the last page, and the rest into a mapping from there on.
\* The second writer begins where the alignment lets it, and leaves as many bytes out.
TailCopies(c) ==
  LET first == FirstChunkSize(c)
      extra == Bytes("extra", c.extra)
      pad == TailAt(c) - OldVdexSize(c)
      rest == SubSeq(extra, first + 1, c.extra)
  IN  Memcpy(0, PageAlignedSize(c), TailAt(c), SubSeq(extra, 1, first - pad))
      \o Memcpy(PageAlignedSize(c), FinalSize(c) - PageAlignedSize(c), 0, rest)
ExtraMapped(c) == FirstChunkSize(c) < c.extra

SyncAll_BaseOnly(c) == Msync(0, PageAlignedSize(c))
SyncAll(c) ==
  Msync(0, PageAlignedSize(c))
  \o (IF ExtraMapped(c) THEN Msync(PageAlignedSize(c), FinalSize(c) - PageAlignedSize(c)) ELSE <<>>)

HeaderWritten(c) == Memcpy(0, PageAlignedSize(c), 0, Header(c)) \o Msync(0, Page)

WritePlan(c) ==
  Ftruncate(PageAlignedSize(c))
  \o (IF c.writer = "oat" THEN Table(c) ELSE <<>>) \o Blobs(c)
  \o Ftruncate(FinalSize(c)) \o TailCopies(c)
  \o (IF c.writer = "oat" THEN <<>> ELSE Table(c))
  \o SyncAll(c) \o HeaderWritten(c)
-----------------------------------------------------------------------------
VdexInit ==
  \E c \in Vdexes :
    vd = [case |-> c, todo |-> WritePlan(c), mem |-> <<>>, disk |-> <<>>, dirty |-> {}, verdict |-> "none"]

Resize(file, size) == [i \in 1..size |-> IF i <= Len(file) THEN file[i] ELSE Zero]
PagesOf(from, to) == from \div Page .. (to - 1) \div Page
VdexEnds(verdict) == [vd EXCEPT !.todo = <<>>, !.verdict = verdict]

\* A copy past its mapping is refused (_memcpy); past the file's last page it is a bus error.
\* What is put behind the end of the file in its last page is lost.
Step ==
  /\ vd.todo # <<>>
  /\ LET s == Head(vd.todo)
         rest == [vd EXCEPT !.todo = Tail(@)]
     IN  \/ /\ s.op = "truncate"
            /\ vd' = [rest EXCEPT !.mem = Resize(@, s.size), !.disk = Resize(@, s.size)]
         \/ /\ s.op = "copy"
            /\ LET end == s.at + Len(s.bytes)
               IN  vd' = IF end > s.end THEN VdexEnds("range")
                         ELSE IF end > RoundUp(Len(vd.mem), Page) THEN VdexEnds("bus error")
                         ELSE [rest EXCEPT !.mem = Put(@, s.at, s.bytes),
                                           !.dirty = @ \cup PagesOf(s.at, end)]
         \/ /\ s.op = "sync" /\ vd.dirty \cap (s.from..s.to) = {}
            /\ vd' = rest
         \/ /\ s.op = "sync"
            /\ vd' = VdexEnds("failed")

\* The kernel writes a page back.
Writeback ==
  \E p \in vd.dirty :
    vd' = [vd EXCEPT !.dirty = @ \ {p},
                     !.disk = [i \in DOMAIN @ |-> IF (i - 1) \div Page = p THEN vd.mem[i] ELSE @[i]]]

\* _read_cold and the comparison of what was read.
ReadCold ==
  /\ vd.todo = <<>> /\ vd.verdict = "none"
  /\ vd' = VdexEnds(IF vd.mem = Expected(vd.case) THEN "ok" ELSE "mismatch")

VdexNext == Step \/ Writeback \/ ReadCold
-----------------------------------------------------------------------------
VdexTypeOK ==
  /\ vd.case \in Vdexes
  /\ vd.verdict \in {"none", "ok", "mismatch", "range", "bus error", "failed"}
  /\ Len(vd.mem) = Len(vd.disk)
  /\ vd.dirty \subseteq 0..(FinalSize(vd.case) + PageAlignedSize(vd.case)) \div Page

\* Whenever the machine stops, a file whose header is on the disk is there as a whole, and a
\* file that is written to its end has every part where it belongs, through both mappings and
\* although its length changed between them (write_oatwriter_like_file, write_one_vdex).
HeaderComesLast ==
  /\ (Len(vd.disk) >= HeaderLen /\ SubSeq(vd.disk, 1, HeaderLen) = Bytes("header", HeaderLen)) =>
       vd.disk = Expected(vd.case)
  /\ vd.verdict \in {"none", "ok", "failed"}
=============================================================================
