------------------------ MODULE ArtifactPressureProofs ------------------------
(***************************************************************************)
(* ArtifactInv, SyncsReachFiles, OnlyDamageReported of ArtifactPressure,   *)
(* for any number of groups, any finite set of artifacts, any fsync width, *)
(* any steps that raise and with or without damage by the file system.     *)
(*                                                                         *)
(* First the batches: plan_fsync_batch is given the keys of a dictionary,  *)
(* so its paths are Distinct, and so are those of the batch, the focus     *)
(* first, in whatever way the others are rotated.                          *)
(* Then one lemma per conjunct of IInv that every step keeps it.           *)
(***************************************************************************)
EXTENDS ArtifactPressure, SequenceTheorems, FiniteSetTheorems, TLAPS
-----------------------------------------------------------------------------
(* The inductive invariant behind the safety properties.                   *)

Written == {a \in Artifacts : state[a].recipe # 0}

\* Where the files of the current artifact are, step by step.
StageInv ==
  /\ pc \notin {"backup", "final", "finally", "over"} => tmp = NoFile
  /\ pc \in {"backup", "final"} => tmp = group
  /\ pc \notin {"final", "unlink", "finally", "over"} => backup = NoFile
  /\ pc \in {"group", "write", "backup", "verifyHeld", "verify", "fsync",
             "verity"} => final[artifact] = state[artifact].recipe
  /\ pc \in {"final", "unlink"} => backup = state[artifact].recipe
  /\ pc \in {"unlink", "state"} => final[artifact] = group
  /\ pc \in {"backup", "final", "unlink", "state"} => group \in whole
  /\ pc \in {"verifyHeld", "verify", "fsync", "verity"} =>
       state[artifact].recipe = group
  /\ pc \in {"finally", "over"} /\ state[artifact].recipe # 0 =>
       \E g \in whole : g >= state[artifact].recipe /\ g \in {final[artifact], backup}

\* Every artifact but the current one is under its name, and it alone.
FilesInv ==
  /\ \A a \in Artifacts \ {artifact} : final[a] = state[a].recipe
  /\ \A a \in Written : state[a].recipe \in whole
  /\ \A a, b \in Written : state[a].recipe = state[b].recipe => a = b
  /\ \A a \in Artifacts :
       /\ state[a].recipe <= group
       /\ pc \in {"write", "backup", "final", "unlink", "state"} =>
            state[a].recipe < group

KnownInv ==
  /\ ToSet(known) = Written
  /\ \A i, j \in 1..Len(known) : known[i] = known[j] => i = j

\* The fsyncs of the current group are still to come.
Unsynced == pc \in {"write", "backup", "final", "unlink", "state",
                    "verifyHeld", "verify", "fsync"}

\* The loop never counts more passes than the file has seen, and no more than
\* one a group.
PassInv ==
  /\ \A g \in Gens : fsyncs[g] <= (IF Unsynced THEN group - 1 ELSE group)
  /\ \A a \in Artifacts : state[a].recipe = 0 => state[a].passes = 0
  /\ \A a \in Written : state[a].passes <= fsyncs[state[a].recipe]

VerityInv ==
  /\ \A g \in verity : g <= group /\ fsyncs[g] >= MinFsyncPasses
  /\ Unsynced => \A g \in verity : g < group
  /\ outcome # "raised" =>
       /\ \A a \in Written : state[a].enabled <=> state[a].recipe \in verity
       /\ verityEnabled = Cardinality(verity)
  /\ VerityAccounted
  /\ pc = "verity" =>
       eligible \subseteq {a \in Written :
         ~state[a].enabled /\ state[a].passes >= MinFsyncPasses}

\* A candidate's file that enough batches have synced.
Due(a) == a \in Candidates /\ state[a].passes > 0 /\ state[a].passes >= MinFsyncPasses

\* While the loop runs the passes of an entry are the fsyncs of its file, and the
\* files that are due have fs-verity or are still to get it in this group.
SyncInv ==
  /\ \A g \in Gens : fsyncs[g] > 0 => g <= group /\ (Unsynced => g < group)
  /\ outcome = "running" =>
       /\ pc # "verity" => eligible = {}
       /\ \A a \in Written :
            /\ state[a].passes = fsyncs[state[a].recipe]
            /\ Due(a) <=> state[a].enabled \/ a \in eligible

LoopInv ==
  /\ outcome = "running" <=> pc \notin {"finally", "over"}
  /\ pc \notin {"group", "finally", "over"} => group > 0
  /\ held.file = held.recipe
  /\ verifiedFiles <= (IF pc \in {"write", "backup", "final", "unlink", "state",
                                  "verifyHeld", "verify"}
                       THEN group - 1 ELSE group)
  /\ outcome = "running" => ~corruptLabel
  /\ OnlyDamageReported

IInv ==
  /\ TypeOK
  /\ StageInv /\ FilesInv /\ KnownInv
  /\ PassInv /\ VerityInv /\ SyncInv /\ LoopInv
-----------------------------------------------------------------------------
(* The batches.                                                            *)

\* The positions but one of the others of a focus (plan_fsync_batch).
LEMMA IntervalSkip ==
  ASSUME NEW n \in Nat, NEW p \in Nat \ {0}
  PROVE  /\ IsFiniteSet((1..n) \ {p})
         /\ Cardinality((1..n) \ {p}) = IF p <= n THEN n - 1 ELSE n
<1>1. IsFiniteSet(1..n) /\ Cardinality(1..n) = n
  BY FS_Interval
<1>2. /\ IsFiniteSet((1..n) \ {p})
      /\ Cardinality((1..n) \ {p}) =
           IF p \in 1..n THEN Cardinality(1..n) - 1 ELSE Cardinality(1..n)
  BY <1>1, FS_RemoveElement
<1>3. p \in 1..n <=> p <= n
  OBVIOUS
<1> QED
  BY <1>1, <1>2, <1>3

\* The keys of a dictionary: no path comes twice.
Distinct(paths) == \A i, j \in 1..Len(paths) : paths[i] = paths[j] => i = j

\* Without the focus the paths keep their order (lines 445-453).
LEMMA OthersOfDistinct ==
  ASSUME NEW S, NEW paths \in Seq(S), Distinct(paths), NEW p \in 1..Len(paths)
  PROVE  Others(paths[p], paths) =
           [n \in 1..(Len(paths) - 1) |-> paths[IF n < p THEN n ELSE n + 1]]
<1> DEFINE kept == {i \in DOMAIN paths :
                      /\ paths[i] # paths[p]
                      /\ \A j \in 1..(i - 1) : paths[j] # paths[i]}
           skip(n) == IF n < p THEN n ELSE n + 1
<1>1. DOMAIN paths = 1..Len(paths) /\ Len(paths) \in Nat
  BY LenProperties
<1>2. kept = (1..Len(paths)) \ {p}
  BY <1>1 DEF Distinct
<1>3. Others(paths[p], paths) = AtPositions(paths, kept)
  BY DEF Others
<1>4. AtPositions(paths, kept) =
        [n \in 1..Cardinality(kept) |->
           paths[CHOOSE i \in kept : Cardinality({j \in kept : j <= i}) = n]]
  BY DEF AtPositions
<1> HIDE DEF kept
<1>5. Cardinality(kept) = Len(paths) - 1
  <2>1. p \in Nat \ {0} /\ p <= Len(paths)
    BY <1>1
  <2> QED
    BY <1>1, <1>2, <2>1, IntervalSkip
<1>6. ASSUME NEW i \in kept
      PROVE  Cardinality({j \in kept : j <= i}) = IF p <= i THEN i - 1 ELSE i
  <2>1. {j \in kept : j <= i} = (1..i) \ {p}
    BY <1>1, <1>2
  <2>2. i \in Nat /\ p \in Nat \ {0}
    BY <1>1, <1>2
  <2> QED
    BY <2>1, <2>2, IntervalSkip
<1>7. ASSUME NEW n \in 1..(Len(paths) - 1)
      PROVE  (CHOOSE i \in kept : Cardinality({j \in kept : j <= i}) = n) = skip(n)
  <2>1. skip(n) \in kept
    BY <1>1, <1>2
  <2>2. \A i \in kept : Cardinality({j \in kept : j <= i}) = n <=> i = skip(n)
    BY <1>1, <1>2, <1>6
  <2> QED
    BY <2>1, <2>2
<1> QED
  BY <1>5, <1>7, <1>3, <1>4

\* The rotation keeps the paths, and keeps them distinct (lines 454-457).
LEMMA RotatedFacts ==
  ASSUME NEW S, NEW others \in Seq(S), others # <<>>, NEW round \in Nat
  PROVE  /\ Rotated(others, round) \in Seq(S)
         /\ Len(Rotated(others, round)) = Len(others)
         /\ ToSet(Rotated(others, round)) \subseteq ToSet(others)
         /\ Distinct(others) => Distinct(Rotated(others, round))
<1> DEFINE shift == round % Len(others)
           tail  == SubSeq(others, shift + 1, Len(others))
           head  == SubSeq(others, 1, shift)
<1>1. Len(others) \in Nat \ {0} /\ shift \in 0..(Len(others) - 1)
  BY EmptySeq
<1>2. \A i \in 1..Len(others) : others[i] \in S
  BY ElementOfSeq
<1>3. /\ tail \in Seq(S) /\ Len(tail) = Len(others) - shift
      /\ \A i \in 1..(Len(others) - shift) : tail[i] = others[shift + i]
  BY <1>1, <1>2, SubSeqProperties
<1>4. /\ head \in Seq(S) /\ Len(head) = shift
      /\ \A i \in 1..shift : head[i] = others[i]
  BY <1>1, <1>2, SubSeqProperties
<1> HIDE DEF tail, head, shift
<1>5. /\ tail \o head \in Seq(S)
       /\ Len(tail \o head) = Len(tail) + Len(head)
       /\ \A i \in 1..(Len(tail) + Len(head)) :
            (tail \o head)[i] = IF i <= Len(tail) THEN tail[i]
                                ELSE head[i - Len(tail)]
  BY <1>3, <1>4, ConcatProperties
<1>6. Len(tail) + Len(head) = Len(others)
  BY <1>1, <1>3, <1>4
<1>7. /\ tail \o head \in Seq(S)
      /\ Len(tail \o head) = Len(others)
      /\ \A i \in 1..Len(others) :
           (tail \o head)[i] = IF i <= Len(others) - shift THEN tail[i]
                               ELSE head[i - (Len(others) - shift)]
  BY <1>3, <1>5, <1>6
<1>8. Rotated(others, round) = tail \o head
  BY DEF Rotated, tail, head, shift
<1>9. ASSUME NEW i \in 1..Len(others)
      PROVE  \E j \in 1..Len(others) : (tail \o head)[i] = others[j]
  <2>1. CASE i <= Len(others) - shift
    BY <1>1, <1>3, <1>7, <2>1
  <2>2. CASE i > Len(others) - shift
    <3>1. i - (Len(others) - shift) \in 1..shift
      BY <1>1, <2>2
    <3>2. (tail \o head)[i] = head[i - (Len(others) - shift)]
      BY <1>1, <1>7, <2>2
    <3>3. 1..shift \subseteq 1..Len(others)
      BY <1>1
    <3> QED
      BY <1>4, <3>1, <3>2, <3>3
  <2>3. i \in Nat /\ Len(others) - shift \in Nat
    BY <1>1
  <2>4. i <= Len(others) - shift \/ i > Len(others) - shift
    BY <2>3
  <2> QED
    BY <2>1, <2>2, <2>4
<1>10. ToSet(tail \o head) \subseteq ToSet(others)
  <2>1. DOMAIN (tail \o head) = 1..Len(others)
    BY <1>7, LenProperties
  <2>2. DOMAIN others = 1..Len(others)
    BY LenProperties
  <2> QED
    BY <1>9, <2>1, <2>2 DEF ToSet
<1> DEFINE n == Len(others)
           from(i) == IF i <= n - shift THEN shift + i ELSE i - (n - shift)
<1>11. \A i \in 1..n : from(i) \in 1..n
  BY <1>1
<1>12. \A i \in 1..n : (tail \o head)[i] = others[from(i)]
  BY <1>1, <1>3, <1>4, <1>7
<1>13. \A i, j \in 1..n : from(i) = from(j) => i = j
  BY <1>1
<1> HIDE DEF from
<1>14. ASSUME Distinct(others) PROVE Distinct(tail \o head)
  <2> SUFFICES ASSUME NEW i \in 1..n, NEW j \in 1..n,
                      (tail \o head)[i] = (tail \o head)[j]
               PROVE  i = j
    BY <1>7 DEF Distinct
  <2>1. others[from(i)] = others[from(j)]
    BY <1>12
  <2>2. from(i) = from(j)
    BY <1>11, <1>14, <2>1 DEF Distinct
  <2> QED
    BY <1>13, <2>2
<1> QED
  BY <1>7, <1>8, <1>10, <1>14

\* s[:n] of plan_fsync_batch.
FirstOf(s, n) == SubSeq(s, 1, Smaller(n, Len(s)))

\* A prefix is made of the paths it is taken from, and is as long as asked for.
LEMMA PrefixFacts ==
  ASSUME NEW S, NEW s \in Seq(S), NEW n \in Int
  PROVE  /\ FirstOf(s, n) \in Seq(S)
         /\ Len(FirstOf(s, n)) = IF n <= 0 THEN 0 ELSE Smaller(n, Len(s))
         /\ \A i \in 1..Len(FirstOf(s, n)) : i \in 1..Len(s) /\ FirstOf(s, n)[i] = s[i]
         /\ ToSet(FirstOf(s, n)) \subseteq ToSet(s)
<1> DEFINE m     == Smaller(n, Len(s))
           front == SubSeq(s, 1, m)
<1>1. /\ Len(s) \in Nat /\ m \in Int /\ m <= Len(s)
      /\ (n <= 0 => m <= 0) /\ (n > 0 => m >= 0)
  BY LenProperties DEF Smaller
<1>2. \A i \in 1..m : s[i] \in S
  BY <1>1, ElementOfSeq
<1> HIDE DEF m
<1>3. /\ front \in Seq(S)
      /\ Len(front) = IF 1 <= m THEN m - 1 + 1 ELSE 0
      /\ \A i \in 1..(m - 1 + 1) : front[i] = s[1 + i - 1]
  BY <1>1, <1>2, SubSeqProperties
<1> HIDE DEF front
<1>4. Len(front) = IF n <= 0 THEN 0 ELSE m
  BY <1>1, <1>3
<1>5. \A i \in 1..Len(front) : i \in 1..Len(s) /\ front[i] = s[i]
  BY <1>1, <1>3
<1>6. ToSet(front) \subseteq ToSet(s)
  <2>1. DOMAIN front = 1..Len(front) /\ DOMAIN s = 1..Len(s)
    BY <1>3, LenProperties
  <2> QED
    BY <1>5, <2>1 DEF ToSet
<1> QED
  BY <1>3, <1>4, <1>5, <1>6 DEF front, m, FirstOf

\* How many paths a batch takes.
BatchSize(paths, workers, width) ==
  Smaller(workers, IF width > 0 THEN Smaller(width, Len(paths)) ELSE Len(paths))

\* As many paths as there are, as the width and the workers allow.
FullBatch(plan, paths, workers, width) ==
  Len(plan) = BatchSize(paths, workers, width)

\* A path a batch starts with, if it has any.
Leads(plan, path) == plan # <<>> => plan[1] = path

\* What plan_fsync_batch returns for distinct paths: distinct ones of them, the
\* focus first.
LEMMA BatchFacts ==
  ASSUME NEW S, NEW paths \in Seq(S), Distinct(paths), NEW p \in 1..Len(paths),
         NEW workers \in Nat, NEW width \in Nat, NEW round \in Nat,
         NEW plan, plan = PlanBatch(paths[p], paths, workers, width, round)
  PROVE  /\ plan \in Seq(S)
         /\ ToSet(plan) \subseteq ToSet(paths)
         /\ FullBatch(plan, paths, workers, width)
         /\ Distinct(plan)
         /\ Leads(plan, paths[p])
<1> DEFINE others == Others(paths[p], paths)
           turned == IF others = <<>> THEN others ELSE Rotated(others, round)
           room   == IF width > 0 THEN width ELSE workers
           rest   == FirstOf(turned, room - 1)
           all    == <<paths[p]>> \o rest
           batch  == FirstOf(all, workers)
<1>1. /\ DOMAIN paths = 1..Len(paths) /\ Len(paths) \in Nat \ {0}
      /\ paths \in [1..Len(paths) -> S] /\ paths[p] \in S
  BY LenProperties
<1>2. others = [n \in 1..(Len(paths) - 1) |-> paths[IF n < p THEN n ELSE n + 1]]
  BY OthersOfDistinct
<1>3. \A n \in 1..(Len(paths) - 1) : (IF n < p THEN n ELSE n + 1) \in 1..Len(paths)
  BY <1>1
<1> HIDE DEF others
<1>4. others \in [1..(Len(paths) - 1) -> S]
  BY <1>1, <1>2, <1>3
<1>5. others \in Seq(S) /\ Len(others) = Len(paths) - 1
  <2>1. Len(paths) - 1 \in Nat
    BY <1>1
  <2> QED
    BY <1>4, <2>1
<1>6. ToSet(others) \subseteq ToSet(paths) \ {paths[p]}
  <2>1. \A n \in 1..(Len(paths) - 1) : (IF n < p THEN n ELSE n + 1) # p
    BY <1>1
  <2>2. \A n \in 1..(Len(paths) - 1) : others[n] # paths[p]
    BY <1>1, <1>2, <1>3, <2>1 DEF Distinct
  <2> QED
    BY <1>1, <1>2, <1>3, <2>2 DEF ToSet
<1>17. Distinct(others)
  <2>1. \A i, j \in 1..(Len(paths) - 1) :
          (IF i < p THEN i ELSE i + 1) = (IF j < p THEN j ELSE j + 1) => i = j
    BY <1>1
  <2> QED
    BY <1>1, <1>2, <1>3, <1>5, <2>1 DEF Distinct
<1>7. /\ turned \in Seq(S) /\ Len(turned) = Len(paths) - 1
      /\ ToSet(turned) \subseteq ToSet(paths) \ {paths[p]}
      /\ Distinct(turned)
  <2>1. CASE others = <<>>
    <3>1. turned = others
      BY <2>1
    <3> HIDE DEF turned
    <3> QED
      BY <1>5, <1>6, <1>17, <3>1
  <2>2. CASE others # <<>>
    <3>1. turned = Rotated(others, round)
      BY <2>2
    <3> QED
      BY <1>5, <1>6, <1>17, <2>2, <3>1, RotatedFacts
  <2> QED
    BY <2>1, <2>2
<1> HIDE DEF turned
<1>8. /\ rest \in Seq(S)
      /\ Len(rest) = IF room - 1 <= 0 THEN 0 ELSE Smaller(room - 1, Len(turned))
      /\ \A i \in 1..Len(rest) : i \in 1..Len(turned) /\ rest[i] = turned[i]
      /\ ToSet(rest) \subseteq ToSet(turned)
  <2>1. room - 1 \in Int
    OBVIOUS
  <2> HIDE DEF room
  <2> QED
    BY <1>7, <2>1, PrefixFacts
<1> HIDE DEF rest
<1>9. /\ all \in Seq(S) /\ Len(all) = 1 + Len(rest)
      /\ all[1] = paths[p]
      /\ \A i \in 2..Len(all) : all[i] = rest[i - 1]
  <2>1. <<paths[p]>> \in Seq(S) /\ Len(<<paths[p]>>) = 1 /\ <<paths[p]>>[1] = paths[p]
    BY <1>1
  <2>2. Len(rest) \in Nat
    BY <1>8, LenProperties
  <2>3. /\ all \in Seq(S)
        /\ Len(all) = Len(<<paths[p]>>) + Len(rest)
        /\ \A i \in 1..(Len(<<paths[p]>>) + Len(rest)) : all[i] =
             IF i <= Len(<<paths[p]>>) THEN <<paths[p]>>[i]
             ELSE rest[i - Len(<<paths[p]>>)]
    BY <1>8, <2>1, ConcatProperties
  <2> HIDE DEF all
  <2>4. /\ Len(all) = 1 + Len(rest)
        /\ \A i \in 1..(1 + Len(rest)) : all[i] = IF i <= 1 THEN <<paths[p]>>[i]
                                                   ELSE rest[i - 1]
    BY <2>1, <2>3
  <2>5. all[1] = paths[p]
    <3>1. 1 \in 1..(1 + Len(rest)) /\ 1 <= 1
      BY <2>2
    <3> QED
      BY <2>1, <2>4, <3>1
  <2>6. ASSUME NEW i \in 2..Len(all) PROVE all[i] = rest[i - 1]
    <3>1. i \in 1..(1 + Len(rest)) /\ ~(i <= 1)
      BY <2>2, <2>4
    <3> QED
      BY <2>4, <3>1
  <2> QED
    BY <2>3, <2>4, <2>5, <2>6
<1>10. ToSet(all) \subseteq ToSet(paths)
  <2> HIDE DEF all
  <2>1. /\ DOMAIN all = 1..Len(all) /\ DOMAIN rest = 1..Len(rest)
        /\ Len(all) \in Nat /\ Len(rest) \in Nat
    BY <1>8, <1>9, LenProperties
  <2>2. ASSUME NEW i \in 1..Len(all) PROVE all[i] \in ToSet(paths)
    <3>1. CASE i = 1
      BY <1>1, <1>9, <3>1 DEF ToSet
    <3>2. CASE i # 1
      <4>1. i \in 2..Len(all) /\ i - 1 \in 1..Len(rest)
        BY <1>9, <2>1, <3>2
      <4>2. all[i] = rest[i - 1] /\ rest[i - 1] \in ToSet(rest)
        BY <1>9, <2>1, <4>1 DEF ToSet
      <4> QED
        BY <1>7, <1>8, <4>2
    <3> QED
      BY <3>1, <3>2
  <2> QED
    BY <2>1, <2>2 DEF ToSet
<1> HIDE DEF all
<1>11. /\ batch \in Seq(S)
       /\ Len(batch) = IF workers <= 0 THEN 0 ELSE Smaller(workers, Len(all))
       /\ \A i \in 1..Len(batch) : i \in 1..Len(all) /\ batch[i] = all[i]
       /\ ToSet(batch) \subseteq ToSet(all)
  BY <1>9, PrefixFacts
<1> HIDE DEF batch
<1>18. /\ Len(batch) \in Nat /\ Len(all) \in Nat /\ Len(rest) \in Nat
       /\ Len(turned) \in Nat
  BY <1>7, <1>8, <1>9, <1>11, LenProperties
<1>12. workers > 0 => FullBatch(batch, paths, workers, width)
  <2>1. /\ Len(turned) = Len(paths) - 1 /\ Len(all) = 1 + Len(rest)
        /\ Len(rest) = IF room - 1 <= 0 THEN 0 ELSE Smaller(room - 1, Len(turned))
        /\ Len(batch) = IF workers <= 0 THEN 0 ELSE Smaller(workers, Len(all))
    BY <1>7, <1>8, <1>9, <1>11
  <2>2. Len(paths) \in Nat \ {0} /\ room = IF width > 0 THEN width ELSE workers
    BY <1>1
  <2> HIDE DEF room
  <2> SUFFICES ASSUME workers > 0
               PROVE  FullBatch(batch, paths, workers, width)
    OBVIOUS
  <2>3. CASE width > 0
    <3>1. room = width
      BY <2>2, <2>3
    <3>2. Len(all) = Smaller(width, Len(paths))
      BY <1>18, <2>1, <2>2, <2>3, <3>1 DEF Smaller
    <3> QED
      BY <2>1, <2>3, <3>2 DEF BatchSize, FullBatch
  <2>4. CASE ~(width > 0)
    <3>1. room = workers
      BY <2>2, <2>4
    <3> QED
      BY <1>18, <2>1, <2>2, <2>4, <3>1 DEF Smaller, BatchSize, FullBatch
  <2> QED
    BY <2>3, <2>4
<1>13. Distinct(batch) /\ Leads(batch, paths[p])
  <2>1. \A i \in 1..Len(rest) : rest[i] = turned[i] /\ i \in 1..Len(turned)
    BY <1>8
  <2>2. \A i \in 1..Len(rest) : rest[i] # paths[p]
    <3>1. DOMAIN turned = 1..Len(turned)
      BY <1>7, LenProperties
    <3> QED
      BY <1>7, <2>1, <3>1 DEF ToSet
  <2>3. \A i, j \in 1..Len(rest) : rest[i] = rest[j] => i = j
    BY <1>7, <2>1 DEF Distinct
  <2>4. \A i \in 1..Len(all) :
          IF i = 1 THEN all[i] = paths[p]
          ELSE i - 1 \in 1..Len(rest) /\ all[i] = rest[i - 1]
    BY <1>9, <1>18
  <2>5. Distinct(all)
    <3> SUFFICES ASSUME NEW i \in 1..Len(all), NEW j \in 1..Len(all), all[i] = all[j]
                 PROVE  i = j
      BY DEF Distinct
    <3>1. CASE i = 1 \/ j = 1
      BY <2>2, <2>4, <3>1
    <3>2. CASE i # 1 /\ j # 1
      <4>1. i - 1 = j - 1
        BY <2>3, <2>4, <3>2
      <4> QED
        BY <1>18, <4>1
    <3> QED
      BY <3>1, <3>2
  <2>6. Distinct(batch)
    BY <1>11, <2>5 DEF Distinct
  <2>7. batch # <<>> => 1 \in 1..Len(batch)
    BY <1>11, <1>18, EmptySeq
  <2> QED
    BY <1>9, <1>11, <2>6, <2>7 DEF Leads
<1>14. PlanBatch(paths[p], paths, workers, width, round) =
         IF workers <= 0 THEN <<>> ELSE batch
  BY DEF PlanBatch, FirstOf, batch, all, rest, room, turned, others
<1>15. CASE workers = 0
  <2>1. plan = <<>>
    BY <1>14, <1>15
  <2>2. plan \in Seq(S) /\ Len(plan) = 0 /\ ToSet(plan) = {} /\ Distinct(plan)
    BY <2>1, EmptySeq DEF ToSet, Distinct
  <2>3. Leads(plan, paths[p])
    BY <2>1 DEF Leads
  <2> QED
    BY <1>1, <1>15, <2>2, <2>3 DEF BatchSize, Smaller, FullBatch
<1>16. CASE workers # 0
  <2>1. plan = batch
    BY <1>14, <1>16
  <2> QED
    BY <1>10, <1>11, <1>12, <1>13, <1>16, <2>1
<1> QED
  BY <1>15, <1>16

\* A batch of the loop is made of artifacts that were written (lines 752-758).
LEMMA BatchWritten ==
  ASSUME TypeOK, StageInv, KnownInv, LoopInv, pc \in {"fsync", "verity"}
  PROVE  /\ Batch \in Seq(Artifacts)
         /\ ToSet(Batch) \subseteq Written
         /\ Distinct(Batch)
         /\ FullBatch(Batch, known, FsyncWorkerCount, FsyncBatchWidth)
         /\ Leads(Batch, artifact)
<1>1. artifact \in Written
  BY DEF TypeOK, StageInv, LoopInv, Written
<1>2. PICK p \in 1..Len(known) : known[p] = artifact
  <2>1. known \in Seq(Artifacts) /\ ToSet(known) = Written
    BY DEF TypeOK, KnownInv
  <2> QED
    BY <1>1, <2>1, LenProperties DEF ToSet
<1>3. known \in Seq(Artifacts) /\ Distinct(known) /\ group \in Nat
  BY DEF TypeOK, KnownInv, Distinct
<1>4. Batch = PlanBatch(known[p], known, FsyncWorkerCount, FsyncBatchWidth, group)
  BY <1>2 DEF Batch
<1>5. FsyncWorkerCount \in Nat /\ FsyncBatchWidth \in Nat
  BY PressureAssumption
<1>6. \A plan :
        plan = PlanBatch(known[p], known, FsyncWorkerCount, FsyncBatchWidth, group) =>
          /\ plan \in Seq(Artifacts) /\ ToSet(plan) \subseteq ToSet(known)
          /\ FullBatch(plan, known, FsyncWorkerCount, FsyncBatchWidth)
          /\ Distinct(plan) /\ Leads(plan, known[p])
  BY <1>2, <1>3, <1>5, BatchFacts
<1> QED
  BY <1>2, <1>4, <1>6 DEF KnownInv

-----------------------------------------------------------------------------
(* Where the loop stands, facts several steps need.                        *)

\* Outside the replacement every artifact has the file its entry names.
LEMMA FileOfEntry ==
  ASSUME IInv, pc \in {"group", "verifyHeld", "verify", "fsync", "verity"},
         NEW a \in Artifacts
  PROVE  final[a] = state[a].recipe
BY DEF IInv, StageInv, FilesInv

\* Every file has still room for the fsync of this group.
LEMMA SyncsToCome ==
  ASSUME IInv, Unsynced, NEW g \in Gens
  PROVE  /\ fsyncs[g] \in Nat /\ fsyncs[g] + 1 <= group
         /\ group \in 0..Groups
BY DEF IInv, TypeOK, PassInv

\* A batch raises the count of a file by one at most.
LEMMA CountedOnce ==
  ASSUME IInv, Unsynced, NEW done,
         fsyncs' = [g \in Gens |->
           fsyncs[g] + (IF \E a \in done : final[a] = g THEN 1 ELSE 0)]
  PROVE  /\ fsyncs' \in [Gens -> 0..Groups]
         /\ \A g \in Gens :
              /\ fsyncs[g] \in Nat /\ fsyncs'[g] \in Nat
              /\ fsyncs[g] <= fsyncs'[g] /\ fsyncs'[g] <= group
         /\ \A a \in done : final[a] \in Gens => fsyncs'[final[a]] = fsyncs[final[a]] + 1
<1>1. ASSUME NEW g \in Gens
      PROVE  /\ fsyncs[g] \in Nat /\ fsyncs'[g] \in 0..Groups
             /\ fsyncs[g] <= fsyncs'[g] /\ fsyncs'[g] <= group
             /\ (\E a \in done : final[a] = g) => fsyncs'[g] = fsyncs[g] + 1
  <2>1. /\ fsyncs[g] \in Nat /\ fsyncs[g] + 1 <= group
        /\ group \in 0..Groups
    BY SyncsToCome
  <2>2. CASE \E a \in done : final[a] = g
    <3>1. fsyncs'[g] = fsyncs[g] + 1
      BY <2>2
    <3> QED
      BY <2>1, <3>1, PressureAssumption
  <2>3. CASE ~\E a \in done : final[a] = g
    <3>1. fsyncs'[g] = fsyncs[g]
      BY <2>1, <2>3
    <3> QED
      BY <2>1, <2>3, <3>1, PressureAssumption
  <2> QED
    BY <2>2, <2>3
<1> QED
  BY <1>1, PressureAssumption

\* A batch only counts an artifact once, with a file that can still be counted.
LEMMA BatchedFile ==
  ASSUME IInv, pc = "fsync", NEW a \in ToSet(Batch)
  PROVE  /\ a \in Written
         /\ final[a] = state[a].recipe /\ final[a] \in Gens
         /\ fsyncs[final[a]] \in Nat /\ fsyncs[final[a]] <= group - 1
         /\ state[a].passes \in Nat /\ state[a].passes <= fsyncs[final[a]]
<1>1. a \in Written
  BY BatchWritten DEF IInv
<1>2. a \in Artifacts /\ final[a] = state[a].recipe /\ state[a].recipe # 0
  BY <1>1, FileOfEntry DEF Written
<1>3. final[a] \in Gens
  BY <1>2 DEF IInv, TypeOK, NoFile
<1>4. state[a].passes \in Nat /\ fsyncs[final[a]] \in Nat
  BY <1>2, <1>3 DEF IInv, TypeOK
<1>5. fsyncs[final[a]] <= group - 1
  BY <1>3 DEF IInv, PassInv, Unsynced
<1> QED
  BY <1>1, <1>2, <1>3, <1>4, <1>5 DEF IInv, PassInv

\* An eligible artifact has a file without fs-verity.
LEMMA EligibleFile ==
  ASSUME IInv, pc = "verity", NEW a \in eligible
  PROVE  /\ a \in Written
         /\ final[a] = state[a].recipe /\ final[a] \in Gens
         /\ final[a] <= group
         /\ final[a] \notin verity
         /\ fsyncs[final[a]] >= MinFsyncPasses
<1>1. a \in Written /\ ~state[a].enabled /\ state[a].passes >= MinFsyncPasses
  BY DEF IInv, VerityInv
<1>2. a \in Artifacts /\ final[a] = state[a].recipe /\ state[a].recipe # 0
  BY <1>1, FileOfEntry DEF Written
<1>3. final[a] \in Gens
  BY <1>2 DEF IInv, TypeOK, NoFile
<1>4. outcome = "running"
  BY DEF IInv, LoopInv
<1>5. final[a] \notin verity /\ final[a] <= group
  BY <1>1, <1>2, <1>4 DEF IInv, VerityInv, FilesInv
<1>6. state[a].passes <= fsyncs[final[a]]
  BY <1>1, <1>2 DEF IInv, PassInv
<1>7. state[a].passes \in Nat /\ fsyncs[final[a]] \in Nat
  BY <1>2, <1>3 DEF IInv, TypeOK
<1> QED
  BY <1>1, <1>2, <1>3, <1>5, <1>6, <1>7, PressureAssumption

\* The files are as many as the groups.
LEMMA VerityFinite ==
  ASSUME NEW S, S \subseteq Gens
  PROVE  IsFiniteSet(S) /\ Cardinality(S) \in 0..Groups
<1>1. IsFiniteSet(Gens) /\ Cardinality(Gens) = Groups
  BY FS_Interval, PressureAssumption DEF Gens
<1>2. IsFiniteSet(S) /\ Cardinality(S) <= Cardinality(Gens)
  BY <1>1, FS_Subset
<1> QED
  BY <1>1, <1>2, FS_CardinalityType, PressureAssumption

-----------------------------------------------------------------------------
(* The steps of the loop keep the invariant, part by part.                 *)

\* Every step keeps the types; the counts stay within the number of groups.
LEMMA TypeOKStep == IInv /\ Next => TypeOK'
<1> SUFFICES ASSUME IInv, Next PROVE TypeOK'
  OBVIOUS
<1>1. TypeOK
  BY DEF IInv
<1> USE <1>1, PressureAssumption DEF TypeOK, NoFile, fileVars, summaryVars, endVars
<1>2. CASE BeginGroup
  <2>1. PICK a \in Artifacts :
          /\ artifact' = a
          /\ held' = IF state[a].recipe # 0
                     THEN [file |-> final[a], recipe |-> state[a].recipe]
                     ELSE NotHeld
    BY <1>2 DEF BeginGroup
  <2>2. held' \in [file: Gens \cup {0}, recipe: 0..Groups]
    BY <2>1 DEF NotHeld
  <2>3. group' \in 0..Groups
    BY <1>2 DEF BeginGroup, MoreGroups
  <2> QED
    BY <1>2, <2>1, <2>2, <2>3 DEF BeginGroup
<1>3. CASE HoldRaises
  <2>1. group' \in 0..Groups /\ artifact' \in Artifacts
    BY <1>3 DEF HoldRaises, MoreGroups
  <2> QED
    BY <1>3, <2>1 DEF HoldRaises, Escapes
<1>4. CASE LoopEnds \/ GroupDone \/ Finally
  BY <1>4 DEF LoopEnds, GroupDone, Finally
<1>5. CASE WriteTmp \/ RenameBackup \/ RenameFinal \/ UnlinkBackup
  <2>1. CASE WriteTmp
    BY <2>1 DEF WriteTmp, IInv, LoopInv, Gens
  <2>2. CASE RenameBackup
    BY <2>2 DEF RenameBackup
  <2>3. CASE RenameFinal
    BY <2>3 DEF RenameFinal
  <2>4. CASE UnlinkBackup
    BY <2>4 DEF UnlinkBackup
  <2> QED
    BY <1>5, <2>1, <2>2, <2>3, <2>4
<1>6. CASE WriterDies \/ ReplaceRaises
  <2>1. corruptLabel' \in BOOLEAN
    BY <1>6 DEF WriterDies, ReplaceRaises, LabelAndRaise, EvidenceSaved
  <2>2. tmp' \in Gens \cup {NoFile}
    BY <1>6 DEF WriterDies, ReplaceRaises, IInv, LoopInv, Gens
  <2> QED
    BY <1>6, <2>1, <2>2 DEF WriterDies, ReplaceRaises, LabelAndRaise
<1>7. CASE UpdateState
  <2>1. known' \in Seq(Artifacts)
    BY <1>7, AppendProperties DEF UpdateState
  <2>2. NewEntry \in [recipe: 0..Groups, passes: 0..Groups, enabled: BOOLEAN]
    BY DEF NewEntry
  <2>3. state' \in [Artifacts -> [recipe: 0..Groups, passes: 0..Groups,
                                 enabled: BOOLEAN]]
    BY <1>7, <2>2 DEF UpdateState
  <2> QED
    BY <1>7, <2>1, <2>3 DEF UpdateState
<1>8. CASE VerifyHeld
  <2>1. held' \in [file: Gens \cup {0}, recipe: 0..Groups]
    BY <1>8 DEF VerifyHeld, Corrupt, NotHeld
  <2> QED
    BY <1>8, <2>1 DEF VerifyHeld, Corrupt
<1>9. CASE VerifyPath
  <2>1. verifiedFiles' \in 0..Groups
    BY <1>9 DEF VerifyPath, Corrupt, IInv, LoopInv
  <2> QED
    BY <1>9, <2>1 DEF VerifyPath, Corrupt
<1>10. CASE FsyncBatchOnce
  <2>1. pc = "fsync"
    BY <1>10 DEF FsyncBatchOnce
  <2>2. fsyncs' \in [Gens -> 0..Groups]
    BY <1>10, <2>1, CountedOnce DEF FsyncBatchOnce, Unsynced
  <2>3. ASSUME NEW a \in Artifacts
        PROVE  state'[a] \in [recipe: 0..Groups, passes: 0..Groups, enabled: BOOLEAN]
    <3>1. state'[a] = IF a \in ToSet(Batch)
                      THEN [state[a] EXCEPT !.passes = state[a].passes + 1]
                      ELSE state[a]
      BY <1>10 DEF FsyncBatchOnce
    <3>2. state[a] \in [recipe: 0..Groups, passes: 0..Groups, enabled: BOOLEAN]
      OBVIOUS
    <3>3. a \in ToSet(Batch) => state[a].passes + 1 \in 0..Groups
      <4>1. ASSUME a \in ToSet(Batch) PROVE state[a].passes + 1 \in 0..Groups
        <5>1. /\ state[a].passes \in Nat /\ state[a].passes <= fsyncs[final[a]]
              /\ fsyncs[final[a]] \in Nat /\ fsyncs[final[a]] <= group - 1
              /\ group \in 0..Groups
          BY <2>1, <4>1, BatchedFile
        <5> HIDE <1>1 DEF TypeOK
        <5> QED
          BY <5>1
      <4> QED
        BY <4>1
    <3> HIDE <1>1 DEF TypeOK
    <3> QED
      BY <3>1, <3>2, <3>3
  <2>4. state' \in [Artifacts -> [recipe: 0..Groups, passes: 0..Groups, enabled: BOOLEAN]]
    BY <1>10, <2>3 DEF FsyncBatchOnce
  <2>5. eligible' \subseteq Artifacts
    BY <1>10, <2>1, BatchedFile DEF FsyncBatchOnce, Written
  <2> QED
    BY <1>10, <2>2, <2>4, <2>5 DEF FsyncBatchOnce
<1>11. CASE FsyncRaises
  <2>1. pc = "fsync"
    BY <1>11 DEF FsyncRaises
  <2>2. fsyncs' \in [Gens -> 0..Groups]
    <3>1. PICK done \in SUBSET ToSet(Batch) :
            fsyncs' = [g \in Gens |->
              fsyncs[g] + (IF \E a \in done : final[a] = g THEN 1 ELSE 0)]
      BY <1>11 DEF FsyncRaises
    <3> QED
      BY <2>1, <3>1, CountedOnce DEF Unsynced
  <2> QED
    BY <1>11, <2>2 DEF FsyncRaises, Escapes
<1>12. CASE EnableVerity
  <2>1. PICK a \in eligible :
          /\ verity' = verity \cup {final[a]}
          /\ state' = [state EXCEPT ![a].enabled = TRUE]
          /\ eligible' = eligible \ {a}
    BY <1>12 DEF EnableVerity
  <2>2. verity' \subseteq Gens /\ pc = "verity"
    BY <1>12, <2>1, EligibleFile DEF EnableVerity
  <2>3. verityEnabled' = Cardinality(verity')
    <3>1. verityEnabled = Cardinality(verity)
      BY <2>2 DEF IInv, VerityInv, LoopInv
    <3>2. final[a] \notin verity /\ IsFiniteSet(verity)
      BY <2>2, EligibleFile, VerityFinite
    <3> QED
      BY <1>12, <2>1, <3>1, <3>2, FS_AddElement DEF EnableVerity
  <2>4. verityEnabled' \in 0..Groups
    BY <2>2, <2>3, VerityFinite
  <2>5. state' \in [Artifacts -> [recipe: 0..Groups, passes: 0..Groups,
                                 enabled: BOOLEAN]]
    BY <2>1
  <2> QED
    BY <1>12, <2>1, <2>2, <2>4, <2>5 DEF EnableVerity
<1>13. CASE EnableVerityRaises
  <2>1. verity' \subseteq Gens
    BY <1>13, EligibleFile DEF EnableVerityRaises
  <2> QED
    BY <1>13, <2>1 DEF EnableVerityRaises, Escapes
<1>14. CASE Damage
  <2>1. damaged' \in [header: SUBSET Gens, elsewhere: SUBSET Gens]
    <3>1. PICK g \in whole, where \in {"header", "elsewhere"} :
            damaged' = [damaged EXCEPT ![where] = @ \cup {g}]
      BY <1>14 DEF Damage
    <3>2. CASE where = "header"
      BY <3>1, <3>2
    <3>3. CASE where = "elsewhere"
      BY <3>1, <3>3
    <3> QED
      BY <3>1, <3>2, <3>3
  <2> QED
    BY <1>14, <2>1 DEF Damage
<1>15. CASE Over
  BY <1>15 DEF Over, vars
<1>16. CASE VerifyRaises \/ SyncRaises
  BY <1>16 DEF VerifyRaises, SyncRaises, Escapes
<1> QED
  BY <1>2, <1>3, <1>4, <1>5, <1>6, <1>7, <1>8, <1>9, <1>10, <1>11, <1>12,
     <1>13, <1>14, <1>15, <1>16 DEF Next

\* At every step the current artifact is whole under one of its two names.
LEMMA ArtifactKept ==
  ASSUME IInv, state[artifact].recipe # 0
  PROVE  \E g \in whole : g >= state[artifact].recipe /\ g \in {final[artifact], backup}
<1>1. /\ artifact \in Written /\ state[artifact].recipe \in whole
      /\ state[artifact].recipe \in Nat /\ group \in Nat
      /\ state[artifact].recipe <= group
  BY DEF IInv, TypeOK, FilesInv, Written
<1>2. CASE pc \in {"group", "write", "backup", "verifyHeld", "verify", "fsync",
                   "verity"}
  BY <1>1, <1>2 DEF IInv, StageInv
<1>3. CASE pc \in {"final", "unlink"}
  BY <1>1, <1>3 DEF IInv, StageInv
<1>4. CASE pc = "state"
  BY <1>1, <1>4 DEF IInv, StageInv
<1>5. CASE pc \in {"finally", "over"}
  BY <1>5 DEF IInv, StageInv
<1> QED
  BY <1>2, <1>3, <1>4, <1>5 DEF IInv, TypeOK

\* Every step moves the files of the current artifact to the next stage.
LEMMA StageInvStep == IInv /\ Next => StageInv'
<1> SUFFICES ASSUME IInv, Next PROVE StageInv'
  OBVIOUS
<1>1. StageInv
  BY DEF IInv
<1> USE <1>1 DEF StageInv, NoFile, fileVars, summaryVars, endVars
<1>2. CASE BeginGroup
  <2>1. PICK a \in Artifacts : artifact' = a
    BY <1>2 DEF BeginGroup
  <2>2. final[a] = state[a].recipe
    BY <1>2, FileOfEntry DEF BeginGroup
  <2> QED
    BY <1>2, <2>1, <2>2 DEF BeginGroup
<1>3. CASE HoldRaises
  <2>1. artifact' \in Artifacts /\ state[artifact'].recipe # 0
    BY <1>3 DEF HoldRaises
  <2>2. final[artifact'] = state[artifact'].recipe
    BY <1>3, <2>1, FileOfEntry DEF HoldRaises
  <2>3. state[artifact'].recipe \in whole /\ state[artifact'].recipe \in Nat
    BY <2>1 DEF IInv, TypeOK, FilesInv, Written
  <2> QED
    BY <1>3, <2>2, <2>3 DEF HoldRaises, Escapes
<1>4. CASE LoopEnds \/ FsyncRaises \/ EnableVerityRaises \/ VerifyRaises \/ SyncRaises
  <2>1. pc' = "finally" /\ UNCHANGED <<final, backup, whole, state, artifact>>
    BY <1>4 DEF LoopEnds, FsyncRaises, EnableVerityRaises, VerifyRaises, SyncRaises, Escapes
  <2> QED
    BY <2>1, ArtifactKept
<1>5. CASE WriterDies \/ ReplaceRaises
  <2>1. pc' = "finally" /\ UNCHANGED <<final, backup, whole, state, artifact>>
    BY <1>5 DEF WriterDies, ReplaceRaises, LabelAndRaise
  <2> QED
    BY <2>1, ArtifactKept
<1>6. CASE VerifyHeld \/ VerifyPath
  <2>1. /\ UNCHANGED <<fileVars, state, group, artifact>>
        /\ pc \in {"verifyHeld", "verify"} /\ pc' \in {"verify", "fsync", "finally"}
    BY <1>6 DEF VerifyHeld, VerifyPath, Corrupt
  <2> QED
    BY <2>1, ArtifactKept
<1>7. CASE WriteTmp
  BY <1>7 DEF WriteTmp
<1>8. CASE RenameBackup
  <2>1. final' = IF state[artifact].recipe # 0
                 THEN [final EXCEPT ![artifact] = NoFile] ELSE final
    BY <1>8 DEF RenameBackup
  <2>2. backup' = state[artifact].recipe
    BY <1>8 DEF RenameBackup
  <2> QED
    BY <1>8, <2>2 DEF RenameBackup
<1>9. CASE RenameFinal
  BY <1>9 DEF RenameFinal, IInv, TypeOK
<1>10. CASE UnlinkBackup
  BY <1>10 DEF UnlinkBackup
<1>11. CASE UpdateState
  BY <1>11 DEF UpdateState, NewEntry, IInv, TypeOK
<1>12. CASE FsyncBatchOnce
  <2>1. state'[artifact].recipe = state[artifact].recipe
    BY <1>12 DEF FsyncBatchOnce, IInv, TypeOK
  <2> QED
    BY <1>12, <2>1 DEF FsyncBatchOnce
<1>13. CASE EnableVerity
  <2>1. state'[artifact].recipe = state[artifact].recipe
    BY <1>13 DEF EnableVerity, IInv, TypeOK
  <2> QED
    BY <1>13, <2>1 DEF EnableVerity
<1>14. CASE GroupDone \/ Finally \/ Damage \/ Over
  BY <1>14 DEF GroupDone, Finally, Damage, Over, vars
<1> QED
  BY <1>2, <1>3, <1>4, <1>5, <1>6, <1>7, <1>8, <1>9, <1>10, <1>11, <1>12,
     <1>13, <1>14 DEF Next

\* Only the replacement changes what an entry says of its file.
LEMMA EntriesKept ==
  ASSUME TypeOK, FsyncBatchOnce \/ EnableVerity
  PROVE  /\ state' \in [Artifacts -> [recipe: Nat, passes: Nat, enabled: BOOLEAN]]
         /\ \A a \in Artifacts : state'[a].recipe = state[a].recipe
         /\ Written' = Written
<1>1. CASE FsyncBatchOnce
  <2>1. \A a \in Artifacts :
          /\ state'[a] = IF a \in ToSet(Batch)
                         THEN [state[a] EXCEPT !.passes = state[a].passes + 1]
                         ELSE state[a]
          /\ state[a] \in [recipe: Nat, passes: Nat, enabled: BOOLEAN]
    BY <1>1, PressureAssumption DEF FsyncBatchOnce, TypeOK
  <2>2. DOMAIN state' = Artifacts
    BY <1>1 DEF FsyncBatchOnce
  <2>3. ASSUME NEW a \in Artifacts
        PROVE  /\ state'[a] \in [recipe: Nat, passes: Nat, enabled: BOOLEAN]
               /\ state'[a].recipe = state[a].recipe
    <3>1. CASE a \in ToSet(Batch)
      <4>1. state'[a] = [state[a] EXCEPT !.passes = state[a].passes + 1]
        BY <2>1, <3>1
      <4>2. state[a] \in [recipe: Nat, passes: Nat, enabled: BOOLEAN]
        BY <2>1
      <4> QED
        BY <4>1, <4>2
    <3>2. CASE a \notin ToSet(Batch)
      BY <2>1, <3>2
    <3> QED
      BY <3>1, <3>2
  <2>4. state' = [a \in Artifacts |-> state'[a]]
    BY <1>1, <2>2 DEF FsyncBatchOnce
  <2> QED
    BY <2>3, <2>4 DEF Written
<1>2. CASE EnableVerity
  <2>1. PICK b \in eligible : state' = [state EXCEPT ![b].enabled = TRUE]
    BY <1>2 DEF EnableVerity
  <2>2. state \in [Artifacts -> [recipe: Nat, passes: Nat, enabled: BOOLEAN]]
    BY PressureAssumption DEF TypeOK
  <2> QED
    BY <2>1, <2>2 DEF Written
<1> QED
  BY <1>1, <1>2

\* No step touches a file of an artifact that is not the current one.
LEMMA FilesInvStep == IInv /\ Next => FilesInv'
<1> SUFFICES ASSUME IInv, Next PROVE FilesInv'
  OBVIOUS
<1>1. TypeOK /\ StageInv /\ FilesInv
  BY DEF IInv
<1> USE DEF FilesInv, fileVars, summaryVars, endVars
<1>2. CASE BeginGroup
  <2>1. PICK a \in Artifacts : artifact' = a
    BY <1>2 DEF BeginGroup
  <2>2. \A b \in Artifacts : final[b] = state[b].recipe
    BY <1>2, FileOfEntry DEF BeginGroup
  <2> QED
    BY <1>1, <1>2, <2>1, <2>2 DEF BeginGroup, TypeOK, Written
<1>3. CASE HoldRaises
  <2>1. \A b \in Artifacts : final[b] = state[b].recipe
    BY <1>3, FileOfEntry DEF HoldRaises
  <2> QED
    BY <1>1, <1>3, <2>1 DEF HoldRaises, Escapes, TypeOK, Written
<1>4. CASE WriteTmp \/ RenameBackup \/ RenameFinal \/ UnlinkBackup
  <2>1. /\ UNCHANGED <<state, artifact, group>>
        /\ \A a \in Artifacts \ {artifact} : final'[a] = final[a]
        /\ whole \subseteq whole'
    BY <1>1, <1>4 DEF WriteTmp, RenameBackup, RenameFinal, UnlinkBackup, TypeOK
  <2>2. pc \in {"write", "backup", "final", "unlink"}
    BY <1>4 DEF WriteTmp, RenameBackup, RenameFinal, UnlinkBackup
  <2> QED
    BY <1>1, <2>1, <2>2 DEF Written
<1>5. CASE LoopEnds \/ WriterDies \/ ReplaceRaises \/ VerifyHeld \/ VerifyPath
  <2>1. /\ UNCHANGED <<final, whole, state, artifact, group>>
        /\ pc' \notin {"write", "backup", "final", "unlink", "state"}
    BY <1>5 DEF LoopEnds, WriterDies, ReplaceRaises, LabelAndRaise,
       VerifyHeld, VerifyPath, Corrupt
  <2> QED
    BY <1>1, <2>1 DEF Written
<1>6. CASE \/ FsyncRaises \/ EnableVerityRaises \/ GroupDone \/ Finally
           \/ VerifyRaises \/ SyncRaises
  <2>1. /\ UNCHANGED <<final, whole, state, artifact, group>>
        /\ pc' \notin {"write", "backup", "final", "unlink", "state"}
    BY <1>6 DEF FsyncRaises, EnableVerityRaises, GroupDone, Finally, VerifyRaises,
       SyncRaises, Escapes
  <2> QED
    BY <1>1, <2>1 DEF Written
<1>7. CASE Damage \/ Over
  BY <1>1, <1>7 DEF Damage, Over, vars, Written
<1>8. CASE UpdateState
  BY <1>1, <1>8 DEF UpdateState, NewEntry, TypeOK, StageInv, Written
<1>9. CASE FsyncBatchOnce \/ EnableVerity
  <2>1. /\ UNCHANGED <<final, whole, artifact, group>>
        /\ pc' \notin {"write", "backup", "final", "unlink", "state"}
    BY <1>9 DEF FsyncBatchOnce, EnableVerity
  <2>2. Written' = Written /\ \A a \in Artifacts : state'[a].recipe = state[a].recipe
    BY <1>1, <1>9, EntriesKept
  <2>3. Written \subseteq Artifacts
    BY DEF Written
  <2> HIDE DEF Written
  <2> QED
    BY <1>1, <2>1, <2>2, <2>3
<1> QED
  BY <1>2, <1>3, <1>4, <1>5, <1>6, <1>7, <1>8, <1>9 DEF Next

\* Only UpdateState adds an artifact, and not twice.
LEMMA KnownInvStep == IInv /\ Next => KnownInv'
<1> SUFFICES ASSUME IInv, Next PROVE KnownInv'
  OBVIOUS
<1>1. TypeOK /\ KnownInv
  BY DEF IInv
<1>2. CASE UpdateState
  <2>1. /\ known \in Seq(Artifacts) /\ artifact \in Artifacts
        /\ DOMAIN known = 1..Len(known) /\ Len(known) \in Nat
    BY <1>1, LenProperties DEF TypeOK
  <2>2. Written' = Written \cup {artifact}
    <3>1. /\ state' = [state EXCEPT ![artifact] =
                         [recipe |-> group, passes |-> 0, enabled |-> FALSE]]
          /\ pc = "state"
      BY <1>2 DEF UpdateState, NewEntry
    <3>2. group # 0
      BY <3>1 DEF IInv, LoopInv, TypeOK
    <3> QED
      BY <1>1, <3>1, <3>2 DEF Written, TypeOK
  <2>3. CASE Contains(known, artifact)
    <3>1. known' = known
      BY <1>2, <2>3 DEF UpdateState
    <3>2. artifact \in ToSet(known)
      BY <2>1, <2>3 DEF Contains, ToSet
    <3>3. Written' = Written
      BY <1>1, <2>2, <3>2 DEF KnownInv
    <3> QED
      BY <1>1, <3>1, <3>3 DEF KnownInv
  <2>4. CASE ~Contains(known, artifact)
    <3>1. /\ known' = Append(known, artifact)
          /\ \A i \in 1..Len(known) : known[i] # artifact
      BY <1>2, <2>4 DEF UpdateState, Contains
    <3>2. /\ known' \in Seq(Artifacts) /\ Len(known') = Len(known) + 1
          /\ \A i \in 1..Len(known) : known'[i] = known[i]
          /\ known'[Len(known) + 1] = artifact
      BY <2>1, <3>1, AppendProperties
    <3>3. DOMAIN known' = 1..(Len(known) + 1)
      BY <3>2, LenProperties
    <3>4. \A i \in 1..(Len(known) + 1) : i \in 1..Len(known) \/ i = Len(known) + 1
      BY <2>1
    <3>5. ToSet(known') = ToSet(known) \cup {artifact}
      BY <2>1, <3>2, <3>3, <3>4 DEF ToSet
    <3>6. \A i, j \in 1..Len(known') : known'[i] = known'[j] => i = j
      BY <1>1, <3>1, <3>2, <3>4 DEF KnownInv
    <3> QED
      BY <1>1, <2>2, <3>5, <3>6 DEF KnownInv
  <2> QED
    BY <2>3, <2>4
<1>3. CASE FsyncBatchOnce \/ EnableVerity
  <2>1. known' = known
    BY <1>3 DEF FsyncBatchOnce, EnableVerity
  <2>2. Written' = Written
    BY <1>1, <1>3, EntriesKept
  <2> QED
    BY <1>1, <2>1, <2>2 DEF KnownInv
<1>4. CASE BeginGroup \/ HoldRaises \/ LoopEnds \/ WriteTmp \/ WriterDies
  BY <1>1, <1>4 DEF BeginGroup, HoldRaises, LoopEnds, WriteTmp, WriterDies,
     KnownInv, Written
<1>5. CASE RenameBackup \/ RenameFinal \/ UnlinkBackup \/ ReplaceRaises
  BY <1>1, <1>5 DEF RenameBackup, RenameFinal, UnlinkBackup, ReplaceRaises,
     KnownInv, Written
<1>6. CASE \/ VerifyHeld \/ VerifyPath \/ VerifyRaises \/ FsyncRaises
           \/ EnableVerityRaises \/ SyncRaises \/ GroupDone \/ Finally \/ Damage
           \/ Over
  BY <1>1, <1>6 DEF VerifyHeld, VerifyPath, VerifyRaises, FsyncRaises,
     EnableVerityRaises, SyncRaises, GroupDone, Finally, Damage, Over, vars, KnownInv,
     Written
<1> QED
  BY <1>2, <1>3, <1>4, <1>5, <1>6 DEF Next

\* A batch syncs the file of every entry whose pass it counts.
LEMMA PassInvStep == IInv /\ Next => PassInv'
<1> SUFFICES ASSUME IInv, Next PROVE PassInv'
  OBVIOUS
<1>1. TypeOK /\ PassInv
  BY DEF IInv
<1>2. CASE BeginGroup \/ HoldRaises
  <2>1. /\ UNCHANGED <<fsyncs, state>> /\ group' = group + 1 /\ group \in Nat
        /\ ~Unsynced
    BY <1>1, <1>2 DEF BeginGroup, HoldRaises, fileVars, TypeOK, Unsynced
  <2>2. \A g \in Gens : fsyncs[g] \in Nat
    BY <1>1, PressureAssumption DEF TypeOK
  <2> QED
    BY <1>1, <2>1, <2>2 DEF PassInv, Written
<1>3. CASE UpdateState
  <2>1. state' = [state EXCEPT ![artifact] =
                    [recipe |-> group, passes |-> 0, enabled |-> FALSE]]
    BY <1>3 DEF UpdateState, NewEntry
  <2>2. UNCHANGED <<fsyncs, group>> /\ Unsynced /\ Unsynced'
    BY <1>3 DEF UpdateState, fileVars, Unsynced
  <2>3. group \in Gens /\ artifact \in Artifacts
    BY <1>1, <1>3 DEF UpdateState, IInv, LoopInv, TypeOK, Gens
  <2>4. fsyncs[group] \in Nat
    BY <1>1, <2>3 DEF TypeOK
  <2> QED
    BY <1>1, <2>1, <2>2, <2>3, <2>4 DEF PassInv, Written, TypeOK
<1>4. CASE FsyncBatchOnce
  <2>1. pc = "fsync" /\ Unsynced /\ ~Unsynced' /\ group' = group /\ final' = final
    BY <1>4 DEF FsyncBatchOnce, Unsynced
  <2>2. /\ \A g \in Gens :
             /\ fsyncs[g] \in Nat /\ fsyncs'[g] \in Nat
             /\ fsyncs[g] <= fsyncs'[g] /\ fsyncs'[g] <= group
        /\ \A a \in ToSet(Batch) :
             final[a] \in Gens => fsyncs'[final[a]] = fsyncs[final[a]] + 1
    BY <1>4, <2>1, CountedOnce DEF FsyncBatchOnce
  <2>3. /\ \A a \in Artifacts : state'[a].recipe = state[a].recipe
        /\ Written' = Written
    BY <1>1, <1>4, EntriesKept
  <2>4. ASSUME NEW a \in Artifacts
        PROVE  state'[a].passes = IF a \in ToSet(Batch) THEN state[a].passes + 1
                                  ELSE state[a].passes
    <3>1. CASE a \in ToSet(Batch)
      <4>1. state'[a] = [state[a] EXCEPT !.passes = state[a].passes + 1]
        BY <1>4, <3>1 DEF FsyncBatchOnce
      <4>2. state[a] \in [recipe: 0..Groups, passes: 0..Groups, enabled: BOOLEAN]
        BY <1>1 DEF TypeOK
      <4> QED
        BY <3>1, <4>1, <4>2
    <3>2. CASE a \notin ToSet(Batch)
      BY <1>4, <3>2 DEF FsyncBatchOnce
    <3> QED
      BY <3>1, <3>2
  <2>5. ASSUME NEW a \in Artifacts, state[a].recipe = 0
        PROVE  state'[a].passes = 0
    <3>1. a \notin ToSet(Batch)
      BY <2>1, <2>5, BatchedFile DEF Written
    <3> QED
      BY <1>1, <2>4, <2>5, <3>1 DEF PassInv
  <2>6. ASSUME NEW a \in Written
        PROVE  state'[a].passes <= fsyncs'[state[a].recipe]
    <3>1. a \in Artifacts /\ state[a].recipe \in Gens /\ state[a].passes \in Nat
      BY <1>1 DEF Written, TypeOK, Gens
    <3>2. state[a].passes <= fsyncs[state[a].recipe]
      BY <1>1 DEF PassInv
    <3>3. CASE a \in ToSet(Batch)
      <4>1. final[a] = state[a].recipe
        BY <2>1, <3>3, BatchedFile
      <4>2. fsyncs'[state[a].recipe] = fsyncs[state[a].recipe] + 1
        BY <2>2, <3>1, <3>3, <4>1
      <4>3. state'[a].passes = state[a].passes + 1
        BY <2>4, <3>1, <3>3
      <4> QED
        BY <2>2, <3>1, <3>2, <4>2, <4>3
    <3>4. CASE a \notin ToSet(Batch)
      <4>1. state'[a].passes = state[a].passes
        BY <2>4, <3>1, <3>4
      <4> QED
        BY <2>2, <3>1, <3>2, <4>1
    <3> QED
      BY <3>3, <3>4
  <2>7. Written \subseteq Artifacts
    BY DEF Written
  <2> QED
    BY <2>1, <2>2, <2>3, <2>5, <2>6, <2>7 DEF PassInv
<1>5. CASE FsyncRaises
  <2>1. Unsynced /\ ~Unsynced' /\ UNCHANGED <<group, state>>
    BY <1>5 DEF FsyncRaises, Escapes, Unsynced
  <2>2. PICK done \in SUBSET ToSet(Batch) :
          fsyncs' = [g \in Gens |->
            fsyncs[g] + (IF \E a \in done : final[a] = g THEN 1 ELSE 0)]
    BY <1>5 DEF FsyncRaises
  <2>3. \A g \in Gens :
          /\ fsyncs[g] \in Nat /\ fsyncs'[g] \in Nat
          /\ fsyncs[g] <= fsyncs'[g] /\ fsyncs'[g] <= group
    BY <2>1, <2>2, CountedOnce
  <2>4. \A a \in Written : state[a].recipe \in Gens /\ state[a].passes \in Nat
    BY <1>1 DEF Written, TypeOK, Gens
  <2>5. \A a \in Written : state[a].passes <= fsyncs'[state[a].recipe]
    BY <1>1, <2>3, <2>4 DEF PassInv
  <2>6. Written' = Written
    BY <2>1 DEF Written
  <2> QED
    BY <1>1, <2>1, <2>3, <2>5, <2>6 DEF PassInv
<1>6. CASE EnableVerity
  <2>1. /\ \A a \in Artifacts : state'[a].recipe = state[a].recipe
        /\ Written' = Written
    BY <1>1, <1>6, EntriesKept
  <2>2. \A a \in Artifacts : state'[a].passes = state[a].passes
    BY <1>1, <1>6 DEF EnableVerity, TypeOK
  <2>3. UNCHANGED <<fsyncs, group, pc>>
    BY <1>6 DEF EnableVerity
  <2>4. Written \subseteq Artifacts
    BY DEF Written
  <2> QED
    BY <1>1, <2>1, <2>2, <2>3, <2>4 DEF PassInv, Unsynced
<1>7. CASE \/ LoopEnds \/ WriterDies \/ ReplaceRaises \/ VerifyHeld \/ VerifyPath
           \/ VerifyRaises \/ EnableVerityRaises \/ SyncRaises \/ Finally
  <2>1. UNCHANGED <<fsyncs, state, group>> /\ (~Unsynced' \/ Unsynced)
    BY <1>7 DEF LoopEnds, WriterDies, ReplaceRaises, LabelAndRaise, VerifyHeld,
       VerifyPath, Corrupt, VerifyRaises, EnableVerityRaises, SyncRaises, Escapes,
       Finally, fileVars, Unsynced
  <2>2. group \in Nat /\ \A g \in Gens : fsyncs[g] \in Nat
    BY <1>1, PressureAssumption DEF TypeOK
  <2> QED
    BY <1>1, <2>1, <2>2 DEF PassInv, Written
<1>8. CASE \/ WriteTmp \/ RenameBackup \/ RenameFinal \/ UnlinkBackup
           \/ GroupDone \/ Damage \/ Over
  <2>1. UNCHANGED <<fsyncs, state, group>> /\ Unsynced' = Unsynced
    BY <1>8 DEF WriteTmp, RenameBackup, RenameFinal, UnlinkBackup,
       GroupDone, Damage, Over, vars, fileVars, Unsynced
  <2> QED
    BY <1>1, <2>1 DEF PassInv, Written
<1> QED
  BY <1>2, <1>3, <1>4, <1>5, <1>6, <1>7, <1>8 DEF Next

\* What a step that leaves the files, the entries and the counts alone keeps.
LEMMA VerityKept ==
  ASSUME IInv, UNCHANGED <<verity, state, verityEnabled>>,
         fsyncs' = fsyncs,
         group' = group \/ group' = group + 1,
         Unsynced' => Unsynced \/ group' = group + 1,
         outcome' = "raised" \/ outcome # "raised",
         pc' # "verity" \/ (pc = "verity" /\ eligible' = eligible)
  PROVE  VerityInv'
<1>1. group \in Nat /\ verity \subseteq Nat
  BY DEF IInv, TypeOK, Gens
<1>2. \A g \in verity' : g <= group' /\ fsyncs'[g] >= MinFsyncPasses
  BY <1>1 DEF IInv, VerityInv
<1>3. Unsynced' => \A g \in verity' : g < group'
  BY <1>1 DEF IInv, VerityInv
<1>4. outcome' # "raised" => outcome # "raised"
  OBVIOUS
<1>5. VerityAccounted'
  BY DEF IInv, VerityInv, VerityAccounted
<1>6. Written' = Written
  BY DEF Written
<1> QED
  BY <1>2, <1>3, <1>4, <1>5, <1>6 DEF IInv, VerityInv

\* fs-verity goes to files of entries with enough passes, each once.
LEMMA VerityInvStep == IInv /\ Next => VerityInv'
<1> SUFFICES ASSUME IInv, Next PROVE VerityInv'
  OBVIOUS
<1>1. TypeOK /\ VerityInv /\ LoopInv
  BY DEF IInv
<1>2. CASE BeginGroup \/ HoldRaises
  <2>1. /\ UNCHANGED <<verity, state, verityEnabled, fsyncs>> /\ group' = group + 1
        /\ outcome' = "raised" \/ outcome' = outcome
        /\ pc = "group" /\ pc' # "verity"
    BY <1>2 DEF BeginGroup, HoldRaises, Escapes, fileVars, summaryVars, endVars
  <2>2. outcome # "raised"
    BY <1>1, <2>1 DEF LoopInv
  <2> QED
    BY <2>1, <2>2, VerityKept
<1>3. CASE \/ LoopEnds \/ WriterDies \/ ReplaceRaises \/ VerifyHeld \/ VerifyPath
           \/ VerifyRaises \/ SyncRaises
  <2>1. /\ UNCHANGED <<verity, state, verityEnabled, fsyncs, group>>
        /\ Unsynced' => Unsynced
        /\ pc \notin {"finally", "over"} /\ pc' # "verity"
    BY <1>3 DEF LoopEnds, WriterDies, ReplaceRaises, LabelAndRaise, VerifyHeld,
       VerifyPath, Corrupt, VerifyRaises, SyncRaises, Escapes, fileVars, summaryVars,
       Unsynced
  <2>2. outcome # "raised"
    BY <1>1, <2>1 DEF LoopInv
  <2> QED
    BY <2>1, <2>2, VerityKept
<1>4. CASE \/ WriteTmp \/ RenameBackup \/ RenameFinal \/ UnlinkBackup
           \/ GroupDone \/ Finally \/ Damage \/ Over
  <2>1. /\ UNCHANGED <<verity, state, verityEnabled, fsyncs, group, outcome, eligible>>
        /\ Unsynced' => Unsynced
        /\ pc' # "verity" \/ pc = "verity"
    BY <1>4 DEF WriteTmp, RenameBackup, RenameFinal, UnlinkBackup, GroupDone,
       Finally, Damage, Over, vars, fileVars, summaryVars, endVars, Unsynced
  <2>2. outcome' = "raised" \/ outcome # "raised"
    BY <2>1
  <2> QED
    BY <2>1, <2>2, VerityKept
<1>5. CASE UpdateState
  <2>1. /\ state' = [state EXCEPT ![artifact] =
                       [recipe |-> group, passes |-> 0, enabled |-> FALSE]]
        /\ pc = "state" /\ pc' = "verifyHeld"
        /\ UNCHANGED <<verity, verityEnabled, fsyncs, group, outcome>>
    BY <1>5 DEF UpdateState, NewEntry, fileVars, summaryVars, endVars
  <2>2. \A g \in verity : g < group
    BY <1>1, <2>1 DEF VerityInv, Unsynced
  <2>3. group \notin verity
    BY <1>1, <2>2 DEF TypeOK
  <2>4. ASSUME NEW a \in Written'
        PROVE  outcome # "raised" =>
                 (state'[a].enabled <=> state'[a].recipe \in verity)
    <3>1. CASE a = artifact
      BY <1>1, <2>1, <2>3, <3>1 DEF TypeOK
    <3>2. CASE a # artifact
      <4>1. a \in Written /\ state'[a] = state[a]
        BY <1>1, <2>1, <3>2 DEF TypeOK, Written
      <4> QED
        BY <1>1, <4>1 DEF VerityInv
    <3> QED
      BY <3>1, <3>2
  <2> QED
    BY <1>1, <2>1, <2>2, <2>4 DEF VerityInv, VerityAccounted
<1>6. CASE FsyncBatchOnce
  <2>1. /\ pc = "fsync" /\ Unsynced /\ ~Unsynced'
        /\ UNCHANGED <<verity, verityEnabled, group, outcome>>
    BY <1>6 DEF FsyncBatchOnce, Unsynced, summaryVars, endVars
  <2>2. \A g \in Gens : /\ fsyncs[g] \in Nat /\ fsyncs'[g] \in Nat
                        /\ fsyncs[g] <= fsyncs'[g]
    BY <1>6, <2>1, CountedOnce DEF FsyncBatchOnce
  <2>3. \A g \in verity : g <= group' /\ fsyncs'[g] >= MinFsyncPasses
    BY <1>1, <2>1, <2>2, PressureAssumption DEF VerityInv, TypeOK
  <2>4. /\ \A a \in Artifacts : state'[a].recipe = state[a].recipe
        /\ Written' = Written
    BY <1>1, <1>6, EntriesKept
  <2>5. ASSUME NEW a \in Artifacts
        PROVE  /\ state'[a].enabled = state[a].enabled
               /\ a \in ToSet(Batch) => state'[a].passes = state[a].passes + 1
    <3>1. CASE a \in ToSet(Batch)
      <4>1. state'[a] = [state[a] EXCEPT !.passes = state[a].passes + 1]
        BY <1>6, <3>1 DEF FsyncBatchOnce
      <4>2. state[a] \in [recipe: 0..Groups, passes: 0..Groups, enabled: BOOLEAN]
        BY <1>1 DEF TypeOK
      <4> QED
        BY <4>1, <4>2
    <3>2. CASE a \notin ToSet(Batch)
      BY <1>6, <3>2 DEF FsyncBatchOnce
    <3> QED
      BY <3>1, <3>2
  <2>6. \A a \in eligible' :
          /\ a \in ToSet(Batch) /\ ~state[a].enabled
          /\ state[a].passes + 1 >= MinFsyncPasses
    BY <1>6 DEF FsyncBatchOnce, ShouldEnableVerity
  <2>7. \A a \in eligible' :
          a \in Written /\ ~state'[a].enabled /\ state'[a].passes >= MinFsyncPasses
    BY <2>1, <2>5, <2>6, BatchedFile DEF Written
  <2>8. Written \subseteq Artifacts
    BY DEF Written
  <2>9. outcome' # "raised" =>
          /\ \A a \in Written' : state'[a].enabled <=> state'[a].recipe \in verity'
          /\ verityEnabled' = Cardinality(verity')
    BY <1>1, <2>1, <2>4, <2>5, <2>8 DEF VerityInv
  <2>10. VerityAccounted'
    BY <1>1, <2>1 DEF VerityInv, VerityAccounted
  <2>11. eligible' \subseteq {a \in Written' :
           ~state'[a].enabled /\ state'[a].passes >= MinFsyncPasses}
    BY <2>4, <2>7
  <2> QED
    BY <2>1, <2>3, <2>9, <2>10, <2>11 DEF VerityInv
<1>7. CASE FsyncRaises
  <2>1. /\ pc = "fsync" /\ Unsynced /\ ~Unsynced' /\ pc' = "finally"
        /\ UNCHANGED <<verity, verityEnabled, group, state>> /\ outcome' = "raised"
    BY <1>7 DEF FsyncRaises, Escapes, Unsynced, summaryVars
  <2>2. PICK done \in SUBSET ToSet(Batch) :
          fsyncs' = [g \in Gens |->
            fsyncs[g] + (IF \E a \in done : final[a] = g THEN 1 ELSE 0)]
    BY <1>7 DEF FsyncRaises
  <2>3. \A g \in Gens : /\ fsyncs[g] \in Nat /\ fsyncs'[g] \in Nat
                        /\ fsyncs[g] <= fsyncs'[g]
    BY <2>1, <2>2, CountedOnce
  <2>4. \A g \in verity : g <= group' /\ fsyncs'[g] >= MinFsyncPasses
    BY <1>1, <2>1, <2>3, PressureAssumption DEF VerityInv, TypeOK
  <2>5. outcome = "running"
    BY <1>1, <2>1 DEF LoopInv
  <2> QED
    BY <1>1, <2>1, <2>4, <2>5 DEF VerityInv, VerityAccounted
<1>8. CASE EnableVerity
  <2>1. PICK a \in eligible :
          /\ verity' = verity \cup {final[a]}
          /\ state' = [state EXCEPT ![a].enabled = TRUE]
          /\ eligible' = eligible \ {a}
    BY <1>8 DEF EnableVerity
  <2>2. /\ pc = "verity" /\ verityEnabled' = verityEnabled + 1
        /\ UNCHANGED <<fsyncs, group, pc, outcome>>
    BY <1>8 DEF EnableVerity, endVars
  <2>3. /\ a \in Written /\ final[a] = state[a].recipe /\ final[a] <= group
        /\ final[a] \notin verity /\ fsyncs[final[a]] >= MinFsyncPasses
    BY <2>2, EligibleFile
  <2>4. \A g \in verity' : g <= group' /\ fsyncs'[g] >= MinFsyncPasses
    BY <1>1, <2>1, <2>2, <2>3 DEF VerityInv
  <2>5. outcome = "running" /\ ~Unsynced'
    BY <1>1, <2>2 DEF LoopInv, Unsynced
  <2>6. verityEnabled' = Cardinality(verity')
    <3>1. verityEnabled = Cardinality(verity) /\ IsFiniteSet(verity)
      BY <1>1, <2>5, VerityFinite DEF VerityInv, TypeOK
    <3> QED
      BY <2>1, <2>2, <2>3, <3>1, FS_AddElement
  <2>7. Written' = Written
    BY <1>1, <1>8, EntriesKept
  <2>8. /\ \A b \in Artifacts \ {a} : state'[b] = state[b]
        /\ state'[a].enabled /\ state'[a].recipe = state[a].recipe
    BY <1>1, <2>1, <2>3 DEF TypeOK, Written
  <2>9. ASSUME NEW b \in Written
        PROVE  state'[b].enabled <=> state'[b].recipe \in verity'
    <3>1. CASE b = a
      BY <2>1, <2>3, <2>8, <3>1
    <3>2. CASE b # a
      <4>1. state'[b] = state[b] /\ state[b].recipe # state[a].recipe
        BY <2>3, <2>8, <3>2 DEF IInv, FilesInv, Written
      <4>2. state[b].enabled <=> state[b].recipe \in verity
        BY <1>1, <2>5 DEF VerityInv
      <4> QED
        BY <2>1, <2>3, <4>1, <4>2
    <3> QED
      BY <3>1, <3>2
  <2>10. eligible' \subseteq {b \in Written' :
           ~state'[b].enabled /\ state'[b].passes >= MinFsyncPasses}
    <3>1. \A b \in eligible' : /\ b \in Written /\ b # a /\ ~state[b].enabled
                               /\ state[b].passes >= MinFsyncPasses
      BY <1>1, <2>1, <2>2 DEF VerityInv
    <3> QED
      BY <2>7, <2>8, <3>1 DEF Written
  <2> QED
    BY <2>2, <2>4, <2>5, <2>6, <2>7, <2>9, <2>10 DEF VerityInv, VerityAccounted
<1>9. CASE EnableVerityRaises
  <2>1. PICK a \in eligible : verity' \in {verity, verity \cup {final[a]}}
    BY <1>9 DEF EnableVerityRaises
  <2>2. /\ pc = "verity" /\ pc' = "finally" /\ outcome' = "raised"
        /\ UNCHANGED <<fsyncs, group, state, verityEnabled>>
    BY <1>9 DEF EnableVerityRaises, Escapes, summaryVars
  <2>3. /\ final[a] <= group /\ final[a] \notin verity
        /\ fsyncs[final[a]] >= MinFsyncPasses
    BY <2>2, EligibleFile
  <2>4. \A g \in verity' : g <= group' /\ fsyncs'[g] >= MinFsyncPasses
    BY <1>1, <2>1, <2>2, <2>3 DEF VerityInv
  <2>5. verityEnabled = Cardinality(verity) /\ IsFiniteSet(verity)
    BY <1>1, <2>2, VerityFinite DEF VerityInv, LoopInv, TypeOK
  <2>6. Cardinality(verity \cup {final[a]}) = Cardinality(verity) + 1
    BY <2>3, <2>5, FS_AddElement
  <2>7. Cardinality(verity) \in Nat
    BY <2>5, FS_CardinalityType
  <2>8. VerityAccounted'
    <3>1. CASE verity' = verity
      BY <2>2, <2>5, <3>1 DEF VerityAccounted
    <3>2. CASE verity' = verity \cup {final[a]}
      <4>1. Cardinality(verity') = Cardinality(verity) + 1
        BY <2>6, <3>2
      <4>2. verityEnabled' = Cardinality(verity') - 1
        BY <2>2, <2>5, <2>7, <4>1
      <4> QED
        BY <2>2, <4>2 DEF VerityAccounted
    <3> QED
      BY <2>1, <3>1, <3>2
  <2> QED
    BY <2>2, <2>4, <2>8 DEF VerityInv, Unsynced
<1> QED
  BY <1>2, <1>3, <1>4, <1>5, <1>6, <1>7, <1>8, <1>9 DEF Next

\* A step that leaves the entries, the files' fsyncs and what is eligible alone.
LEMMA SyncKept ==
  ASSUME SyncInv, TypeOK, UNCHANGED <<state, fsyncs>>,
         eligible' = eligible,
         group' = group \/ group' = group + 1,
         Unsynced' => Unsynced \/ group' = group + 1,
         outcome' = "running" => outcome = "running",
         outcome' = "running" /\ pc' # "verity" => pc # "verity" \/ eligible = {}
  PROVE  SyncInv'
<1>1. group \in Nat /\ \A g \in Gens : g \in Nat
  BY DEF TypeOK, Gens
<1>2. Written' = Written /\ \A a \in Artifacts : Due(a)' <=> Due(a)
  BY DEF Written, Due
<1>3. \A g \in Gens : fsyncs'[g] > 0 => g <= group' /\ (Unsynced' => g < group')
  BY <1>1 DEF SyncInv
<1>4. Written \subseteq Artifacts
  BY DEF Written
<1> QED
  BY <1>2, <1>3, <1>4 DEF SyncInv

\* A batch counts a pass for the entries whose files it syncs, and makes eligible
\* those that become due.
LEMMA SyncBatch ==
  ASSUME IInv, FsyncBatchOnce
  PROVE  SyncInv'
<1>1. TypeOK /\ SyncInv /\ FilesInv
  BY DEF IInv
<1>2. /\ pc = "fsync" /\ pc' = "verity" /\ Unsynced /\ ~Unsynced' /\ group' = group
      /\ fsyncs' = [g \in Gens |->
           fsyncs[g] + (IF \E a \in ToSet(Batch) : final[a] = g THEN 1 ELSE 0)]
      /\ outcome' = outcome
  BY DEF FsyncBatchOnce, Unsynced, endVars
<1>3. outcome = "running" /\ eligible = {}
  BY <1>1, <1>2 DEF IInv, LoopInv, SyncInv
<1>4. /\ \A a \in Artifacts : state'[a].recipe = state[a].recipe
      /\ Written' = Written
  BY <1>1, EntriesKept
<1>5. ASSUME NEW a \in Artifacts
      PROVE  /\ state'[a].enabled = state[a].enabled
             /\ state'[a].passes = state[a].passes + (IF a \in ToSet(Batch) THEN 1 ELSE 0)
             /\ state[a].passes \in Nat
  <2>1. state[a] \in [recipe: 0..Groups, passes: 0..Groups, enabled: BOOLEAN]
    BY <1>1 DEF TypeOK
  <2>2. CASE a \in ToSet(Batch)
    <3>1. state'[a] = [state[a] EXCEPT !.passes = state[a].passes + 1]
      BY <2>2 DEF FsyncBatchOnce
    <3> QED
      BY <2>1, <2>2, <3>1
  <2>3. CASE a \notin ToSet(Batch)
    <3>1. state'[a] = state[a]
      BY <2>3 DEF FsyncBatchOnce
    <3> QED
      BY <2>1, <2>3, <3>1
  <2> QED
    BY <2>2, <2>3
<1>6. ASSUME NEW g \in Gens, fsyncs'[g] > 0
      PROVE  g <= group
  <2>1. fsyncs[g] \in Nat
    BY <1>1 DEF TypeOK
  <2>2. CASE \E a \in ToSet(Batch) : final[a] = g
    <3>1. PICK a \in ToSet(Batch) : final[a] = g
      BY <2>2
    <3>2. a \in Artifacts /\ g = state[a].recipe
      BY <1>2, <3>1, BatchedFile DEF Written
    <3> QED
      BY <1>1, <3>2 DEF FilesInv
  <2>3. CASE ~\E a \in ToSet(Batch) : final[a] = g
    <3>1. fsyncs[g] > 0
      BY <1>2, <1>6, <2>1, <2>3
    <3> QED
      BY <1>1, <3>1 DEF SyncInv
  <2> QED
    BY <2>2, <2>3
<1>7. ASSUME NEW a \in Written
      PROVE  state'[a].passes = fsyncs'[state[a].recipe]
  <2>1. /\ a \in Artifacts /\ state[a].recipe \in Gens
        /\ state[a].passes = fsyncs[state[a].recipe]
    BY <1>1, <1>3 DEF Written, TypeOK, Gens, SyncInv
  <2>2. ASSUME NEW b \in ToSet(Batch), final[b] = state[a].recipe PROVE b = a
    <3>1. b \in Written /\ final[b] = state[b].recipe
      BY <1>2, BatchedFile
    <3> QED
      BY <1>1, <2>2, <3>1 DEF FilesInv
  <2>3. a \in ToSet(Batch) => final[a] = state[a].recipe
    BY <1>2, BatchedFile
  <2>4. (\E b \in ToSet(Batch) : final[b] = state[a].recipe) <=> a \in ToSet(Batch)
    BY <2>2, <2>3
  <2>5. fsyncs'[state[a].recipe] =
          fsyncs[state[a].recipe] + (IF a \in ToSet(Batch) THEN 1 ELSE 0)
    BY <1>2, <2>1, <2>4
  <2> QED
    BY <1>5, <2>1, <2>5
<1>8. ASSUME NEW a \in Written
      PROVE  Due(a)' <=> state'[a].enabled \/ a \in eligible'
  <2>1. a \in Artifacts
    BY DEF Written
  <2>2. Due(a) <=> state[a].enabled
    BY <1>1, <1>3 DEF SyncInv
  <2>3. a \in eligible' <=> /\ a \in ToSet(Batch) /\ ~state[a].enabled
                            /\ a \in Candidates /\ state[a].passes + 1 >= MinFsyncPasses
    BY DEF FsyncBatchOnce, ShouldEnableVerity
  <2>4. CASE a \in ToSet(Batch)
    <3>1. state'[a].passes = state[a].passes + 1 /\ state[a].passes \in Nat
      BY <1>5, <2>1, <2>4
    <3>2. state'[a].enabled = state[a].enabled
      BY <1>5, <2>1
    <3>3. MinFsyncPasses \in Nat
      BY PressureAssumption
    <3> QED
      BY <2>2, <2>3, <2>4, <3>1, <3>2, <3>3 DEF Due
  <2>5. CASE a \notin ToSet(Batch)
    <3>1. state'[a].passes = state[a].passes /\ state'[a].enabled = state[a].enabled
      BY <1>5, <2>1, <2>5
    <3> QED
      BY <2>2, <2>3, <2>5, <3>1 DEF Due
  <2> QED
    BY <2>4, <2>5
<1> QED
  BY <1>2, <1>4, <1>6, <1>7, <1>8 DEF SyncInv, Written

\* Every step keeps the passes of an entry the fsyncs of its file.
LEMMA SyncInvStep == IInv /\ Next => SyncInv'
<1> SUFFICES ASSUME IInv, Next PROVE SyncInv'
  OBVIOUS
<1>1. TypeOK /\ SyncInv /\ LoopInv
  BY DEF IInv
<1>2. CASE BeginGroup \/ HoldRaises
  <2>1. /\ UNCHANGED <<state, fsyncs, eligible>> /\ group' = group + 1
        /\ outcome' \in {outcome, "raised"} /\ pc = "group"
    BY <1>2 DEF BeginGroup, HoldRaises, Escapes, fileVars, endVars
  <2> QED
    BY <1>1, <2>1, SyncKept
<1>3. CASE \/ LoopEnds \/ WriterDies \/ ReplaceRaises \/ VerifyRaises
           \/ EnableVerityRaises \/ SyncRaises
  <2>1. /\ UNCHANGED <<state, fsyncs, eligible, group>> /\ pc' = "finally"
        /\ outcome' # "running"
    BY <1>3 DEF LoopEnds, WriterDies, ReplaceRaises, LabelAndRaise, VerifyRaises,
       EnableVerityRaises, SyncRaises, Escapes, fileVars
  <2>2. ~Unsynced'
    BY <2>1 DEF Unsynced
  <2> QED
    BY <1>1, <2>1, <2>2, SyncKept
<1>4. CASE VerifyHeld \/ VerifyPath
  <2>1. /\ UNCHANGED <<state, fsyncs, eligible, group>>
        /\ pc \in {"verifyHeld", "verify"} /\ pc' \in {"verify", "fsync", "finally"}
        /\ outcome' \in {outcome, "returned"}
    BY <1>4 DEF VerifyHeld, VerifyPath, Corrupt, fileVars, endVars
  <2>2. Unsynced' => Unsynced
    BY <2>1 DEF Unsynced
  <2> QED
    BY <1>1, <2>1, <2>2, SyncKept
<1>5. CASE \/ WriteTmp \/ RenameBackup \/ RenameFinal \/ UnlinkBackup
           \/ GroupDone \/ Finally \/ Damage \/ Over
  <2>1. /\ UNCHANGED <<state, fsyncs, eligible, group, outcome>>
        /\ Unsynced' => Unsynced
        /\ pc' = "verity" => pc = "verity"
        /\ pc = "verity" => pc' = "verity" \/ eligible = {}
    BY <1>5 DEF WriteTmp, RenameBackup, RenameFinal, UnlinkBackup, GroupDone,
       Finally, Damage, Over, vars, fileVars, endVars, Unsynced
  <2> QED
    BY <1>1, <2>1, SyncKept
<1>6. CASE UpdateState
  <2>1. /\ state' = [state EXCEPT ![artifact] =
                       [recipe |-> group, passes |-> 0, enabled |-> FALSE]]
        /\ pc = "state" /\ pc' = "verifyHeld" /\ Unsynced /\ Unsynced'
        /\ UNCHANGED <<fsyncs, group, outcome, eligible>>
    BY <1>6 DEF UpdateState, NewEntry, fileVars, endVars, Unsynced
  <2>2. group \in Gens /\ artifact \in Artifacts /\ outcome = "running" /\ eligible = {}
    BY <1>1, <2>1 DEF LoopInv, TypeOK, Gens, SyncInv
  <2>3. fsyncs[group] = 0
    <3>1. fsyncs[group] \in Nat /\ group \in Nat /\ ~(fsyncs[group] > 0)
      BY <1>1, <2>1, <2>2 DEF TypeOK, SyncInv
    <3> QED
      BY <3>1
  <2>4. ASSUME NEW a \in Written'
        PROVE  /\ state'[a].passes = fsyncs[state'[a].recipe]
               /\ Due(a)' <=> state'[a].enabled \/ a \in eligible'
    <3>1. CASE a = artifact
      <4>1. state'[a] = [recipe |-> group, passes |-> 0, enabled |-> FALSE]
        BY <1>1, <2>1, <2>2, <3>1 DEF TypeOK
      <4> QED
        BY <2>1, <2>2, <2>3, <4>1 DEF Due
    <3>2. CASE a # artifact
      <4>1. a \in Written /\ state'[a] = state[a]
        BY <1>1, <2>1, <3>2 DEF TypeOK, Written
      <4> QED
        BY <1>1, <2>1, <2>2, <4>1 DEF SyncInv, Due
    <3> QED
      BY <3>1, <3>2
  <2> QED
    BY <1>1, <2>1, <2>2, <2>4 DEF SyncInv
<1>7. CASE FsyncBatchOnce
  BY <1>7, SyncBatch
<1>8. CASE FsyncRaises
  <2>1. /\ pc = "fsync" /\ ~Unsynced' /\ group' = group /\ outcome' = "raised"
    BY <1>8 DEF FsyncRaises, Escapes, Unsynced
  <2>2. PICK done \in SUBSET ToSet(Batch) :
          fsyncs' = [g \in Gens |->
            fsyncs[g] + (IF \E a \in done : final[a] = g THEN 1 ELSE 0)]
    BY <1>8 DEF FsyncRaises
  <2>3. ASSUME NEW g \in Gens, fsyncs'[g] > 0
        PROVE  g <= group
    <3>1. fsyncs[g] \in Nat
      BY <1>1 DEF TypeOK
    <3>2. CASE \E a \in done : final[a] = g
      <4>1. PICK a \in ToSet(Batch) : final[a] = g
        BY <3>2
      <4>2. a \in Artifacts /\ g = state[a].recipe
        BY <2>1, <4>1, BatchedFile DEF Written
      <4> QED
        BY <4>2 DEF IInv, FilesInv
    <3>3. CASE ~\E a \in done : final[a] = g
      <4>1. fsyncs[g] > 0
        BY <2>2, <2>3, <3>1, <3>3
      <4> QED
        BY <1>1, <4>1 DEF SyncInv
    <3> QED
      BY <3>2, <3>3
  <2> QED
    BY <2>1, <2>3 DEF SyncInv
<1>9. CASE EnableVerity
  <2>1. PICK a \in eligible :
          /\ state' = [state EXCEPT ![a].enabled = TRUE]
          /\ eligible' = eligible \ {a}
    BY <1>9 DEF EnableVerity
  <2>2. /\ pc = "verity" /\ pc' = "verity" /\ UNCHANGED <<fsyncs, group, outcome>>
    BY <1>9 DEF EnableVerity, endVars
  <2>3. a \in Artifacts /\ outcome = "running"
    BY <1>1, <2>2 DEF TypeOK, LoopInv
  <2>4. Written' = Written /\ \A b \in Artifacts : state'[b].recipe = state[b].recipe
    BY <1>1, <1>9, EntriesKept
  <2>5. \A b \in Artifacts : /\ state'[b].passes = state[b].passes
                             /\ state'[b].enabled <=> state[b].enabled \/ b = a
    BY <1>1, <2>1, <2>3 DEF TypeOK
  <2>6. \A b \in Artifacts : Due(b)' <=> Due(b)
    BY <2>5 DEF Due
  <2>7. Written \subseteq Artifacts
    BY DEF Written
  <2>8. \A b \in Written : Due(b) <=> state[b].enabled \/ b \in eligible
    BY <1>1, <2>3 DEF SyncInv
  <2>9. \A b \in Written : Due(b)' <=> state'[b].enabled \/ b \in eligible'
    BY <2>1, <2>5, <2>6, <2>7, <2>8
  <2>10. \A b \in Written : state'[b].passes = fsyncs'[state'[b].recipe]
    BY <1>1, <2>2, <2>3, <2>4, <2>5, <2>7 DEF SyncInv
  <2>11. ~Unsynced /\ ~Unsynced'
    BY <2>2 DEF Unsynced
  <2> QED
    BY <1>1, <2>2, <2>4, <2>9, <2>10, <2>11 DEF SyncInv
<1> QED
  BY <1>2, <1>3, <1>4, <1>5, <1>6, <1>7, <1>8, <1>9 DEF Next

\* The label is set when the loop ends, and on return only after damage.
LEMMA LoopInvStep == IInv /\ Next => LoopInv'
<1> SUFFICES ASSUME IInv, Next PROVE LoopInv'
  OBVIOUS
<1>1. TypeOK /\ LoopInv
  BY DEF IInv
<1> USE <1>1 DEF LoopInv, OnlyDamageReported, fileVars, summaryVars, endVars
<1>2. CASE BeginGroup
  <2>1. PICK a \in Artifacts :
          held' = IF state[a].recipe # 0
                  THEN [file |-> final[a], recipe |-> state[a].recipe]
                  ELSE NotHeld
    BY <1>2 DEF BeginGroup
  <2>2. final[a] = state[a].recipe
    BY <1>2, FileOfEntry DEF BeginGroup
  <2>3. held'.file = held'.recipe
    BY <2>1, <2>2 DEF NotHeld, NoFile
  <2>4. group' = group + 1 /\ group \in Nat
    BY <1>2 DEF BeginGroup, TypeOK
  <2> QED
    BY <1>2, <2>3, <2>4 DEF BeginGroup, TypeOK
<1>3. CASE HoldRaises \/ VerifyRaises \/ SyncRaises
  BY <1>3 DEF HoldRaises, VerifyRaises, SyncRaises, Escapes, TypeOK
<1>4. CASE LoopEnds \/ GroupDone \/ Finally \/ Damage \/ Over
  BY <1>4 DEF LoopEnds, GroupDone, Finally, Damage, Over, vars, TypeOK
<1>5. CASE WriteTmp \/ RenameBackup \/ RenameFinal \/ UnlinkBackup \/ UpdateState
  BY <1>5 DEF WriteTmp, RenameBackup, RenameFinal, UnlinkBackup, UpdateState, TypeOK
<1>6. CASE WriterDies \/ ReplaceRaises
  BY <1>6 DEF WriterDies, ReplaceRaises, LabelAndRaise, TypeOK
<1>7. CASE VerifyHeld
  BY <1>7 DEF VerifyHeld, Corrupt, NotHeld, NoFile, TypeOK
<1>8. CASE VerifyPath
  <2>1. final[artifact] = group
    BY <1>8 DEF VerifyPath, IInv, StageInv
  <2> QED
    BY <1>8, <2>1 DEF VerifyPath, Corrupt, TypeOK
<1>9. CASE FsyncBatchOnce \/ FsyncRaises \/ EnableVerity \/ EnableVerityRaises
  BY <1>9 DEF FsyncBatchOnce, FsyncRaises, EnableVerity, EnableVerityRaises,
     Escapes, TypeOK
<1> QED
  BY <1>2, <1>3, <1>4, <1>5, <1>6, <1>7, <1>8, <1>9 DEF Next

-----------------------------------------------------------------------------
(* The theorems.                                                           *)

\* The loop starts with nothing written, noted or enabled.
LEMMA InitIInv == Init => IInv
<1> SUFFICES ASSUME Init PROVE IInv
  OBVIOUS
<1>1. ToSet(<<>>) = {} /\ Cardinality({}) = 0
  BY FS_EmptySet DEF ToSet
<1>2. /\ Groups \in Nat /\ 0 \in 0..Groups
      /\ \A a \in Artifacts : final[a] = 0 /\ state[a] = NoState
      /\ \A g \in Gens : fsyncs[g] = 0
  BY PressureAssumption DEF Init, NoFile
<1>3. \A a \in Artifacts : state[a].recipe = 0 /\ state[a].passes = 0
  BY <1>2 DEF NoState
<1>4. Written = {}
  BY <1>3 DEF Written
<1>5. TypeOK
  <2>1. NoState \in [recipe: 0..Groups, passes: 0..Groups, enabled: BOOLEAN]
    BY <1>2 DEF NoState
  <2>2. NotHeld \in [file: Gens \cup {NoFile}, recipe: 0..Groups]
    BY <1>2 DEF NotHeld
  <2>3. known \in Seq(Artifacts)
    BY DEF Init
  <2> QED
    BY <1>2, <2>1, <2>2, <2>3 DEF Init, TypeOK
<1>6. StageInv
  BY <1>2, <1>3 DEF Init, StageInv
<1>7. FilesInv
  BY <1>2, <1>3, <1>4 DEF Init, FilesInv
<1>8. KnownInv
  BY <1>1, <1>4 DEF Init, KnownInv
<1>9. PassInv
  BY <1>2, <1>3, <1>4 DEF Init, PassInv, Unsynced
<1>10. VerityInv
  BY <1>1, <1>4 DEF Init, VerityInv, VerityAccounted
<1>12. SyncInv
  BY <1>2, <1>4 DEF Init, SyncInv
<1>11. LoopInv
  BY <1>2 DEF Init, LoopInv, OnlyDamageReported, NotHeld, NoFile
<1> QED
  BY <1>5, <1>6, <1>7, <1>8, <1>9, <1>10, <1>11, <1>12 DEF IInv

\* Every step keeps the invariant.
LEMMA StepIInv == IInv /\ [Next]_vars => IInv'
<1> SUFFICES ASSUME IInv, [Next]_vars PROVE IInv'
  OBVIOUS
<1>1. CASE Next
  BY <1>1, TypeOKStep, StageInvStep, FilesInvStep, KnownInvStep, PassInvStep,
     VerityInvStep, SyncInvStep, LoopInvStep DEF IInv
<1>2. CASE UNCHANGED vars
  <2> USE <1>2 DEF vars, fileVars, summaryVars, endVars
  <2>1. Written' = Written /\ Unsynced' = Unsynced
    BY DEF Written, Unsynced
  <2>2. TypeOK' /\ StageInv' /\ KnownInv'
    BY <2>1 DEF IInv, TypeOK, StageInv, KnownInv
  <2>3. FilesInv' /\ PassInv'
    BY <2>1 DEF IInv, FilesInv, PassInv
  <2>4. VerityInv' /\ LoopInv'
    BY <2>1 DEF IInv, VerityInv, VerityAccounted, LoopInv, OnlyDamageReported
  <2>5. SyncInv'
    BY SyncKept DEF IInv, Unsynced
  <2> QED
    BY <2>2, <2>3, <2>4, <2>5 DEF IInv
<1> QED
  BY <1>1, <1>2

\* IInv holds throughout.
LEMMA ArtifactInductive == Spec => []IInv
BY InitIInv, StepIInv, PTL DEF Spec

\* The invariant says what ArtifactInv says.
LEMMA IInvArtifact == IInv => ArtifactInv
<1> SUFFICES ASSUME IInv PROVE ArtifactInv
  OBVIOUS
<1>1. ArtifactNeverLost
  <2> SUFFICES ASSUME NEW a \in Artifacts, state[a].recipe # 0
               PROVE  \E g \in whole : /\ g >= state[a].recipe
                                       /\ g = final[a] \/ (a = artifact /\ g = backup)
    BY DEF ArtifactNeverLost
  <2>1. CASE a = artifact
    BY <2>1, ArtifactKept
  <2>2. CASE a # artifact
    <3>1. /\ final[a] = state[a].recipe /\ state[a].recipe \in whole
          /\ state[a].recipe \in Nat
      BY <2>2 DEF IInv, TypeOK, FilesInv, Written
    <3> QED
      BY <3>1
  <2> QED
    BY <2>1, <2>2
<1>2. StateDescribesFiles
  BY FileOfEntry DEF IInv, FilesInv, StateDescribesFiles
<1>3. VerityOnlyAfterPasses /\ VerityAccounted
  BY DEF IInv, VerityInv, VerityOnlyAfterPasses
<1> QED
  BY <1>1, <1>2, <1>3 DEF IInv, ArtifactInv

\* No artifact is lost, entries describe files, verity goes to synced files and is
\* counted, whatever raises (run_inline_artifact_pressure).
THEOREM ArtifactSafe == Spec => []ArtifactInv
BY ArtifactInductive, IInvArtifact, PTL

\* A batch has its focus first and each path once, as many as there may be.
LEMMA IInvBatch == IInv => BatchIsFull
<1> SUFFICES ASSUME IInv, pc = "fsync"
             PROVE  /\ FullBatch(Batch, known, FsyncWorkerCount, FsyncBatchWidth)
                    /\ Distinct(Batch)
                    /\ Batch # <<>> => Batch[1] = artifact
  BY DEF BatchIsFull, BatchSize, FullBatch, Distinct
<1> QED
  BY BatchWritten DEF IInv, Leads

\* Between groups nothing is eligible, so what is due has fs-verity.
LEMMA IInvVerity == IInv => VerityFollowsSyncs
<1> SUFFICES ASSUME IInv, pc = "group", NEW a \in Artifacts, final[a] # NoFile
             PROVE  final[a] \in verity <=> /\ a \in Candidates
                                            /\ fsyncs[final[a]] > 0
                                            /\ fsyncs[final[a]] >= MinFsyncPasses
  BY DEF VerityFollowsSyncs
<1>1. final[a] = state[a].recipe
  BY FileOfEntry
<1>2. a \in Written
  BY <1>1 DEF Written, NoFile
<1>3. outcome = "running" /\ eligible = {}
  BY DEF IInv, LoopInv, SyncInv
<1>4. state[a].passes = fsyncs[final[a]] /\ (Due(a) <=> state[a].enabled)
  BY <1>1, <1>2, <1>3 DEF IInv, SyncInv
<1>5. state[a].enabled <=> final[a] \in verity
  BY <1>1, <1>2, <1>3 DEF IInv, VerityInv
<1> QED
  BY <1>4, <1>5 DEF Due

\* Batches of distinct paths, and fs-verity for the files that enough of them have
\* synced and for no others, whatever was replaced and whatever raises
\* (plan_fsync_batch, advance_verity_fsync_batch).
THEOREM SyncsReachTheirFiles == Spec => []SyncsReachFiles
<1>1. IInv => SyncsReachFiles
  BY IInvBatch, IInvVerity DEF SyncsReachFiles
<1> QED
  BY <1>1, ArtifactInductive, PTL

\* A returned summary with the label means that the file system did damage a file
\* (lines 680-689, 734-748).
THEOREM ReportsDamageOnly == Spec => []OnlyDamageReported
<1>1. IInv => OnlyDamageReported
  BY DEF IInv, LoopInv
<1> QED
  BY <1>1, ArtifactInductive, PTL
=============================================================================
