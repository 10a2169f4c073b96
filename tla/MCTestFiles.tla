----------------------------- MODULE MCTestFiles -----------------------------
(* The machine and the files of the F2FS tests, each on its own: the settings that the  *)
(* retry race changes and puts back (RaceSettings), files filled with patterns and      *)
(* judged by them (PatternFiles), and files written through mappings (VdexWriter).      *)
EXTENDS RaceSettings, VdexWriter

VARIABLES test, img

testVars == <<test, vars, img, vd>>

EveryForm == {"bytes", "ratio"} \X {"bytes", "ratio"}
-----------------------------------------------------------------------------
Token == <<1, 2, 3>>
Config(mode, chunk, direct) ==
  [mode |-> mode, token |-> Token, seed |-> 1, chunk |-> chunk, direct |-> direct]
Mod251(seed, chunk) ==
  [mode |-> "mod251", token |-> <<>>, seed |-> seed, chunk |-> chunk, direct |-> FALSE]

\* The matrix of rw_test.py; the mode "repeat" where its region begins with the token.
Shapes ==
  {[style |-> "overwrite", offset |-> o, size |-> n] : o \in {0, 1, 3}, n \in {0, 2, 4}}
  \cup {[style |-> "append", offset |-> 0, size |-> n] : n \in {2, 4}}
Aligned(c) == (IF c.style = "append" THEN c.baselineLen ELSE c.offset) % Len(Token) = 0
MatrixCases ==
  {c \in {[program |-> "matrix", kind |-> k, baselineLen |-> b, style |-> s.style, offset |-> s.offset,
           size |-> s.size, config |-> g] :
            k \in {"existing_a", "hole"}, b \in {0, 3, 4}, s \in Shapes,
            g \in {Config(m, n, n = 2) : m \in {"filepos", "counter", "repeat"}, n \in {2, 3, 9}}} :
     c.config.mode = "repeat" => Aligned(c)}

RegionCases ==
  {[program |-> "region", offset |-> o, size |-> n, readback |-> r, config |-> Config(m, 2, d)] :
     o \in {0, 3}, n \in {0, 4, 5}, r \in {"stream", "direct"}, m \in {"filepos", "counter", "repeat"},
     d \in BOOLEAN}

GroupCases ==
  {[program |-> "groups", size |-> 5, front |-> f, tail |-> t, chunk |-> n] :
     f \in {1, 3}, t \in {2, 3}, n \in {2, 5}}

\* Writes over a file, whole or by a buffer that faults; a new file; one that grows.
Overwrite(fresh, faulting, size, offset, length, chunk) ==
  [program |-> "over", fresh |-> fresh, faulting |-> faulting, size |-> size, offset |-> offset,
   length |-> length, chunk |-> chunk, baseline |-> Mod251(1, chunk), config |-> Mod251(3, chunk)]
OverCases ==
  {Overwrite(FALSE, f, 5, o, n, k) : f \in BOOLEAN, o \in 0..2, n \in {2, 3}, k \in {2, 3}}
  \cup {Overwrite(TRUE, TRUE, 0, 0, n, 2) : n \in {2, 3}} \cup {Overwrite(FALSE, FALSE, 3, 3, n, 2) : n \in {2, 3}}

Files ==
  INSTANCE PatternFiles
    WITH Cases <- MatrixCases \cup RegionCases \cup GroupCases \cup OverCases,
         Loops <- 2, Modulus <- 7, Cycle <- 5, HalfWindow <- 1
-----------------------------------------------------------------------------
\* The oat writer's table has an entry for every blob; the sizes of the other are aligned.
MCVdexes ==
  {[writer |-> "oat", table |-> 2 * Len(b), blobs |-> b, extra |-> e] :
     b \in {<<>>, <<1>>, <<2>>, <<3, 2>>, <<1, 4, 3>>}, e \in {0, 1, 3, 6}}
  \cup {[writer |-> "test", table |-> t, blobs |-> <<b, b>>, extra |-> e] :
          t \in {2, 4}, b \in {2, 4, 6}, e \in {1, 2, 6}}

\* The sizes are of the kind the theorem about the writers is for.
ASSUME SizesAssumption == VdexesFit
-----------------------------------------------------------------------------
\* A machine on which the settings are not touched.
NoSettings ==
  /\ Init
  /\ vm = [n \in VmNames |-> CASE n = "dirty_bytes" -> 4 [] n = "dirty_background_bytes" -> 1
                               [] n \in {"dirty_ratio", "dirty_background_ratio"} -> 0 [] OTHER -> Centisecs]
NoFile == img = [pc |-> "none"]
NoVdex ==
  vd = [case |-> CHOOSE c \in Vdexes : TRUE, todo |-> <<>>, mem |-> <<>>, disk |-> <<>>, dirty |-> {},
        verdict |-> "none"]

TestInit ==
  \/ test = "settings" /\ Init /\ NoFile /\ NoVdex
  \/ test = "files"    /\ NoSettings /\ Files!FilesInit /\ NoVdex
  \/ test = "vdex"     /\ NoSettings /\ NoFile /\ VdexInit

Ended ==
  \/ test = "files" /\ img.pc = "over"
  \/ test = "vdex" /\ vd.verdict # "none"

TestNext ==
  /\ test' = test
  /\ \/ test = "settings" /\ Next /\ UNCHANGED <<img, vd>>
     \/ test = "files" /\ Files!FilesNext /\ UNCHANGED <<vars, vd>>
     \/ test = "vdex" /\ VdexNext /\ UNCHANGED <<vars, img>>
     \/ Ended /\ UNCHANGED <<vars, img, vd>>

TestSpec == TestInit /\ [][TestNext]_testVars

\* utils/verify.py and rw_test.py: a file is passed only if every byte is the one last written
\* there, and blamed, at the right place, only when the file system has spoilt it.
FilesJudged == test = "files" => Files!FilesTypeOK /\ Files!FilesJudged
=============================================================================
