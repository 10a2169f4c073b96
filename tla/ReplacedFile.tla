----------------------------- MODULE ReplacedFile -----------------------------
(***************************************************************************)
(* What the file replacement of utils/odexlike_pc.py promises a reader: a  *)
(* name under which whole generations appear one after the other, with a   *)
(* gap in which the name is missing, and a mapping that keeps showing the  *)
(* generation it was opened on.  OdexRace implements this specification.   *)
(***************************************************************************)
EXTENDS Integers

CONSTANT Generations

VARIABLES shown,   \* generation under the name; 0: the name is missing
          newest,  \* last generation that was shown; 0: none
          held     \* generation the reader has mapped; 0: none

Init == shown = 0 /\ newest = 0 /\ held = 0

Hide ==
  /\ shown # 0
  /\ shown' = 0
  /\ UNCHANGED <<newest, held>>

\* Generations appear in order and none is skipped.
Show ==
  /\ shown = 0
  /\ newest < Generations
  /\ newest' = newest + 1
  /\ shown' = newest + 1
  /\ UNCHANGED held

Open ==
  /\ held = 0 /\ shown # 0
  /\ held' = shown
  /\ UNCHANGED <<shown, newest>>

Close ==
  /\ held # 0
  /\ held' = 0
  /\ UNCHANGED <<shown, newest>>

Next == Hide \/ Show \/ Open \/ Close

Spec == Init /\ [][Next]_<<shown, newest, held>>
=============================================================================
