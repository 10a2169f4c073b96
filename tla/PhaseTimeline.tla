---------------------------- MODULE PhaseTimeline ----------------------------
(***************************************************************************)
(* The condition variable by which the consumer of the odex-like race test *)
(* is steered into the middle of the producer's file replacement (class    *)
(* PhaseTimeline of utils/odexlike_pc.py).  The producer publishes pairs   *)
(* (generation, slot); the consumer blocks until a pair is reached.        *)
(*                                                                         *)
(* Every method holds the condition's lock for its whole body and every    *)
(* writer ends with notify_all, so no wakeup is lost: a blocked            *)
(* wait_for_at_least returns as soon as one of its three tests holds, and  *)
(* a waiting thread is one whose action is not enabled.  The phase name,   *)
(* had_old and the sequence number only reach the log and are left out.    *)
(*                                                                         *)
(* A definition named X_Y is a deliberately wrong variant of X, kept to    *)
(* see which property notices.                                             *)
(***************************************************************************)
EXTENDS Integers

VARIABLES tlGen,    \* _generation
          tlSlot,   \* _slot
          tlDone    \* _producer_done

tlVars == <<tlGen, tlSlot, tlDone>>

TimelineInit ==
  /\ tlGen = 0
  /\ tlSlot = -1
  /\ tlDone = FALSE

Publish(gen, slot) ==
  /\ tlGen' = gen
  /\ tlSlot' = slot
  /\ UNCHANGED tlDone

MarkDone ==
  /\ tlDone' = TRUE
  /\ UNCHANGED <<tlGen, tlSlot>>

\* The three tests under which wait_for_at_least(gen, slot) returns.
ReachedAtLeast_Later(gen, slot) ==
  tlGen > gen \/ (tlGen = gen /\ tlSlot > slot) \/ (tlDone /\ tlGen < gen)
ReachedAtLeast_AnySlot(gen, slot) == tlGen >= gen \/ tlDone
ReachedAtLeast(gen, slot) ==
  \/ tlGen > gen
  \/ tlGen = gen /\ tlSlot >= slot
  \/ tlDone /\ tlGen < gen

=============================================================================
