------------------------------- MODULE LoopMount -------------------------------
(***************************************************************************)
(* utils/loop_mount.py as the cases use it: an image file, a loop device   *)
(* attached to it and a file system mounted from that, which threads that  *)
(* were not joined may still use; in between the retry race unmounts and   *)
(* mounts again.  Some cases set up within the try block whose finally     *)
(* cleans up, others before it; the image is kept if a case asks for it;   *)
(* and an earlier case may have left its image and its mount.              *)
(*                                                                         *)
(* The kernel is external: umount fails while the file system is in use,   *)
(* umount -l takes it from its place and ends it with the last user, and a *)
(* device that is detached while a file system is on it goes with that.    *)
(*                                                                         *)
(* A definition named X_Y is a deliberately wrong variant of X, kept to    *)
(* see which property notices.                                             *)
(***************************************************************************)
EXTENDS Integers

CONSTANTS
  Users,     \* threads that use the mounted file system
  Retries    \* of unmount, as verification and cleanup call it

VARIABLE lm

MountInit ==
  \E guarded, keep, stale, found \in BOOLEAN :
    lm = [pc |-> "check", guarded |-> guarded, keep |-> keep, found |-> found,
          image |-> IF stale THEN "old" ELSE "none", device |-> IF found THEN "attached" ELSE "none",
          loopdev |-> FALSE, mounted |-> found, lazy |-> FALSE, users |-> {}, tries |-> 0,
          outcome |-> "running"]

InUse(m) == m.users # {}
\* The end of a file system that is nowhere mounted, with its last user.
Settled(m) ==
  IF m.lazy /\ ~InUse(m)
  THEN [m EXCEPT !.lazy = FALSE, !.device = IF @ = "detaching" THEN "none" ELSE @]
  ELSE m
Unmounted(m) == [m EXCEPT !.mounted = FALSE]
Raised(m) == [m EXCEPT !.outcome = "failed", !.pc = IF m.guarded THEN "clean" ELSE "left"]
At(p) == lm.pc = p
To(m, p) == [m EXCEPT !.pc = p]
-----------------------------------------------------------------------------
(* setup                                                                     *)
\* The place must be free; the image is made anew.
MakeImage ==
  /\ At("check")
  /\ lm' = IF lm.mounted THEN Raised(lm) ELSE To([lm EXCEPT !.image = "new"], "attach")

Attach ==
  /\ At("attach")
  /\ \/ lm' = To([lm EXCEPT !.device = "attached", !.loopdev = TRUE], "mkfs")
     \/ lm' = Raised(lm)
Mkfs == At("mkfs") /\ lm' \in {To(lm, "mount"), Raised(lm)}
MountIt ==
  /\ At("mount")
  /\ lm' \in {To([lm EXCEPT !.mounted = TRUE], "body"), Raised(lm)}
-----------------------------------------------------------------------------
(* the case                                                                  *)
Use(u) == At("body") /\ u \notin lm.users /\ lm' = [lm EXCEPT !.users = @ \cup {u}]
\* A thread that was not joined in time goes on until it closes its files.
Close(u) == u \in lm.users /\ lm' = Settled([lm EXCEPT !.users = @ \ {u}])

\* The case passes, fails, fails before its try, or goes on to verify after a remount.
EndBody ==
  /\ At("body")
  /\ lm' \in {To([lm EXCEPT !.outcome = "passed"], "clean"), To([lm EXCEPT !.outcome = "failed"], "clean"),
              Raised(lm), To([lm EXCEPT !.tries = Retries.verify], "unmount")}

\* unmount: each turn looks whether it is mounted, and tries; the turns are counted down.
Unmount(p, ok, failed) ==
  /\ At(p)
  /\ lm' = IF ~lm.mounted THEN To(lm, ok)
           ELSE IF lm.tries = 0 THEN failed
           ELSE IF InUse(lm) THEN [lm EXCEPT !.tries = @ - 1]
           ELSE To(Unmounted(lm), ok)
Remount == Unmount("unmount", "again", To([lm EXCEPT !.outcome = "failed"], "clean"))
MountExisting ==
  /\ At("again")
  /\ lm' \in {To([lm EXCEPT !.mounted = TRUE, !.outcome = "passed"], "clean"),
              To([lm EXCEPT !.outcome = "failed"], "clean")}
-----------------------------------------------------------------------------
(* cleanup                                                                   *)
CleanBegin == At("clean") /\ lm' = To([lm EXCEPT !.tries = Retries.cleanup], "cleanUnmount")
CleanUnmount_Stays == Unmount("cleanUnmount", "detach", To(lm, "detach"))
CleanUnmount ==
  Unmount("cleanUnmount", "detach", To(Settled([Unmounted(lm) EXCEPT !.lazy = TRUE]), "detach"))
Detach ==
  /\ At("detach")
  /\ lm' = To(IF ~lm.loopdev THEN lm
              ELSE [lm EXCEPT !.device = IF lm.mounted \/ lm.lazy THEN "detaching" ELSE "none"], "image")
RemoveImage ==
  /\ At("image")
  /\ lm' = To(IF lm.keep /\ lm.outcome # "passed" THEN lm ELSE [lm EXCEPT !.image = "none"], "cleaned")
-----------------------------------------------------------------------------
MountNext ==
  \/ MakeImage \/ Attach \/ Mkfs \/ MountIt \/ EndBody \/ Remount \/ MountExisting
  \/ CleanBegin \/ CleanUnmount \/ Detach \/ RemoveImage
  \/ \E u \in Users : Use(u) \/ Close(u)

MountTypeOK ==
  /\ lm.pc \in {"check", "attach", "mkfs", "mount", "body", "unmount", "again", "clean",
                "cleanUnmount", "detach", "image", "cleaned", "left"}
  /\ lm.image \in {"none", "old", "new"} /\ lm.device \in {"none", "attached", "detaching"}
  /\ lm.users \subseteq Users /\ lm.tries \in 0..Retries.verify + Retries.cleanup
  /\ lm.outcome \in {"running", "passed", "failed"}
  /\ lm.guarded \in BOOLEAN /\ lm.keep \in BOOLEAN /\ lm.found \in BOOLEAN /\ lm.loopdev \in BOOLEAN
  /\ lm.mounted \in BOOLEAN /\ lm.lazy \in BOOLEAN

\* After the clean-up nothing is mounted in the place; with the last user the file system and
\* the device are gone too, unless they were found there; the image stays only if the case
\* failed and asked for it; and what is in use is never on a device that is gone.
MountReleased ==
  /\ lm.pc = "cleaned" =>
       /\ ~lm.mounted
       /\ ~InUse(lm) /\ ~lm.found => lm.device = "none" /\ ~lm.lazy
       /\ lm.image # "none" => lm.keep /\ lm.outcome = "failed"
  /\ InUse(lm) => (lm.mounted \/ lm.lazy) /\ lm.device # "none"
=============================================================================
