---------------------------- MODULE LeafPlacement ----------------------------
(***************************************************************************)
(* The parent's side of the placement in a cgroup leaf: the verdict a held *)
(* child is waited for (take_placement), and the exchange's abandonment by *)
(* a failed spawn (abandon_before_verdict), which answers for the child a  *)
(* failed tokio spawn no longer holds. A spawn that fails with no leaf has  *)
(* nothing to abandon and only reports.                                     *)
(***************************************************************************)
EXTENDS SpawnTeardown

VARIABLE ending     \* what end_child made of the child: Ended or Unkillable

Reported == said \cap {"Placed", "WriteFailed"} # {}
Entered == "Placed" \in said

(* What names the child to the abandonment: the handle its intent carried,  *)
(* or the pidfd the handshake left.                                          *)
Named == IF handle = "none" /\ left THEN "pidfd" ELSE handle

(* Mutant: the abandonment is not told of a front. *)
AbandonsFrontUntold == FALSE

(* Drop passes neither the front nor a pidfd: only tokio's failure does. *)
AbandonsFront == scene.front /\ scene.rt = "tokio" /\ answer # "Panic"
LeftToLeaf == AbandonsFront /\ HasLeaf

-----------------------------------------------------------------------------
(* The end of a failed spawn                                               *)

EndedChild ==
    /\ ~LeftToLeaf
    /\ answer \in {"NotStartedWithChild", "MayHaveStarted"}
    /\ fate \in {"Reaped", "Killed", "Gone"}

(* The warnings of the abandonment, of abandoned_after_handshake and of the *)
(* leaf's Drop.                                                             *)
Warns(abandoned) ==
    \/ ending = "Unkillable"
    \/ abandoned \in {"LeftUnreaped", "Unaccounted", "Unplaced"}
    \/ /\ scene.rt = "tokio" /\ answer # "Panic"
       /\ abandoned \in {"MaybeUnreaped", "MaybeUnreachable"}
       /\ ~EndedChild

FrontChildFate(abandoned) ==
    CASE abandoned = "Reaped"                              -> "Reaped"
      [] abandoned \in {"LeftUnreaped", "OutOfReach", "MaybeUnreachable"} -> "Running"
      [] OTHER                                             -> "Unknown"

(* abandoned_after_handshake: only a front left to the leaf has its fate    *)
(* replaced.                                                                *)
Finish(abandoned) ==
    /\ at' = "done"
    /\ told' = (told \/ Warns(abandoned))
    /\ fate' = IF LeftToLeaf /\ answer = "MayHaveStarted" THEN FrontChildFate(abandoned) ELSE fate
    /\ ending' = "none" /\ left' = FALSE /\ reached' = FALSE /\ ret' = "none"
    /\ UNCHANGED <<scene, channel, spawned, watch, answer, helperVars, delivered>>

Goes(next) ==
    /\ at' = next
    /\ UNCHANGED <<scene, channel, spawned, watch, answer, helperVars, fate, left, delivered>>

ChildAsIs == UNCHANGED process
Reaps(by) == Collected(by) /\ UNCHANGED <<doomed, errno, ran, inLeaf>>
OnlyDooms == UNCHANGED <<kid, reaper, num, errno, ran, inLeaf>>

-----------------------------------------------------------------------------
(* abandon_before_verdict                                                  *)

Abandon ==
    /\ at = "abandon" /\ ChildAsIs /\ UNCHANGED <<said, handle, bg>>
    /\ IF ~HasLeaf
       THEN Finish("MaybeUnreachable") /\ UNCHANGED exchange
       ELSE /\ exchange' = "abandoned"
            /\ CASE "intent" \notin said /\ Named = "pidfd" ->
                      Goes("peekdown") /\ ret' = "ended" /\ UNCHANGED <<told, reached, ending>>
                 [] "intent" \notin said /\ Named # "pidfd" -> Finish("MaybeUnreaped")
                 [] "intent" \in said /\ AbandonsFront /\ Reported ->
                      Goes("frontkill") /\ UNCHANGED <<told, reached, ret, ending>>
                 [] OTHER -> Goes("endlook") /\ UNCHANGED <<told, reached, ret, ending>>

(* The teardown of a child that never named itself is over. *)
EndedUnnamed ==
    /\ at = "ended" /\ ChildAsIs /\ UNCHANGED <<leafChannel, bg>>
    /\ Finish("Ended")

(* end_child: nothing goes to a child no handle names, or one already       *)
(* reaped; one that reported a failed write may have run outside the leaf,  *)
(* and its group is killed first.                                           *)
EndLook ==
    /\ at = "endlook" /\ OnlyDooms /\ UNCHANGED <<leafChannel, told, bg, reached, ret>>
    /\ IF Named # "none" /\ kid # "reaped"
       THEN /\ Goes("endkill") /\ UNCHANGED ending
            /\ IF "WriteFailed" \in said THEN GroupKill ELSE UNCHANGED doomed
       ELSE /\ Goes("leafkill") /\ UNCHANGED doomed
            /\ ending' = IF Named = "none" THEN "Unkillable" ELSE "Ended"

EndKill ==
    /\ at = "endkill" /\ OnlyDooms /\ UNCHANGED <<leafChannel, told, reached, ret>>
    /\ \/ KillDelivered /\ Goes("endwait") /\ UNCHANGED <<bg, ending>>
       \/ KillMisses /\ Goes("leafkill") /\ ending' = "Ended" /\ UNCHANGED bg
       \/ KillRefused /\ Goes("leafkill") /\ ending' = "Unkillable" /\ bg' = "cosca"

(* The wait goes through the pidfd, or by number for a child named by its   *)
(* /proc directory: then it can be a stranger's exit it takes.              *)
WaitsOnStranger == Named = "proc_dir" /\ num = "taken"

EndWait ==
    /\ at = "endwait" /\ Dead
    /\ IF kid = "zombie" THEN Reaps("cosca") ELSE ~WaitsOnStranger /\ ChildAsIs
    /\ Goes("leafkill") /\ ending' = "Ended"
    /\ UNCHANGED <<leafChannel, told, bg, reached, ret>>

EndWaitStranger ==
    /\ at = "endwait" /\ WaitsOnStranger /\ ChildAsIs
    /\ Goes("leafkill") /\ ending' = "Ended"
    /\ UNCHANGED <<leafChannel, told, bg, reached, ret>>

(* cgroup.kill ends what the leaf holds; the kill can fail, and a program   *)
(* can have moved out of it.                                                *)
KilledThrough(hit) == doomed' = IF hit /\ Alive /\ doomed = "no" THEN "leaf" ELSE doomed

(* The leaf is killed through only if the child entered it. *)
LeafKill ==
    /\ at = "leafkill" /\ OnlyDooms /\ UNCHANGED <<leafChannel, bg>>
    /\ \E killed \in IF Entered THEN BOOLEAN ELSE {FALSE} :
         /\ \E hit \in {FALSE, killed} : KilledThrough(hit)
         /\ Finish(IF ending = "Ended" \/ killed THEN "Ended" ELSE "OutOfReach")

-----------------------------------------------------------------------------
(* abandon_front, end_front: the leaf's kill alone, then the answer         *)

FrontKill ==
    /\ at = "frontkill" /\ OnlyDooms /\ UNCHANGED <<leafChannel, told, bg, ret, ending>>
    /\ reached' \in IF Entered /\ Alive THEN BOOLEAN ELSE {FALSE}
    /\ KilledThrough(reached')
    /\ Goes("frontlook")

FrontLook ==
    /\ at = "frontlook" /\ ChildAsIs /\ UNCHANGED <<leafChannel, bg>>
    /\ IF Named = "none" \/ kid = "reaped"
       THEN Finish(IF Named = "none" THEN "Unaccounted" ELSE "Ended")
       ELSE Goes("frontprobe") /\ UNCHANGED <<told, reached, ret, ending>>

(* One look that reaps an exited front, then the front's place as read.     *)
FrontProbe ==
    /\ at = "frontprobe" /\ UNCHANGED <<leafChannel, bg>>
    /\ CASE kid = "zombie" -> Reaps("cosca") /\ Finish("Reaped")
         [] kid = "reaped" /\ ~WaitsOnStranger -> ChildAsIs /\ Finish("Ended")
         [] OTHER ->
              /\ ChildAsIs
              /\ \/ reached /\ Goes("frontwait") /\ UNCHANGED <<told, reached, ret, ending>>
                 \/ ~reached /\ Finish("LeftUnreaped")
                 \/ Finish("Unplaced")

FrontWait ==
    /\ at = "frontwait" /\ Dead /\ UNCHANGED <<leafChannel, bg>>
    /\ IF kid = "zombie" THEN Reaps("cosca") ELSE ~WaitsOnStranger /\ ChildAsIs
    /\ Finish("Reaped")

FrontWaitStranger ==
    /\ at = "frontwait" /\ WaitsOnStranger /\ ChildAsIs /\ UNCHANGED <<leafChannel, bg>>
    /\ Finish("Reaped")

Abandonment == Abandon \/ EndedUnnamed \/ EndLook \/ EndKill \/ EndWait \/ LeafKill
               \/ FrontKill \/ FrontLook \/ FrontProbe \/ FrontWait

-----------------------------------------------------------------------------
(* take_placement: the wait for the child's report, its exit, or the close   *)
(* of every copy of its end. The verdict ends the exchange.                  *)
VerdictReady == Reported \/ Dead \/ kid = "program"

TakePlacement(next) ==
    /\ HasLeaf => VerdictReady
    /\ exchange' = IF HasLeaf THEN "decided" ELSE exchange
    /\ Goes(next)
    /\ ChildAsIs /\ UNCHANGED <<said, handle, told, bg, ending>>

(* kill_group_before_attach's condition, once the verdict is settled. *)
GroupIsContainment == scene.contain = "group" \/ (HasLeaf /\ ~Entered)
=============================================================================
