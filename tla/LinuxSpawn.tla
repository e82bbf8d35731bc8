------------------------------ MODULE LinuxSpawn ------------------------------
(***************************************************************************)
(* A whole Linux spawn: the child (HeldChild), the handshake's two threads *)
(* (PidfdHandshake), the failed spawn's teardown (SpawnTeardown) and the   *)
(* placement's verdict or abandonment (LeafPlacement), with the identity    *)
(* check and the attach that follow the handshake.                          *)
(***************************************************************************)
EXTENDS LeafPlacement

VARIABLE idOf       \* whose identity resolve_identity read: the child's or a stranger's

local == <<ending, idOf>>
vars == <<handshakeVars, upper, local>>

Init == ChildInit /\ HandshakeInit /\ TeardownInit /\ ending = "none" /\ idOf = "none"

-----------------------------------------------------------------------------
(* Both spawns after the handshake                                         *)

(* resolve_identity: the read goes by number, then the pidfd is peeked: a   *)
(* child reaped by then is Gone, whomever the read named. An identity that  *)
(* is not found fails the spawn, after the verdict is settled.              *)
ReadIdentity ==
    /\ at = "identity" /\ ChildAsIs /\ UNCHANGED <<leafChannel, fateVars, ending>>
    /\ UNCHANGED <<scene, channel, spawned, watch, helperVars, left, delivered, reached, ret>>
    /\ \/ num # "free" /\ at' = "idpeek" /\ idOf' = num /\ UNCHANGED answer
       \* Nobody's number, or a read that failed.
       \/ at' = "settle" /\ answer' = "MayHaveStarted" /\ UNCHANGED idOf

(* Mutant: the read is not checked against the pidfd. *)
CheckIdentityNot ==
    /\ at = "idpeek" /\ ChildAsIs /\ UNCHANGED <<leafChannel, fateVars, local>>
    /\ UNCHANGED <<scene, channel, spawned, watch, helperVars, left, delivered, reached, ret>>
    /\ at' = "attach" /\ UNCHANGED answer

CheckIdentity ==
    /\ at = "idpeek" /\ ChildAsIs /\ UNCHANGED <<leafChannel, fateVars, local>>
    /\ UNCHANGED <<scene, channel, spawned, watch, helperVars, left, delivered, reached, ret>>
    /\ IF kid = "reaped" THEN at' = "settle" /\ answer' = "MayHaveStarted"
                         ELSE at' = "attach" /\ UNCHANGED answer

(* attach takes the verdict: the leaf if the child is in it, else the group *)
(* it leads.                                                                 *)
Attach ==
    /\ at = "attach"
    /\ HasLeaf => VerdictReady
    /\ exchange' = IF HasLeaf THEN "decided" ELSE exchange
    /\ at' = "done"
    /\ answer' = IF Entered THEN "CgroupV2" ELSE "Uncaged"
    /\ UNCHANGED <<scene, process, channel, said, handle, spawned, watch, helperVars, upper, local>>

Settle ==
    /\ at = "settle"
    /\ TakePlacement(IF scene.front THEN "dropleaf" ELSE "groupkill")
    /\ ret' = IF scene.front THEN "done" ELSE "dropleaf"
    /\ UNCHANGED <<reached, idOf>>

(* kill_group_before_teardown, then the teardown; not for a front. *)
KillGroup ==
    /\ at = "groupkill" /\ OnlyDooms
    /\ IF GroupIsContainment THEN GroupKill ELSE UNCHANGED doomed
    /\ Goes(IF scene.rt = "std" THEN "kill" ELSE "ownkill")
    /\ UNCHANGED <<leafChannel, told, bg, reached, ret, local>>

(* The leaf goes with `prepared`, killed through if the child entered it:   *)
(* before a front is looked at, and after any other child's teardown.       *)
DropLeaf ==
    /\ at = "dropleaf" /\ OnlyDooms
    /\ reached' \in IF Entered /\ Alive THEN BOOLEAN ELSE {FALSE}
    /\ KilledThrough(reached')
    /\ Goes(IF scene.front THEN "leave" ELSE "done")
    /\ UNCHANGED <<leafChannel, told, bg, ret, local>>

AfterHandshake == ReadIdentity \/ CheckIdentity \/ Attach \/ Settle \/ KillGroup \/ DropLeaf

(* reap_in_background's thread, and tokio's orphan queue. *)
BackgroundReaps ==
    /\ bg # "none" /\ at = "done" /\ kid = "zombie" /\ Collected(bg)
    /\ UNCHANGED <<scene, doomed, errno, ran, inLeaf, channel, leafChannel, runVars, helperVars,
                   upper, local>>

-----------------------------------------------------------------------------
ByItself == UNCHANGED <<upper, local>>
NoSpawner == UNCHANGED <<runVars, helperVars, upper, local>>

Child == ChildSteps /\ NoSpawner
ChildFailure == (RefusedPidfd \/ StepFails) /\ NoSpawner
Surroundings == Host /\ NoSpawner
HelperThread == Helper /\ ByItself
Spawner ==
    \/ Running /\ ByItself
    \/ Conclude /\ UNCHANGED local
    \/ Teardown /\ UNCHANGED local
    \/ Abandonment /\ UNCHANGED idOf
    \/ AfterHandshake
Mishap ==
    \/ (ForkCopiesStatus \/ StdFailsOnAStranger \/ StrangerExits \/ WatchFails) /\ ByItself
    \/ (EndWaitStranger \/ FrontWaitStranger) /\ UNCHANGED idOf

Next == Child \/ ChildFailure \/ Surroundings \/ HelperThread \/ Spawner \/ Mishap
        \/ BackgroundReaps

(* Both threads run, the child's hooks do, and a SIGKILL delivered kills.   *)
(* Nothing is assumed of the host, or of the program's own exit.            *)
Fairness ==
    /\ WF_vars(Child) /\ WF_vars(HelperThread) /\ WF_vars(Spawner)
    /\ WF_vars(DiesOfTheKill /\ NoSpawner)

Spec == Init /\ [][Next]_vars /\ Fairness

-----------------------------------------------------------------------------
Answered == at = "done"
NotStartedAnswers == {"NotStarted", "NotStartedWithChild", "NotStartedUnreaped"}

(* A failed spawn that says its program did not start is right for good: it *)
(* has not run by the answer and never runs after it.                        *)
NotStartedIsTrue == Answered /\ answer \in NotStartedAnswers => ~ran

CarriesFate == Answered /\ answer \in {"NotStartedWithChild", "MayHaveStarted"}
CannotPassItsHook == kid \in {"forked", "told"} /\ bothShut /\ ~go

(* Two Reaped answers are of a child another reaper collected: tokio's       *)
(* try_wait of a number taken since, and the abandonment's wait for a front  *)
(* that its leaf's kill reached. ChildFate::Reaped says "cosca collected the  *)
(* child's exit".                                                            *)
OthersReap ==
    \/ scene.rt = "tokio" /\ answer = "NotStartedWithChild" /\ num = "taken"
    \/ LeftToLeaf /\ answer = "MayHaveStarted" /\ doomed = "leaf"

(* A Gone answer overlooks a kill that is not the teardown's own: the        *)
(* group's before the teardown, and the leaf's before a front is looked at.  *)
(* ChildFate::Gone says "cosca delivered no kill".                           *)
KilledBefore ==
    IF scene.front THEN Entered /\ doomed = "leaf" ELSE GroupIsContainment /\ doomed = "signal"

(* The ChildFate a failure carries is right, now and later. A Reaped child    *)
(* was collected by the spawn, but for the two answers of OthersReap; a Gone  *)
(* one by somebody else or by std, and no kill reached it, but for those of   *)
(* KilledBefore; a Killed one is not collected by the spawn, and is dead,     *)
(* dying of a delivered kill, or held before a verdict that can only be an    *)
(* end of file. A failure that leaves a child unreaped, with nobody who reaps *)
(* it later, has warned of it.                                                *)
FateIsTrue ==
    /\ CarriesFate =>
          /\ fate = "Reaped" => kid = "reaped" /\ (reaper \in {"cosca", "tokio"} \/ OthersReap)
          /\ fate = "Gone" => reaper \in {"foreign", "std"} /\ (doomed = "no" \/ KilledBefore)
          /\ fate = "Killed" => /\ reaper # "cosca"
                                /\ Dead \/ doomed # "no" \/ CannotPassItsHook
    /\ Answered /\ answer \notin {"Held", "CgroupV2", "Uncaged", "Panic"} =>
          kid \in {"none", "reaped"} \/ bg # "none" \/ told

(* An elevation front that runs its program is sent no signal of its own,    *)
(* nor one of its group's, by a spawn that fails: its leaf's kill alone      *)
(* reaches it.                                                               *)
FrontSpared == scene.front /\ ran /\ answer # "Panic" => doomed # "signal"

(* What the placement exchange ends in is final. A child answered as caged   *)
(* is in the leaf; one answered as not caged never runs its program there;   *)
(* and one abandoned before its report never runs it at all.                 *)
PlacementIsFinal ==
    /\ answer = "CgroupV2" => inLeaf
    /\ answer = "Uncaged" /\ HasLeaf => ~(inLeaf /\ ran)
    /\ exchange = "abandoned" /\ ~Reported => ~ran

(* The identity an adopted child gets is its own, though it is read by       *)
(* number and the number can change hands before the read.                   *)
AdoptedIdentityIsOurs == answer \in {"CgroupV2", "Uncaged"} => idOf = "own"

(* A spawn answers, whatever dies, is reaped or copied around it, but for    *)
(* four waits that are on a stranger: one that took the child's number while *)
(* it runs, in the watch's poll, in std's wait for a failed child and in the *)
(* abandonment's for a child named by its /proc directory; and a fork that   *)
(* keeps std's status channel open, so that spawn() waits on a healthy child.*)
OnAStranger ==
    \/ at = "poll" /\ watch = "other"
    \/ at = "spawn" /\ "status" \in copy
    \/ at = "spawn" /\ errno /\ num = "taken"
    \/ at \in {"endwait", "frontwait"} /\ WaitsOnStranger
SpawnAnswers == []<>(Answered \/ OnAStranger)
=============================================================================
