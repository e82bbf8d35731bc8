-------------------------- MODULE LinuxSpawnProofs --------------------------
(***************************************************************************)
(* A Linux spawn, for any scenes: an answer that says the program did not  *)
(* start is right for good (NotStartedIsTrue), so is the fate a failure     *)
(* carries (FateIsTrue), a front that runs is not signalled (FrontSpared),  *)
(* the placement's verdict is final (PlacementIsFinal) and the identity of  *)
(* an adopted child is its own (AdoptedIdentityIsOurs).                     *)
(***************************************************************************)
EXTENDS LinuxSpawn, TLAPS

(* Where the spawning thread is: up to the join, in the teardown through the *)
(* pidfd, and in the abandonment of a leaf's exchange.                       *)
Early == {"start", "fork", "spawn", "returned", "watch", "open", "peek", "poll", "join", "conclude"}
Down == {"peekdown", "kill", "refused", "wait"}
Failing == Down \cup {"unexecuted", "visible", "leave", "leavewait"}
Abandoning == {"ended", "endlook", "endkill", "endwait", "leafkill",
               "frontkill", "frontlook", "frontprobe", "frontwait"}
Deciding == {"groupkill", "ownkill", "ownrefused", "dropleaf"}

(* The child's report went out: Reported, member by member. *)
Spoke == "Placed" \in said \/ "WriteFailed" \in said

(* The number is the child's from the fork to the reap, a report over std's   *)
(* channel is a dead child's that never ran, and nothing past the hold        *)
(* happens without GO, which is the helper's last act.                        *)
ChildInv ==
  /\ scene.rt \in {"std", "tokio"}
  /\ kid \in BeforeExec \cup {"none", "program", "zombie", "reaped"}
  /\ num \in {"own", "free", "taken"}
  /\ num = "own" <=> kid \notin {"none", "reaped"}
  /\ num = "taken" => kid = "reaped"
  /\ errno => Dead /\ ~ran
  /\ ran => kid \in {"program", "zombie", "reaped"}
  /\ kid \in {"going", "named", "wrote", "ready", "program"} \/ ran \/ "intent" \in said => go
  /\ go => outcome = "Opened"
  /\ outcome # "none" \/ bothShut <=> helper = "done"
  /\ helper = "done" => outcome # "none" /\ bothShut
  /\ at \in {"start", "fork"} => kid = "none" /\ doomed = "no" /\ spawned = "none"
  /\ at = "start" => helper = "off"
  /\ at = "spawn" => kid # "none"

(* What the child says over the leaf's channel is in step with what it did,   *)
(* and a child past its report has reported unless the exchange was over.     *)
LeafInv ==
  /\ exchange \in {"open", "decided", "abandoned"}
  /\ ~HasLeaf => "intent" \notin said /\ exchange = "open"
  /\ kid \in {"named", "wrote"} \/ handle # "none" \/ Spoke => "intent" \in said
  /\ Spoke => kid \in {"ready", "program", "zombie", "reaped"}
  /\ "Placed" \in said => inLeaf
  /\ "WriteFailed" \in said => ~inLeaf
  /\ exchange = "open" /\ HasLeaf /\ (kid \in {"ready", "program"} \/ ran) => Spoke
  /\ exchange = "abandoned" /\ ~Spoke => ~ran /\ kid \notin {"ready", "program"}

(* How far the exchange is, by where the spawning thread is. *)
ExchangeInv ==
  /\ exchange = "abandoned" => at \in Abandoning \cup {"done"} \/ (at \in Down /\ ret = "ended")
  /\ exchange = "decided" =>
       \/ at \in Deciding \cup {"done"} \/ (at \in Down /\ ret = "dropleaf")
       \/ (at \in {"leave", "leavewait"} /\ ret = "done")
  /\ at \in Abandoning \/ (at \in Down /\ ret = "ended") => exchange = "abandoned"

(* Where a teardown goes on. *)
ReturnInv ==
  /\ at \in Down => ret \in {"abandon", "ended", "dropleaf"}
  /\ at \in Down /\ ret = "dropleaf" => ~scene.front
  /\ at \in {"unexecuted", "visible"} => ret = "abandon"
  /\ at \in {"leave", "leavewait"} => ret \in {"abandon", "done"}
  /\ at \in Deciding /\ ~scene.front => ret = "dropleaf"
  /\ at \in {"groupkill", "ownkill", "ownrefused"} => ~scene.front
  /\ at = "dropleaf" /\ scene.front => ret = "done"
  /\ at = "refused" => ran

(* The program has not run and never will: there is no child before its exec, *)
(* or the verdict it is held for is an end of file; a child abandoned before   *)
(* its report is ended by the report's failure.                               *)
Unrunnable == ~ran /\ (kid \in {"none", "zombie", "reaped"} \/ (helper = "done" /\ ~go))
Silent == Unrunnable \/ (exchange = "abandoned" /\ ~Spoke)

(* What the spawn answers, by where it is: an error of std's is a child's that *)
(* is gone, and an answer that denies the start comes after its proof.        *)
AnswerInv ==
  /\ spawned = "err" /\ scene.rt = "std" => kid \in {"none", "reaped"} /\ ~ran
  /\ spawned = "ok" => kid # "none"
  /\ at \in {"returned", "join"} => spawned \in {"ok", "err", "panic"}
  /\ at \in {"watch", "open", "peek", "poll"} => spawned = "ok"
  /\ at = "conclude" => spawned \in {"ok", "err"} /\ helper = "done"
  /\ at \in Early => answer = "none" /\ fate = "none" /\ ~left
  /\ at \in {"identity", "idpeek", "attach"} => answer = "Held"
  /\ at \in Deciding \cup {"settle"} => answer = "MayHaveStarted"
  /\ at \in Down /\ ret = "dropleaf" => answer = "MayHaveStarted"
  /\ at = "abandon" \/ (at \in Failing /\ ret = "abandon") =>
       answer \in NotStartedAnswers \cup {"Panic"} \/ (answer = "MayHaveStarted" /\ scene.rt = "tokio")
  /\ answer \in NotStartedAnswers => Unrunnable
  /\ answer = "NotStarted" => kid \in {"none", "reaped"}
  /\ answer = "NotStartedUnreaped" => scene.rt = "tokio" /\ ~go /\ helper = "done" /\ ~left
  /\ answer \in {"CgroupV2", "Uncaged"} => at = "done"

(* The placement's verdict. *)
VerdictInv ==
  /\ answer = "CgroupV2" => "Placed" \in said
  /\ answer = "Uncaged" /\ HasLeaf =>
       /\ kid \in {"ready", "program", "zombie", "reaped"}
       /\ ~(inLeaf /\ (ran \/ kid \in {"ready", "program"}))

(* Nobody is left behind unsaid. *)
Accounted == kid \in {"none", "reaped"} \/ bg # "none" \/ told

(* The fate recorded is true, and every way out of the spawn has accounted for *)
(* the child, or is about to.                                                 *)
FateInv ==
  /\ fate \in {"Reaped", "Gone"} => kid = "reaped"
  /\ fate = "Killed" => Dead \/ CannotPassItsHook
  /\ fate \in {"Reaped", "Gone", "Killed", "Running"} => Accounted
  /\ at = "abandon" => \/ answer \in {"Panic", "NotStartedUnreaped"} \/ Accounted
                       \/ answer = "MayHaveStarted" /\ LeftToLeaf
  /\ at = "ended" => Accounted
  /\ at = "leafkill" => ending = "Unkillable" \/ (ending = "Ended" /\ kid = "reaped")
  /\ at = "dropleaf" => scene.front \/ Accounted
  /\ at = "done" => answer \in {"CgroupV2", "Uncaged", "Panic"} \/ Accounted

(* A front that can run its program is not where it could be signalled. *)
FrontInv ==
  scene.front /\ answer # "Panic" =>
    /\ doomed = "signal" => Silent
    /\ at \in {"peekdown", "kill", "unexecuted", "endlook", "endkill"} => ~Alive \/ Silent

(* A number that is not free is the child's until the reap the peek sees. *)
IdentityInv ==
  /\ at = "idpeek" => idOf = "own" \/ kid = "reaped"
  /\ at = "attach" \/ answer \in {"CgroupV2", "Uncaged"} => idOf = "own"

(* A fate is still to be made: no reap of this spawn's own has come before.   *)
Untaken == \/ at \in Early \cup {"identity", "idpeek", "attach", "settle", "groupkill", "ownkill",
                              "ownrefused", "unexecuted", "visible", "leave", "leavewait"}
           \/ at = "dropleaf" /\ scene.front
           \/ at \in Down /\ ret # "ended"

(* The kill that comes before the teardown's own: KilledBefore, with what     *)
(* keeps the child from entering the leaf after its group is killed.          *)
Overlooked ==
  IF scene.front THEN "Placed" \in said /\ doomed = "leaf"
  ELSE /\ doomed = "signal"
       /\ \/ scene.contain = "group"
          \/ HasLeaf /\ "Placed" \notin said /\ exchange # "open"

(* Who collected the child, and which kill reached it, by where the spawn is. *)
CourseInv ==
  /\ reaper \in {"none", "foreign", "std", "cosca", "tokio"} /\ bg \in {"none", "cosca", "tokio"}
  /\ reaper = "none" <=> kid # "reaped"
  /\ doomed \in {"no", "signal", "leaf"}
  /\ Untaken => reaper \notin {"cosca", "tokio"}
  /\ Untaken => doomed = "no" \/ Overlooked \/ (at \in {"wait", "visible"} /\ delivered)
  /\ at \in Early \cup {"identity", "idpeek", "attach", "settle", "groupkill"}
     \/ (at = "dropleaf" /\ scene.front) => doomed = "no"
  /\ at \in Early => bg = "none"
  /\ at \in {"identity", "idpeek", "attach", "settle", "groupkill"} => fate = "none"
  /\ at = "groupkill" /\ HasLeaf => exchange # "open"
  /\ at \in {"unexecuted", "visible"} => scene.rt = "tokio" /\ answer = "NotStartedWithChild"
  /\ at \in {"frontkill", "frontlook", "frontprobe", "frontwait"} => LeftToLeaf /\ Spoke
  /\ (at \in {"frontlook", "frontprobe"} /\ reached) \/ at = "frontwait" => doomed = "leaf"

(* What a fate says of the two, and what keeps a child that is Killed and not *)
(* yet reaped out of the spawn's hands.                                       *)
CollectorInv ==
  /\ fate = "Reaped" => kid = "reaped" /\ (reaper \in {"cosca", "tokio"} \/ OthersReap)
  /\ fate = "Gone" => reaper \notin {"none", "cosca", "tokio"} /\ (doomed = "no" \/ Overlooked)
  /\ fate = "Killed" => reaper # "cosca"
  /\ fate = "Killed" /\ kid # "reaped" =>
       at \in {"abandon", "done"} /\ ~left /\ ~go /\ helper = "done" /\ bg # "cosca"

(* The inductive invariant, and the one on top of it for the fates. *)
IInv == /\ ChildInv /\ LeafInv /\ ExchangeInv /\ ReturnInv /\ AnswerInv
        /\ VerdictInv /\ FateInv /\ FrontInv /\ IdentityInv
CInv == CourseInv /\ CollectorInv

-----------------------------------------------------------------------------
(* The report as the channel's set has it, and member by member. *)
LEMMA ReportedIsSpoke == Reported <=> Spoke
BY DEF Reported, Spoke

(* What Finish leaves, with its warning as an implication. *)
Finished(abandoned) ==
  /\ at' = "done" /\ (told \/ Warns(abandoned) => told')
  /\ fate' = IF LeftToLeaf /\ answer = "MayHaveStarted" THEN FrontChildFate(abandoned) ELSE fate
  /\ ~left'
  /\ UNCHANGED <<scene, channel, spawned, answer, helperVars>>

(* abandoned_after_handshake leaves what Finished says. *)
LEMMA Finishes == ASSUME NEW abandoned, Finish(abandoned) PROVE Finished(abandoned)
BY Zenon DEF Finish, Finished, helperVars, channel

(* An abandonment that nothing names the child to sends nothing and reports   *)
(* that it may be unreaped (abandon_before_verdict).                          *)
LEMMA AbandonsUnnamed ==
  ASSUME Abandon, HasLeaf, "intent" \notin said, ~Reported, Named # "pidfd" PROVE Finish("MaybeUnreaped")
BY Zenon DEF Abandon

(* The child's own steps keep the invariant: one past the hold needs GO, and  *)
(* one past an abandoned exchange ends the child.                             *)
LEMMA ChildStep ==
  ASSUME IInv, (ChildSteps \/ RefusedPidfd \/ StepFails) /\ NoSpawner PROVE IInv'
<1> USE DEF IInv, ChildInv, LeafInv, ExchangeInv, ReturnInv, AnswerInv, VerdictInv, FateInv, FrontInv,
            IdentityInv, Alive, BeforeExec, Dead, HasLeaf, Spoke, LeftToLeaf, AbandonsFront,
            NotStartedAnswers, Unrunnable, Silent, Accounted, CannotPassItsHook, Early, Down,
            Failing, Abandoning, Deciding, runVars, helperVars, upper, fateVars, localVars, local,
            leafChannel, channel, process, NoSpawner, Becomes, HookFails, ExitsAbandoned, Delivery
<1>1. CASE SendsPidfd BY <1>1, SMTT(20) DEF SendsPidfd, ParentReads
<1>2. CASE RefusedPidfd BY <1>2, SMTT(20) DEF RefusedPidfd
<1>3. CASE TakesVerdict BY <1>3, SMTT(20) DEF TakesVerdict
<1>4. CASE SendsIntent BY <1>4, SMTT(20) DEF SendsIntent
<1>5. CASE WritesProcs BY <1>5, SMTT(20) DEF WritesProcs
<1>6. CASE SendsReport BY <1>6, SMTT(20) DEF SendsReport
<1>7. CASE StepFails BY <1>7, SMTT(20) DEF StepFails
<1>8. CASE Execs BY <1>8, SMTT(20) DEF Execs
<1> QED BY <1>1, <1>2, <1>3, <1>4, <1>5, <1>6, <1>7, <1>8, Zenon DEF ChildSteps

(* The host and the helper keep it: a reap frees the number, and only the     *)
(* helper's end shuts the channel.                                            *)
LEMMA WorldStep ==
  ASSUME IInv, (Host /\ NoSpawner) \/ (Helper /\ ByItself) \/ BackgroundReaps PROVE IInv'
<1> USE DEF IInv, ChildInv, LeafInv, ExchangeInv, ReturnInv, AnswerInv, VerdictInv, FateInv, FrontInv,
            IdentityInv, Alive, BeforeExec, Dead, HasLeaf, Spoke, LeftToLeaf, AbandonsFront,
            NotStartedAnswers, Unrunnable, Silent, Accounted, CannotPassItsHook, Early, Down,
            Failing, Abandoning, Deciding, runVars, helperVars, upper, fateVars, localVars, local,
            leafChannel, channel, process, NoSpawner, ByItself, Becomes, Collected
<1>1. CASE Dies /\ NoSpawner BY <1>1, SMTT(20) DEF Dies
<1>2. CASE ForeignReap /\ NoSpawner BY <1>2, SMTT(20) DEF ForeignReap
<1>3. CASE (NumberTaken \/ ForkCopies \/ CopyCloses) /\ NoSpawner
  BY <1>3, SMTT(20) DEF NumberTaken, ForkCopies, CopyCloses
<1>4. CASE RecvReport /\ ByItself BY <1>4, SMTT(20) DEF RecvReport, HelperEnds
<1>5. CASE SendGo /\ ByItself BY <1>5, SMTT(20) DEF SendGo, HelperEnds
<1>6. CASE BackgroundReaps BY <1>6, SMTT(20) DEF BackgroundReaps
<1> QED BY <1>1, <1>2, <1>3, <1>4, <1>5, <1>6, Zenon DEF Host, Helper

(* The spawning thread up to the join keeps it: std's error, and its wait,    *)
(* come from a child that never ran.                                          *)
LEMMA RunStep ==
  ASSUME IInv, (Running \/ ForkCopiesStatus \/ StdFailsOnAStranger \/ StrangerExits \/ WatchFails) /\ ByItself PROVE IInv'
<1> USE DEF IInv, ChildInv, LeafInv, ExchangeInv, ReturnInv, AnswerInv, VerdictInv, FateInv, FrontInv,
            IdentityInv, Alive, BeforeExec, Dead, HasLeaf, Spoke, LeftToLeaf, AbandonsFront,
            NotStartedAnswers, Unrunnable, Silent, Accounted, CannotPassItsHook, Early, Down,
            Failing, Abandoning, Deciding, runVars, helperVars, upper, fateVars, localVars, local,
            leafChannel, channel, process, ByItself, childVars, SpawnReturns, Collected, WatchEnds, Watches
<1>1. CASE StartsHelper BY <1>1, Zenon DEF StartsHelper
<1>2. CASE Forks BY <1>2, Zenon DEF Forks
<1>3. CASE StdSucceeds BY <1>3, SMTT(20) DEF StdSucceeds
<1>4. CASE StdFails \/ StdFailsOnAStranger BY <1>4, SMTT(20) DEF StdFails, StdFailsOnAStranger
<1>5. CASE Returned \/ Watching \/ StrangerExits \/ WatchFails
  <2>1. /\ at \in {"returned", "watch", "open", "peek", "poll"}
        /\ at' \in {"watch", "open", "peek", "poll", "join"}
        /\ at' = "watch" => spawned = "ok"
        /\ at' \in {"open", "peek", "poll"} => at \in {"watch", "open", "peek", "poll"}
        /\ UNCHANGED <<scene, kid, doomed, num, errno, ran, inLeaf, go, bothShut, said, handle, exchange,
                       spawned, answer, helper, outcome, fate, told, bg, left, ret, ending, idOf>>
    BY <1>5, Zenon DEF Returned, Watching, WatchLooks, WatchOpens, WatchPeeks, WatchPolls, StrangerExits,
                WatchFails
  <2> QED BY <2>1, SMTT(20)
<1>6. CASE Joins BY <1>6, SMTT(20) DEF Joins
<1>7. CASE ForkCopiesStatus BY <1>7, SMTT(20) DEF ForkCopiesStatus
<1> QED BY <1>1, <1>2, <1>3, <1>4, <1>5, <1>6, <1>7, Zenon DEF Running

(* What the join concludes keeps it: without GO nothing runs, and with it the *)
(* error of tokio's spawn proves nothing.                                     *)
LEMMA ConcludeStep ==
  ASSUME IInv, Conclude /\ UNCHANGED local PROVE IInv'
<1> USE DEF IInv, ChildInv, LeafInv, ExchangeInv, ReturnInv, AnswerInv, VerdictInv, FateInv, FrontInv,
            IdentityInv, Alive, BeforeExec, Dead, HasLeaf, Spoke, LeftToLeaf, AbandonsFront,
            NotStartedAnswers, Unrunnable, Silent, Accounted, CannotPassItsHook, Early, Down,
            Failing, Abandoning, Deciding, runVars, helperVars, upper, fateVars, localVars, local,
            leafChannel, channel, process, Concludes, ChildUntouched, ErrProvesNoExec
<1>1. CASE ConcludeHeld BY <1>1, SMTT(20) DEF ConcludeHeld
<1>2. CASE ConcludeUnexecuted BY <1>2, SMTT(20) DEF ConcludeUnexecuted
<1>3. CASE ConcludeUnreported
  <2>1. CASE spawned = "ok"
    <3>1. scene.rt = "std" => told' BY <1>3, <2>1, Zenon DEF ConcludeUnreported
    <3>2. /\ at = "conclude" /\ outcome \in {"Failed", "NoReport"}
          /\ at' = "abandon" /\ answer' = "NotStartedWithChild" /\ fate' = "Killed"
          /\ bg' = IF scene.rt = "tokio" THEN "tokio" ELSE bg
          /\ UNCHANGED <<scene, spawned, helperVars, process, channel, leafChannel, localVars, local>>
      BY <1>3, <2>1, Zenon DEF ConcludeUnreported
    <3> QED BY <2>1, <3>1, <3>2, SMTT(20)
  <2>2. CASE spawned # "ok" BY <1>3, <2>2, Zenon DEF ConcludeUnreported
  <2> QED BY <2>1, <2>2, Zenon
<1>4. CASE ConcludeOpened BY <1>4, SMTT(20) DEF ConcludeOpened, LeftFront, GroupKill, Signalled
<1> QED BY <1>1, <1>2, <1>3, <1>4, Zenon DEF Conclude

(* The teardown through the pidfd, tokio's reap of an unexecuted child and the *)
(* leaving of a front keep it.                                                *)
LEMMA TeardownStep ==
  ASSUME IInv, Teardown /\ UNCHANGED local PROVE IInv'
<1> USE DEF IInv, ChildInv, LeafInv, ExchangeInv, ReturnInv, AnswerInv, VerdictInv, FateInv, FrontInv,
            IdentityInv, Alive, BeforeExec, Dead, HasLeaf, Spoke, LeftToLeaf, AbandonsFront,
            NotStartedAnswers, Unrunnable, Silent, Accounted, CannotPassItsHook, Early, Down,
            Failing, Abandoning, Deciding, runVars, helperVars, upper, fateVars, localVars, local,
            leafChannel, channel, process, Tears, Ends, Unreaped, Collected, KillDelivered, KillMisses, KillRefused, Signalled
<1>1. CASE PeekDown BY <1>1, SMTT(20) DEF PeekDown
<1>2. CASE Kill BY <1>2, SMTT(20) DEF Kill
<1>3. CASE Refused
  <2>1. CASE kid = "program" BY <1>3, <2>1, SMTT(20) DEF Refused
  <2>2. CASE kid = "zombie" BY <1>3, <2>2, SMTT(20) DEF Refused
  <2>3. CASE kid = "reaped" BY <1>3, <2>3, SMTT(20) DEF Refused
  <2> QED BY <1>3, <2>1, <2>2, <2>3, Zenon DEF Refused
<1>4. CASE OwnKill BY <1>4, SMTT(20) DEF OwnKill
<1>5. CASE OwnRefused BY <1>5, SMTT(20) DEF OwnRefused
<1>6. CASE Wait BY <1>6, SMTT(20) DEF Wait
<1>7. CASE AwaitUnexecuted BY <1>7, SMTT(20) DEF AwaitUnexecuted
<1>8. CASE TryWaitUnexecuted BY <1>8, SMTT(20) DEF TryWaitUnexecuted
<1>9. CASE LeaveFront BY <1>9, SMTT(20) DEF LeaveFront
<1>10. CASE LeaveWait BY <1>10, SMTT(20) DEF LeaveWait
<1> QED BY <1>1, <1>2, <1>3, <1>4, <1>5, <1>6, <1>7, <1>8, <1>9, <1>10, ZenonT(30) DEF Teardown

(* The abandonment of the exchange keeps it: past it a child that has not      *)
(* reported never runs, so a front it signals is none.                        *)
LEMMA AbandonStep ==
  ASSUME IInv, (Abandonment \/ EndWaitStranger \/ FrontWaitStranger) /\ UNCHANGED idOf PROVE IInv'
<1> USE DEF IInv, ChildInv, LeafInv, ExchangeInv, ReturnInv, AnswerInv, VerdictInv, FateInv, FrontInv,
            IdentityInv, Alive, BeforeExec, Dead, HasLeaf, Spoke, LeftToLeaf, AbandonsFront,
            NotStartedAnswers, Unrunnable, Silent, Accounted, CannotPassItsHook, Early, Down,
            Failing, Abandoning, Deciding, runVars, helperVars, upper, fateVars, localVars, local,
            leafChannel, channel, process, Goes, ChildAsIs, Reaps, OnlyDooms, Collected, Finished, Warns,
            EndedChild, FrontChildFate
<1>1. CASE Abandon
  <2>1. CASE ~HasLeaf
    <3>1. Finished("MaybeUnreachable") BY <1>1, <2>1, Finishes, Zenon DEF Abandon
    <3> QED BY <1>1, <2>1, <3>1, SMTT(20) DEF Abandon
  <2>2. CASE HasLeaf /\ "intent" \notin said /\ Named # "pidfd"
    <3>1. ~Reported BY <2>2, ReportedIsSpoke, Zenon
    <3>2. Finished("MaybeUnreaped") BY <1>1, <2>2, <3>1, AbandonsUnnamed, Finishes, Zenon
    <3> QED BY <1>1, <2>2, <3>2, SMTT(20) DEF Abandon
  <2>3. CASE HasLeaf /\ "intent" \notin said /\ Named = "pidfd"
    BY <1>1, <2>3, SMTT(20) DEF Abandon, Goes
  <2>4. CASE HasLeaf /\ "intent" \in said
    <3>1. /\ at' \in {"frontkill", "endlook"} /\ exchange' = "abandoned"
          /\ at' = "endlook" => ~(AbandonsFront /\ Spoke)
          /\ UNCHANGED <<process, channel, said, handle, scene, spawned, answer, helperVars,
                         fateVars, left, ret>>
      BY <1>1, <2>4, ReportedIsSpoke, Zenon DEF Abandon, Goes
    <3> QED BY <1>1, <2>4, <3>1, SMTT(20) DEF Abandon
  <2> QED BY <2>1, <2>2, <2>3, <2>4, Zenon
<1>2. CASE EndedUnnamed BY <1>2, Finishes, SMTT(20) DEF EndedUnnamed
<1>3. CASE EndLook BY <1>3, SMTT(20) DEF EndLook, GroupKill, Signalled
<1>4. CASE EndKill BY <1>4, SMTT(20) DEF EndKill, KillDelivered, KillMisses, KillRefused, Signalled
<1>5. CASE EndWait BY <1>5, SMTT(20) DEF EndWait
<1>6. CASE EndWaitStranger BY <1>6, SMTT(20) DEF EndWaitStranger, WaitsOnStranger
<1>7. CASE LeafKill
  <2>1. PICK abandoned \in {"Ended", "OutOfReach"} :
          (abandoned = "OutOfReach" => ending # "Ended") /\ Finish(abandoned)
    BY <1>7, Zenon DEF LeafKill
  <2>2. Finished(abandoned) BY <2>1, Finishes, Zenon
  <2>3. doomed' = "signal" => doomed = "signal" BY <1>7, Zenon DEF LeafKill, KilledThrough
  <2> QED BY <1>7, <2>1, <2>2, <2>3, SMTT(20) DEF LeafKill
<1>8. CASE FrontKill BY <1>8, SMTT(20) DEF FrontKill, KilledThrough
<1>9. CASE FrontLook
  <2>1. CASE Named = "none"
    <3>1. Finished("Unaccounted") BY <1>9, <2>1, Finishes, Zenon DEF FrontLook
    <3> QED BY <1>9, <2>1, <3>1, SMTT(20) DEF FrontLook
  <2>2. CASE Named # "none" /\ kid = "reaped"
    <3>1. Finished("Ended") BY <1>9, <2>2, Finishes, Zenon DEF FrontLook
    <3> QED BY <1>9, <2>2, <3>1, SMTT(20) DEF FrontLook
  <2>3. CASE Named # "none" /\ kid # "reaped" BY <1>9, <2>3, SMTT(20) DEF FrontLook, Goes
  <2> QED BY <2>1, <2>2, <2>3, Zenon
<1>10. CASE FrontProbe
  <2>1. CASE kid = "zombie"
    <3>1. Finished("Reaped") BY <1>10, <2>1, Finishes, Zenon DEF FrontProbe
    <3> QED BY <1>10, <2>1, <3>1, ZenonT(30) DEF FrontProbe
  <2>2. CASE kid = "reaped" /\ ~WaitsOnStranger
    <3>1. Finished("Ended") BY <1>10, <2>2, Finishes, Zenon DEF FrontProbe
    <3> QED BY <1>10, <2>2, <3>1, SMTT(20) DEF FrontProbe
  <2>3. CASE ChildAsIs /\ Goes("frontwait") /\ UNCHANGED <<told, reached, ret, ending>>
    BY <1>10, <2>3, SMTT(20) DEF FrontProbe
  <2>4. CASE ChildAsIs /\ Finish("LeftUnreaped")
    <3>1. Finished("LeftUnreaped") BY <2>4, Finishes, Zenon
    <3> QED BY <1>10, <2>4, <3>1, SMTT(20) DEF FrontProbe
  <2>5. CASE ChildAsIs /\ Finish("Unplaced")
    <3>1. Finished("Unplaced") BY <2>5, Finishes, Zenon
    <3> QED BY <1>10, <2>5, <3>1, SMTT(20) DEF FrontProbe
  <2> QED BY <1>10, <2>1, <2>2, <2>3, <2>4, <2>5, Zenon DEF FrontProbe
<1>11. CASE FrontWait BY <1>11, SMTT(20) DEF FrontWait, Finish
<1>12. CASE FrontWaitStranger BY <1>12, SMTT(20) DEF FrontWaitStranger, WaitsOnStranger, Finish
<1> QED BY <1>1, <1>2, <1>3, <1>4, <1>5, <1>6, <1>7, <1>8, <1>9, <1>10, <1>11, <1>12, ZenonT(60) DEF Abandonment

(* The identity, the verdict and the failure after the handshake keep it. *)
LEMMA AfterStep ==
  ASSUME IInv, AfterHandshake PROVE IInv'
<1> USE DEF IInv, ChildInv, LeafInv, ExchangeInv, ReturnInv, AnswerInv, VerdictInv, FateInv, FrontInv,
            IdentityInv, Alive, BeforeExec, Dead, HasLeaf, Spoke, LeftToLeaf, AbandonsFront,
            NotStartedAnswers, Unrunnable, Silent, Accounted, CannotPassItsHook, Early, Down,
            Failing, Abandoning, Deciding, runVars, helperVars, upper, fateVars, localVars, local,
            leafChannel, channel, process, Goes, ChildAsIs, OnlyDooms, KilledThrough, Entered
<1>1. CASE ReadIdentity BY <1>1, SMTT(20) DEF ReadIdentity
<1>2. CASE CheckIdentity BY <1>2, SMTT(20) DEF CheckIdentity
<1>3. CASE Attach BY <1>3, SMTT(20), ReportedIsSpoke DEF Attach, VerdictReady
<1>4. CASE Settle BY <1>4, SMTT(20), ReportedIsSpoke DEF Settle, TakePlacement, VerdictReady
<1>5. CASE KillGroup BY <1>5, SMTT(20) DEF KillGroup, GroupKill, Signalled
<1>6. CASE DropLeaf BY <1>6, SMTT(20) DEF DropLeaf
<1> QED BY <1>1, <1>2, <1>3, <1>4, <1>5, <1>6, Zenon DEF AfterHandshake

-----------------------------------------------------------------------------
(* The child, the host and the helper keep who collected the child and which  *)
(* kill reached it: the host's reap is a foreign one, and nobody but the      *)
(* spawn kills on its account.                                                *)
LEMMA CourseOfTheWorld ==
  ASSUME IInv, CInv,
         \/ (ChildSteps \/ RefusedPidfd \/ StepFails) /\ NoSpawner
         \/ (Host /\ NoSpawner) \/ (Helper /\ ByItself) \/ BackgroundReaps
  PROVE CInv'
<1> USE DEF CInv, CourseInv, CollectorInv, Untaken, Overlooked, OthersReap, LeftToLeaf, AbandonsFront,
            HasLeaf, Spoke, Early, Down, runVars, helperVars, upper, fateVars, localVars, local,
            leafChannel, channel, process
<1>1. CASE (ChildSteps \/ RefusedPidfd \/ StepFails \/ Dies) /\ NoSpawner
  <2> USE DEF ChildSteps, SendsPidfd, RefusedPidfd, TakesVerdict, SendsIntent, WritesProcs,
         SendsReport, StepFails, Execs, Dies, Becomes, HookFails, ExitsAbandoned
  <2>1. UNCHANGED <<scene, doomed, reaper, num, go, exchange, at, answer, helper, fate, bg,
                    left, delivered, reached, ret>>
    BY <1>1, Zenon DEF NoSpawner
  <2>2. kid # "reaped" /\ kid' # "reaped" BY <1>1, Zenon DEF Alive, BeforeExec
  <2>3. \/ said' = said
        \/ exchange = "open" /\ \E word \in {"intent", "Placed", "WriteFailed"} : said' = said \cup {word}
    <3>1. Delivery = "Queued" => exchange = "open"
      <4>1. exchange \in {"open", "decided", "abandoned"} BY Zenon DEF IInv, LeafInv
      <4> QED BY <4>1 DEF Delivery
    <3>2. CASE SendsIntent BY <3>1, <3>2, Zenon
    <3>3. CASE SendsReport BY <3>1, <3>3, Zenon
    <3>4. CASE ~SendsIntent /\ ~SendsReport BY <1>1, <3>4, Zenon
    <3> QED BY <3>2, <3>3, <3>4, Zenon
  <2> QED BY <2>1, <2>2, <2>3, SMTT(20)
<1>2. CASE ForeignReap /\ NoSpawner BY <1>2, SMTT(20) DEF ForeignReap, Collected, NoSpawner
<1>3. CASE (NumberTaken \/ ForkCopies \/ CopyCloses) /\ NoSpawner
  BY <1>3, SMTT(20) DEF NumberTaken, ForkCopies, CopyCloses, NoSpawner
<1>4. CASE Helper /\ ByItself
  <2>1. /\ helper # "done"
        /\ UNCHANGED <<scene, kid, doomed, reaper, num, said, exchange, at, answer, fate, bg,
                       left, delivered, reached, ret>>
    BY <1>4, Zenon DEF Helper, RecvReport, SendGo, HelperEnds, ByItself
  <2> QED BY <2>1, SMTT(20)
<1>5. CASE BackgroundReaps BY <1>5, SMTT(20) DEF BackgroundReaps, Collected
<1> QED BY <1>1, <1>2, <1>3, <1>4, <1>5, ZenonT(30) DEF Host

(* So do the spawning thread up to the join and what the join concludes: they *)
(* kill nobody but by the group, and the one reap among them is std's.        *)
LEMMA CourseOfTheHandshake ==
  ASSUME IInv, CInv,
         \/ (Running \/ ForkCopiesStatus \/ StdFailsOnAStranger \/ StrangerExits \/ WatchFails) /\ ByItself
         \/ Conclude /\ UNCHANGED local
  PROVE CInv'
<1> USE DEF CInv, CourseInv, CollectorInv, Untaken, Overlooked, OthersReap, LeftToLeaf, AbandonsFront,
            HasLeaf, Spoke, Early, Down, runVars, helperVars, upper, fateVars, localVars, local,
            leafChannel, channel, process
<1>0. /\ at \in Early => fate = "none" /\ ~left
      /\ at = "conclude" => helper = "done"
      /\ outcome # "Opened" => ~go
  BY Zenon DEF IInv, AnswerInv, ChildInv
<1>1. CASE Forks /\ ByItself
  <2>1. kid = "none" /\ doomed = "no" BY <1>1, SMTT(20) DEF Forks, IInv, ChildInv
  <2> QED BY <1>1, <2>1, SMTT(20) DEF Forks, ByItself, SpawnReturns
<1>2. CASE StdFails /\ ByItself BY <1>2, SMTT(20) DEF StdFails, ByItself, Collected, SpawnReturns
<1>3. CASE (StdSucceeds \/ Returned \/ Watching \/ ForkCopiesStatus
           \/ StdFailsOnAStranger \/ StrangerExits \/ WatchFails) /\ ByItself
  <2>1. /\ at \in Early /\ at' \in Early
        /\ UNCHANGED <<scene, process, said, exchange, go, helper, answer, upper>>
    BY <1>3, Zenon DEF StdSucceeds, Returned, Watching, WatchLooks, WatchOpens, WatchPeeks, WatchPolls,
         ForkCopiesStatus, StdFailsOnAStranger, StrangerExits, WatchFails, WatchEnds, Watches,
         SpawnReturns, ByItself, childVars
  <2> QED BY <2>1, SMTT(20)
<1>4. CASE ConcludeHeld /\ UNCHANGED local BY <1>0, <1>4, SMTT(20) DEF ConcludeHeld, Concludes, ChildUntouched
<1>5. CASE ConcludeUnexecuted /\ UNCHANGED local BY <1>0, <1>5, SMTT(20) DEF ConcludeUnexecuted, Concludes, ChildUntouched
<1>6. CASE ConcludeUnreported /\ UNCHANGED local BY <1>0, <1>6, SMTT(20) DEF ConcludeUnreported, Concludes, ChildUntouched
<1>7. CASE ConcludeOpened /\ UNCHANGED local
  BY <1>0, <1>7, SMTT(20) DEF ConcludeOpened, Concludes, LeftFront, GroupKill, Signalled, Alive, BeforeExec
<1>8. CASE StartsHelper /\ ByItself BY <1>0, <1>8, SMTT(20) DEF StartsHelper, ByItself, childVars
<1>9. CASE Joins /\ ByItself BY <1>0, <1>9, SMTT(20) DEF Joins, ByItself, childVars
<1> QED BY <1>1, <1>2, <1>3, <1>4, <1>5, <1>6, <1>7, <1>8, <1>9, Zenon DEF Running, Conclude

(* The teardown through the pidfd answers Reaped for a reap of its own, Killed *)
(* for a kill it delivered to a child then collected elsewhere, and Gone where *)
(* its own kill reached nobody.                                               *)
LEMMA CourseOfTheTeardown ==
  ASSUME IInv, CInv, Teardown /\ UNCHANGED local PROVE CInv'
<1> USE DEF CInv, CourseInv, CollectorInv, Untaken, Overlooked, OthersReap, LeftToLeaf, AbandonsFront,
            HasLeaf, Spoke, Early, Down, runVars, helperVars, upper, fateVars, localVars, local,
            leafChannel, channel, process, Tears, Ends, Unreaped, Collected, KillDelivered, KillMisses, KillRefused, Signalled
<1>0. /\ at = "refused" => kid \in {"program", "zombie", "reaped"}
      /\ at \in Down => ret \in {"abandon", "ended", "dropleaf"}
      /\ at \in Down /\ ret = "dropleaf" => ~scene.front
      /\ at \in {"ownkill", "ownrefused"} => ~scene.front /\ ret = "dropleaf"
      /\ at \in {"unexecuted", "visible"} => ret = "abandon"
      /\ at \in {"leave", "leavewait"} => ret \in {"abandon", "done"}
      /\ num = "own" <=> kid \notin {"none", "reaped"}
  BY SMTT(20) DEF IInv, ReturnInv, ChildInv, Deciding
<1>1. CASE PeekDown BY <1>0, <1>1, SMTT(20) DEF PeekDown
<1>2. CASE Kill BY <1>0, <1>2, SMTT(20) DEF Kill
<1>3. CASE Refused
  <2>1. CASE kid = "program" BY <1>0, <1>3, <2>1, SMTT(20) DEF Refused
  <2>2. CASE kid = "zombie" BY <1>0, <1>3, <2>2, SMTT(20) DEF Refused
  <2>3. CASE kid = "reaped" BY <1>0, <1>3, <2>3, SMTT(20) DEF Refused
  <2> QED BY <1>0, <1>3, <2>1, <2>2, <2>3, Zenon DEF Refused
<1>4. CASE OwnKill BY <1>0, <1>4, SMTT(20) DEF OwnKill
<1>5. CASE OwnRefused BY <1>0, <1>5, SMTT(20) DEF OwnRefused
<1>6. CASE Wait BY <1>0, <1>6, SMTT(20) DEF Wait
<1>7. CASE AwaitUnexecuted BY <1>0, <1>7, SMTT(20) DEF AwaitUnexecuted
<1>8. CASE TryWaitUnexecuted BY <1>0, <1>8, SMTT(20) DEF TryWaitUnexecuted, Dead
<1>9. CASE LeaveFront BY <1>0, <1>9, SMTT(20) DEF LeaveFront
<1>10. CASE LeaveWait BY <1>0, <1>10, SMTT(20) DEF LeaveWait
<1> QED BY <1>1, <1>2, <1>3, <1>4, <1>5, <1>6, <1>7, <1>8, <1>9, <1>10, Zenon DEF Teardown

(* The abandonment collects only a child with no fate yet, and answers for a  *)
(* front only what its leaf's kill made sure of.                              *)
LEMMA CourseOfTheAbandonment ==
  ASSUME IInv, CInv, (Abandonment \/ EndWaitStranger \/ FrontWaitStranger) /\ UNCHANGED idOf PROVE CInv'
<1> USE DEF CInv, CourseInv, CollectorInv, Untaken, Overlooked, OthersReap, LeftToLeaf, AbandonsFront,
            HasLeaf, Spoke, Early, Down, runVars, helperVars, upper, fateVars, localVars, local,
            leafChannel, channel, process, Goes, ChildAsIs, Reaps, OnlyDooms, Collected, Finish, FrontChildFate
<1>1. CASE Abandon BY <1>1, SMTT(20), ReportedIsSpoke DEF Abandon, Named, IInv, LeafInv, ChildInv
<1>2. CASE EndedUnnamed BY <1>2, SMTT(20) DEF EndedUnnamed
<1>3. CASE EndLook BY <1>3, SMTT(20) DEF EndLook, GroupKill, Signalled, Alive, BeforeExec
<1>4. CASE EndKill BY <1>4, SMTT(20) DEF EndKill, KillDelivered, KillMisses, KillRefused, Signalled, Alive, BeforeExec
<1>5. CASE EndWait BY <1>5, SMTT(20) DEF EndWait, Dead
<1>6. CASE EndWaitStranger BY <1>6, SMTT(20) DEF EndWaitStranger
<1>7. CASE LeafKill BY <1>7, SMTT(20) DEF LeafKill, KilledThrough, Alive, BeforeExec
<1>8. CASE FrontKill
  <2>1. doomed # "signal" \/ ~Alive
    BY <1>8, SMTT(20) DEF FrontKill, IInv, FrontInv, Silent, Unrunnable, LeafInv, ChildInv, Alive, BeforeExec
  <2>2. /\ doomed' = doomed \/ (doomed' = "leaf" /\ Alive /\ doomed = "no")
        /\ reached' => Alive /\ (doomed' = "leaf" \/ (doomed' = doomed /\ doomed # "no"))
    BY <1>8, Zenon DEF FrontKill, KilledThrough
  <2>3. /\ at = "frontkill" /\ at' = "frontlook"
        /\ UNCHANGED <<scene, kid, reaper, num, go, said, exchange, answer, helper, fate, bg, left,
                       delivered, ret>>
    BY <1>8, Zenon DEF FrontKill
  <2>4. doomed \in {"no", "signal", "leaf"} BY DEF CInv, CourseInv
  <2> QED BY <2>1, <2>2, <2>3, <2>4, SMTT(20) DEF Alive, BeforeExec
<1>9. CASE FrontLook BY <1>9, SMTT(20) DEF FrontLook
<1>10. CASE FrontProbe BY <1>10, SMTT(20) DEF FrontProbe
<1>11. CASE FrontWait BY <1>11, SMTT(20) DEF FrontWait, Dead
<1>12. CASE FrontWaitStranger
  <2>1. kid = "reaped" BY <1>12, SMTT(20) DEF FrontWaitStranger, WaitsOnStranger, IInv, ChildInv
  <2> QED BY <1>12, <2>1, SMTT(20) DEF FrontWaitStranger
<1> QED BY <1>1, <1>2, <1>3, <1>4, <1>5, <1>6, <1>7, <1>8, <1>9, <1>10, <1>11, <1>12, ZenonT(60) DEF Abandonment

(* After the handshake only the group's kill, and for a front the leaf's, come *)
(* before the teardown.                                                        *)
LEMMA CourseAfterTheHandshake ==
  ASSUME IInv, CInv, AfterHandshake PROVE CInv'
<1> USE DEF CInv, CourseInv, CollectorInv, Untaken, Overlooked, OthersReap, LeftToLeaf, AbandonsFront,
            HasLeaf, Spoke, Early, Down, runVars, helperVars, upper, fateVars, localVars, local,
            leafChannel, channel, process, Goes, ChildAsIs, OnlyDooms, Entered
<1>1. CASE ReadIdentity BY <1>1, SMTT(20) DEF ReadIdentity
<1>2. CASE CheckIdentity BY <1>2, SMTT(20) DEF CheckIdentity
<1>3. CASE Attach BY <1>3, SMTT(20) DEF Attach
<1>4. CASE Settle BY <1>4, SMTT(20) DEF Settle, TakePlacement
<1>5. CASE KillGroup
  <2>1. ~scene.front BY <1>5, SMTT(20) DEF KillGroup, IInv, ReturnInv
  <2> QED BY <1>5, <2>1, SMTT(20) DEF KillGroup, GroupIsContainment, GroupKill, Signalled
<1>6. CASE DropLeaf
  <2>1. doomed' = doomed \/ (doomed' = "leaf" /\ Alive /\ doomed = "no" /\ "Placed" \in said)
    BY <1>6, Zenon DEF DropLeaf, KilledThrough
  <2>2. /\ at = "dropleaf" /\ at' = IF scene.front THEN "leave" ELSE "done"
        /\ UNCHANGED <<scene, kid, reaper, num, go, said, exchange, answer, helper, fate, bg, left,
                       delivered, ret>>
    BY <1>6, Zenon DEF DropLeaf
  <2> QED BY <2>1, <2>2, SMTT(20) DEF Alive, BeforeExec
<1> QED BY <1>1, <1>2, <1>3, <1>4, <1>5, <1>6, Zenon DEF AfterHandshake

-----------------------------------------------------------------------------
(* The invariant holds before the helper starts. *)
LEMMA InitInv == Init => IInv
<1> SUFFICES ASSUME Init PROVE IInv OBVIOUS
<1>1. scene.rt \in {"std", "tokio"} BY ScenesAssumption DEF Init, ChildInit
<1> QED
  BY <1>1 DEF Init, ChildInit, HandshakeInit, TeardownInit,
            IInv, ChildInv, LeafInv, ExchangeInv, ReturnInv, AnswerInv, VerdictInv, FateInv, FrontInv,
            IdentityInv, Alive, BeforeExec, Dead, HasLeaf, Spoke, LeftToLeaf, AbandonsFront,
            NotStartedAnswers, Unrunnable, Silent, Accounted, CannotPassItsHook, Early, Down,
            Failing, Abandoning, Deciding, runVars, helperVars, upper, fateVars, localVars, local,
            leafChannel, channel, process

(* IInv is inductive. *)
LEMMA InductiveStep == IInv /\ [Next]_vars => IInv'
<1> SUFFICES ASSUME IInv, [Next]_vars PROVE IInv' OBVIOUS
<1>1. CASE Child \/ ChildFailure BY <1>1, ChildStep DEF Child, ChildFailure
<1>2. CASE Surroundings \/ HelperThread \/ BackgroundReaps
  BY <1>2, WorldStep DEF Surroundings, HelperThread
<1>3. CASE Spawner \/ Mishap
  BY <1>3, RunStep, ConcludeStep, TeardownStep, AbandonStep, AfterStep, Zenon DEF Spawner, Mishap
<1>4. CASE UNCHANGED vars
  <2>1. UNCHANGED <<scene, kid, doomed, num, errno, ran, inLeaf, go, bothShut, said, handle, exchange, at,
                    spawned, answer, helper, outcome, fate, told, bg, left, ret, ending, idOf>>
    BY <1>4 DEF vars, handshakeVars, childVars, process, channel, leafChannel, runVars, helperVars, upper,
                fateVars, localVars, local
  <2>2. ChildInv' BY <2>1 DEF IInv, ChildInv, Alive, BeforeExec, Dead, CannotPassItsHook, Early
  <2>3. LeafInv' BY <2>1 DEF IInv, LeafInv, HasLeaf, Spoke, LeftToLeaf, AbandonsFront, Alive, BeforeExec, Dead
  <2>4. ExchangeInv' BY <2>1 DEF IInv, ExchangeInv, Early, Down, Abandoning, HasLeaf, Spoke, BeforeExec
  <2>5. ReturnInv' BY <2>1 DEF IInv, ReturnInv, Down, Deciding
  <2>6. AnswerInv' BY <2>1 DEF IInv, AnswerInv, Unrunnable, NotStartedAnswers, Early, Down, Failing, Deciding
  <2>7. VerdictInv' /\ IdentityInv' BY <2>1 DEF IInv, VerdictInv, IdentityInv, HasLeaf
  <2>8. FateInv' BY <2>1 DEF IInv, FateInv, Accounted, Dead, CannotPassItsHook, LeftToLeaf, AbandonsFront, HasLeaf
  <2>9. FrontInv' BY <2>1 DEF IInv, FrontInv, Silent, Unrunnable, Spoke, Alive, BeforeExec
  <2> QED BY <2>2, <2>3, <2>4, <2>5, <2>6, <2>7, <2>8, <2>9, Zenon DEF IInv
<1> QED BY <1>1, <1>2, <1>3, <1>4 DEF Next

(* So is CInv, on top of it. *)
LEMMA CourseStep == IInv /\ CInv /\ [Next]_vars => CInv'
<1> SUFFICES ASSUME IInv, CInv, [Next]_vars PROVE CInv' OBVIOUS
<1>1. CASE Child \/ ChildFailure \/ Surroundings \/ HelperThread \/ BackgroundReaps
  BY <1>1, CourseOfTheWorld, Zenon DEF Child, ChildFailure, Surroundings, HelperThread
<1>2. CASE Spawner \/ Mishap
  BY <1>2, CourseOfTheHandshake, CourseOfTheTeardown, CourseOfTheAbandonment, CourseAfterTheHandshake,
     Zenon DEF Spawner, Mishap
<1>3. CASE UNCHANGED vars
  <2>1. UNCHANGED <<scene, kid, doomed, reaper, num, go, said, exchange, at, answer, helper, fate, bg, left,
                    delivered, reached, ret>>
    BY <1>3 DEF vars, handshakeVars, childVars, process, channel, leafChannel, runVars, helperVars, upper,
                fateVars, localVars
  <2>2. CourseInv'
    BY <2>1 DEF CInv, CourseInv, Untaken, Overlooked, LeftToLeaf, AbandonsFront, HasLeaf, Spoke, Early, Down
  <2>3. CollectorInv'
    BY <2>1 DEF CInv, CollectorInv, Overlooked, OthersReap, LeftToLeaf, AbandonsFront, HasLeaf
  <2> QED BY <2>2, <2>3 DEF CInv
<1> QED BY <1>1, <1>2, <1>3 DEF Next

(* Every reachable state of a Linux spawn satisfies both. *)
THEOREM Invariance == Spec => [](IInv /\ CInv)
<1>1. Init => CInv
  BY DEF Init, ChildInit, HandshakeInit, TeardownInit, CInv, CourseInv, CollectorInv, Untaken, Overlooked,
         LeftToLeaf, AbandonsFront, HasLeaf, Spoke, Early, Down
<1> QED BY <1>1, InitInv, InductiveStep, CourseStep, PTL DEF Spec

(* Whatever the host does around a spawn, an error that says the program did  *)
(* not start is never belied by a program that runs (Handshake::run, conclude). *)
THEOREM NotStartedErrorsAreTrue == Spec => []NotStartedIsTrue
<1>1. IInv => NotStartedIsTrue BY DEF IInv, AnswerInv, Unrunnable, NotStartedIsTrue
<1> QED BY <1>1, Invariance, PTL

(* The fate a failed spawn carries says who collected its child and whether a *)
(* kill came before, but for the answers FateIsTrue names, and no child is    *)
(* left unreaped by all without a warning (teardown_through_pidfd,            *)
(* reap_unexecuted, abandon_before_verdict).                                  *)
THEOREM FatesAreTrue == Spec => []FateIsTrue
<1>1. ASSUME IInv, CInv PROVE FateIsTrue
  <2>1. Overlooked => KilledBefore BY Zenon DEF Overlooked, KilledBefore, GroupIsContainment, Entered
  <2>2. fate = "Gone" => reaper \in {"foreign", "std"} /\ (doomed = "no" \/ KilledBefore)
    BY <1>1, <2>1, SMTT(20) DEF CInv, CourseInv, CollectorInv
  <2>3. /\ fate = "Reaped" => kid = "reaped" /\ (reaper \in {"cosca", "tokio"} \/ OthersReap)
        /\ fate = "Killed" => reaper # "cosca"
    BY <1>1, Zenon DEF CInv, CollectorInv
  <2>4. /\ fate = "Killed" => Dead \/ CannotPassItsHook
        /\ at = "done" => answer \in {"CgroupV2", "Uncaged", "Panic"} \/ Accounted
    BY <1>1, Zenon DEF IInv, FateInv
  <2> QED BY <2>2, <2>3, <2>4, Zenon DEF FateIsTrue, CarriesFate, Answered, Accounted
<1> QED BY <1>1, Invariance, PTL

(* A failed spawn signals a front only where its program provably never runs  *)
(* (opened_teardown, abandon_front, leave_unadopted_front_noting).            *)
THEOREM FrontsAreSpared == Spec => []FrontSpared
<1>1. IInv => FrontSpared BY DEF IInv, LeafInv, FrontInv, Silent, Unrunnable, FrontSpared
<1> QED BY <1>1, Invariance, PTL

(* What take_placement and abandon_before_verdict answer about the leaf stays  *)
(* right whatever the child does after them.                                  *)
THEOREM PlacementsAreFinal == Spec => []PlacementIsFinal
<1>1. IInv => PlacementIsFinal
  BY ReportedIsSpoke DEF IInv, LeafInv, VerdictInv, PlacementIsFinal, HasLeaf
<1> QED BY <1>1, Invariance, PTL

(* The identity resolve_identity gives an adopted child is that child's.      *)
THEOREM IdentitiesAreOurs == Spec => []AdoptedIdentityIsOurs
<1>1. IInv => AdoptedIdentityIsOurs BY DEF IInv, IdentityInv, AdoptedIdentityIsOurs
<1> QED BY <1>1, Invariance, PTL
=============================================================================
