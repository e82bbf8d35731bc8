--------------------------- MODULE PidfdHandshake ---------------------------
(***************************************************************************)
(* The parent's side of the handshake: the helper thread, and the spawning *)
(* thread from the start of the helper to its join (Handshake::run), with  *)
(* the watch of the child's exit in between. What the join concludes is    *)
(* SpawnTeardown's.                                                        *)
(***************************************************************************)
EXTENDS HeldChild

VARIABLES
    at,        \* where the spawning thread is
    spawned,   \* what spawn() answered
    watch,     \* whom the watch's pidfd, opened by number, names
    helper,    \* where the helper is
    outcome,   \* what it learned
    answer     \* the spawn's answer, once it has one

helperVars == <<helper, outcome>>
runVars == <<at, spawned, watch, answer>>

HandshakeInit ==
    /\ at = "start" /\ spawned = "none" /\ watch = "none"
    /\ helper = "off" /\ outcome = "none" /\ answer = "none"

-----------------------------------------------------------------------------
(* The helper thread                                                       *)

(* recvmsg on the parent's end answers end of file. *)
HelperEof == report = "none" /\ (rdShut \/ bothShut \/ ~EndOpen)

(* Mutant: the parent's end is left open. *)
HelperEndsOpen(result) ==
    /\ outcome' = result /\ helper' = "done"
    /\ UNCHANGED <<scene, process, rdShut, bothShut, ownEnd, copy, leafChannel, runVars>>

(* help's result, and ShutOnDrop: the parent's end is shut, then `done` is  *)
(* written.                                                                 *)
HelperEnds(result) ==
    /\ outcome' = result /\ helper' = "done" /\ bothShut' = TRUE
    /\ UNCHANGED <<scene, process, rdShut, ownEnd, copy, leafChannel, runVars>>

RecvReport ==
    /\ helper = "recv"
    /\ \/ report = "pidfd" /\ helper' = "move" /\ report' = "none"
          /\ UNCHANGED <<scene, process, go, rdShut, bothShut, ownEnd, copy, leafChannel,
                         runVars, outcome>>
       \* No descriptor was free to receive it in, or recvmsg failed.
       \/ report = "pidfd" /\ report' = "none" /\ UNCHANGED go /\ HelperEnds("Failed")
       \/ report = "errno" /\ report' = "none" /\ UNCHANGED go /\ HelperEnds("Failed")
       \/ HelperEof /\ UNCHANGED <<report, go>> /\ HelperEnds("NoReport")

(* send_go, with the pidfd in hand. *)
SendGo ==
    /\ helper = "move" /\ UNCHANGED report
    /\ \/ EndOpen /\ go' = TRUE /\ HelperEnds("Opened")
       \/ ~EndOpen /\ UNCHANGED go /\ HelperEnds("Gone")
       \* The pidfd could not be moved above stdio, or the send failed.
       \/ UNCHANGED go /\ HelperEnds("FailedHeld")

Helper == RecvReport \/ SendGo

-----------------------------------------------------------------------------
(* The spawning thread                                                     *)

SpawnReturns(result) == spawned' = result /\ at' = "returned"

StartsHelper ==
    /\ at = "start"
    /\ \/ at' = "fork" /\ helper' = "recv" /\ UNCHANGED answer
       \* The thread cannot be started: spawn() is never called.
       \/ at' = "abandon" /\ answer' = "NotStarted" /\ UNCHANGED helper
    /\ UNCHANGED <<childVars, spawned, watch, outcome>>

Forks ==
    /\ at = "fork"
    /\ \/ kid' = "forked" /\ num' = "own" /\ at' = "spawn" /\ UNCHANGED spawned
       \/ SpawnReturns("err") /\ UNCHANGED <<kid, num>>
    /\ UNCHANGED <<scene, doomed, reaper, errno, ran, inLeaf, channel, leafChannel,
                   watch, answer, helperVars>>

(* A fork of another thread copies the write end of std's status channel,   *)
(* between its creation and std's close of its own.                         *)
ForkCopiesStatus ==
    /\ at = "fork" /\ "status" \notin copy /\ copy' = copy \cup {"status"}
    /\ UNCHANGED <<scene, process, report, go, rdShut, bothShut, ownEnd, leafChannel,
                   runVars, helperVars>>

(* std reads the end of its status channel, once nobody holds a copy of it: *)
(* the child execed, or died with nothing sent. tokio's own setup can then  *)
(* still fail, or panic, and drops the child neither killed nor reaped.     *)
StdSucceeds ==
    /\ at = "spawn" /\ "status" \notin copy
    /\ scene.early \/ kid = "program" \/ (Dead /\ ~errno)
    /\ \E result \in IF scene.rt = "tokio" THEN {"ok", "err", "panic"} ELSE {"ok"} :
           SpawnReturns(result)
    /\ UNCHANGED <<childVars, watch, answer, helperVars>>

(* std reads the child's error, and waits for the child by its number.      *)
StdFails ==
    /\ at = "spawn" /\ errno
    /\ \/ kid = "zombie" /\ Collected("std") /\ SpawnReturns("err")
       \/ kid = "reaped" /\ num = "free" /\ SpawnReturns("panic") /\ UNCHANGED <<kid, reaper, num>>
    /\ UNCHANGED <<scene, doomed, errno, ran, inLeaf, channel, leafChannel, watch, answer, helperVars>>

(* The same wait, once the number names another child of this process: it   *)
(* ends with that child's exit, which it takes.                             *)
StdFailsOnAStranger ==
    /\ at = "spawn" /\ errno /\ num = "taken"
    /\ SpawnReturns("err")
    /\ UNCHANGED <<childVars, watch, answer, helperVars>>

(* Mutant: no end of file is forced on the helper of a failed spawn. *)
ReturnedUnforced ==
    /\ at = "returned"
    /\ ownEnd' = FALSE
    /\ at' = IF spawned = "ok" THEN "watch" ELSE "join"
    /\ UNCHANGED <<scene, process, report, go, rdShut, bothShut, copy, leafChannel,
                   spawned, watch, answer, helperVars>>

(* The thread's own copy of the child's end goes. A failed spawn, or an      *)
(* unwinding one, forces the helper's end of file and only joins it.         *)
Returned ==
    /\ at = "returned"
    /\ ownEnd' = FALSE
    /\ rdShut' = (spawned # "ok")
    /\ at' = IF spawned = "ok" THEN "watch" ELSE "join"
    /\ UNCHANGED <<scene, process, report, go, bothShut, copy, leafChannel,
                   spawned, watch, answer, helperVars>>

(* child_exited_before_the_helper_finished                                  *)
Watches(next) ==
    /\ at' = next
    /\ UNCHANGED <<scene, process, channel, leafChannel, spawned, answer, helperVars>>

WatchEnds(forced) ==
    /\ at' = "join" /\ watch' = "none"
    /\ rdShut' = forced
    /\ UNCHANGED <<scene, process, report, go, bothShut, ownEnd, copy, leafChannel,
                   spawned, answer, helperVars>>

WatchLooks ==
    /\ at = "watch"
    /\ IF helper = "done" THEN WatchEnds(FALSE)
                          ELSE Watches("open") /\ UNCHANGED watch

(* Opened by number: the child's while it is unreaped, then anyone's. *)
WatchOpens ==
    /\ at = "open"
    /\ IF num = "free" THEN WatchEnds(TRUE)
       ELSE Watches("peek") /\ watch' = IF num = "own" THEN "child" ELSE "other"

WatchedExited == watch = "child" /\ Dead

WatchPeeks ==
    /\ at = "peek"
    /\ IF WatchedExited THEN WatchEnds(TRUE)
                        ELSE Watches("poll") /\ UNCHANGED watch

WatchPolls ==
    /\ at = "poll"
    /\ helper = "done" \/ WatchedExited
    /\ WatchEnds(helper # "done")

(* Whatever else the watch opened by number exits when it likes. *)
StrangerExits == at = "poll" /\ watch = "other" /\ helper # "done" /\ WatchEnds(TRUE)

(* A poll, the open, its move above stdio or the peek failed. *)
WatchFails == at \in {"watch", "open", "peek", "poll"} /\ WatchEnds(TRUE)

Watching == WatchLooks \/ WatchOpens \/ WatchPeeks \/ WatchPolls

Joins ==
    /\ at = "join" /\ helper = "done"
    /\ at' = IF spawned = "panic" THEN "abandon" ELSE "conclude"
    /\ answer' = IF spawned = "panic" THEN "Panic" ELSE answer
    /\ UNCHANGED <<childVars, spawned, watch, helperVars>>

Running == StartsHelper \/ Forks \/ StdSucceeds \/ StdFails \/ Returned \/ Watching \/ Joins
=============================================================================
