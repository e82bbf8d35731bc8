---------------------------- MODULE SpawnTeardown ----------------------------
(***************************************************************************)
(* What a Linux spawn makes of the joined handshake (conclude), and how a  *)
(* failed one deals with its child: the teardown through the pidfd, tokio's *)
(* reap of a child that never ran, and the leaving of an elevation front.  *)
(***************************************************************************)
EXTENDS PidfdHandshake

VARIABLES
    fate,       \* the ChildFate the failure carries
    told,       \* a warning says the child may be left behind
    bg,         \* who reaps the child once the spawn has answered
    left,       \* the pidfd was left for the leaf's abandonment
    delivered,  \* this teardown's kill was delivered
    reached,    \* the leaf's kill reached the child
    ret         \* where this teardown goes on

fateVars == <<fate, told, bg>>
localVars == <<left, delivered, reached, ret>>
upper == <<fateVars, localVars>>
handshakeVars == <<childVars, runVars, helperVars>>

TeardownInit ==
    /\ fate = "none" /\ told = FALSE /\ bg = "none"
    /\ left = FALSE /\ delivered = FALSE /\ reached = FALSE /\ ret = "none"

(* Mutant: tokio's error is taken for std's. *)
ErrAlwaysProvesNoExec == TRUE

ErrProvesNoExec == scene.rt = "std"

-----------------------------------------------------------------------------
(* conclude                                                                *)

(* Who answers for a child told to go whose spawn() failed: only tokio's    *)
(* spawn names any but NotAFront.                                           *)
LeftFront == IF scene.rt = "std" THEN "NotAFront"
             ELSE CASE scene.front /\ HasLeaf                   -> "ToLeaf"
                    [] scene.front /\ ~HasLeaf                  -> "Here"
                    [] ~scene.front /\ HasLeaf                  -> "LeafHeld"
                    [] ~scene.front /\ scene.contain = "group"  -> "GroupRoot"
                    [] OTHER                                    -> "NotAFront"

Concludes(kind) ==
    /\ at = "conclude" /\ answer' = kind
    /\ UNCHANGED <<scene, spawned, watch, helperVars>>

ChildUntouched == UNCHANGED <<process, channel, leafChannel>>

(* The handshake's success: the child, and the pidfd it sent. *)
ConcludeHeld ==
    /\ spawned = "ok" /\ outcome = "Opened"
    /\ Concludes("Held") /\ at' = "identity"
    /\ ChildUntouched /\ UNCHANGED upper

(* Not told to go, with its pidfd in hand. *)
ConcludeUnexecuted ==
    /\ outcome \in {"Gone", "FailedHeld"}
    /\ Concludes("NotStartedWithChild")
    /\ at' = IF spawned = "ok" /\ scene.rt = "tokio" THEN "unexecuted" ELSE "peekdown"
    /\ ret' = "abandon"
    /\ ChildUntouched /\ UNCHANGED <<fateVars, left, delivered, reached>>

(* Not told to go, with nothing in hand: abandon_unreported leaves a child  *)
(* spawn() returned to tokio's reaper, or unreaped with a warning.          *)
ConcludeUnreported ==
    /\ outcome \in {"Failed", "NoReport"}
    /\ IF spawned = "ok"
       THEN /\ Concludes("NotStartedWithChild")
            /\ fate' = "Killed"
            /\ told' = (scene.rt = "std")
            /\ bg' = IF scene.rt = "tokio" THEN "tokio" ELSE bg
       ELSE /\ Concludes(IF ErrProvesNoExec THEN "NotStarted" ELSE "NotStartedUnreaped")
            /\ UNCHANGED fateVars
    /\ at' = "abandon"
    /\ ChildUntouched /\ UNCHANGED localVars

GroupKill == Signalled \/ UNCHANGED doomed

(* opened_teardown: the one failure after which the program may have run.   *)
(* A group kill misses a root that left its group, and old kernels refuse   *)
(* it.                                                                      *)
ConcludeOpened ==
    /\ spawned = "err" /\ outcome = "Opened"
    /\ Concludes(IF ErrProvesNoExec THEN "NotStarted" ELSE "MayHaveStarted")
    /\ ret' = "abandon"
    /\ CASE LeftFront = "ToLeaf" ->
              at' = "abandon" /\ left' = TRUE /\ fate' = "Unknown" /\ UNCHANGED doomed
         [] LeftFront = "Here" /\ kid # "reaped" ->
              at' = "leave" /\ UNCHANGED <<left, fate, doomed>>
         [] LeftFront = "LeafHeld" ->
              at' = "peekdown" /\ left' \in BOOLEAN /\ UNCHANGED <<fate, doomed>>
         [] LeftFront = "GroupRoot" ->
              at' = "peekdown" /\ GroupKill /\ UNCHANGED <<left, fate>>
         [] OTHER -> at' = "peekdown" /\ UNCHANGED <<left, fate, doomed>>
    /\ UNCHANGED <<kid, reaper, num, errno, ran, inLeaf, channel, leafChannel,
                   told, bg, delivered, reached>>

Conclude == ConcludeHeld \/ ConcludeUnexecuted \/ ConcludeUnreported \/ ConcludeOpened

-----------------------------------------------------------------------------
(* The teardown through the pidfd                                          *)

Tears(next) ==
    /\ at' = next
    /\ UNCHANGED <<scene, errno, ran, inLeaf, channel, leafChannel,
                   spawned, watch, answer, helperVars, left, reached, ret>>

Unreaped == UNCHANGED <<kid, reaper, num>>

(* The teardown is over, with this fate: the failure's, unless the leaf's   *)
(* abandonment made it.                                                     *)
Ends(f) ==
    /\ Tears(ret) /\ delivered' = FALSE
    /\ fate' = IF ret = "ended" THEN fate ELSE f

(* teardown_through_pidfd's look before its kill. *)
PeekDown ==
    /\ at = "peekdown" /\ Unreaped /\ UNCHANGED <<doomed, told, bg>>
    /\ IF kid = "reaped" THEN Ends("Gone")
                         ELSE Tears("kill") /\ UNCHANGED <<fate, delivered>>

(* kill_unadopted *)
Kill ==
    /\ at = "kill" /\ Unreaped /\ UNCHANGED fateVars
    /\ \/ KillDelivered /\ delivered' = TRUE /\ Tears("wait")
       \/ KillMisses /\ UNCHANGED delivered /\ Tears("wait")
       \/ KillRefused /\ UNCHANGED delivered /\ Tears("refused")

(* A refused kill is followed by a look, and by a second one once it is     *)
(* warned of: a child either finds dead is reaped there, and any other goes *)
(* to a thread that reaps it when it exits.                                 *)
Refused ==
    /\ at = "refused" /\ UNCHANGED doomed
    /\ CASE kid = "program" -> Ends("Running") /\ Unreaped /\ told' = TRUE /\ bg' = "cosca"
         [] kid = "zombie"  -> /\ Ends("Reaped") /\ Collected("cosca")
                               /\ told' \in {told, TRUE} /\ UNCHANGED bg
         [] kid = "reaped"  -> Ends("Gone") /\ Unreaped /\ told' = TRUE /\ UNCHANGED bg

(* ProcSource's own kill of a child tokio's spawn returned. One it is        *)
(* refused for is forgotten if it is reaped by then, and otherwise handed to *)
(* the teardown above, with a warning.                                       *)
OwnKill ==
    /\ at = "ownkill" /\ Unreaped /\ UNCHANGED fateVars
    /\ \/ KillDelivered /\ delivered' = TRUE /\ Tears("wait")
       \/ KillMisses /\ UNCHANGED delivered /\ Tears("wait")
       \/ KillRefused /\ UNCHANGED delivered /\ Tears("ownrefused")

OwnRefused ==
    /\ at = "ownrefused" /\ Unreaped /\ told' = TRUE /\ UNCHANGED <<doomed, bg>>
    /\ IF kid = "reaped" THEN Ends("Gone")
                         ELSE Tears("peekdown") /\ UNCHANGED <<fate, delivered>>

(* reap_unadopted, or reap_blocking: both through the pidfd *)
Wait ==
    /\ at = "wait" /\ UNCHANGED <<doomed, told, bg>>
    /\ \/ kid = "zombie" /\ Collected("cosca") /\ Ends("Reaped")
       \/ kid = "reaped" /\ Unreaped /\ Ends(IF delivered THEN "Killed" ELSE "Gone")

(* tokio's reap_unexecuted: the kill and the wait go through the pidfd, the *)
(* reap by number.                                                          *)
AwaitUnexecuted ==
    /\ at = "unexecuted" /\ Unreaped /\ UNCHANGED fateVars
    /\ \/ KillDelivered /\ delivered' = TRUE
       \/ KillMisses /\ UNCHANGED delivered
    /\ Tears("visible")

TryWaitUnexecuted ==
    /\ at = "visible" /\ Dead /\ UNCHANGED <<doomed, told, bg>>
    /\ \/ num = "own" /\ Collected("tokio") /\ Ends("Reaped")
       \/ num = "free" /\ Unreaped /\ Ends(IF delivered THEN "Killed" ELSE "Gone")
       \* Another child's number by now: not yet collectable, or collected for it.
       \/ num = "taken" /\ Unreaped /\ \E f \in {"Killed", "Reaped"} : Ends(f)

-----------------------------------------------------------------------------
(* An elevation front                                                      *)

(* leave_unadopted_front_noting: sent nothing, reaped if it has exited,     *)
(* waited for if the leaf's kill reached it, left with a warning otherwise. *)
LeaveFront ==
    /\ at = "leave" /\ UNCHANGED <<doomed, bg>>
    /\ CASE kid = "zombie" -> Collected("cosca") /\ Ends("Reaped") /\ UNCHANGED told
         [] kid = "reaped" -> Unreaped /\ Ends("Gone") /\ UNCHANGED told
         [] OTHER ->
              /\ Unreaped
              /\ \/ reached /\ Tears("leavewait") /\ UNCHANGED <<fate, told, delivered>>
                 \* Out of reach, or the leaf's subtree could not be captured.
                 \/ (reached => HasLeaf) /\ Ends("Running") /\ told' = TRUE
                 \* Where it is cannot be read.
                 \/ HasLeaf /\ Ends("Unknown") /\ told' = TRUE

LeaveWait ==
    /\ at = "leavewait" /\ UNCHANGED <<doomed, bg>>
    /\ \/ kid = "zombie" /\ Collected("cosca") /\ Ends("Reaped") /\ UNCHANGED told
       \/ kid = "reaped" /\ Unreaped /\ Ends("Killed") /\ told' = TRUE

Teardown == PeekDown \/ Kill \/ Refused \/ OwnKill \/ OwnRefused \/ Wait \/ AwaitUnexecuted \/ TryWaitUnexecuted
            \/ LeaveFront \/ LeaveWait
=============================================================================
