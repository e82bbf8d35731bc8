----------------------------- MODULE HeldChild -----------------------------
(***************************************************************************)
(* The child of a Linux spawn between fork and exec, and the kernel's side *)
(* of what it talks through: the handshake's socket pair (hold_child), the *)
(* in-child steps that follow it, the last of which before exec is the     *)
(* placement in the cgroup leaf (placement_hook), and the leaf's report    *)
(* channel. Around it, what the rest of the host does at any time: kill    *)
(* the child, reap it, take its number, and copy descriptors of the spawn  *)
(* in a fork that never execs: the child's end of the handshake, or the    *)
(* write end of std's status channel.                                      *)
(***************************************************************************)
CONSTANT Scenes    \* the spawns looked at: [rt, early, front, contain]

(* `early`: two of fds 0-2 are closed, so std's spawn returns before the   *)
(* hooks have run and std's error channel reaches nobody.                  *)
ASSUME ScenesAssumption ==
    Scenes \subseteq [rt : {"std", "tokio"}, early : BOOLEAN, front : BOOLEAN,
                      contain : {"none", "group", "leaf"}]

VARIABLES
    scene,
    kid,       \* how far the child is
    doomed,    \* the SIGKILL pending on it: none, one of its own, or its leaf's
    reaper,    \* who collected it
    num,       \* whose its number is: its own, free, or taken by a running child
    errno,     \* std's error channel carries a failure report
    ran,       \* history: the program was executed
    inLeaf,    \* its cgroup.procs write succeeded
    report,    \* the message queued on the parent's end of the handshake
    go,        \* GO is queued on the child's end
    rdShut,    \* the parent's end is shut for reading
    bothShut,  \* the parent's end is shut both ways
    ownEnd,    \* the spawning thread's copy of the child's end is open
    copy,      \* what a fork without exec holds: the child's end, std's status channel
    said,      \* what the child has sent over the leaf's channel
    handle,    \* the handle on itself its intent carried
    exchange   \* the leaf's channel: open, decided or abandoned

process == <<kid, doomed, reaper, num, errno, ran, inLeaf>>
channel == <<report, go, rdShut, bothShut, ownEnd, copy>>
leafChannel == <<said, handle, exchange>>
childVars == <<scene, process, channel, leafChannel>>

BeforeExec == {"forked", "told", "going", "named", "wrote", "ready"}
Alive == kid \in BeforeExec \cup {"program"}
Dead == kid \in {"zombie", "reaped"}
HasLeaf == scene.contain = "leaf"

ChildInit ==
    /\ scene \in Scenes
    /\ kid = "none" /\ reaper = "none" /\ num = "free" /\ report = "none"
    /\ doomed = "no" /\ errno = FALSE /\ ran = FALSE /\ inLeaf = FALSE
    /\ go = FALSE /\ rdShut = FALSE /\ bothShut = FALSE
    /\ ownEnd = TRUE /\ copy = {}
    /\ said = {} /\ handle = "none" /\ exchange = "open"

-----------------------------------------------------------------------------
(* The child's own steps                                                   *)

Becomes(phase) == kid' = phase /\ UNCHANGED <<doomed, reaper, num, errno>>

(* A hook that fails: std's code in the child sends the error and exits. *)
HookFails ==
    /\ kid' = "zombie" /\ errno' = ~scene.early
    /\ UNCHANGED <<doomed, reaper, num>>

(* _exit from inside the hook: nothing goes over std's channel. *)
ExitsAbandoned == Becomes("zombie")

(* A send on the child's end fails once the parent's end no longer reads. *)
ParentReads == ~rdShut /\ ~bothShut

(* hold_child: open a pidfd on itself and send it, or send the refusal. *)
SendsPidfd ==
    /\ kid = "forked"
    /\ IF ParentReads THEN report' = "pidfd" /\ Becomes("told")
                      ELSE HookFails /\ UNCHANGED report
    /\ UNCHANGED <<scene, ran, inLeaf, go, rdShut, bothShut, ownEnd, copy, leafChannel>>

RefusedPidfd ==
    /\ kid = "forked"
    /\ HookFails
    /\ report' = IF ParentReads THEN "errno" ELSE report
    /\ UNCHANGED <<scene, ran, inLeaf, go, rdShut, bothShut, ownEnd, copy, leafChannel>>

(* What was queued before a shutdown is read before its end of file. *)
TakesVerdict ==
    /\ kid = "told"
    /\ \/ go /\ Becomes("going")
       \/ ~go /\ bothShut /\ HookFails
    /\ UNCHANGED <<scene, ran, inLeaf, channel, leafChannel>>

(* Mutant: a closed exchange is always read as one the parent decided. *)
DeliveryDecided == IF exchange = "open" THEN "Queued" ELSE "Decided"

(* ReportSlot::send: how a message on the leaf's channel fares. *)
Delivery == CASE exchange = "open"      -> "Queued"
              [] exchange = "decided"   -> "Decided"
              [] exchange = "abandoned" -> "Abandoned"

Intents == {"pidfd", "proc_dir", "none"}

(* The intent, with the handle on itself the child could open. A parent that *)
(* decided without it is carried on from; one that abandoned it, exited for. *)
SendsIntent ==
    /\ kid = "going"
    /\ IF HasLeaf /\ Delivery = "Queued"
       THEN Becomes("named") /\ said' = said \cup {"intent"} /\ handle' \in Intents
       ELSE /\ UNCHANGED <<said, handle>>
            /\ IF HasLeaf /\ Delivery = "Abandoned" THEN ExitsAbandoned ELSE Becomes("ready")
    /\ UNCHANGED <<scene, ran, inLeaf, channel, exchange>>

(* The write into cgroup.procs, which the kernel may refuse. *)
WritesProcs ==
    /\ kid = "named" /\ Becomes("wrote")
    /\ inLeaf' \in BOOLEAN
    /\ UNCHANGED <<scene, ran, channel, leafChannel>>

SendsReport ==
    /\ kid = "wrote"
    /\ IF Delivery = "Abandoned" THEN ExitsAbandoned ELSE Becomes("ready")
    /\ said' = IF Delivery = "Queued"
               THEN said \cup {IF inLeaf THEN "Placed" ELSE "WriteFailed"}
               ELSE said
    /\ UNCHANGED <<scene, ran, inLeaf, channel, handle, exchange>>

(* A step of InChild::run, a message that could not be sent, or exec fails. *)
StepFails ==
    /\ kid \in {"going", "wrote", "ready"} /\ HookFails
    /\ UNCHANGED <<scene, ran, inLeaf, channel, leafChannel>>

Execs ==
    /\ kid = "ready" /\ Becomes("program") /\ ran' = TRUE
    /\ UNCHANGED <<scene, inLeaf, channel, leafChannel>>

ChildSteps == SendsPidfd \/ TakesVerdict \/ SendsIntent \/ WritesProcs \/ SendsReport \/ Execs

-----------------------------------------------------------------------------
(* The host                                                                *)

(* A signal of somebody's, or the program's own exit. *)
Dies ==
    /\ Alive /\ Becomes("zombie")
    /\ UNCHANGED <<scene, ran, inLeaf, channel, leafChannel>>

DiesOfTheKill == doomed # "no" /\ Dies

Collected(by) == kid' = "reaped" /\ reaper' = by /\ num' = "free"

(* Another thread's waitpid(-1), or SIGCHLD ignored. *)
ForeignReap ==
    /\ kid = "zombie" /\ Collected("foreign")
    /\ UNCHANGED <<scene, doomed, errno, ran, inLeaf, channel, leafChannel>>

NumberTaken ==
    /\ kid = "reaped" /\ num = "free" /\ num' = "taken"
    /\ UNCHANGED <<scene, kid, doomed, reaper, errno, ran, inLeaf, channel, leafChannel>>

ForkCopies ==
    /\ ownEnd /\ "end" \notin copy /\ copy' = copy \cup {"end"}
    /\ UNCHANGED <<scene, process, report, go, rdShut, bothShut, ownEnd, leafChannel>>

CopyCloses ==
    /\ \E c \in copy : (c = "end" => ~ownEnd) /\ copy' = copy \ {c}
    /\ UNCHANGED <<scene, process, report, go, rdShut, bothShut, ownEnd, leafChannel>>

Host == Dies \/ ForeignReap \/ NumberTaken \/ ForkCopies \/ CopyCloses

-----------------------------------------------------------------------------
(* What a holder of the child's pidfd can do                               *)

(* A pidfd names the child whoever reaped it: SIGKILL reaches it or nobody. *)
Signalled == doomed' = IF Alive THEN "signal" ELSE doomed
KillDelivered == kid # "reaped" /\ Signalled
KillMisses == kid = "reaped" /\ UNCHANGED doomed
(* A program with other credentials (setuid) may refuse the signal. *)
KillRefused == ran /\ kid \in {"program", "zombie"} /\ UNCHANGED doomed

(* Some copy of the child's end is open, so a send from the parent's end is *)
(* queued, and the parent's end reads no end of file by itself.             *)
EndOpen == ownEnd \/ "end" \in copy \/ kid \in BeforeExec
=============================================================================
