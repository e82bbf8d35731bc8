------------------------------ MODULE ProcSource ------------------------------
(***************************************************************************)
(* The Linux backend of an async child (tokio/child/proc_source.rs): a     *)
(* tokio Child, whose every reap goes by number, behind a pidfd, through    *)
(* which the backend looks first. A child that a look does not show ours is *)
(* forgotten: tokio's Child is leaked, because its drop reaps by number.    *)
(* The wait sleeps on the pidfd's readiness in the reactor.                 *)
(*                                                                         *)
(* Around it: a tracer that holds the zombie for a while, another reaper in *)
(* the process, and siblings (other children of the process) that take the  *)
(* number once it is free.                                                   *)
(***************************************************************************)
EXTENDS Naturals

CONSTANT MaxFaults      \* how many looks and watches fail
ASSUME MaxFaultsAssumption == MaxFaults \in Nat

VARIABLES
    kid,        \* running, held (a zombie a tracer holds), zombie, reaped
    doomed,     \* a SIGKILL was delivered to it
    reaper,     \* who took its exit status: none, tokio (this Child) or foreign
    num,        \* whom the number names: own, free, sibling, or done (a sibling's zombie)
    stolen,     \* a sibling's record was reaped: no, gap or blind (see Steal)
    faults,
    backend,    \* Tokio; Foreign by its fate; then Orphan (in tokio's queue) or Released
    collected,  \* tokio's Child has its status: id() is None
    shown,      \* a look showed the child ours since the call, its last await and its last signal
    at,         \* where the one task that owns the child is
    edge,       \* the pidfd woke, and the reactor has not seen it
    ready,      \* the registration's readiness
    guard       \* the readiness a wait holds: none, fresh, or stale (a later wake came)

process == <<kid, doomed, num, reaper>>
reactor == <<edge, ready, guard>>
sourceVars == <<process, stolen, faults, backend, collected, shown, at, reactor>>

SourceInit ==
    /\ kid = "running" /\ doomed = FALSE /\ num = "own" /\ reaper = "none"
    /\ stolen = "no" /\ faults = 0
    /\ backend = "Tokio" /\ collected = FALSE /\ shown = FALSE /\ at = "idle"
    /\ edge = FALSE /\ ready = FALSE /\ guard = "none"

Watching == at \in {"await", "look", "reap", "seen"}
HoldsUnreaped == backend = "Tokio" /\ ~collected
IsReaped == ~HoldsUnreaped

-----------------------------------------------------------------------------
(* The kernel and the rest of the process                                  *)

Wake == edge' = (edge \/ Watching) /\ UNCHANGED <<ready, guard>>
Surroundings == UNCHANGED <<stolen, faults, backend, collected, shown, at>>

(* The pidfd wakes at the exit, held or not, and again at the hand-back. *)
Exits ==
    /\ kid = "running" /\ kid' \in {"zombie", "held"} /\ Wake
    /\ UNCHANGED <<doomed, num, reaper>> /\ Surroundings

HandBack ==
    /\ kid = "held" /\ kid' = "zombie" /\ Wake
    /\ UNCHANGED <<doomed, num, reaper>> /\ Surroundings

(* Another reaper in this process, or SIGCHLD ignored. *)
ForeignReap ==
    /\ kid = "zombie" /\ kid' = "reaped" /\ num' = "free" /\ reaper' = "foreign"
    /\ UNCHANGED <<doomed, reactor>> /\ Surroundings

Reuse ==
    /\ kid = "reaped"
    /\ \/ num = "free" /\ num' = "sibling"
       \/ num = "sibling" /\ num' = "done"
       \/ num = "done" /\ num' = "free"
    /\ UNCHANGED <<kid, doomed, reaper, reactor>> /\ Surroundings

(* The reactor's turn: a new readiness, which an older guard cannot clear. *)
ReactorTurns ==
    /\ edge /\ edge' = FALSE /\ ready' = TRUE
    /\ guard' = IF guard = "none" THEN "none" ELSE "stale"
    /\ UNCHANGED process /\ Surroundings

-----------------------------------------------------------------------------
(* Looks, forgetting, and reaps by number                                  *)

Fault == faults < MaxFaults /\ faults' = faults + 1

(* state_of, for a child tokio has not reaped: Unreaped, Reaped, or Unknown *)
(* (the peek failed).                                                       *)
Looks(s) ==
    /\ IF s = "Unknown" THEN Fault
       ELSE s = (IF kid = "reaped" THEN "Reaped" ELSE "Unreaped") /\ UNCHANGED faults
    /\ shown' = (s = "Unreaped")

States == {"Unreaped", "Reaped", "Unknown"}
ForgottenOf(s) == IF s = "Unknown" THEN "Unproven" ELSE "ReapedElsewhere"
Forget(fate) == backend' = IF backend = "Tokio" THEN fate ELSE backend
AsIs == UNCHANGED <<backend, collected, stolen>>

(* What waitpid answers by number, and what it takes. A sibling's record    *)
(* is stolen in the gap after a look, or blindly.                            *)
ByNumber == CASE num = "own" /\ kid = "zombie" -> "status"
              [] num = "done"                  -> "status"
              [] num = "free"                  -> "echild"
              [] OTHER                         -> "none"
Steal == IF shown THEN "gap" ELSE "blind"

TryWait ==
    /\ collected' = (ByNumber = "status")
    /\ IF num = "own" /\ ByNumber = "status" THEN kid' = "reaped" /\ reaper' = "tokio"
                                              ELSE UNCHANGED <<kid, reaper>>
    /\ num' = IF ByNumber = "status" THEN "free" ELSE num
    /\ stolen' = IF num = "done" /\ stolen # "blind" THEN Steal ELSE stolen

(* signal(SIGKILL) through the pidfd, which a forgotten backend keeps: what *)
(* was sent. A setuid child refuses it.                                      *)
Signal(sent) ==
    /\ shown' = FALSE
    /\ IF collected \/ backend = "ReapedElsewhere" \/ kid = "reaped"
       THEN sent = "Gone" /\ UNCHANGED doomed
       ELSE \/ sent = "Delivered" /\ doomed' = (doomed \/ kid = "running")
            \/ sent = "Refused" /\ UNCHANGED doomed

Sents == {"Gone", "Delivered", "Refused"}

(* The future leaves the loop: the watch is deregistered. *)
Leaves(to) == at' = to /\ edge' = FALSE /\ ready' = FALSE /\ guard' = "none"

-----------------------------------------------------------------------------
(* reap_on_events, with `back` where its caller goes on after a status and   *)
(* `unwatched` after a watch that failed.                                     *)

(* The registration itself reports a pidfd that is already readable. *)
Arm(unwatched) ==
    /\ at = "arm" /\ UNCHANGED <<process, shown>> /\ AsIs
    /\ \/ at' = "await" /\ edge' = (kid # "running") /\ UNCHANGED <<ready, guard, faults>>
       \/ Fault /\ at' = unwatched /\ UNCHANGED reactor

TakeReady(unwatched) ==
    /\ at = "await" /\ ready /\ UNCHANGED process /\ AsIs
    /\ shown' = FALSE
    /\ \/ at' = "look" /\ guard' = "fresh" /\ UNCHANGED <<edge, ready, faults>>
       \/ Fault /\ Leaves(unwatched)

(* The look answers s. A zombie its tracer holds shows no exit. A child that *)
(* is gone, or that the look cannot answer for, ends the wait, as its caller  *)
(* decides.                                                                    *)
LookForExit(s) ==
    /\ at = "look" /\ UNCHANGED process
    /\ Looks(s)
    /\ s = "Unreaped" =>
          /\ at' = IF kid = "zombie" THEN "reap" ELSE "seen"
          /\ UNCHANGED reactor /\ AsIs

(* tokio's try_wait right after the look that showed the exit: with no      *)
(* record, someone reaped the child in between.                              *)
ReapAfterLook(back, between) ==
    /\ at = "reap" /\ TryWait /\ shown' = FALSE /\ UNCHANGED <<doomed, faults>>
    /\ IF collected' THEN Leaves(back) /\ UNCHANGED backend
                     ELSE Leaves(between) /\ Forget("ReapedElsewhere")

(* Mutant: whatever is ready is cleared, a later wake included. *)
SeenClearsAll ==
    /\ at = "seen" /\ at' = "await" /\ guard' = "none" /\ ready' = FALSE
    /\ UNCHANGED <<process, edge, faults, shown>> /\ AsIs

Seen ==
    /\ at = "seen" /\ at' = "await" /\ guard' = "none"
    /\ ready' = (ready /\ guard = "stale")
    /\ UNCHANGED <<process, edge, faults, shown>> /\ AsIs

-----------------------------------------------------------------------------
(* gate, of wait and try_wait: a forgotten child answers ECHILD and a        *)
(* collected one its status; one reaped elsewhere is forgotten, and one the  *)
(* handle cannot answer for is left in place.                                *)
Gate(pass) ==
    /\ UNCHANGED <<process, collected, stolen, reactor>>
    /\ IF IsReaped THEN at' = "idle" /\ UNCHANGED <<backend, faults, shown>>
       ELSE \E s \in States :
              /\ Looks(s)
              /\ at' = IF s = "Unreaped" THEN pass ELSE "idle"
              /\ IF s = "Reaped" THEN Forget("ReapedElsewhere") ELSE UNCHANGED backend
=============================================================================
