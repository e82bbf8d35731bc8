------------------------------ MODULE TokioChild ------------------------------
(***************************************************************************)
(* The async Child on Linux (tokio/child.rs) over its backend (ProcSource):  *)
(* wait, try_wait, kill, graceful_shutdown and detach, in any order, and the *)
(* teardown, by Drop on the dropping thread or awaited by a helper that runs *)
(* a child to completion. The child has no containment of its own here: the  *)
(* tree's kill and drain are TreeCall's and CgroupLeaf's.                    *)
(***************************************************************************)
EXTENDS ProcSource

VARIABLES
    armed,      \* kill_on_drop
    teardown    \* the teardown's own record, see NoTeardown

vars == <<sourceVars, armed, teardown>>

(* awaited: tear_down_awaiting. own, forgotten: the backend when it began.  *)
(* view: DropView.root. settle: DropSignals.settle. sent: the kill's answer. *)
(* forgot: DropSignals.forgot is set.                                        *)
NoTeardown == [awaited |-> FALSE, own |-> FALSE, forgotten |-> "none", view |-> "none",
               fate |-> "none", settle |-> "Nothing", sent |-> "none", forgot |-> FALSE]

Init == SourceInit /\ armed \in BOOLEAN /\ teardown = NoTeardown

Records(r) == teardown' = [f \in DOMAIN teardown |-> IF f \in DOMAIN r THEN r[f] ELSE teardown[f]]

-----------------------------------------------------------------------------
(* The calls                                                               *)

Call == UNCHANGED <<armed, teardown>>
CallWait == at = "idle" /\ Gate("arm") /\ Call

CallTryWait == at = "idle" /\ Gate("trynum") /\ Call

(* try_wait's waitpid, whose ECHILD is answered and not acted on. *)
TryNumber ==
    /\ at = "trynum" /\ TryWait /\ at' = "idle" /\ shown' = FALSE
    /\ UNCHANGED <<doomed, faults, backend, reactor>> /\ Call

(* kill_sent_gated: a kill that found the child gone forgets it, if a look   *)
(* does not show it ours. Then, in graceful_shutdown, the wait.               *)
Kill ==
    /\ at \in {"idle", "escalate"}
    /\ \E sent \in Sents :
          /\ Signal(sent)
          /\ IF sent = "Gone" /\ HoldsUnreaped
             THEN \E s \in {"Reaped", "Unknown"} :
                    /\ IF s = "Unknown" THEN Fault ELSE UNCHANGED faults
                    /\ Forget(ForgottenOf(s))
             ELSE UNCHANGED <<faults, backend>>
          /\ at' = IF at = "escalate" /\ sent # "Refused" THEN "gate" ELSE "idle"
    /\ UNCHANGED <<kid, num, reaper, collected, stolen, reactor>> /\ Call

(* graceful_shutdown: the SIGTERM, the grace's watch, and the escalation.   *)
GracefulShutdown ==
    /\ at = "idle" /\ at' = "grace"
    /\ UNCHANGED <<process, reactor, faults, shown>> /\ AsIs /\ Call

GraceEnds ==
    /\ at = "grace"
    /\ at' \in IF kid = "running" THEN {"escalate"} ELSE {"gate", "escalate"}
    /\ UNCHANGED <<process, reactor, faults, shown>> /\ AsIs /\ Call

WaitAfterGrace == at = "gate" /\ Gate("arm") /\ Call

Detach ==
    /\ at = "idle" /\ armed /\ armed' = FALSE
    /\ UNCHANGED <<sourceVars, teardown>>

-----------------------------------------------------------------------------
(* The reap on events, for a wait and for an awaited teardown              *)

Tearing == teardown.awaited

(* wait refuses what its look found; a teardown forgets it (verdict_of). *)
Halt(s) ==
    /\ UNCHANGED <<collected, stolen>>
    /\ IF Tearing THEN Leaves("report") /\ Forget(ForgottenOf(s)) /\ Records([forgot |-> TRUE])
       ELSE /\ Leaves("idle") /\ UNCHANGED teardown
            /\ IF s = "Reaped" THEN Forget("ReapedElsewhere") ELSE UNCHANGED backend

LookStep ==
    \E s \in States :
        /\ LookForExit(s)
        /\ IF s = "Unreaped" THEN UNCHANGED teardown ELSE Halt(s)

ReapStep ==
    /\ ReapAfterLook(IF Tearing THEN "report" ELSE "idle", IF Tearing THEN "report" ELSE "idle")
    /\ IF ~Tearing THEN UNCHANGED teardown
       ELSE IF collected' THEN Records([fate |-> "Reaped"]) ELSE Records([forgot |-> TRUE])

(* A teardown whose exit cannot be watched reaps on its thread, blocking. *)
Unwatched == IF Tearing THEN "exitwait" ELSE "idle"

Loop ==
    /\ \/ (Arm(Unwatched) \/ TakeReady(Unwatched) \/ Seen) /\ UNCHANGED teardown
       \/ LookStep
       \/ ReapStep
    /\ UNCHANGED armed

(* Mutant: the future of an awaited teardown drops without settling. *)
CancelQuietly ==
    /\ at \in {"await", "grace"} /\ Leaves(IF Tearing THEN "over" ELSE "idle")
    /\ UNCHANGED <<process, faults, shown>> /\ AsIs /\ Call

(* A future dropped at an await: a wait ends there, and an awaited teardown *)
(* settles the rest on the dropping thread (Reaping), or, if that thread is  *)
(* panicking, leaves the backend to its own drop.                            *)
Cancel ==
    /\ at \in {"await", "grace"} /\ UNCHANGED <<process, faults, shown, armed>> /\ AsIs
    /\ \/ Leaves(IF Tearing THEN "exitwait" ELSE "idle") /\ UNCHANGED teardown
       \/ Tearing /\ Leaves("unwind") /\ Records([fate |-> "none"])

-----------------------------------------------------------------------------
(* The teardown                                                            *)

Tears(next) == at' = next /\ UNCHANGED <<armed, reactor>>

BeginTearDown ==
    /\ at = "idle" /\ Tears("view")
    /\ \E awaited \in BOOLEAN :
          Records([awaited |-> awaited, own |-> IsReaped, fate |-> "Running",
                   forgotten |-> IF backend = "Tokio" THEN "none" ELSE backend])
    /\ UNCHANGED <<process, faults, shown>> /\ AsIs

(* DropView::read: the number, then the handle. A number seen gone or        *)
(* another's settles what the handle cannot say.                              *)
ReadView ==
    /\ at = "view" /\ Tears(IF armed THEN "kill" ELSE "second")
    /\ UNCHANGED process /\ AsIs
    /\ IF collected \/ backend = "ReapedElsewhere"
       THEN Records([view |-> "Reaped"]) /\ UNCHANGED <<faults, shown>>
       ELSE \E s \in States :
              /\ IF backend = "Tokio" THEN Looks(s) ELSE s = "Unknown" /\ UNCHANGED <<faults, shown>>
              /\ \/ Records([view |-> s])
                 \/ s = "Unknown" /\ num # "own" /\ Records([view |-> "Reaped"])

(* signal_on_drop, its tree aside. *)
SignalRoot ==
    /\ at = "kill" /\ UNCHANGED <<kid, num, reaper, faults>> /\ AsIs
    /\ IF teardown.view = "Reaped"
       THEN /\ Records([fate |-> "Gone", settle |-> "Drain"]) /\ Tears("second")
            /\ UNCHANGED <<doomed, shown>>
       ELSE \E sent \in Sents :
              /\ Signal(sent)
              /\ Tears(IF sent = "Refused" THEN "refused" ELSE "second")
              /\ CASE sent = "Gone" -> Records([fate |-> "Gone", settle |-> "Drain", sent |-> sent])
                   [] sent = "Delivered" ->
                        Records([fate |-> "Killed", settle |-> "ReapAndDrain", sent |-> sent])
                   [] OTHER -> Records([sent |-> sent])

(* A refused kill: nothing is waited for, and the child is looked at, by     *)
(* number once its handle shows it ours. The handle that refused names a      *)
(* child nobody has reaped, which the backend then still holds.               *)
KillRefused ==
    /\ at = "refused" /\ UNCHANGED <<process, collected, stolen>>
    /\ \E s \in States :
          /\ Looks(s)
          /\ IF s = "Unreaped" THEN Tears("dropgate") /\ UNCHANGED <<backend, teardown>>
             ELSE /\ Tears("second") /\ Forget(ForgottenOf(s))
                  /\ Records([fate |-> IF s = "Reaped" THEN "Gone" ELSE "Running", forgot |-> TRUE])

DropGate ==
    /\ at = "dropgate" /\ UNCHANGED <<process, collected, stolen>>
    /\ \E s \in States :
          /\ Looks(s)
          /\ Tears(IF s = "Unreaped" THEN "droptry" ELSE "second")
          /\ Records([fate |-> CASE s = "Reaped" -> "Gone" [] s = "Unknown" -> "Unknown"
                                 [] OTHER -> teardown.fate])
          /\ IF s = "Reaped" THEN Forget("ReapedElsewhere") ELSE UNCHANGED backend

FateOfALook == CASE ByNumber = "status" -> "Reaped"
                 [] ByNumber = "echild" -> "Gone"
                 [] OTHER               -> "Running"

CollectExit ==
    /\ at \in {"droptry", "collect"} /\ TryWait /\ Records([fate |-> FateOfALook])
    /\ Tears(IF at = "collect" THEN "report" ELSE "second")
    /\ UNCHANGED <<doomed, faults, backend, shown>>

(* Mutant: the root is not asked about again after the signals. *)
SecondLookNot ==
    /\ at = "second" /\ Tears("settle") /\ UNCHANGED <<process, faults, shown, teardown>> /\ AsIs

(* The root is asked about again: a reap can land after the view.           *)
SecondLook ==
    /\ at = "second" /\ Tears("settle") /\ UNCHANGED <<process, collected, stolen>>
    /\ IF IsReaped \/ teardown.forgot THEN UNCHANGED <<backend, faults, shown, teardown>>
       ELSE \E s \in States :
              /\ IF teardown.view = "Reaped" THEN s = "Reaped" /\ UNCHANGED <<faults, shown>>
                 ELSE Looks(s)
              /\ IF s = "Unreaped" THEN UNCHANGED <<backend, teardown>>
                 ELSE /\ Forget(ForgottenOf(s))
                      /\ Records([forgot |-> TRUE,
                                  fate |-> IF s = "Reaped" /\ teardown.fate # "Killed"
                                           THEN "Gone" ELSE teardown.fate])

(* What the kill reached is reaped before the teardown returns: on this     *)
(* thread, or by the reap on events if the teardown is awaited.              *)
Settle ==
    /\ at = "settle"
    /\ Tears(IF teardown.settle # "ReapAndDrain" \/ IsReaped THEN "report"
             ELSE IF teardown.awaited THEN "arm" ELSE "exitwait")
    /\ UNCHANGED <<process, faults, shown, teardown>> /\ AsIs

(* wait_and_reap_caused: the blocking waitid that takes nothing. *)
WaitForExit ==
    /\ at = "exitwait" /\ UNCHANGED <<process, collected, stolen>>
    /\ \/ /\ kid = "zombie" /\ shown' = TRUE
          /\ Tears("collect") /\ UNCHANGED <<backend, faults, teardown>>
       \/ /\ \/ kid = "reaped" /\ Forget("ReapedElsewhere") /\ UNCHANGED faults
             \/ Fault /\ Forget("Unproven")
          /\ Tears("report") /\ Records([forgot |-> TRUE]) /\ UNCHANGED shown

(* Mutant: a backend forgotten earlier is taken for one that collected. *)
ReportedFateOwn == IF teardown.own THEN "Reaped" ELSE teardown.fate

ReportedFate ==
    IF ~teardown.own THEN teardown.fate
    ELSE CASE teardown.forgotten = "none" -> "Reaped"
           [] teardown.forgotten = "ReapedElsewhere" -> "Gone"
           [] OTHER -> IF teardown.fate \in {"Killed", "Gone"} THEN teardown.fate ELSE "Running"

(* The one report; a logger that panics leaves the backend to its own drop. *)
Report ==
    /\ at = "report" /\ UNCHANGED <<process, faults, shown>> /\ AsIs
    /\ \/ Tears("release") /\ Records([fate |-> ReportedFate])
       \/ Tears("unwind") /\ Records([fate |-> "none"])

(* A logger panics in a record of the teardown before the report: of a look  *)
(* the handle could not answer or a kill that found nobody, of the forgotten  *)
(* backend, or, between the kill and the reap, of a watch that failed and of  *)
(* a wait that is late.                                                        *)
LoggerPanics ==
    /\ \/ at \in {"kill", "second"} /\ teardown.sent = "none" /\ teardown.view # "Unreaped"
       \/ at = "second" /\ teardown.sent = "Gone"
       \/ at = "settle" /\ teardown.forgot
       \/ at = "exitwait"
    /\ Tears("unwind") /\ Records([fate |-> "none"])
    /\ UNCHANGED <<process, faults, shown>> /\ AsIs

(* ProcSource::drop: tokio's Child goes to its own drop only if a look shows *)
(* it ours.                                                                  *)
Unwind ==
    /\ at = "unwind" /\ UNCHANGED <<process, collected, stolen, teardown>>
    /\ IF IsReaped THEN Tears("release") /\ UNCHANGED <<backend, faults, shown>>
       ELSE \E s \in States :
              /\ Looks(s)
              /\ Tears(IF s = "Unreaped" THEN "release" ELSE "over")
              /\ IF s = "Unreaped" THEN UNCHANGED backend ELSE Forget(ForgottenOf(s))

(* release: tokio's drop tries one reap by number and queues what is left.  *)
Release ==
    /\ at = "release" /\ Tears("over") /\ UNCHANGED <<doomed, faults, shown, teardown>>
    /\ IF IsReaped
       THEN /\ backend' = IF backend = "Tokio" THEN "Released" ELSE backend
            /\ UNCHANGED <<kid, num, reaper, collected, stolen>>
       ELSE TryWait /\ backend' = IF collected' THEN "Released" ELSE "Orphan"

TearDown == ReadView \/ SignalRoot \/ KillRefused \/ DropGate \/ CollectExit \/ SecondLook
            \/ Settle \/ WaitForExit \/ Report \/ LoggerPanics \/ Unwind \/ Release

(* tokio's orphan queue, at some later SIGCHLD. *)
OrphanQueue ==
    /\ backend = "Orphan" /\ ByNumber # "none" /\ TryWait /\ backend' = "Released"
    /\ UNCHANGED <<doomed, faults, shown, at, reactor, armed, teardown>>

-----------------------------------------------------------------------------
Calls == CallWait \/ CallTryWait \/ (at = "idle" /\ Kill) \/ GracefulShutdown \/ Detach \/ BeginTearDown
Goes == TryNumber \/ (at = "escalate" /\ Kill) \/ GraceEnds \/ WaitAfterGrace \/ Loop \/ TearDown
World == (Exits \/ HandBack \/ ForeignReap \/ Reuse) /\ Call
Reactor == ReactorTurns /\ Call

Next == Calls \/ Goes \/ Cancel \/ World \/ Reactor \/ OrphanQueue

(* The task and the reactor run, and a SIGKILL delivered kills. Nothing is   *)
(* assumed of the tracer, of the program's own exit or of the queue.         *)
Fairness == WF_vars(Goes) /\ WF_vars(Reactor) /\ WF_vars(doomed /\ Exits /\ Call)

Spec == Init /\ [][Next]_vars /\ Fairness

-----------------------------------------------------------------------------
(* Every reap by number, tokio's own drop and orphan queue included, comes   *)
(* after a look that showed the child ours, with no await and no signal       *)
(* between: a child reaped elsewhere before that look never costs a sibling   *)
(* that took its number its exit status. A reap in the gap after the look     *)
(* can: proc_source.rs and child.rs say so.                                   *)
NeverReapsBlindly == stolen # "blind"

(* No fate was reported: a panic unwound the teardown. *)
Unwound == at = "over" /\ teardown.fate = "none"

(* What the teardown says became of the child is so, whoever reaped it. A     *)
(* backend forgets a child as reaped elsewhere only when another reaper took   *)
(* its status. Reaped: this Child's status is the child's own, unless another  *)
(* reaper and a sibling that took the number came in the gap after a look.     *)
(* Gone: another reaper has the status. Killed: the child was dead or the      *)
(* SIGKILL is on its way, and this Child took no status. After a delivered     *)
(* kill the teardown says Killed or Reaped, unless another reaper came between *)
(* the exit it waited for and the look that collects it (collect_exit). The    *)
(* two exemptions are not in the words of ChildFate: there a Reaped child is   *)
(* one cosca collected, and one cosca "killed and found collected" is Killed.  *)
DropFateIsTrue ==
    /\ backend = "ReapedElsewhere" => reaper = "foreign"
    /\ at = "over" =>
          /\ teardown.fate = "Reaped" => reaper = "tokio" \/ stolen = "gap"
          /\ teardown.fate = "Gone" => reaper = "foreign"
          /\ teardown.fate = "Killed" => reaper # "tokio" /\ (kid # "running" \/ doomed)
          /\ teardown.sent = "Delivered" =>
                \/ teardown.fate \in {"Killed", "Reaped"} \/ Unwound
                \/ reaper = "foreign" /\ backend \in {"Orphan", "Released"}

(* A torn-down child is reaped. Failing that, its handle could not answer for *)
(* it and the backend forgot it; or tokio's queue has it, because the kill was *)
(* not delivered, or because a panic unwound the teardown: a logger's in a     *)
(* record between the kill and the reap, or one of the thread that dropped the *)
(* awaited future. So a delivered kill is followed by the reap whatever fails  *)
(* and whatever is cancelled, as long as nothing panics.                        *)
TornDownIsReaped ==
    at = "over" /\ kid # "reaped" =>
        \/ backend = "Unproven"
        \/ backend = "Orphan" /\ (teardown.sent # "Delivered" \/ Unwound)

(* A wait, and a teardown, ends once the exit is visible: no wake of the     *)
(* pidfd is lost between a look and the readiness it clears. A teardown that  *)
(* killed its child waits for no more than a tracer's hand-back.              *)
WaitsEnd == []<>(\/ at \in {"idle", "over"}
                 \/ kid = "running" /\ ~doomed
                 \/ kid = "held")
=============================================================================
