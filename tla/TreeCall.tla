------------------------------ MODULE TreeCall ------------------------------
(***************************************************************************)
(* The tree calls of a Child in a Linux process group (child.rs,           *)
(* child/tree_call.rs, child/graceful.rs, containment/dispatch.rs):        *)
(* kill_tree, terminate_tree, graceful_shutdown_tree and the kill-on-drop  *)
(* teardown.  Each decides, on one look at the root, what may still be     *)
(* sent by the root's number, and sends it with the reap held off.  A wait *)
(* on another thread reaps the root whenever no hold is in force.          *)
(***************************************************************************)
EXTENDS GroupSignal

CONSTANT MaxCalls   \* bound: tree calls in a behaviour

ASSUME MaxCallsAssumption == MaxCalls \in Nat

VARIABLES
  call,          \* the call under way, or the last one
  number,        \* RootNumber: what the look allows to be sent by number
  exact,         \* MayNameAnother.exact_root
  alone,         \* DropView::leaves_root_alone
  root_exited,   \* the grace's watch saw the root exit
  watch_err,     \* the grace's watch failed
  result,        \* what the call returned
  calls,         \* calls begun
  looked,        \* history: who had reaped the root at the call's last look
  other_waited   \* history: the root was reaped by a wait on another thread

history == <<looked, other_waited>>
ctl == <<call, number, exact, alone, root_exited, watch_err, tree_killed, result, calls, history>>
vars == <<kernel, pc, pass, ctl>>

KindsOfCall == {"kill_tree", "terminate_tree", "graceful_shutdown_tree", "drop"}

Init ==
  /\ KernelInit
  /\ pc = "idle" /\ sig = "term" /\ todo = {} /\ cur = Nobody
  /\ refused = {} /\ unassessable = {} /\ outcome = "ok"
  /\ call = "none" /\ number = "Trusted" /\ exact = FALSE /\ alone = FALSE
  /\ root_exited = FALSE /\ watch_err = FALSE /\ tree_killed = FALSE
  /\ result = "none" /\ calls = 0
  /\ looked = "nobody" /\ other_waited = FALSE

-----------------------------------------------------------------------------
(* The environment: the tree, the kernel's numbers, the other reapers *)

OtherWait ==
  /\ ~held /\ ~(call = "drop" /\ pc # "idle")
  /\ ReapsRoot("own") /\ other_waited' = TRUE
  /\ UNCHANGED <<away, taker, leads, held, missed, terms, fresh, struck, pc, pass, call, number, exact, alone,
                 root_exited, watch_err, tree_killed, result, calls, looked>>

Environment ==
  \/ OtherWait
  \/ /\ \/ \E p, q \in Procs : Fork(p, q)
        \/ \E p \in Procs : Dies(p) \/ Reaped(p) \/ TakeNumber(p)
        \/ RootLeavesGroup \/ ForeignReap
     /\ UNCHANGED <<pc, pass, ctl>>

-----------------------------------------------------------------------------
(* Steps of a call *)

WithHold(on) ==
  held' = on /\ fresh' = FALSE /\ UNCHANGED <<life, reaper, away, taker, leads, missed, terms, struck>>

\* The call goes on, holding the reap off or not.
Step(next, on) == pc' = next /\ WithHold(on) /\ UNCHANGED <<pass, ctl>>

\* The call returns: the hold, if there is one, goes with it.
Return(answer, kill_reached) ==
  /\ pc' = "idle" /\ result' = answer
  /\ tree_killed' = (tree_killed \/ kill_reached)
  /\ UNCHANGED <<pass, call, number, exact, alone, root_exited, watch_err, calls, history>>

Finish(answer) == Return(answer, FALSE) /\ WithHold(FALSE)

BeginWith(kind, hold) ==
  /\ pc = "idle" /\ call # "drop" /\ calls < MaxCalls
  /\ call' = kind /\ calls' = calls + 1
  /\ sig' = IF kind \in {"kill_tree", "drop"} THEN "kill" ELSE "term"
  /\ pc' = "look" /\ result' = "none" /\ held' = hold
  /\ terms' = [p \in Procs |-> 0]
  /\ root_exited' = FALSE /\ watch_err' = FALSE /\ alone' = FALSE
  /\ UNCHANGED <<life, reaper, away, taker, leads, missed, fresh, struck,
                 todo, cur, refused, unassessable, outcome, number, exact, tree_killed, history>>

\* Mutant: the reap is not held off.
BeginUnheld(kind) == BeginWith(kind, FALSE)

\* A tree call takes the hold before it looks.
Begin(kind) == BeginWith(kind, TRUE)

Looked(num, ex, leave) ==
  /\ number' = num /\ exact' = ex /\ alone' = leave
  /\ pc' = IF num = "MayNameAnother" THEN "probe" ELSE "decided"
  /\ looked' = reaper
  /\ Quietly /\ UNCHANGED <<pass, call, root_exited, watch_err, tree_killed, result, calls, other_waited>>

\* root_number: the call's one look at the root.
Look ==
  /\ pc = "look" /\ call # "drop"
  /\ \E s \in RootStates :
       \/ s = "unreaped" /\ Looked("Trusted", FALSE, FALSE)
       \/ s = "own" /\ \E r \in RootReads :
            Looked(IF r = "Gone" THEN "Trusted" ELSE IF r = "Found" THEN "Empty" ELSE "MayNameAnother", FALSE, FALSE)
       \/ s \in {"elsewhere", "unknown"} /\ Looked("MayNameAnother", s = "unknown", FALSE)

\* DropView::read: the number is read first, then the handle.
DropLook ==
  /\ pc = "look" /\ call = "drop"
  /\ \E r \in RootReads, s \in RootStates :
       LET reaped == s \in {"own", "elsewhere"} \/ r = "Gone" \/ (r = "Found" /\ Holder(Root) # Root)
       IN  IF ~reaped /\ s = "unreaped" THEN Looked("Trusted", FALSE, FALSE)
           ELSE Looked("MayNameAnother", ~reaped, reaped)

\* Mutant: an empty group means the root is gone, also when nobody can say.
ThroughThePidfdHasty ==
  /\ pc = "probe"
  /\ number' = IF pidfd_group_has_member = "true" THEN "Trusted"
               ELSE IF pidfd_group_has_member = "false" THEN "GroupGone" ELSE number
  /\ pc' = "decided"
  /\ Quietly /\ UNCHANGED <<pass, call, exact, alone, root_exited, watch_err, tree_killed, result, calls, history>>

\* through_the_pidfd: with the flag, the pidfd decides again.
ThroughThePidfd ==
  /\ pc = "probe"
  /\ number' = IF pidfd_group_has_member = "true" THEN "Trusted"
               ELSE IF pidfd_group_has_member = "false" /\ ~exact THEN "GroupGone" ELSE number
  /\ pc' = "decided"
  /\ Quietly /\ UNCHANGED <<pass, call, exact, alone, root_exited, watch_err, tree_killed, result, calls, history>>

\* The term of a graceful_shutdown_tree, as opposed to its sweep.
InTerm == call = "graceful_shutdown_tree" /\ sig = "term"

SignalsTree == pc = "decided" /\ number = "Trusted" /\ Step("send", held)

\* Empty, GroupGone: nothing is sent, and a kill marks the tree killed.
NothingLeft ==
  /\ pc = "decided" /\ number \in {"Empty", "GroupGone"}
  /\ \/ call \in {"kill_tree", "terminate_tree"} /\ Return("ok", sig = "kill") /\ WithHold(FALSE)
     \/ InTerm /\ Step("grace", FALSE)
     \/ call = "graceful_shutdown_tree" /\ ~InTerm /\ pc' = "wait" /\ tree_killed' = TRUE /\ WithHold(FALSE)
        /\ UNCHANGED <<pass, call, number, exact, alone, root_exited, watch_err, result, calls, history>>
     \/ call = "drop" /\ Step("dropped", FALSE)

RootTarget == IF life[Root] \in Unreaped THEN {Root} ELSE {}

\* A sweep that failed: the exited root is reaped all the same, best effort.
SweepFailed ==
  IF root_exited THEN Step("best_effort", FALSE) ELSE Finish("error")

\* MayNameAnother: nothing goes out by number, at most the root's own signal
\* through its handle.
NumberSkipped ==
  /\ pc = "decided" /\ number = "MayNameAnother"
  /\ \/ /\ ~InTerm /\ call # "drop"
        /\ \/ ~exact /\ (IF call = "graceful_shutdown_tree" THEN SweepFailed ELSE Finish("error"))
           \/ exact /\ Take(RootTarget, sig) /\ pc' = "skipped" /\ UNCHANGED <<pass, ctl>>
     \/ InTerm /\ ~exact /\ Finish("error")
     \/ InTerm /\ exact /\ Step("root_term", FALSE)
     \/ call = "drop" /\ Step("dropped", FALSE)

Skipped ==
  pc = "skipped" /\ (IF call = "graceful_shutdown_tree" THEN SweepFailed ELSE Finish("error"))

-----------------------------------------------------------------------------
(* After signal_group *)

\* hard_kill_marking; then the hold is dropped, and the backstop follows.
KillAnswered ==
  /\ pc = "sent" /\ sig = "kill" /\ call # "drop"
  /\ pc' = "backstop"
  /\ tree_killed' = (tree_killed \/ outcome = "ok")
  /\ WithHold(FALSE)
  /\ UNCHANGED <<pass, call, number, exact, alone, root_exited, watch_err, result, calls, history>>

TermAnswered ==
  /\ pc = "sent" /\ sig = "term"
  /\ \/ call = "terminate_tree" /\ Finish(IF outcome = "ok" THEN "ok" ELSE "error")
     \/ InTerm /\ outcome = "unlistable" /\ Finish("error")
     \/ InTerm /\ outcome # "unlistable" /\ Step("grace", FALSE)

DropAnswered == pc = "sent" /\ call = "drop" /\ Step("dropped", FALSE)

\* Mutant: the group's kill is taken to have reached the root.
BackstopSkipped ==
  pc = "backstop" /\ Step(IF outcome = "ok" THEN "swept" ELSE "sweep_failed", FALSE)

\* kill_root through the handle, since the root may have left its group;
\* group_result.and(backstop).
Backstop ==
  /\ pc = "backstop"
  /\ Take(RootTarget, "kill")
  /\ pc' = IF outcome = "ok" /\ RootTarget \cap Refusers = {} THEN "swept" ELSE "sweep_failed"
  /\ UNCHANGED <<pass, ctl>>

KillEnds ==
  \/ pc = "swept" /\ call = "kill_tree" /\ Finish("ok")
  \/ pc = "swept" /\ call = "graceful_shutdown_tree" /\ Step("wait", FALSE)
  \/ pc = "sweep_failed" /\ call = "kill_tree" /\ Finish("error")
  \/ pc = "sweep_failed" /\ call = "graceful_shutdown_tree" /\ SweepFailed

-----------------------------------------------------------------------------
(* graceful_shutdown_tree *)

RootExited == life[Root] \in {"zombie", "reaped"}

Sweeps(exited, failed) ==
  /\ pc = "grace"
  /\ root_exited' = exited /\ watch_err' = failed
  /\ sig' = "kill" /\ pc' = "look"
  /\ UNCHANGED <<todo, cur, refused, unassessable, outcome, call, number, exact, alone, tree_killed, result, calls, history>>

\* exited_by: a watch that does not reap; its end starts the sweep, with a
\* hold and a look of its own.
Grace ==
  /\ \/ RootExited /\ Sweeps(TRUE, FALSE)
     \/ ~RootExited /\ Sweeps(FALSE, FALSE)
     \/ Sweeps(FALSE, TRUE)
  /\ WithHold(TRUE)

\* wait: the root is reaped here, or was.
WaitEnds(answer) ==
  /\ Return(IF reaper = "elsewhere" THEN "error" ELSE answer, FALSE)
  /\ \/ ReapsRoot("own") /\ UNCHANGED <<away, taker, leads, held, missed, terms, fresh, struck>>
     \/ RootReaped /\ UNCHANGED kernel

Wait == pc = "wait" /\ WaitEnds(IF watch_err THEN "error" ELSE "ok")

BestEffortReap == pc = "best_effort" /\ WaitEnds("error")

\* shut_down_root_through_pidfd: the root alone, through its handle.
RootTerm ==
  /\ pc = "root_term"
  /\ Take(RootTarget, "term")
  /\ pc' = IF RootTarget \ Refusers # {} THEN "root_grace" ELSE "failed"
  /\ UNCHANGED <<pass, ctl>>

RootGrace ==
  /\ pc = "root_grace"
  /\ \/ RootExited /\ Step("failed", FALSE)
     \/ Step("root_kill", FALSE)

RootKill ==
  /\ pc = "root_kill" /\ Take(RootTarget, "kill") /\ pc' = "failed"
  /\ UNCHANGED <<pass, ctl>>

Failed == pc = "failed" /\ Finish("error")

-----------------------------------------------------------------------------
(* drop_unix, after the tree's kill *)

DropRoot ==
  /\ pc = "dropped"
  /\ \/ alone /\ Finish("left")
     \/ /\ ~alone /\ Take(RootTarget, "kill") /\ UNCHANGED <<pass, ctl>>
        /\ pc' = IF RootTarget \cap Refusers = {} THEN "wait" ELSE "last_look"

\* A refused kill: one look, never a wait.
LastLook ==
  /\ pc = "last_look"
  /\ \/ RootExited /\ WaitEnds("ok")
     \/ ~RootExited /\ Finish("left")

-----------------------------------------------------------------------------
\* Every call of the behaviour has returned.
AllReturned == pc = "idle" /\ (calls = MaxCalls \/ call = "drop") /\ UNCHANGED vars

CallStep ==
  \/ SignalGroup /\ UNCHANGED ctl
  \/ Look \/ DropLook \/ ThroughThePidfd \/ SignalsTree \/ NothingLeft \/ NumberSkipped \/ Skipped
  \/ KillAnswered \/ TermAnswered \/ DropAnswered \/ Backstop \/ KillEnds
  \/ Grace \/ Wait \/ BestEffortReap \/ RootTerm \/ RootGrace \/ RootKill \/ Failed
  \/ DropRoot \/ LastLook

Next ==
  /\ Environment \/ (\E kind \in KindsOfCall : Begin(kind)) \/ CallStep \/ AllReturned
  /\ UNCHANGED host

Spec == Init /\ [][Next]_<<vars, host>>

\* The calling thread keeps running, and SIGKILL takes its process.
FairSpec ==
  /\ Spec /\ WF_vars(CallStep)
  /\ \A p \in Procs : WF_vars(life[p] = "doomed" /\ Dies(p) /\ UNCHANGED <<pc, pass, ctl>>)

-----------------------------------------------------------------------------
\* Principle 4, and Child::kill_tree's "On Linux 6.9+": where the group's signal
\* goes through the root's pidfd and each resend through its member's, no other
\* process is ever signalled, whoever reaps the root and takes its number.
\* Without them GroupRoot::check and the member's identity check come right
\* before the send they are for: a send by number reaches another process only
\* if the number changed hands after the check.
StrangersSpared == struck = "no" \/ (struck = "window" /\ ~(Flag /\ PidfdOpens))

\* The root's number stays the tree's for as long as a call names the group by
\* it. The hold keeps it: without another reaper, a call whose look finds the
\* root unreaped signals nobody else by the group's number, in whatever order
\* the group dies and whoever waits meanwhile. And graceful_shutdown_tree keeps
\* the root a zombie until its sweep is done (Principle 4): with no other reaper
\* and no other wait no first call signals by a number no longer the tree's.
HoldPinsNumber ==
  struck # "no" /\ taker = Root =>
    /\ reaper = "elsewhere" \/ looked = "own"
    /\ calls = 1 => reaper = "elsewhere" \/ other_waited

\* Child::kill_tree: "Ok" says the group cleared, and TreeKilled records "a
\* complete kill": whatever the call's listing of the group showed is dead or
\* doomed, and with an Ok the root too, listed or not, though members refuse, die,
\* fork and change hands all along. Exempt is whom the listing did not show: a
\* process forked after it, and one that hidepid hides or whose /proc row does not
\* parse, which Child::kill_tree says an Ok may leave running.
OkMeansDown ==
  /\ tree_killed => \A p \in Members \ missed : life[p] # "alive"
  /\ result = "ok" /\ call \in {"kill_tree", "graceful_shutdown_tree"} =>
       \A p \in Procs \ missed : life[p] # "alive"

\* The same without the exception: "Ok is positive proof the group cleared"
\* (Child::kill_tree).
OkIsProof ==
  result = "ok" /\ call = "kill_tree" => \A p \in InGroup : life[p] # "alive"

\* A program may take a second SIGTERM for an order to stop at once: no process
\* gets more than one from a call.
TermOnce == \A p \in Procs : terms[p] <= 1

\* Every call returns: a sweep that answers Ok has doomed the root it then
\* waits for, and a refused root is never waited for.
CallReturns == []<>(pc = "idle")
=============================================================================
