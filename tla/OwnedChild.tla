----------------------------- MODULE OwnedChild -----------------------------
(***************************************************************************)
(* The reap-once state machine over one spawned child (child/owned.rs and  *)
(* its submodules), driven by the one wait loop of os_process/drive.rs.    *)
(* Several threads share the OwnedChild: they wait (with or without a      *)
(* deadline), watch for the exit without reaping, signal, and hold the     *)
(* child's reap while they act on its process group.                       *)
(*                                                                         *)
(* A critical section that asks the OS at most one question is one step,   *)
(* taken when the mutex is free; sections that ask more, or that hand the  *)
(* mutex on, are split at every question.  Time is a per-call deadline     *)
(* that is absent, open or passed, and may pass between any two steps.     *)
(***************************************************************************)
EXTENDS Naturals, FiniteSets

CONSTANTS Threads,    \* the threads that share the OwnedChild
          NoThread,   \* the owner of a free mutex
          MaxCalls    \* bound: calls each thread makes in a behaviour

ASSUME NoThreadAssumption == NoThread \notin Threads
ASSUME MaxCallsAssumption == MaxCalls \in Nat

VARIABLES
  os,          \* the child as the kernel has it
  state,       \* Inner.state: no holder, a waiting holder, or the exit record
  token,       \* the token of the state W
  next_token,  \* Inner.next_token
  lock,        \* the owner of the mutex around Inner
  pc,          \* where each thread is
  op,          \* the call each thread is in
  deadline,    \* the deadline of that call
  tok,         \* HolderGuard.token
  final,       \* the threads whose look is drive::run's final_look
  readable,    \* the threads whose try_reap found the pidfd readable
  ret,         \* what the thread's last call returned
  seen,        \* the RootState a hold read
  calls,       \* calls begun by each thread
  ripe,        \* history: the threads whose deadline passed after the exit was there
  lastSend     \* history: the child at the last signal the OS was asked to send

vars == <<os, state, token, next_token, lock, pc, op, deadline, tok, final,
          readable, ret, seen, calls, ripe, lastSend>>
kernel == <<os, lastSend>>
inner == <<state, token, next_token>>
locals == <<op, tok, final, readable, seen, calls>>

(***************************************************************************)
(* The child in the kernel.  "held" is a zombie that a tracer has not let  *)
(* go of: the pidfd is readable, but a wait still reports it running.      *)
(***************************************************************************)
OsStates == {"running", "held", "zombie", "ours", "foreign"}
Exited == os # "running"
Reapable == os \in {"zombie", "ours", "foreign"}

HolderPcs == {"top", "look", "reap", "finish", "recheck", "asleep", "blocked", "drop"}
Pcs == {"idle", "enter", "cv", "hold"} \cup HolderPcs

\* A flag of each thread, kept as the set of threads that have it.
Mark(flagged, t, on) == IF on THEN flagged \cup {t} ELSE flagged \ {t}

\* A thread that armed a HolderGuard and has not given it up.
IsHolder(t) == op[t] = "wait" /\ pc[t] \in HolderPcs

Init ==
  /\ os = "running" /\ lastSend = "running"
  /\ state = "N" /\ token = 0 /\ next_token = 0
  /\ lock = NoThread
  /\ pc = [t \in Threads |-> "idle"]
  /\ op = [t \in Threads |-> "none"]
  /\ deadline = [t \in Threads |-> "none"]
  /\ tok = [t \in Threads |-> 0]
  /\ final = {}
  /\ readable = {}
  /\ ret = [t \in Threads |-> "none"]
  /\ seen = [t \in Threads |-> "none"]
  /\ calls = [t \in Threads |-> 0]
  /\ ripe = {}

-----------------------------------------------------------------------------
(* The environment: the child, its tracer, a foreign reaper, the clock. *)

ChildExits ==
  /\ os = "running"
  /\ os' \in {"zombie", "held"}
  /\ UNCHANGED <<lastSend, inner, lock, pc, deadline, ret, ripe, locals>>

TracerLetsGo ==
  /\ os = "held"
  /\ os' = "zombie"
  /\ UNCHANGED <<lastSend, inner, lock, pc, deadline, ret, ripe, locals>>

ForeignReap ==
  /\ os = "zombie"
  /\ os' = "foreign"
  /\ UNCHANGED <<lastSend, inner, lock, pc, deadline, ret, ripe, locals>>

\* What a look of this call could find now.
Findable(call) == IF call = "watch" THEN Exited ELSE Reapable

DeadlinePasses(t) ==
  /\ deadline[t] = "open"
  /\ deadline' = [deadline EXCEPT ![t] = "passed"]
  /\ ripe' = Mark(ripe, t, Findable(op[t]))
  /\ UNCHANGED <<kernel, inner, lock, pc, ret, locals>>

-----------------------------------------------------------------------------
(* Steps shared by the calls *)

\* notify_all: every waiter asleep on the condvar goes back for the mutex.
Notified(t, next) ==
  [u \in Threads |-> IF u = t THEN next
                     ELSE IF pc[u] = "cv" THEN "enter" ELSE pc[u]]

\* The thread moves on, within its call, having changed nothing but the mutex.
Goto(t, next) ==
  /\ pc' = [pc EXCEPT ![t] = next]
  /\ UNCHANGED <<kernel, inner, deadline, ret, ripe, locals>>

Begin(t, call, next) ==
  /\ pc[t] = "idle" /\ calls[t] < MaxCalls
  /\ calls' = [calls EXCEPT ![t] = @ + 1]
  /\ op' = [op EXCEPT ![t] = call]
  /\ pc' = [pc EXCEPT ![t] = next]
  /\ ret' = [ret EXCEPT ![t] = "none"]
  /\ \E d \in {"none", "open", "passed"} :
       /\ deadline' = [deadline EXCEPT ![t] = d]
       /\ ripe' = Mark(ripe, t, d = "passed" /\ Findable(call))
  /\ UNCHANGED <<kernel, inner, lock, tok, final, readable, seen>>

Return(t, result) ==
  /\ ret' = [ret EXCEPT ![t] = result]
  /\ deadline' = [deadline EXCEPT ![t] = IF @ = "open" THEN "none" ELSE @]

\* A call that ends without having touched the state.
Answer(t, result) ==
  /\ pc' = [pc EXCEPT ![t] = "idle"]
  /\ Return(t, result)
  /\ UNCHANGED <<kernel, inner, lock, ripe, locals>>

\* Mutant: the waiters behind the holder are not woken.
LeaveQuietly(t, next, result) ==
  /\ state' = next /\ lock' = NoThread
  /\ pc' = [pc EXCEPT ![t] = "idle"]
  /\ Return(t, result)
  /\ UNCHANGED <<kernel, token, next_token, ripe, locals>>

\* HolderGuard::finish and HolderGuard::drop: write the state, notify, unlock.
Leave(t, next, result) ==
  /\ state' = next /\ lock' = NoThread
  /\ pc' = Notified(t, "idle")
  /\ Return(t, result)
  /\ UNCHANGED <<kernel, token, next_token, ripe, locals>>

-----------------------------------------------------------------------------
(* OwnedChild::wait *)

BeginWait(t) == Begin(t, "wait", "enter")

Locking(t) == pc[t] = "enter" /\ lock = NoThread

\* State E: the record is there for every later caller.
WaitFindsRecord(t) == Locking(t) /\ state = "E" /\ Answer(t, "exited")

\* HolderGuard::arm, which keeps the mutex for the first look.
Arm(t) ==
  /\ state' = "W" /\ token' = next_token /\ next_token' = next_token + 1
  /\ tok' = [tok EXCEPT ![t] = next_token]
  /\ lock' = t
  /\ pc' = Notified(t, "top")
  /\ UNCHANGED <<kernel, deadline, ret, ripe, op, final, readable, seen, calls>>

\* State N: the thread becomes the holder.
WaitArms(t) == Locking(t) /\ state = "N" /\ Arm(t)

\* State W with time left: asleep on the condvar, the mutex given up.
WaitBlocks(t) ==
  /\ Locking(t) /\ state = "W" /\ deadline[t] # "passed"
  /\ Goto(t, "cv") /\ UNCHANGED lock

\* State W with the deadline passed: one non-reaping peek decides.
WaitPeeks(t) ==
  /\ Locking(t) /\ state = "W" /\ deadline[t] = "passed"
  /\ \/ os = "zombie" /\ Answer(t, "exited")
     \/ os \in {"running", "held"} /\ Answer(t, "deadline")
     \/ os = "foreign" /\ Answer(t, "foreign")
     \/ Answer(t, "error")

\* A timed condvar wait runs out.
WaitTimesOut(t) ==
  pc[t] = "cv" /\ deadline[t] = "passed" /\ Goto(t, "enter") /\ UNCHANGED lock

\* A spurious wakeup of the condvar, or the end of a clamped block.
WakesEarly(t) ==
  /\ \/ pc[t] = "cv" /\ Goto(t, "enter")
     \/ pc[t] = "blocked" /\ Goto(t, "top")
  /\ UNCHANGED lock

-----------------------------------------------------------------------------
(* drive::run over the Holder, and over the bare process for exited_by *)

\* `final_look` is read before the look it qualifies.
RunTop(t) ==
  /\ pc[t] = "top"
  /\ final' = Mark(final, t, deadline[t] = "passed")
  /\ pc' = [pc EXCEPT ![t] = "look"]
  /\ UNCHANGED <<kernel, inner, lock, deadline, ret, ripe, op, tok, readable, seen, calls>>

\* Holder::look: relock unless the mutex was kept, then read the pidfd.
HolderLooks(t) ==
  /\ op[t] = "wait" /\ pc[t] = "look"
  /\ lock \in {t, NoThread}
  /\ lock' = t
  /\ readable' = Mark(readable, t, Exited)
  /\ pc' = [pc EXCEPT ![t] = "reap"]
  /\ UNCHANGED <<kernel, inner, deadline, ret, ripe, op, tok, final, seen, calls>>

\* The consuming wait takes the zombie: the record is not written yet.
ReapSucceeds(t) ==
  /\ pc[t] = "reap"
  /\ os = "zombie" /\ os' = "ours"
  /\ pc' = [pc EXCEPT ![t] = "finish"]
  /\ UNCHANGED <<lastSend, inner, lock, deadline, ret, ripe, locals>>

\* Mutant: the exit is returned and not recorded.
FinishUnrecorded(t) == pc[t] = "finish" /\ Leave(t, "N", "exited")

Finish(t) == pc[t] = "finish" /\ Leave(t, "E", "exited")

\* Another party has reaped the child: the holder leaves N behind.
ReapFindsForeign(t) == pc[t] = "reap" /\ os = "foreign" /\ Leave(t, "N", "foreign")

\* Still running and the pidfd was not readable: Step::Wait, unlocked.
ReapFindsRunning(t) ==
  /\ pc[t] = "reap" /\ os \in {"running", "held"} /\ t \notin readable
  /\ lock' = NoThread
  /\ Goto(t, IF t \in final THEN "drop" ELSE "blocked")

\* Still running though the pidfd was readable: Step::Recheck, mutex kept.
ReapFindsHeld(t) ==
  /\ pc[t] = "reap" /\ os \in {"running", "held"} /\ t \in readable
  /\ Goto(t, IF t \in final THEN "drop" ELSE "recheck")
  /\ UNCHANGED lock

\* A failed look or block leaves through the guard's Drop, if there is one.
LookFails(t) ==
  /\ pc[t] = "reap" \/ pc[t] = "blocked"
  /\ pc' = [pc EXCEPT ![t] = IF op[t] = "wait" THEN "drop" ELSE "idle"]
  /\ ret' = [ret EXCEPT ![t] = "error"]
  /\ UNCHANGED <<kernel, inner, lock, deadline, ripe, locals>>

\* Holder::pause with time left: asleep on the condvar, the mutex given up.
Pause(t) ==
  /\ pc[t] = "recheck"
  /\ \/ deadline[t] # "passed" /\ lock' = NoThread /\ Goto(t, "asleep")
     \/ deadline[t] = "passed" /\ UNCHANGED lock /\ Goto(t, "top")

\* The pause ends with the mutex back.
PauseEnds(t) == pc[t] = "asleep" /\ lock = NoThread /\ lock' = t /\ Goto(t, "top")

\* Mutant: a block that ran into the deadline skips the final look.
BlockEndsWithoutLook(t) ==
  /\ pc[t] = "blocked"
  /\ Exited \/ deadline[t] = "passed"
  /\ Goto(t, IF op[t] = "wait" /\ deadline[t] = "passed" THEN "drop" ELSE "top")
  /\ UNCHANGED lock

\* The block on the pidfd ends: it is readable, or the time is up.
BlockEnds(t) ==
  /\ pc[t] = "blocked"
  /\ Exited \/ deadline[t] = "passed"
  /\ Goto(t, "top") /\ UNCHANGED lock

\* The guard goes at the deadline or on an error: W goes back to N.
GuardDrops(t) ==
  /\ pc[t] = "drop" /\ lock \in {t, NoThread}
  /\ Leave(t, "N", IF ret[t] = "error" THEN "error" ELSE "deadline")

-----------------------------------------------------------------------------
(* exited_by: the same loop over the process, without the mutex *)

BeginWatch(t) == Begin(t, "watch", "top")

WatchLooks(t) ==
  /\ op[t] = "watch" /\ pc[t] = "look"
  /\ \/ Exited /\ Answer(t, "exited")
     \/ ~Exited /\ t \in final /\ Answer(t, "deadline")
     \/ ~Exited /\ t \notin final /\ Goto(t, "blocked") /\ UNCHANGED lock
     \/ Answer(t, "error")

-----------------------------------------------------------------------------
(* signal, and the ReapHold *)

\* The OS is asked to send.
SendSignal(t) ==
  /\ lastSend' = os
  /\ \E r \in {"error", IF os \in {"ours", "foreign"} THEN "gone" ELSE "delivered"} :
       ret' = [ret EXCEPT ![t] = r]

\* Mutant: the record is not consulted before the send.
SignalUnchecked(t) == SendSignal(t)

\* signal_locked: a recorded exit answers without the OS.
SignalLocked(t) ==
  \/ state = "E" /\ ret' = [ret EXCEPT ![t] = "gone"] /\ UNCHANGED lastSend
  \/ state # "E" /\ SendSignal(t)

Signal(t) ==
  /\ pc[t] = "idle" /\ calls[t] < MaxCalls
  /\ lock = NoThread
  /\ calls' = [calls EXCEPT ![t] = @ + 1]
  /\ SignalLocked(t)
  /\ UNCHANGED <<os, inner, lock, pc, op, deadline, tok, final, readable, seen, ripe>>

HoldStarts(t) ==
  /\ pc[t] = "idle" /\ calls[t] < MaxCalls
  /\ calls' = [calls EXCEPT ![t] = @ + 1]
  /\ op' = [op EXCEPT ![t] = "hold"]
  /\ pc' = [pc EXCEPT ![t] = "hold"]
  /\ seen' = [seen EXCEPT ![t] = "none"]
  /\ UNCHANGED <<kernel, inner, deadline, tok, final, readable, ret, ripe>>

\* Mutant: the hold does not keep the mutex.
BeginHoldUnlocked(t) == lock = NoThread /\ lock' = NoThread /\ HoldStarts(t)

\* OwnedChild::hold: the mutex is kept until the hold is dropped.
BeginHold(t) == lock = NoThread /\ lock' = t /\ HoldStarts(t)

\* ReapHold::state: the record, or what a peek finds.
RootStateNow ==
  IF state = "E" THEN {"own"}
  ELSE {"unknown", IF os = "foreign" THEN "elsewhere" ELSE "unreaped"}

HoldReadsState(t) ==
  /\ pc[t] = "hold"
  /\ \E s \in RootStateNow : seen' = [seen EXCEPT ![t] = s]
  /\ UNCHANGED <<kernel, inner, lock, pc, deadline, ret, ripe, op, tok, final, readable, calls>>

HoldSignals(t) ==
  /\ pc[t] = "hold"
  /\ SignalLocked(t)
  /\ UNCHANGED <<os, inner, lock, pc, deadline, ripe, locals>>

EndHold(t) == pc[t] = "hold" /\ lock' = NoThread /\ Goto(t, "idle")

-----------------------------------------------------------------------------
\* Every call of the behaviour has returned.
AllReturned ==
  /\ \A t \in Threads : pc[t] = "idle" /\ calls[t] = MaxCalls
  /\ UNCHANGED vars

Environment ==
  ChildExits \/ TracerLetsGo \/ ForeignReap \/ \E t \in Threads : DeadlinePasses(t)

\* The steps a thread takes by itself once its call has begun.
Holder(t) ==
  \/ HolderLooks(t) \/ ReapSucceeds(t) \/ Finish(t) \/ ReapFindsForeign(t)
  \/ ReapFindsRunning(t) \/ ReapFindsHeld(t) \/ Pause(t) \/ PauseEnds(t)
  \/ GuardDrops(t)

Enter(t) == WaitFindsRecord(t) \/ WaitArms(t) \/ WaitBlocks(t) \/ WaitPeeks(t)

Run(t) == RunTop(t) \/ BlockEnds(t) \/ WatchLooks(t) \/ WaitTimesOut(t)

Fails(t) == LookFails(t) \/ WakesEarly(t)

Calls(t) ==
  \/ BeginWait(t) \/ BeginWatch(t) \/ Signal(t)
  \/ BeginHold(t) \/ HoldReadsState(t) \/ HoldSignals(t)

Next ==
  \/ Environment
  \/ \E t \in Threads : Holder(t) \/ Enter(t) \/ Run(t) \/ Fails(t) \/ Calls(t) \/ EndHold(t)
  \/ AllReturned

Spec == Init /\ [][Next]_vars

\* The mutex is handed to every thread that keeps asking (strong fairness of
\* the steps that take it), a thread in a call keeps running, and time passes.
\* Errors, spurious wakeups, new calls, the child, its tracer and the foreign
\* reaper owe nothing.
FairSpec ==
  /\ Spec
  /\ \A t \in Threads :
       /\ SF_vars(Holder(t)) /\ SF_vars(Enter(t))
       /\ WF_vars(Run(t)) /\ WF_vars(EndHold(t)) /\ WF_vars(DeadlinePasses(t))

-----------------------------------------------------------------------------
TypeOK ==
  /\ os \in OsStates /\ lastSend \in OsStates
  /\ state \in {"N", "W", "E"}
  /\ token \in Nat /\ next_token \in Nat
  /\ lock \in Threads \cup {NoThread}
  /\ pc \in [Threads -> Pcs]
  /\ op \in [Threads -> {"none", "wait", "watch", "hold"}]
  /\ deadline \in [Threads -> {"none", "open", "passed"}]
  /\ tok \in [Threads -> Nat]
  /\ final \in SUBSET Threads /\ readable \in SUBSET Threads
  /\ ret \in [Threads -> {"none", "exited", "foreign", "deadline", "error", "gone", "delivered"}]
  /\ seen \in [Threads -> {"none", "own", "elsewhere", "unreaped", "unknown"}]
  /\ calls \in [Threads -> Nat]
  /\ ripe \in SUBSET Threads

\* The assertions of HolderGuard (assert_own, finish, drop): a thread that
\* holds the wait always finds the state to be its own W, so no two threads
\* ever wait on the OS for the child at once.
HolderOwnsW ==
  \A t \in Threads : IsHolder(t) =>
    /\ state = "W" /\ token = tok[t]
    /\ \A u \in Threads : IsHolder(u) => u = t

\* The reap and the write of its record are one event to everyone who takes
\* the mutex: while it is free, the exit is recorded exactly when this
\* OwnedChild has consumed the zombie.
RecordIsTheReap == lock = NoThread => (state = "E" <=> os = "ours")

\* signal_locked never asks the OS to signal a child this OwnedChild has
\* reaped, whose pid may already name another process.
NoSendAfterReap == lastSend # "ours"

\* A ReapHold keeps what it read: as long as it lasts, the root it found
\* unreaped is not reaped by any wait of this OwnedChild, and the root it
\* found reaped stays so.
HoldFreezesReap ==
  \A t \in Threads : pc[t] = "hold" =>
    /\ seen[t] = "unreaped" => os # "ours"
    /\ seen[t] = "own" => os = "ours"
    /\ state = "E" <=> os = "ours"

\* "The deadline passed" is said only after it passed, and never of an exit
\* that was there to be found when it did: the last look (of the holder, of a
\* waiter behind it, or of exited_by) comes after the deadline.
DeadlineLooksOnce ==
  \A t \in Threads : ret[t] = "deadline" => deadline[t] = "passed" /\ t \notin ripe

\* Once the exit is recorded it is never overwritten, whoever leaves later.
RecordIsFinal == [][state = "E" => state' = "E"]_vars

\* Calls return. When the child has exited and no tracer keeps it for ever,
\* every wait returns, also the one asleep behind a holder that left at its own
\* deadline or on an error; and a call with a deadline returns once it passed,
\* whatever the child, its tracer and the other callers do.
CallsReturn ==
  /\ []<>(os # "held") =>
       \A t \in Threads : []<>(pc[t] = "idle" \/ op[t] \notin {"wait", "watch"} \/ ~Exited)
  /\ \A t \in Threads : []<>(pc[t] = "idle" \/ deadline[t] # "passed")
=============================================================================
