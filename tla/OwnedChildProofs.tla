-------------------------- MODULE OwnedChildProofs --------------------------
(***************************************************************************)
(* Proofs about OwnedChild, for any set of threads and any number of calls *)
(***************************************************************************)
EXTENDS OwnedChildRefinement, TLAPS

(***************************************************************************)
(* The strengthening.  Who owns the mutex is decided by where the threads  *)
(* are; a consumed zombie whose record is not written yet has a thread in  *)
(* "finish", which owns the mutex.                                         *)
(***************************************************************************)
LockInv ==
  /\ \A t \in Threads : pc[t] \in {"reap", "finish", "recheck", "hold"} => lock = t
  /\ \A t \in Threads : lock = t =>
       \/ pc[t] = "hold"
       \/ op[t] = "wait" /\ pc[t] \in {"top", "look", "reap", "finish", "recheck", "drop"}
  /\ \A t \in Threads : pc[t] \in {"enter", "cv", "reap", "finish", "recheck", "asleep", "drop"} => op[t] = "wait"

ReapInv ==
  /\ state = "E" => os = "ours"
  /\ os = "ours" => state = "E" \/ \E t \in Threads : pc[t] = "finish"
  /\ \A t \in Threads : pc[t] = "finish" => os = "ours"

\* What a hold has read stays true of the recorded state.
HoldInv ==
  \A t \in Threads : pc[t] = "hold" =>
    /\ seen[t] = "unreaped" => state # "E"
    /\ seen[t] = "own" => state = "E"

IInv == TypeOK /\ LockInv /\ HolderOwnsW /\ ReapInv /\ NoSendAfterReap /\ HoldInv

\* OwnedChild::new establishes the strengthened invariant.
LEMMA InitInv == Init => IInv
BY NoThreadAssumption DEF Init, IInv, TypeOK, LockInv, HolderOwnsW, ReapInv, NoSendAfterReap, HoldInv, IsHolder, OsStates, Pcs, HolderPcs

\* The strengthened invariant is kept by every step.
LEMMA StepInv == IInv /\ [Next]_vars => IInv'
<1> SUFFICES ASSUME IInv, [Next]_vars PROVE IInv'
  OBVIOUS
<1> USE NoThreadAssumption, MaxCallsAssumption
        DEF IInv, TypeOK, LockInv, HolderOwnsW, ReapInv, NoSendAfterReap, HoldInv, IsHolder,
            OsStates, Pcs, HolderPcs, kernel, inner, locals, Return, Answer, Leave, Goto, Locking, Notified, Mark
<1>1. CASE ChildExits BY <1>1 DEF ChildExits
<1>2. CASE TracerLetsGo BY <1>2 DEF TracerLetsGo
<1>3. CASE ForeignReap BY <1>3 DEF ForeignReap
<1>4. ASSUME NEW t \in Threads, DeadlinePasses(t) PROVE IInv'
  BY <1>4 DEF DeadlinePasses, Findable, Exited, Reapable
<1>5. ASSUME NEW t \in Threads, BeginWait(t) PROVE IInv'
  BY <1>5 DEF BeginWait, Begin, Findable, Exited, Reapable
<1>6. ASSUME NEW t \in Threads, WaitFindsRecord(t) PROVE IInv'
  BY <1>6 DEF WaitFindsRecord
<1>7. ASSUME NEW t \in Threads, WaitArms(t) PROVE IInv'
  <2>1. \A u \in Threads : ~IsHolder(u)
    BY <1>7 DEF WaitArms, Arm
  <2>2. TypeOK' /\ LockInv' /\ ReapInv' /\ NoSendAfterReap' /\ HoldInv'
    BY <1>7 DEF WaitArms, Arm
  <2>3. HolderOwnsW'
    BY <1>7, <2>1 DEF WaitArms, Arm
  <2>4. QED BY <2>2, <2>3
<1>8. ASSUME NEW t \in Threads, WaitBlocks(t) PROVE IInv'
  BY <1>8 DEF WaitBlocks
<1>9. ASSUME NEW t \in Threads, WaitPeeks(t) PROVE IInv'
  BY <1>9 DEF WaitPeeks
<1>10. ASSUME NEW t \in Threads, WaitTimesOut(t) PROVE IInv'
  BY <1>10 DEF WaitTimesOut
<1>11. ASSUME NEW t \in Threads, WakesEarly(t) PROVE IInv'
  BY <1>11 DEF WakesEarly
<1>12. ASSUME NEW t \in Threads, RunTop(t) PROVE IInv'
  BY <1>12 DEF RunTop
<1>13. ASSUME NEW t \in Threads, HolderLooks(t) PROVE IInv'
  BY <1>13 DEF HolderLooks, Exited
<1>14. ASSUME NEW t \in Threads, ReapSucceeds(t) PROVE IInv'
  BY <1>14 DEF ReapSucceeds
<1>15. ASSUME NEW t \in Threads, Finish(t) PROVE IInv'
  BY <1>15 DEF Finish
<1>16. ASSUME NEW t \in Threads, ReapFindsForeign(t) PROVE IInv'
  BY <1>16 DEF ReapFindsForeign
<1>17. ASSUME NEW t \in Threads, ReapFindsRunning(t) PROVE IInv'
  BY <1>17 DEF ReapFindsRunning
<1>18. ASSUME NEW t \in Threads, ReapFindsHeld(t) PROVE IInv'
  BY <1>18 DEF ReapFindsHeld
<1>19. ASSUME NEW t \in Threads, LookFails(t) PROVE IInv'
  BY <1>19 DEF LookFails
<1>20. ASSUME NEW t \in Threads, Pause(t) PROVE IInv'
  BY <1>20 DEF Pause
<1>21. ASSUME NEW t \in Threads, PauseEnds(t) PROVE IInv'
  BY <1>21 DEF PauseEnds
<1>22. ASSUME NEW t \in Threads, BlockEnds(t) PROVE IInv'
  BY <1>22 DEF BlockEnds
<1>24. ASSUME NEW t \in Threads, GuardDrops(t) PROVE IInv'
  BY <1>24 DEF GuardDrops
<1>25. ASSUME NEW t \in Threads, BeginWatch(t) PROVE IInv'
  BY <1>25 DEF BeginWatch, Begin, Findable, Exited, Reapable
<1>26. ASSUME NEW t \in Threads, WatchLooks(t) PROVE IInv'
  BY <1>26 DEF WatchLooks
<1>27. ASSUME NEW t \in Threads, Signal(t) PROVE IInv'
  BY <1>27 DEF Signal, SignalLocked, SendSignal
<1>28. ASSUME NEW t \in Threads, BeginHold(t) PROVE IInv'
  BY <1>28 DEF BeginHold, HoldStarts
<1>29. ASSUME NEW t \in Threads, HoldReadsState(t) PROVE IInv'
  BY <1>29 DEF HoldReadsState, RootStateNow
<1>30. ASSUME NEW t \in Threads, HoldSignals(t) PROVE IInv'
  BY <1>30 DEF HoldSignals, SignalLocked, SendSignal
<1>31. ASSUME NEW t \in Threads, EndHold(t) PROVE IInv'
  BY <1>31 DEF EndHold
<1>32. CASE UNCHANGED vars BY <1>32 DEF vars
<1>33. QED
  BY <1>1, <1>2, <1>3, <1>4, <1>5, <1>6, <1>7, <1>8, <1>9, <1>10, <1>11, <1>12, <1>13, <1>14,
     <1>15, <1>16, <1>17, <1>18, <1>19, <1>20, <1>21, <1>22, <1>24, <1>25, <1>26, <1>27,
     <1>28, <1>29, <1>30, <1>31, <1>32, Zenon
  DEF Next, Environment, Holder, Enter, Run, Fails, Calls, AllReturned

\* Type correctness of the whole specification.
THEOREM TypeCorrect == Spec => []TypeOK
BY InitInv, StepInv, PTL DEF Spec, IInv

\* The debug assertions of HolderGuard never fire, and one thread at a time
\* waits on the OS for the child.
THEOREM HolderOwnership == Spec => []HolderOwnsW
BY InitInv, StepInv, PTL DEF Spec, IInv

\* No signal is sent to a child this OwnedChild has reaped.
THEOREM SendsPrecedeReap == Spec => []NoSendAfterReap
BY InitInv, StepInv, PTL DEF Spec, IInv

\* Whoever takes the mutex finds the record exactly when the zombie was
\* consumed here.
THEOREM ReapIsRecorded == Spec => []RecordIsTheReap
<1>1. IInv => RecordIsTheReap
  BY NoThreadAssumption DEF IInv, TypeOK, LockInv, ReapInv, RecordIsTheReap
<1>2. QED BY <1>1, InitInv, StepInv, PTL DEF Spec

\* What a ReapHold read of the root holds until the hold ends.
THEOREM HoldFreezes == Spec => []HoldFreezesReap
<1>1. IInv => HoldFreezesReap
  BY DEF IInv, LockInv, ReapInv, HoldInv, HoldFreezesReap
<1>2. QED BY <1>1, InitInv, StepInv, PTL DEF Spec

(***************************************************************************)
(* The deadline.  An exit that was there when the deadline passed stays    *)
(* there; a final look was begun after the deadline; a guard dropped       *)
(* without an error was dropped by a final look that found nothing.        *)
(***************************************************************************)
DeadlineInv ==
  /\ \A t \in Threads : t \in ripe =>
       (op[t] = "wait" => Reapable) /\ (op[t] = "watch" => Exited)
  /\ \A t \in Threads : pc[t] \in {"look", "reap"} /\ t \in final => deadline[t] = "passed"
  /\ \A t \in Threads : ret[t] = "deadline" => t \notin ripe /\ deadline[t] = "passed"
  /\ \A t \in Threads : pc[t] = "drop" /\ ret[t] # "error" => t \notin ripe /\ deadline[t] = "passed"

\* The strengthening of the deadline property is kept by every step.
LEMMA DeadlineStep == IInv /\ DeadlineInv /\ [Next]_vars => DeadlineInv'
<1> SUFFICES ASSUME IInv, DeadlineInv, [Next]_vars PROVE DeadlineInv'
  OBVIOUS
<1>0. TypeOK /\ LockInv
  BY DEF IInv
<1> USE <1>0 DEF TypeOK, LockInv, DeadlineInv, OsStates, Pcs, HolderPcs, Exited, Reapable, Findable,
            kernel, inner, locals, Return, Answer, Leave, Goto, Locking, Notified, Mark
<1>1. CASE Environment
  BY <1>1 DEF Environment, ChildExits, TracerLetsGo, ForeignReap, DeadlinePasses
<1>2. ASSUME NEW t \in Threads, Enter(t) PROVE DeadlineInv'
  <2>1. CASE WaitFindsRecord(t) BY <2>1 DEF WaitFindsRecord
  <2>2. CASE WaitArms(t) BY <2>2 DEF WaitArms, Arm
  <2>3. CASE WaitBlocks(t) BY <2>3 DEF WaitBlocks
  <2>4. CASE WaitPeeks(t) BY <2>4 DEF WaitPeeks
  <2>5. QED BY <1>2, <2>1, <2>2, <2>3, <2>4 DEF Enter
<1>3. ASSUME NEW t \in Threads, Run(t) PROVE DeadlineInv'
  <2>1. CASE RunTop(t) BY <2>1 DEF RunTop
  <2>2. CASE BlockEnds(t) BY <2>2 DEF BlockEnds
  <2>3. CASE WatchLooks(t) BY <2>3 DEF WatchLooks
  <2>4. CASE WaitTimesOut(t) BY <2>4 DEF WaitTimesOut
  <2>5. QED BY <1>3, <2>1, <2>2, <2>3, <2>4 DEF Run
<1>4. ASSUME NEW t \in Threads, Fails(t) PROVE DeadlineInv'
  BY <1>4 DEF Fails, LookFails, WakesEarly
<1>5. ASSUME NEW t \in Threads, Calls(t) PROVE DeadlineInv'
  <2>1. CASE BeginWait(t) BY <2>1 DEF BeginWait, Begin
  <2>2. CASE BeginWatch(t) BY <2>2 DEF BeginWatch, Begin
  <2>3. CASE Signal(t) BY <2>3 DEF Signal, SignalLocked, SendSignal
  <2>4. CASE BeginHold(t) BY <2>4 DEF BeginHold, HoldStarts
  <2>5. CASE HoldReadsState(t) BY <2>5 DEF HoldReadsState
  <2>6. CASE HoldSignals(t) BY <2>6 DEF HoldSignals, SignalLocked, SendSignal
  <2>7. QED BY <1>5, <2>1, <2>2, <2>3, <2>4, <2>5, <2>6 DEF Calls
<1>6. ASSUME NEW t \in Threads, Holder(t) PROVE DeadlineInv'
  <2>1. CASE HolderLooks(t) BY <2>1 DEF HolderLooks
  <2>2. CASE ReapSucceeds(t) BY <2>2 DEF ReapSucceeds
  <2>3. CASE Finish(t) BY <2>3 DEF Finish
  <2>4. CASE ReapFindsForeign(t) BY <2>4 DEF ReapFindsForeign
  <2>5. CASE ReapFindsRunning(t) BY <2>5 DEF ReapFindsRunning
  <2>6. CASE ReapFindsHeld(t) BY <2>6 DEF ReapFindsHeld
  <2>7. CASE Pause(t) BY <2>7 DEF Pause
  <2>8. CASE PauseEnds(t) BY <2>8 DEF PauseEnds
  <2>9. CASE GuardDrops(t) BY <2>9 DEF GuardDrops
  <2>10. QED
    BY <1>6, <2>1, <2>2, <2>3, <2>4, <2>5, <2>6, <2>7, <2>8, <2>9 DEF Holder
<1>7. ASSUME NEW t \in Threads, EndHold(t) PROVE DeadlineInv'
  BY <1>7 DEF EndHold
<1>8. CASE UNCHANGED vars
  BY <1>8 DEF vars
<1>9. QED
  BY <1>1, <1>2, <1>3, <1>4, <1>5, <1>6, <1>7, <1>8 DEF Next, AllReturned

\* A wait or a watch never reports its deadline over an exit that was there
\* to be found when the deadline passed.
THEOREM DeadlineIsHonest == Spec => []DeadlineLooksOnce
<1>1. Init => DeadlineInv
  BY DEF Init, DeadlineInv
<1>2. DeadlineInv => DeadlineLooksOnce
  BY DEF DeadlineInv, DeadlineLooksOnce
<1>3. QED BY <1>1, <1>2, InitInv, StepInv, DeadlineStep, PTL DEF Spec

\* No step overwrites the record of the exit.
THEOREM RecordStays == Spec => RecordIsFinal
<1>1. IInv /\ [Next]_vars => [state = "E" => state' = "E"]_vars
  <2> SUFFICES ASSUME IInv, Next, state = "E" PROVE state' = "E"
    BY DEF vars
  <2>1. \A t \in Threads : ~IsHolder(t)
    BY DEF IInv, HolderOwnsW
  <2>2. \A t \in Threads : pc[t] \notin {"finish", "reap", "drop"}
    BY <2>1 DEF IInv, LockInv, IsHolder, HolderPcs
  <2>3. CASE Environment
    BY <2>3 DEF Environment, ChildExits, TracerLetsGo, ForeignReap, DeadlinePasses, inner
  <2>4. ASSUME NEW t \in Threads, Holder(t) PROVE state' = "E"
    BY <2>1, <2>2, <2>4 DEF Holder, HolderLooks, ReapSucceeds, Finish, ReapFindsForeign, ReapFindsRunning,
       ReapFindsHeld, Pause, PauseEnds, GuardDrops, Leave, Answer, Goto, Locking, inner
  <2>5. ASSUME NEW t \in Threads, Enter(t) PROVE state' = "E"
    BY <2>5 DEF Enter, WaitFindsRecord, WaitArms, WaitBlocks, WaitPeeks, Arm, Leave, Answer, Goto, Locking, inner
  <2>6. ASSUME NEW t \in Threads, Run(t) PROVE state' = "E"
    BY <2>6 DEF Run, RunTop, BlockEnds, WatchLooks, WaitTimesOut, Leave, Answer, Goto, Locking, inner
  <2>7. ASSUME NEW t \in Threads, Fails(t) PROVE state' = "E"
    BY <2>7 DEF Fails, LookFails, WakesEarly, Leave, Answer, Goto, Locking, inner
  <2>8. ASSUME NEW t \in Threads, Calls(t) \/ EndHold(t) PROVE state' = "E"
    BY <2>8 DEF Calls, BeginWait, BeginWatch, Begin, Signal, BeginHold, HoldStarts, HoldReadsState, HoldSignals,
       EndHold, Leave, Answer, Goto, inner
  <2>9. CASE AllReturned
    BY <2>9 DEF AllReturned, vars, inner
  <2>10. QED BY <2>3, <2>4, <2>5, <2>6, <2>7, <2>8, <2>9 DEF Next
<1>2. QED BY <1>1, InitInv, StepInv, PTL DEF Spec, RecordIsFinal

(***************************************************************************)
(* The refinement.  A call that is under way has returned nothing yet; an  *)
(* error is written before the guard's Drop and returned by it.            *)
(***************************************************************************)
RetInv == \A t \in Threads : pc[t] \notin {"idle", "hold", "drop"} => ret[t] = "none"

\* A call that is under way has returned nothing yet, after every step too.
LEMMA RetStep == IInv /\ RetInv /\ [Next]_vars => RetInv'
<1> SUFFICES ASSUME IInv, RetInv, [Next]_vars PROVE RetInv'
  OBVIOUS
<1>0. TypeOK /\ LockInv
  BY DEF IInv
<1> USE <1>0 DEF TypeOK, LockInv, RetInv, Pcs, HolderPcs, kernel, inner, locals,
                 Return, Answer, Leave, Goto, Locking, Notified
<1>1. CASE Environment
  BY <1>1 DEF Environment, ChildExits, TracerLetsGo, ForeignReap, DeadlinePasses
<1>2. ASSUME NEW t \in Threads, Enter(t) PROVE RetInv'
  <2>1. CASE WaitFindsRecord(t) BY <2>1 DEF WaitFindsRecord
  <2>2. CASE WaitArms(t) BY <2>2 DEF WaitArms, Arm
  <2>3. CASE WaitBlocks(t) BY <2>3 DEF WaitBlocks
  <2>4. CASE WaitPeeks(t) BY <2>4 DEF WaitPeeks
  <2>5. QED BY <1>2, <2>1, <2>2, <2>3, <2>4 DEF Enter
<1>3. ASSUME NEW t \in Threads, Run(t) PROVE RetInv'
  <2>1. CASE RunTop(t) BY <2>1 DEF RunTop
  <2>2. CASE BlockEnds(t) BY <2>2 DEF BlockEnds
  <2>3. CASE WatchLooks(t) BY <2>3 DEF WatchLooks
  <2>4. CASE WaitTimesOut(t) BY <2>4 DEF WaitTimesOut
  <2>5. QED BY <1>3, <2>1, <2>2, <2>3, <2>4 DEF Run
<1>4. ASSUME NEW t \in Threads, Fails(t) PROVE RetInv'
  BY <1>4 DEF Fails, LookFails, WakesEarly
<1>5. ASSUME NEW t \in Threads, Calls(t) PROVE RetInv'
  <2>1. CASE BeginWait(t) BY <2>1 DEF BeginWait, Begin
  <2>2. CASE BeginWatch(t) BY <2>2 DEF BeginWatch, Begin
  <2>3. CASE Signal(t) BY <2>3 DEF Signal, SignalLocked, SendSignal
  <2>4. CASE BeginHold(t) BY <2>4 DEF BeginHold, HoldStarts
  <2>5. CASE HoldReadsState(t) BY <2>5 DEF HoldReadsState
  <2>6. CASE HoldSignals(t) BY <2>6 DEF HoldSignals, SignalLocked, SendSignal
  <2>7. QED BY <1>5, <2>1, <2>2, <2>3, <2>4, <2>5, <2>6 DEF Calls
<1>6. ASSUME NEW t \in Threads, Holder(t) PROVE RetInv'
  <2>1. CASE HolderLooks(t) \/ ReapSucceeds(t) BY <2>1 DEF HolderLooks, ReapSucceeds
  <2>2. CASE Finish(t) BY <2>2 DEF Finish
  <2>3. CASE ReapFindsForeign(t) BY <2>3 DEF ReapFindsForeign
  <2>4. CASE ReapFindsRunning(t) \/ ReapFindsHeld(t) BY <2>4 DEF ReapFindsRunning, ReapFindsHeld
  <2>5. CASE Pause(t) \/ PauseEnds(t) BY <2>5 DEF Pause, PauseEnds
  <2>6. CASE GuardDrops(t) BY <2>6 DEF GuardDrops
  <2>7. QED BY <1>6, <2>1, <2>2, <2>3, <2>4, <2>5, <2>6 DEF Holder
<1>7. ASSUME NEW t \in Threads, EndHold(t) PROVE RetInv'
  BY <1>7 DEF EndHold
<1>8. CASE UNCHANGED vars
  BY <1>8 DEF vars
<1>9. QED
  BY <1>1, <1>2, <1>3, <1>4, <1>5, <1>6, <1>7, <1>8 DEF Next, AllReturned

\* A thread whose call ends takes the promise's return; the waiters it woke
\* stay in theirs.
LEMMA ReturnsBar ==
  ASSUME NEW t \in Threads, NEW r, pc[t] \notin {"idle", "hold"}, pc'[t] = "idle",
         \A u \in Threads \ {t} : pc'[u] = pc[u] \/ (pc[u] = "cv" /\ pc'[u] = "enter"),
         ret \in [Threads -> {"none", "exited", "foreign", "deadline", "error", "gone", "delivered"}],
         ret' = [ret EXCEPT ![t] = r]
  PROVE  Promise!Returns(t, r)
<1>1. t \in BusyBar /\ BusyBar' = BusyBar \ {t} /\ HeldBar' = HeldBar
  BY DEF BusyBar, HeldBar
<1>2. RetBar' = [RetBar EXCEPT ![t] = r]
  <2>1. \A u \in Threads : RetBar'[u] = [RetBar EXCEPT ![t] = r][u]
    BY DEF RetBar
  <2>2. QED BY <2>1, Zenon DEF RetBar
<1>3. QED BY <1>1, <1>2 DEF Promise!Returns

\* The part of the types a return needs.
PcRet ==
  /\ pc \in [Threads -> Pcs]
  /\ ret \in [Threads -> {"none", "exited", "foreign", "deadline", "error", "gone", "delivered"}]

\* A call that ends without waking anybody does too.
LEMMA AnswerBar ==
  ASSUME NEW t \in Threads, NEW r, PcRet, pc[t] \notin {"idle", "hold"},
         pc' = [pc EXCEPT ![t] = "idle"], ret' = [ret EXCEPT ![t] = r]
  PROVE  Promise!Returns(t, r)
<1>1. pc'[t] = "idle" /\ \A u \in Threads \ {t} : pc'[u] = pc[u]
  BY DEF PcRet
<1>2. QED BY <1>1, ReturnsBar, Zenon DEF PcRet

\* A call that returns what the promise's child bears out is a step of the promise.
LEMMA FindsBar ==
  ASSUME NEW t \in Threads, NEW r, Promise!Returns(t, r), ChildBar' = ChildBar,
         \/ r = "exited" /\ ChildBar # "alive"
         \/ r = "foreign" /\ ChildBar = "lost"
         \/ r = "deadline" /\ ChildBar # "reaped"
         \/ r = "error"
  PROVE  Promise!Next
<1>1. Promise!Finds(t)
  BY DEF Promise!Finds
<1>2. QED BY <1>1 DEF Promise!Next

\* So is a send that answers what the promise's child bears out.
LEMMA SendsNext ==
  ASSUME NEW t \in Threads, NEW r, ChildBar' = ChildBar, HeldBar \subseteq {t},
         /\ BusyBar' = BusyBar /\ HeldBar' = HeldBar /\ t \notin BusyBar
         /\ RetBar' = [RetBar EXCEPT ![t] = r],
         \/ r = "delivered" /\ ChildBar \in {"alive", "dead"}
         \/ r = "gone" /\ ChildBar \in {"reaped", "lost"}
         \/ r = "error" /\ ChildBar # "reaped"
  PROVE  Promise!Next
<1>1. Promise!Sends(t)
  BY Zenon DEF Promise!Sends
<1>2. QED BY <1>1 DEF Promise!Next

\* A send changes the promise's answer for its thread and nothing else.
LEMMA SendsBar ==
  ASSUME NEW t \in Threads, NEW r, pc[t] \in {"idle", "hold"}, pc' = pc,
         ret \in [Threads -> {"none", "exited", "foreign", "deadline", "error", "gone", "delivered"}],
         ret' = [ret EXCEPT ![t] = r]
  PROVE  /\ BusyBar' = BusyBar /\ HeldBar' = HeldBar /\ t \notin BusyBar
         /\ RetBar' = [RetBar EXCEPT ![t] = r]
<1>1. BusyBar' = BusyBar /\ HeldBar' = HeldBar /\ t \notin BusyBar
  BY DEF BusyBar, HeldBar
<1>2. \A u \in Threads : RetBar'[u] = [RetBar EXCEPT ![t] = r][u]
  BY DEF RetBar
<1>3. QED BY <1>1, <1>2, Zenon DEF RetBar

\* A call begins in the promise too.
LEMMA CallBar ==
  ASSUME NEW t \in Threads, pc[t] = "idle", pc'[t] \notin {"idle", "hold", "drop"},
         \A u \in Threads \ {t} : pc'[u] = pc[u], UNCHANGED <<os, state>>,
         ret \in [Threads -> {"none", "exited", "foreign", "deadline", "error", "gone", "delivered"}],
         ret' = [ret EXCEPT ![t] = "none"]
  PROVE  Promise!Call(t)
<1>1. /\ t \notin BusyBar \cup HeldBar /\ BusyBar' = BusyBar \cup {t} /\ HeldBar' = HeldBar
      /\ ChildBar' = ChildBar
  BY DEF BusyBar, HeldBar, ChildBar
<1>2. \A u \in Threads : RetBar'[u] = [RetBar EXCEPT ![t] = "none"][u]
  BY DEF RetBar
<1>3. RetBar' = [RetBar EXCEPT ![t] = "none"]
  BY <1>2, Zenon DEF RetBar
<1>4. QED BY <1>1, <1>3 DEF Promise!Call

\* A hold begins in the promise too.
LEMMA HoldBar ==
  ASSUME NEW t \in Threads, PcRet, pc[t] = "idle", pc' = [pc EXCEPT ![t] = "hold"],
         HeldBar = {}, UNCHANGED <<os, state, ret>>
  PROVE  Promise!Hold(t)
<1>1. t \notin BusyBar /\ BusyBar' = BusyBar /\ HeldBar' = {t}
  BY DEF BusyBar, HeldBar, PcRet
<1>2. ChildBar' = ChildBar /\ RetBar' = RetBar
  BY DEF ChildBar, RetBar, PcRet
<1>3. QED BY <1>1, <1>2 DEF Promise!Hold

\* And it ends there.
LEMMA ReleaseBar ==
  ASSUME NEW t \in Threads, PcRet, pc[t] = "hold", pc' = [pc EXCEPT ![t] = "idle"],
         UNCHANGED <<os, state, ret>>
  PROVE  Promise!Release(t)
<1>1. t \in HeldBar /\ BusyBar' = BusyBar /\ HeldBar' = HeldBar \ {t}
  BY DEF BusyBar, HeldBar, PcRet
<1>2. ChildBar' = ChildBar /\ RetBar' = RetBar
  BY DEF ChildBar, RetBar, PcRet
<1>3. QED BY <1>1, <1>2 DEF Promise!Release

\* Every step of the OwnedChild is one step of the promise, or none.
LEMMA StepKeepsPromise == IInv /\ RetInv /\ [Next]_vars => [Promise!Next]_Promise!vars
<1> SUFFICES ASSUME IInv, RetInv, [Next]_vars PROVE [Promise!Next]_Promise!vars
  OBVIOUS
<1>0. TypeOK /\ LockInv /\ HolderOwnsW /\ ReapInv
  BY DEF IInv
<1>a. \A t \in Threads : pc[t] = "hold" => lock = t /\ HeldBar = {t}
  BY <1>0 DEF LockInv, HeldBar
<1>b. lock = NoThread => HeldBar = {} /\ (os = "ours" <=> state = "E")
  BY <1>0, NoThreadAssumption DEF LockInv, ReapInv, HeldBar
<1> USE <1>0, NoThreadAssumption
        DEF TypeOK, LockInv, RetInv, Pcs, HolderPcs, OsStates, kernel, inner, locals, Return, Answer, Leave,
            Goto, Locking, Notified, PcRet, Promise!vars, ChildBar, BusyBar, HeldBar, RetBar
<1>1. CASE Environment
  <2>1. CASE ChildExits
    BY <2>1 DEF ChildExits, ReapInv, Promise!Next, Promise!Dies
  <2>2. CASE ForeignReap
    BY <2>2 DEF ForeignReap, ReapInv, Promise!Next, Promise!Lost
  <2>3. CASE TracerLetsGo
    BY <2>3 DEF TracerLetsGo
  <2>4. ASSUME NEW t \in Threads, DeadlinePasses(t) PROVE UNCHANGED Promise!vars
    BY <2>4 DEF DeadlinePasses
  <2>5. QED BY <1>1, <2>1, <2>2, <2>3, <2>4 DEF Environment
<1>2. ASSUME NEW t \in Threads, Enter(t) PROVE [Promise!Next]_Promise!vars
  <2>1. CASE WaitFindsRecord(t)
    <3>1. Promise!Returns(t, "exited")
      BY <2>1, ReturnsBar, Zenon DEF WaitFindsRecord
    <3>2. QED BY <2>1, <3>1 DEF WaitFindsRecord, Promise!Next, Promise!Finds
  <2>2. CASE WaitArms(t)
    BY <2>2 DEF WaitArms, Arm
  <2>3. CASE WaitBlocks(t)
    BY <2>3 DEF WaitBlocks
  <2>4. CASE WaitPeeks(t)
    <3>1. PICK r : /\ ret' = [ret EXCEPT ![t] = r]
                   /\ \/ r = "exited" /\ os = "zombie"
                      \/ r = "deadline"
                      \/ r = "foreign" /\ os = "foreign"
                      \/ r = "error"
      BY <2>4 DEF WaitPeeks
    <3>2. Promise!Returns(t, r)
      <4>1. pc[t] = "enter" /\ pc' = [pc EXCEPT ![t] = "idle"] /\ PcRet
        BY <2>4 DEF WaitPeeks
      <4>2. QED BY ONLY <3>1, <4>1, AnswerBar, Zenon
    <3>3. UNCHANGED <<os, state>>
      BY <2>4 DEF WaitPeeks
    <3>4. lock = NoThread /\ state # "E"
      BY <2>4 DEF WaitPeeks
    <3>5. ChildBar' = ChildBar
      BY ONLY <3>3 DEF ChildBar
    <3>6. \/ r = "exited" /\ ChildBar # "alive"
          \/ r = "deadline" /\ ChildBar # "reaped"
          \/ r = "foreign" /\ ChildBar = "lost"
          \/ r = "error"
      BY ONLY <3>1, <3>4 DEF ChildBar
    <3>7. QED BY ONLY <3>2, <3>5, <3>6, FindsBar
  <2>5. QED BY <1>2, <2>1, <2>2, <2>3, <2>4 DEF Enter
<1>3. ASSUME NEW t \in Threads, Run(t) PROVE [Promise!Next]_Promise!vars
  <2>1. CASE RunTop(t) BY <2>1 DEF RunTop
  <2>2. CASE BlockEnds(t) BY <2>2 DEF BlockEnds
  <2>3. CASE WaitTimesOut(t) BY <2>3 DEF WaitTimesOut
  <2>4. CASE WatchLooks(t)
    <3>1. CASE Goto(t, "blocked")
      BY <2>4, <3>1 DEF WatchLooks
    <3>2. CASE ~Goto(t, "blocked")
      <4>1. PICK r \in {"exited", "deadline", "error"} :
              /\ pc[t] = "look" /\ pc' = [pc EXCEPT ![t] = "idle"]
              /\ ret' = [ret EXCEPT ![t] = r]
              /\ UNCHANGED <<os, state>>
              /\ r = "exited" => Exited
              /\ r = "deadline" => ~Exited
        <5>1. CASE Exited /\ Answer(t, "exited") BY <2>4, <5>1 DEF WatchLooks
        <5>2. CASE ~Exited /\ Answer(t, "deadline") BY <2>4, <5>2 DEF WatchLooks
        <5>3. CASE Answer(t, "error") BY <2>4, <5>3 DEF WatchLooks
        <5>4. QED BY ONLY <2>4, <3>2, <5>1, <5>2, <5>3 DEF WatchLooks
      <4>2. Promise!Returns(t, r)
        <5>1. PcRet OBVIOUS
        <5>2. QED BY ONLY <4>1, <5>1, AnswerBar, Zenon
      <4>3. ChildBar' = ChildBar
        BY ONLY <4>1 DEF ChildBar
      <4>4. \/ r = "exited" /\ ChildBar # "alive"
            \/ r = "deadline" /\ ChildBar # "reaped"
            \/ r = "error"
        BY <4>1 DEF Exited, ReapInv
      <4>5. QED BY ONLY <4>2, <4>3, <4>4, FindsBar
    <3>3. QED BY <3>1, <3>2
  <2>5. QED BY <1>3, <2>1, <2>2, <2>3, <2>4 DEF Run
<1>4. ASSUME NEW t \in Threads, Fails(t) PROVE [Promise!Next]_Promise!vars
  <2>1. CASE LookFails(t)
    <3>1. CASE op[t] = "wait"
      BY <2>1, <3>1 DEF LookFails
    <3>2. CASE op[t] # "wait"
      <4>1. Promise!Returns(t, "error")
        <5>1. /\ pc[t] \notin {"idle", "hold"} /\ pc' = [pc EXCEPT ![t] = "idle"]
              /\ ret' = [ret EXCEPT ![t] = "error"] /\ PcRet
          BY <2>1, <3>2 DEF LookFails
        <5>2. QED BY ONLY <5>1, AnswerBar, Zenon
      <4>2. ChildBar' = ChildBar
        BY <2>1 DEF LookFails
      <4>3. QED BY ONLY <4>1, <4>2, FindsBar
    <3>3. QED BY <3>1, <3>2
  <2>2. CASE WakesEarly(t)
    <3>1. CASE pc[t] = "cv" /\ Goto(t, "enter") BY <3>1
    <3>2. CASE pc[t] = "blocked" /\ Goto(t, "top") BY <3>2
    <3>3. QED BY ONLY <2>2, <3>1, <3>2 DEF WakesEarly
  <2>3. QED BY <1>4, <2>1, <2>2 DEF Fails
<1>5. ASSUME NEW t \in Threads, Calls(t) PROVE [Promise!Next]_Promise!vars
  <2>1. CASE BeginWait(t)
    <3>1. /\ pc[t] = "idle" /\ pc'[t] \notin {"idle", "hold", "drop"}
          /\ \A u \in Threads \ {t} : pc'[u] = pc[u]
          /\ UNCHANGED <<os, state>>
          /\ ret' = [ret EXCEPT ![t] = "none"]
      BY <2>1 DEF BeginWait, Begin
    <3>2. QED BY <3>1, CallBar, Zenon DEF Promise!Next
  <2>2. CASE BeginWatch(t)
    <3>1. /\ pc[t] = "idle" /\ pc'[t] \notin {"idle", "hold", "drop"}
          /\ \A u \in Threads \ {t} : pc'[u] = pc[u]
          /\ UNCHANGED <<os, state>>
          /\ ret' = [ret EXCEPT ![t] = "none"]
      BY <2>2 DEF BeginWatch, Begin
    <3>2. QED BY <3>1, CallBar, Zenon DEF Promise!Next
  <2>3. CASE Signal(t)
    <3>1. PICK r \in {"gone", "error", "delivered"} :
            /\ ret' = [ret EXCEPT ![t] = r]
            /\ \/ r = "gone" /\ (state = "E" \/ os \in {"ours", "foreign"})
               \/ r = "error" /\ state # "E"
               \/ r = "delivered" /\ state # "E" /\ os \notin {"ours", "foreign"}
      BY <2>3 DEF Signal, SignalLocked, SendSignal
    <3>2. /\ BusyBar' = BusyBar /\ HeldBar' = HeldBar /\ t \notin BusyBar
          /\ RetBar' = [RetBar EXCEPT ![t] = r]
      <4>1. /\ pc[t] \in {"idle", "hold"} /\ pc' = pc
            /\ ret \in [Threads -> {"none", "exited", "foreign", "deadline", "error", "gone", "delivered"}]
        BY <2>3 DEF Signal
      <4>2. QED BY ONLY <3>1, <4>1, SendsBar, Zenon
    <3>3. ChildBar' = ChildBar /\ HeldBar = {}
      BY <2>3, <1>b DEF Signal
    <3>4. \/ r = "delivered" /\ ChildBar \in {"alive", "dead"}
          \/ r = "gone" /\ ChildBar \in {"reaped", "lost"}
          \/ r = "error" /\ ChildBar # "reaped"
      BY <2>3, <1>b, <3>1 DEF Signal
    <3>5. QED BY ONLY <3>2, <3>3, <3>4, SendsNext
  <2>4. CASE BeginHold(t)
    <3>1. /\ pc[t] = "idle" /\ pc' = [pc EXCEPT ![t] = "hold"] /\ PcRet
          /\ HeldBar = {} /\ UNCHANGED <<os, state, ret>>
      BY <2>4, <1>b DEF BeginHold, HoldStarts
    <3>2. QED BY ONLY <3>1, HoldBar, Zenon DEF Promise!Next
  <2>5. CASE HoldReadsState(t)
    BY <2>5 DEF HoldReadsState
  <2>6. CASE HoldSignals(t)
    <3>1. PICK r \in {"gone", "error", "delivered"} :
            /\ ret' = [ret EXCEPT ![t] = r]
            /\ \/ r = "gone" /\ (state = "E" \/ os \in {"ours", "foreign"})
               \/ r = "error" /\ state # "E"
               \/ r = "delivered" /\ state # "E" /\ os \notin {"ours", "foreign"}
      BY <2>6 DEF HoldSignals, SignalLocked, SendSignal
    <3>2. /\ BusyBar' = BusyBar /\ HeldBar' = HeldBar /\ t \notin BusyBar
          /\ RetBar' = [RetBar EXCEPT ![t] = r]
      <4>1. /\ pc[t] \in {"idle", "hold"} /\ pc' = pc
            /\ ret \in [Threads -> {"none", "exited", "foreign", "deadline", "error", "gone", "delivered"}]
        BY <2>6 DEF HoldSignals
      <4>2. QED BY ONLY <3>1, <4>1, SendsBar, Zenon
    <3>3. ChildBar' = ChildBar /\ HeldBar = {t} /\ (os = "ours" => state = "E")
      BY <2>6, <1>a DEF HoldSignals, ReapInv
    <3>4. \/ r = "delivered" /\ ChildBar \in {"alive", "dead"}
          \/ r = "gone" /\ ChildBar \in {"reaped", "lost"}
          \/ r = "error" /\ ChildBar # "reaped"
      BY <3>1, <3>3
    <3>5. QED BY ONLY <3>2, <3>3, <3>4, SendsNext
  <2>7. QED BY <1>5, <2>1, <2>2, <2>3, <2>4, <2>5, <2>6, Zenon DEF Calls
<1>6. ASSUME NEW t \in Threads, Holder(t) PROVE [Promise!Next]_Promise!vars
  <2>1. CASE HolderLooks(t) BY <2>1 DEF HolderLooks
  <2>2. CASE ReapSucceeds(t)
    BY <2>2 DEF ReapSucceeds, ReapInv
  <2>3. CASE Finish(t)
    <3>1. HeldBar = {} /\ ChildBar = "dead"
      BY <2>3 DEF Finish, ReapInv, HolderOwnsW, IsHolder
    <3>2. Promise!Returns(t, "exited")
      BY <2>3, ReturnsBar, Zenon DEF Finish
    <3>3. QED BY <2>3, <3>1, <3>2 DEF Finish, Promise!Next, Promise!Reaps
  <2>4. CASE ReapFindsForeign(t)
    <3>1. Promise!Returns(t, "foreign")
      BY <2>4, ReturnsBar, Zenon DEF ReapFindsForeign
    <3>2. QED BY <2>4, <3>1 DEF ReapFindsForeign, HolderOwnsW, IsHolder, Promise!Next, Promise!Finds
  <2>5. CASE ReapFindsRunning(t) BY <2>5 DEF ReapFindsRunning
  <2>6. CASE ReapFindsHeld(t) BY <2>6 DEF ReapFindsHeld
  <2>7. CASE Pause(t) BY <2>7 DEF Pause
  <2>8. CASE PauseEnds(t) BY <2>8 DEF PauseEnds
  <2>9. CASE GuardDrops(t)
    <3>1. PICK r \in {"error", "deadline"} : Leave(t, "N", r)
      BY <2>9, Zenon DEF GuardDrops
    <3>2. Promise!Returns(t, r)
      <4>1. /\ pc[t] = "drop" /\ pc'[t] = "idle"
            /\ \A u \in Threads \ {t} : pc'[u] = pc[u] \/ (pc[u] = "cv" /\ pc'[u] = "enter")
            /\ ret' = [ret EXCEPT ![t] = r]
        <5>1. pc[t] = "drop" BY <2>9 DEF GuardDrops
        <5>2. pc' = Notified(t, "idle") /\ ret' = [ret EXCEPT ![t] = r] BY ONLY <3>1 DEF Leave, Return
        <5>3. QED BY <5>1, <5>2
      <4>2. QED BY <4>1, ReturnsBar, Zenon
    <3>3. ChildBar' = ChildBar /\ ChildBar # "reaped"
      BY <2>9 DEF GuardDrops, HolderOwnsW, IsHolder
    <3>4. QED BY ONLY <3>1, <3>2, <3>3, FindsBar
  <2>10. QED
    BY <1>6, <2>1, <2>2, <2>3, <2>4, <2>5, <2>6, <2>7, <2>8, <2>9, Zenon DEF Holder
<1>7. ASSUME NEW t \in Threads, EndHold(t) PROVE [Promise!Next]_Promise!vars
  <2>1. /\ pc[t] = "hold" /\ pc' = [pc EXCEPT ![t] = "idle"] /\ PcRet
        /\ UNCHANGED <<os, state, ret>>
    BY <1>7 DEF EndHold
  <2>2. QED BY ONLY <2>1, ReleaseBar, Zenon DEF Promise!Next
<1>8. CASE UNCHANGED vars
  BY <1>8 DEF vars
<1>9. QED
  BY <1>1, <1>2, <1>3, <1>4, <1>5, <1>6, <1>7, <1>8, Zenon DEF Next, AllReturned

\* The OwnedChild implements the reap-once promise.
THEOREM ImplementsReapOnce == Spec => KeepsPromise
<1>1. Init => RetInv /\ Promise!Init
  BY DEF Init, RetInv, Promise!Init, ChildBar, BusyBar, HeldBar, RetBar
<1>2. QED
  BY <1>1, InitInv, StepInv, RetStep, StepKeepsPromise, PTL DEF Spec, KeepsPromise, Promise!Spec
=============================================================================
