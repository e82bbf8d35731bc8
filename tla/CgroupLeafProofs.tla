-------------------------- MODULE CgroupLeafProofs --------------------------
(***************************************************************************)
(* The safety properties of CgroupLeaf for any processes, any number of     *)
(* waits, bounded or not, and any number of faults.                         *)
(***************************************************************************)
EXTENDS CgroupLeaf, TLAPS

USE DEF kernel, fields, shared, waits, giving, seen, keepOutsideWaits

(* Waits are over before the leaf is given up; a wait past its listen holds *)
(* a listener, and past start_pump there is a pump.                         *)
WaitInv ==
  /\ owner # "live" => Idle
  /\ \A w \in Waits :
       /\ pc[w] \in {"start", "lookAgain", "failureAgain", "blocked"} => w \in listening
       /\ pc[w] \in {"lookAgain", "failureAgain", "blocked"} => pump # "none"

(* Only the join sees the stop flag, and only a stopped pump has ended. A    *)
(* wait asleep and not woken has not missed the broadcast of a failure.       *)
PumpInv ==
  /\ stop => owner = "join"
  /\ pump = "ended" => stop
  /\ pump \in {"failing", "failed"} => failure
  /\ \A w \in Waits : pc[w] = "blocked" /\ w \notin woken => pump # "failed"

(* What is said of the removal is so. *)
RemovalInv == gone \/ watchGone \/ "own" \in queue => removed

(* A teardown has joined its pump once it is past stop_pump; only a teardown *)
(* waits.                                                                     *)
ReaderInv ==
  /\ owner \in {"wait", "poll"} => mode = "teardown"
  /\ mode = "teardown" /\ owner \in {"rmdir", "kill", "now", "wait", "poll", "sweep", "retry", "done"} =>
       pump = "none"

(* Before the leaf is given up every kill was asked for. *)
KillInv ==
  /\ killed \/ doomed # {} => entered /\ (armed \/ asked)
  /\ owner = "live" /\ (killed \/ doomed # {}) => asked
  /\ owner \in {"kill", "now"} => entered
  /\ owner = "kill" => armed \/ asked

(* What is left of a leaf is settled when its owner is done with the         *)
(* directory; a release joins its pump after that.                           *)
LeftInv ==
  owner = "done" \/ (mode = "release" /\ owner \in {"stop", "join"}) =>
    removed \/ reported \/ (entered /\ ~armed /\ ~killed /\ ~killFailed)

IInv == TypeOK /\ WaitInv /\ PumpInv /\ RemovalInv /\ ReaderInv /\ KillInv /\ LeftInv /\ NoLostWakeUp

(* The initial states satisfy the invariant. *)
LEMMA InitInv == Init => IInv
<1> SUFFICES ASSUME Init PROVE IInv OBVIOUS
<1>1. TypeOK
  <2>1. KernelType BY LeafConstants, Zenon DEF Init, KernelType
  <2>2. FieldsType /\ SharedType BY Zenon DEF Init, FieldsType, SharedType, PumpPcs
  <2>3. WaitsType /\ OwnerType BY Zenon DEF Init, WaitsType, OwnerType, WaitPcs, Answers, OwnerPcs
  <2>4. FaultsType BY LeafConstants DEF Init, FaultsType
  <2> QED BY <2>1, <2>2, <2>3, <2>4 DEF TypeOK
<1>2. WaitInv /\ PumpInv /\ RemovalInv /\ ReaderInv
  BY DEF Init, WaitInv, PumpInv, RemovalInv, ReaderInv, Idle
<1>3. KillInv /\ LeftInv /\ NoLostWakeUp
  BY DEF Init, KillInv, LeftInv, NoLostWakeUp
<1> QED BY <1>1, <1>2, <1>3 DEF IInv

-----------------------------------------------------------------------------
(* A step that moves no wait, and on which a drained leaf leaves its wake-up   *)
(* on the way, loses none (Watcher::listen, run_pump).                         *)
LEMMA WakeKept ==
  ASSUME NoLostWakeUp, pc' = pc, woken' = woken, pump' = pump, stop' = stop,
         Drained' => Drained \/ WakeComing', WakeComing => WakeComing'
  PROVE  NoLostWakeUp'
BY DEF NoLostWakeUp

(* Once the leaf is being given up nobody waits on it. *)
LEMMA NobodyWaits ==
  ASSUME WaitInv, owner # "live", owner' # "live", pc' = pc
  PROVE  WaitInv' /\ NoLostWakeUp' /\ (\A w \in Waits : pc'[w] = "idle")
BY DEF WaitInv, NoLostWakeUp, Idle

(* What the kernel, the members and third parties do. *)
LEMMA KernelStep ==
  ASSUME IInv, (\E p \in Procs : Enter(p) \/ Depart(p) \/ Nest(p)) \/ Deliver \/ SiblingRemoved \/ RemovedElsewhere
  PROVE  IInv'
<1> USE LeafConstants DEF IInv, TypeOK, KernelType, FieldsType, SharedType, WaitsType, OwnerType, FaultsType,
             PumpPcs, OwnerPcs, WaitPcs, Answers, Events
<1>1. CASE \E p \in Procs : Enter(p)
  BY <1>1 DEF WaitInv, PumpInv, RemovalInv, ReaderInv, KillInv, LeftInv, NoLostWakeUp, WakeComing, Idle,
     Enter, Moved, Drained, Populated, Members
<1>2. CASE \E p \in Procs : Depart(p)
  <2> PICK p \in Procs : Depart(p) BY <1>2
  <2>1. TypeOK' BY DEF Depart, Moved
  <2>2. WaitInv' /\ PumpInv' /\ RemovalInv' /\ ReaderInv' /\ KillInv' /\ LeftInv'
    BY DEF Depart, Moved, WaitInv, PumpInv, RemovalInv, ReaderInv, KillInv, LeftInv, Idle
  <2>3. Drained' => Drained \/ WakeComing'
    BY Zenon DEF Depart, Moved, Drained, Populated, Members, WakeComing
  <2>4. NoLostWakeUp' BY <2>3, WakeKept, Zenon DEF Depart, Moved, WakeComing
  <2> QED BY <2>1, <2>2, <2>4
<1>3. CASE \E p \in Procs : Nest(p)
  BY <1>3 DEF WaitInv, PumpInv, RemovalInv, ReaderInv, KillInv, LeftInv, NoLostWakeUp, WakeComing, Idle,
     Nest, Drained, Populated, Members
<1>4. CASE Deliver
  <2>1. KernelType' BY <1>4, Zenon DEF Deliver, Queued
  <2>2. FieldsType' /\ SharedType' /\ WaitsType' /\ OwnerType' /\ FaultsType' BY <1>4 DEF Deliver
  <2>3. WaitInv' /\ PumpInv' /\ RemovalInv' /\ ReaderInv' /\ KillInv' /\ LeftInv'
    BY <1>4 DEF Deliver, Queued, WaitInv, PumpInv, RemovalInv, ReaderInv, KillInv, LeftInv, Idle
  <2>4. NoLostWakeUp'
    BY <1>4, WakeKept DEF Deliver, Queued, WakeComing, Drained, Populated, Members
  <2> QED BY <2>1, <2>2, <2>3, <2>4
<1>5. CASE SiblingRemoved
  BY <1>5 DEF WaitInv, PumpInv, RemovalInv, ReaderInv, KillInv, LeftInv, NoLostWakeUp, WakeComing, Idle,
     SiblingRemoved, Drained, Populated, Members
<1>6. CASE RemovedElsewhere
  <2>1. KernelType' BY <1>6, Zenon DEF RemovedElsewhere, Removal, Queued
  <2>2. FieldsType' /\ SharedType' /\ WaitsType' /\ OwnerType' /\ FaultsType' BY <1>6 DEF RemovedElsewhere
  <2>3. WaitInv' /\ PumpInv' /\ RemovalInv' /\ ReaderInv' /\ KillInv' /\ LeftInv'
    BY <1>6 DEF RemovedElsewhere, Removal, WaitInv, PumpInv, RemovalInv, ReaderInv, KillInv, LeftInv, Idle
  <2>4. NoLostWakeUp'
    BY <1>6, WakeKept DEF RemovedElsewhere, Removal, Queued, WakeComing, Drained, Populated, Members
  <2> QED BY <2>1, <2>2, <2>3, <2>4
<1> QED BY <1>1, <1>2, <1>3, <1>4, <1>5, <1>6

(* The pump takes in the queue, stores, notifies, fails, tells of it, and stops. *)
LEMMA PumpStep ==
  ASSUME IInv, Pump
  PROVE  IInv'
<1> USE LeafConstants DEF IInv, TypeOK, KernelType, FieldsType, SharedType, WaitsType, OwnerType, FaultsType,
             PumpPcs, OwnerPcs, WaitPcs, Answers, Events
<1>1. CASE PumpReads
  <2>1. TypeOK' BY <1>1 DEF PumpReads, Consume
  <2>2. WaitInv' /\ PumpInv' /\ RemovalInv' /\ ReaderInv' /\ KillInv' /\ LeftInv'
    BY <1>1 DEF PumpReads, Consume, WaitInv, PumpInv, RemovalInv, ReaderInv, KillInv, LeftInv, Idle
  <2>3. WakeComing => WakeComing' BY <1>1, Zenon DEF PumpReads, Consume, WakeComing
  <2>4. Drained' = Drained /\ pc' = pc /\ woken' = woken /\ pump' = "took" /\ ~stop'
    BY <1>1 DEF PumpReads, Drained, Populated, Members
  <2>5. NoLostWakeUp' BY <2>3, <2>4 DEF NoLostWakeUp
  <2> QED BY <2>1, <2>2, <2>5
<1>2. CASE PumpStores
  BY <1>2 DEF WaitInv, PumpInv, RemovalInv, ReaderInv, KillInv, LeftInv, NoLostWakeUp, WakeComing, Idle,
     PumpStores, Drained, Populated, Members
<1>3. CASE PumpNotifies
  BY <1>3 DEF WaitInv, PumpInv, RemovalInv, ReaderInv, KillInv, LeftInv, NoLostWakeUp, WakeComing, Idle,
     PumpNotifies, NotifyAll, Drained, Populated, Members
<1>4. CASE PumpFails
  BY <1>4 DEF WaitInv, PumpInv, RemovalInv, ReaderInv, KillInv, LeftInv, NoLostWakeUp, WakeComing, Idle,
     PumpFails, Fault, Drained, Populated, Members
<1>5. CASE PumpTellsFailure
  BY <1>5 DEF WaitInv, PumpInv, RemovalInv, ReaderInv, KillInv, LeftInv, NoLostWakeUp, WakeComing, Idle,
     PumpTellsFailure, NotifyAll, Drained, Populated, Members
<1>6. CASE PumpStops
  BY <1>6 DEF WaitInv, PumpInv, RemovalInv, ReaderInv, KillInv, LeftInv, NoLostWakeUp, WakeComing, Idle,
     PumpStops, Drained, Populated, Members
<1> QED BY <1>1, <1>2, <1>3, <1>4, <1>5, <1>6 DEF Pump

(* A wait begins, goes on, expires or is cancelled. *)
LEMMA WaitStep ==
  ASSUME IInv, NEW w \in Waits, BeginWait(w) \/ Wait(w) \/ Expire(w) \/ Cancel(w)
  PROVE  IInv'
<1> USE LeafConstants DEF IInv, TypeOK, KernelType, FieldsType, SharedType, WaitsType, OwnerType, FaultsType,
             PumpPcs, OwnerPcs, WaitPcs, Answers, Events
<1>1. CASE BeginWait(w)
  BY <1>1 DEF WaitInv, PumpInv, RemovalInv, ReaderInv, KillInv, LeftInv, NoLostWakeUp, WakeComing, Idle,
     BeginWait, Drained, Populated, Members
<1>2. CASE Look(w)
  BY <1>2 DEF WaitInv, PumpInv, RemovalInv, ReaderInv, KillInv, LeftInv, NoLostWakeUp, WakeComing, Idle,
     Look, Answer, Goes, Fault, Drained, Populated, Members
<1>3. CASE ReadFailure(w)
  BY <1>3 DEF WaitInv, PumpInv, RemovalInv, ReaderInv, KillInv, LeftInv, NoLostWakeUp, WakeComing, Idle,
     ReadFailure, Answer, Goes, Drained, Populated, Members
<1>4. CASE Listen(w)
  BY <1>4 DEF WaitInv, PumpInv, RemovalInv, ReaderInv, KillInv, LeftInv, NoLostWakeUp, WakeComing, Idle,
     Listen, Drained, Populated, Members
<1>5. CASE StartPump(w)
  BY <1>5 DEF WaitInv, PumpInv, RemovalInv, ReaderInv, KillInv, LeftInv, NoLostWakeUp, WakeComing, Idle,
     StartPump, Answer, Goes, Fault, Drained, Populated, Members
<1>6. CASE Unblock(w)
  BY <1>6 DEF WaitInv, PumpInv, RemovalInv, ReaderInv, KillInv, LeftInv, NoLostWakeUp, WakeComing, Idle,
     Unblock, Drained, Populated, Members
<1>7. CASE Expire(w)
  BY <1>7 DEF WaitInv, PumpInv, RemovalInv, ReaderInv, KillInv, LeftInv, NoLostWakeUp, WakeComing, Idle,
     Expire, Drained, Populated, Members
<1>8. CASE Cancel(w)
  <2>1. TypeOK' BY <1>8 DEF Cancel, Answer
  <2>2. WaitInv' /\ PumpInv' /\ RemovalInv' /\ ReaderInv'
    BY <1>8 DEF WaitInv, PumpInv, RemovalInv, ReaderInv, Idle, Cancel, Answer
  <2>3. KillInv' /\ LeftInv' BY <1>8 DEF KillInv, LeftInv, Cancel, Answer
  <2>4. NoLostWakeUp'
    BY <1>8 DEF NoLostWakeUp, WakeComing, Cancel, Answer, Drained, Populated, Members
  <2> QED BY <2>1, <2>2, <2>3, <2>4
<1> QED BY <1>1, <1>2, <1>3, <1>4, <1>5, <1>6, <1>7, <1>8, Zenon DEF Wait

(* kill_tree, disarm, and the start of giving the leaf up. *)
LEMMA CallStep ==
  ASSUME IInv, KillTree \/ Disarm \/ BeginTearDown \/ BeginRelease
  PROVE  IInv'
<1> USE LeafConstants DEF IInv, TypeOK, KernelType, FieldsType, SharedType, WaitsType, OwnerType, FaultsType,
             PumpPcs, OwnerPcs, WaitPcs, Answers, Events
<1>1. CASE KillTree
  <2>1. KernelType' /\ FieldsType' BY <1>1, Zenon DEF KillTree, HardKill, Members
  <2>2. SharedType' /\ WaitsType' /\ OwnerType' BY <1>1 DEF KillTree
  <2>3. FaultsType' BY <1>1 DEF KillTree, HardKill, Fault
  <2>4. WaitInv' /\ PumpInv' /\ RemovalInv' /\ ReaderInv'
    BY <1>1 DEF KillTree, HardKill, WaitInv, PumpInv, RemovalInv, ReaderInv, Idle
  <2>5. KillInv' /\ LeftInv' BY <1>1 DEF KillTree, KillInv, LeftInv, HardKill
  <2>6. NoLostWakeUp'
    BY <1>1, WakeKept DEF KillTree, HardKill, WakeComing, Drained, Populated, Members
  <2> QED BY <2>1, <2>2, <2>3, <2>4, <2>5, <2>6
<1>2. CASE Disarm
  <2>1. KernelType' /\ FieldsType' BY <1>2, Zenon DEF Disarm
  <2>2. SharedType' /\ WaitsType' /\ OwnerType' /\ FaultsType' BY <1>2 DEF Disarm
  <2>3. WaitInv' /\ PumpInv' /\ RemovalInv' /\ ReaderInv' /\ KillInv' /\ LeftInv'
    BY <1>2 DEF Disarm, WaitInv, PumpInv, RemovalInv, ReaderInv, KillInv, LeftInv, Idle
  <2>4. NoLostWakeUp' BY <1>2, WakeKept DEF Disarm, WakeComing, Drained, Populated, Members
  <2> QED BY <2>1, <2>2, <2>3, <2>4
<1>3. CASE BeginTearDown
  BY <1>3 DEF WaitInv, PumpInv, RemovalInv, ReaderInv, KillInv, LeftInv, NoLostWakeUp, WakeComing, Idle,
     BeginTearDown, GivesUp, Drained, Populated, Members
<1>4. CASE BeginRelease
  BY <1>4 DEF WaitInv, PumpInv, RemovalInv, ReaderInv, KillInv, LeftInv, NoLostWakeUp, WakeComing, Idle,
     BeginRelease, GivesUp, Drained, Populated, Members
<1> QED BY <1>1, <1>2, <1>3, <1>4

(* The owner stops the pump, tries the directory, kills, waits, sweeps and tries again. *)
LEMMA OwnerStep ==
  ASSUME IInv, Owner
  PROVE  IInv'
<1> USE LeafConstants DEF IInv, TypeOK, KernelType, FieldsType, SharedType, WaitsType, OwnerType, FaultsType,
             PumpPcs, OwnerPcs, WaitPcs, Answers, Events
<1>1. CASE StopPump
  <2>1. KernelType' /\ FieldsType' BY <1>1 DEF StopPump, Ends
  <2>2. SharedType' /\ WaitsType' BY <1>1, Zenon DEF StopPump, Ends
  <2>3. OwnerType' BY <1>1 DEF StopPump, Ends
  <2>4. FaultsType' BY <1>1 DEF StopPump, Ends
  <2>5. owner # "live" /\ owner' # "live" /\ pc' = pc BY <1>1 DEF StopPump, Ends
  <2>6. WaitInv' /\ NoLostWakeUp' BY <2>5, NobodyWaits
  <2>7. PumpInv' BY <1>1, <2>5, NobodyWaits DEF PumpInv, StopPump, Ends
  <2>8. RemovalInv' /\ ReaderInv' BY <1>1 DEF RemovalInv, ReaderInv, StopPump, Ends
  <2>9. KillInv' BY <1>1 DEF KillInv, StopPump, Ends
  <2>10. LeftInv' BY <1>1 DEF LeftInv, KillInv, StopPump, Ends
  <2> QED BY <2>1, <2>2, <2>3, <2>4, <2>6, <2>7, <2>8, <2>9, <2>10
<1>2. CASE FirstRmdir
  <2>1. KernelType' /\ FieldsType' BY <1>2, Zenon DEF FirstRmdir, Rmdir, Removal, Queued, AfterFirst, Finish, Ends, Fault
  <2>2. SharedType' /\ WaitsType' BY <1>2 DEF FirstRmdir, Rmdir, Removal, Queued, AfterFirst, Finish, Ends, Fault
  <2>3. OwnerType' BY <1>2, Zenon DEF FirstRmdir, Rmdir, Removal, Queued, AfterFirst, Finish, Ends, Fault
  <2>4. FaultsType' BY <1>2 DEF FirstRmdir, Rmdir, Removal, Queued, AfterFirst, Finish, Ends, Fault
  <2>5. owner # "live" /\ owner' # "live" /\ pc' = pc BY <1>2 DEF FirstRmdir, Rmdir, Removal, Queued, AfterFirst, Finish, Ends, Fault
  <2>6. WaitInv' /\ NoLostWakeUp' BY <2>5, NobodyWaits
  <2>7. PumpInv' BY <1>2, <2>5, NobodyWaits DEF PumpInv, FirstRmdir, Rmdir, Removal, Queued, AfterFirst, Finish, Ends, Fault
  <2>8. RemovalInv' /\ ReaderInv' BY <1>2 DEF RemovalInv, ReaderInv, FirstRmdir, Rmdir, Removal, Queued, AfterFirst, Finish, Ends, Fault
  <2>9. KillInv' BY <1>2 DEF KillInv, FirstRmdir, Rmdir, Removal, Queued, AfterFirst, Finish, Ends, Fault
  <2>10. LeftInv' BY <1>2 DEF LeftInv, KillInv, FirstRmdir, Rmdir, Removal, Queued, AfterFirst, Finish, Ends, Fault
  <2> QED BY <2>1, <2>2, <2>3, <2>4, <2>6, <2>7, <2>8, <2>9, <2>10
<1>3. CASE OwnerKills
  <2>1. KernelType' /\ FieldsType' BY <1>3, Zenon DEF OwnerKills, HardKill, Ends, Finish, Fault, Members
  <2>2. SharedType' /\ WaitsType' BY <1>3 DEF OwnerKills, HardKill, Ends, Finish, Fault
  <2>3. OwnerType' BY <1>3, Zenon DEF OwnerKills, HardKill, Ends, Finish, Fault
  <2>4. FaultsType' BY <1>3 DEF OwnerKills, HardKill, Ends, Finish, Fault
  <2>5. owner # "live" /\ owner' # "live" /\ pc' = pc BY <1>3 DEF OwnerKills, HardKill, Ends, Finish, Fault
  <2>6. WaitInv' /\ NoLostWakeUp' BY <2>5, NobodyWaits
  <2>7. PumpInv' BY <1>3, <2>5, NobodyWaits DEF PumpInv, OwnerKills, HardKill, Ends, Finish, Fault
  <2>8. RemovalInv' /\ ReaderInv' BY <1>3 DEF RemovalInv, ReaderInv, OwnerKills, HardKill, Ends, Finish, Fault
  <2>9. KillInv' BY <1>3, Zenon DEF KillInv, OwnerKills, HardKill, Ends, Finish, Fault
  <2>10. LeftInv' BY <1>3, Zenon DEF LeftInv, KillInv, OwnerKills, HardKill, Ends, Finish, Fault
  <2> QED BY <2>1, <2>2, <2>3, <2>4, <2>6, <2>7, <2>8, <2>9, <2>10
<1>4. CASE OwnerReads
  <2>1. KernelType' /\ FieldsType' BY <1>4 DEF OwnerReads, Ends, Finish, Fault
  <2>2. SharedType' /\ WaitsType' BY <1>4 DEF OwnerReads, Ends, Finish, Fault
  <2>3. OwnerType' BY <1>4 DEF OwnerReads, Ends, Finish, Fault
  <2>4. FaultsType' BY <1>4 DEF OwnerReads, Ends, Finish, Fault
  <2>5. owner # "live" /\ owner' # "live" /\ pc' = pc BY <1>4 DEF OwnerReads, Ends, Finish, Fault
  <2>6. WaitInv' /\ NoLostWakeUp' BY <2>5, NobodyWaits
  <2>7. PumpInv' BY <1>4, <2>5, NobodyWaits DEF PumpInv, OwnerReads, Ends, Finish, Fault
  <2>8. RemovalInv' /\ ReaderInv' BY <1>4 DEF RemovalInv, ReaderInv, OwnerReads, Ends, Finish, Fault
  <2>9. KillInv' BY <1>4 DEF KillInv, OwnerReads, Ends, Finish, Fault
  <2>10. LeftInv' BY <1>4 DEF LeftInv, KillInv, OwnerReads, Ends, Finish, Fault
  <2> QED BY <2>1, <2>2, <2>3, <2>4, <2>6, <2>7, <2>8, <2>9, <2>10
<1>5. CASE OwnerWaits
  <2>1. KernelType' /\ FieldsType' BY <1>5 DEF OwnerWaits, Ends, Finish, Fault
  <2>2. SharedType' /\ WaitsType' BY <1>5 DEF OwnerWaits, Ends, Finish, Fault
  <2>3. OwnerType' BY <1>5, Zenon DEF OwnerWaits, Ends, Finish, Fault
  <2>4. FaultsType' BY <1>5 DEF OwnerWaits, Ends, Finish, Fault
  <2>5. owner # "live" /\ owner' # "live" /\ pc' = pc BY <1>5 DEF OwnerWaits, Ends, Finish, Fault
  <2>6. WaitInv' /\ NoLostWakeUp' BY <2>5, NobodyWaits
  <2>7. PumpInv' BY <1>5, <2>5, NobodyWaits DEF PumpInv, OwnerWaits, Ends, Finish, Fault
  <2>8. RemovalInv' /\ ReaderInv' BY <1>5 DEF RemovalInv, ReaderInv, OwnerWaits, Ends, Finish, Fault
  <2>9. KillInv' BY <1>5 DEF KillInv, OwnerWaits, Ends, Finish, Fault
  <2>10. LeftInv' BY <1>5 DEF LeftInv, KillInv, OwnerWaits, Ends, Finish, Fault
  <2> QED BY <2>1, <2>2, <2>3, <2>4, <2>6, <2>7, <2>8, <2>9, <2>10
<1>6. CASE OwnerPolls
  <2>1. KernelType' /\ FieldsType' BY <1>6, Zenon DEF OwnerPolls, Consume, Ends
  <2>2. SharedType' /\ WaitsType' BY <1>6, Zenon DEF OwnerPolls, Consume, Ends
  <2>3. OwnerType' BY <1>6, Zenon DEF OwnerPolls, Consume, Ends
  <2>4. FaultsType' BY <1>6 DEF OwnerPolls, Consume, Ends
  <2>5. owner # "live" /\ owner' # "live" /\ pc' = pc BY <1>6 DEF OwnerPolls, Consume, Ends
  <2>6. WaitInv' /\ NoLostWakeUp' BY <2>5, NobodyWaits
  <2>7. PumpInv' BY <1>6, <2>5, NobodyWaits DEF PumpInv, OwnerPolls, Consume, Ends
  <2>8. RemovalInv' /\ ReaderInv'
    <3>1. RemovalInv' BY <1>6 DEF RemovalInv, OwnerPolls, Consume, Ends
    <3>2. ReaderInv' BY <1>6 DEF ReaderInv, OwnerPolls, Consume, Ends
    <3> QED BY <3>1, <3>2
  <2>9. KillInv' BY <1>6 DEF KillInv, OwnerPolls, Consume, Ends
  <2>10. LeftInv' BY <1>6 DEF LeftInv, KillInv, OwnerPolls, Consume, Ends
  <2> QED BY <2>1, <2>2, <2>3, <2>4, <2>6, <2>7, <2>8, <2>9, <2>10
<1>7. CASE Sweep
  <2>1. KernelType' /\ FieldsType' BY <1>7, Zenon DEF Sweep, Ends, Finish, Fault
  <2>2. SharedType' /\ WaitsType' BY <1>7 DEF Sweep, Ends, Finish, Fault
  <2>3. OwnerType' BY <1>7, Zenon DEF Sweep, Ends, Finish, Fault
  <2>4. FaultsType'
    <3>1. faults' = faults \/ Fault BY <1>7, Zenon DEF Sweep
    <3> QED BY <3>1 DEF Fault
  <2>5. owner # "live" /\ owner' # "live" /\ pc' = pc BY <1>7, Zenon DEF Sweep, Ends, Finish, Fault
  <2>6. WaitInv' /\ NoLostWakeUp' BY <2>5, NobodyWaits
  <2>7. PumpInv' BY <1>7, <2>5, NobodyWaits DEF PumpInv, Sweep, Ends, Finish, Fault
  <2>8. RemovalInv' /\ ReaderInv' BY <1>7, Zenon DEF RemovalInv, ReaderInv, Sweep, Ends, Finish, Fault
  <2>9. KillInv' BY <1>7, Zenon DEF KillInv, Sweep, Ends, Finish, Fault
  <2>10. LeftInv' BY <1>7, Zenon DEF LeftInv, KillInv, Sweep, Ends, Finish, Fault
  <2> QED BY <2>1, <2>2, <2>3, <2>4, <2>6, <2>7, <2>8, <2>9, <2>10
<1>8. CASE LastRmdir
  <2>1. KernelType' /\ FieldsType' BY <1>8, Zenon DEF LastRmdir, Rmdir, Removal, Queued, Finish, Fault
  <2>2. SharedType' /\ WaitsType' BY <1>8 DEF LastRmdir, Rmdir, Removal, Queued, Finish, Fault
  <2>3. OwnerType' BY <1>8 DEF LastRmdir, Rmdir, Removal, Queued, Finish, Fault
  <2>4. FaultsType'
    <3>1. faults' = faults \/ Fault BY <1>8 DEF LastRmdir, Rmdir
    <3> QED BY <3>1 DEF Fault
  <2>5. owner # "live" /\ owner' # "live" /\ pc' = pc BY <1>8 DEF LastRmdir, Rmdir, Removal, Queued, Finish, Fault
  <2>6. WaitInv' /\ NoLostWakeUp' BY <2>5, NobodyWaits
  <2>7. PumpInv' BY <1>8, <2>5, NobodyWaits DEF PumpInv, LastRmdir, Rmdir, Removal, Queued, Finish, Fault
  <2>8. RemovalInv' /\ ReaderInv'
    <3>1. RemovalInv' BY <1>8 DEF RemovalInv, LastRmdir, Rmdir, Removal, Queued, Finish
    <3>2. ReaderInv' BY <1>8 DEF ReaderInv, LastRmdir, Rmdir, Removal, Queued, Finish
    <3> QED BY <3>1, <3>2
  <2>9. KillInv' BY <1>8 DEF KillInv, LastRmdir, Rmdir, Removal, Queued, Finish, Fault
  <2>10. LeftInv'
    <3>1. PICK answered \in {"ok", "gone", "refused"} : Rmdir(answered) /\ Finish(answered = "refused")
      BY <1>8 DEF LastRmdir
    <3>2. CASE answered = "refused" BY <3>1, <3>2, Zenon DEF Finish, LeftInv
    <3>3. CASE answered # "refused" BY <3>1, <3>3 DEF Rmdir, Removal, LeftInv
    <3> QED BY <3>2, <3>3
  <2> QED BY <2>1, <2>2, <2>3, <2>4, <2>6, <2>7, <2>8, <2>9, <2>10
<1> QED BY <1>1, <1>2, <1>3, <1>4, <1>5, <1>6, <1>7, <1>8, Zenon DEF Owner

-----------------------------------------------------------------------------
(* IInv is inductive. *)
LEMMA InductiveStep == IInv /\ [Next]_vars => IInv'
<1> SUFFICES ASSUME IInv, [Next]_vars PROVE IInv' OBVIOUS
<1>1. CASE UNCHANGED vars
  <2>1. TypeOK'
    BY <1>1 DEF vars, IInv, TypeOK, KernelType, FieldsType, SharedType, WaitsType, OwnerType, FaultsType
  <2>2. WaitInv' /\ PumpInv' /\ RemovalInv' /\ ReaderInv'
    BY <1>1 DEF vars, IInv, WaitInv, PumpInv, RemovalInv, ReaderInv, Idle
  <2>3. KillInv' /\ LeftInv' BY <1>1 DEF vars, IInv, KillInv, LeftInv
  <2>4. NoLostWakeUp' BY <1>1 DEF vars, IInv, NoLostWakeUp, WakeComing, Drained, Populated, Members
  <2> QED BY <2>1, <2>2, <2>3, <2>4 DEF IInv
<1>2. CASE \E w \in Waits : BeginWait(w) \/ Wait(w) \/ Expire(w) \/ Cancel(w) BY <1>2, WaitStep
<1> QED BY <1>1, <1>2, KernelStep, PumpStep, CallStep, OwnerStep DEF Next

(* Every reachable state of the leaf (CgroupLeaf, Watcher and the waits on   *)
(* them) satisfies IInv.                                                       *)
THEOREM Invariance == Spec => []IInv
BY InitInv, InductiveStep, PTL DEF Spec

(* Type correctness. *)
THEOREM LeafTypes == Spec => []TypeOK
<1>1. IInv => TypeOK BY DEF IInv
<1> QED BY <1>1, Invariance, PTL

(* No wait sleeps on a drained leaf, or on a pump that stopped, with nothing *)
(* on its way to wake it (watcher.rs, drain.rs), however many waits share the *)
(* pump.                                                                      *)
THEOREM NoWakeUpIsLost == Spec => []NoLostWakeUp
<1>1. IInv => NoLostWakeUp BY DEF IInv
<1> QED BY <1>1, Invariance, PTL

(* The owner and the pump never read the watch side by side (stop_pump). *)
THEOREM OneReaderAtATime == Spec => []OneReader
<1>1. IInv => OneReader BY DEF IInv, ReaderInv, OneReader
<1> QED BY <1>1, Invariance, PTL

(* Nobody is killed in a leaf the child did not enter, nor by a handle that *)
(* is disarmed and was not asked to kill (tear_down, disarm).                *)
THEOREM KillsAreMeant == Spec => []KillsOnlyWhenMeant
<1>1. IInv => KillsOnlyWhenMeant BY DEF IInv, KillInv, KillsOnlyWhenMeant
<1> QED BY <1>1, Invariance, PTL

(* A leaf left behind is reported, unless the caller wanted its tree left    *)
(* running (tear_down, release_without_waiting).                              *)
THEOREM LeftBehindIsTold == Spec => []LeftBehindIsReported
<1>1. IInv => LeftBehindIsReported BY DEF IInv, LeftInv, LeftBehindIsReported
<1> QED BY <1>1, Invariance, PTL

(* Only drain_seen answers that the members exited, and it has read either   *)
(* the leaf or the flag, which is set for the leaf's own removal alone.       *)
LEMMA AnswerStep ==
  ASSUME IInv, Next, NEW w \in Waits, answer'[w] = "AllMembersExited", answer[w] # "AllMembersExited"
  PROVE  Drained
<1> USE DEF IInv, TypeOK, WaitsType
<1>1. CASE \E v \in Waits : Look(v)
  BY <1>1 DEF Look, Answer, Goes, RemovalInv, Drained
<1>2. CASE \E v \in Waits : ReadFailure(v) \/ Cancel(v) \/ BeginWait(v) \/ StartPump(v)
  BY <1>2 DEF ReadFailure, Cancel, BeginWait, StartPump, Answer, Goes
<1>3. CASE \E v \in Waits : Listen(v) \/ Unblock(v) \/ Expire(v)
  BY <1>3 DEF Listen, Unblock, Expire
<1>4. CASE BeginTearDown \/ BeginRelease
  BY <1>4 DEF BeginTearDown, BeginRelease, GivesUp
<1>5. CASE (\E q \in Procs : Enter(q) \/ Depart(q) \/ Nest(q)) \/ Deliver \/ SiblingRemoved \/ RemovedElsewhere
  BY <1>5, Zenon DEF Enter, Depart, Nest, Deliver, SiblingRemoved, RemovedElsewhere
<1>6. CASE Pump
  BY <1>6 DEF Pump, PumpReads, PumpStores, PumpNotifies, PumpFails, PumpTellsFailure, PumpStops
<1>7. CASE KillTree \/ Disarm \/ Owner
  BY <1>7, Zenon DEF KillTree, Disarm, Owner, StopPump, FirstRmdir, OwnerKills, OwnerReads, OwnerWaits, OwnerPolls,
     Sweep, LastRmdir
<1> QED BY <1>1, <1>2, <1>3, <1>4, <1>5, <1>6, <1>7 DEF Next, Wait

(* A wait answers AllMembersExited only of a leaf that holds nobody at that  *)
(* moment (drain_step_on, DrainWatch::consume).                               *)
THEOREM DrainIsNotInvented == Spec => DrainedIsTrue
<1>1. IInv /\ [Next]_vars =>
        [\A w \in Waits : answer'[w] = "AllMembersExited" /\ answer[w] # "AllMembersExited" => Drained]_vars
  BY AnswerStep
<1> QED BY <1>1, Invariance, PTL DEF Spec, DrainedIsTrue
=============================================================================
