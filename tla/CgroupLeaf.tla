----------------------------- MODULE CgroupLeaf -----------------------------
(***************************************************************************)
(* A cgroup v2 leaf from its placement verdict to its teardown: the        *)
(* kernel's directory and its notifications, the inotify watch             *)
(* (DrainWatch), the pump thread that reads it (Watcher), the waits for    *)
(* the drain (drain_step), the kill, and the two ways the leaf is given    *)
(* up, `tear_down` and `release_without_waiting`.                          *)
(*                                                                         *)
(* A wait borrows the leaf and a teardown owns it, so the two never        *)
(* overlap (the borrow checker's rule, the guard of the Begin actions).    *)
(***************************************************************************)
EXTENDS Naturals, FiniteSets

CONSTANTS Procs,       \* processes that may ever be in the leaf
          Root,        \* the spawned child, in the leaf from the start if it entered
          Waits,       \* the waits on the drain, sync or async
          Bounded,     \* the ones with a deadline
          MaxFaults    \* how many system calls may fail for no reason of the leaf's

ASSUME LeafConstants == Root \in Procs /\ Bounded \subseteq Waits /\ MaxFaults \in Nat

VARIABLES
  place,      \* [Procs -> {"out", "leaf", "nested", "left"}]
  doomed,     \* processes a cgroup.kill reached
  nested,     \* the leaf has a child cgroup
  removed,    \* the leaf's directory is gone
  postponed,  \* a cgroup.events notification is on its timer or its work item
  queue,      \* the inotify queue, as the kinds of event in it
  entered, armed, killed, killFailed,   \* fields of CgroupLeaf
  watchGone,  \* DrainWatch.gone
  gone,       \* Shared.gone
  failure,    \* Shared.failure
  pump,       \* the pump thread, "none" before it is started and once joined
  changed,    \* the pump's local of that name
  stop,       \* the stop eventfd is written
  listening,  \* waits holding a listener
  woken,      \* listeners notified
  pc,         \* where each wait is
  answer,     \* what each wait last answered
  expired,    \* bounded waits whose deadline has passed
  owner,      \* where the leaf's owner is in giving it up
  mode,       \* "teardown" or "release"
  slow,       \* the slow-drain warning is given
  reported,   \* the owner warned of a leaf left behind
  asked,      \* history: the caller asked for a kill of the tree
  late,       \* history: who came in during the teardown's wait
  faults      \* faults so far

kernel == <<place, doomed, nested, removed, postponed, queue>>
fields == <<entered, armed, killed, killFailed>>
shared == <<watchGone, gone, failure, pump, changed, stop>>
waits  == <<listening, woken, pc, answer, expired>>
giving == <<owner, mode, slow, reported>>
seen   == <<asked, late>>
vars   == <<kernel, fields, shared, waits, giving, seen, faults>>

Events   == {"modify", "own", "sibling", "overflow"}
Answers  == {"none", "AllMembersExited", "MembersRemain", "error", "cancelled"}
WaitPcs  == {"idle", "look", "failure", "listen", "start", "lookAgain", "failureAgain", "blocked"}
PumpPcs  == {"none", "poll", "took", "stored", "failing", "failed", "ended"}
OwnerPcs == {"live", "stop", "join", "rmdir", "kill", "now", "wait", "poll", "sweep", "retry", "done"}

(* The type of every variable. *)
KernelType ==
  /\ place \in [Procs -> {"out", "leaf", "nested", "left"}]
  /\ doomed \subseteq Procs /\ queue \subseteq Events
  /\ nested \in BOOLEAN /\ removed \in BOOLEAN /\ postponed \in BOOLEAN
FieldsType ==
  entered \in BOOLEAN /\ armed \in BOOLEAN /\ killed \in BOOLEAN /\ killFailed \in BOOLEAN
SharedType ==
  /\ watchGone \in BOOLEAN /\ gone \in BOOLEAN /\ failure \in BOOLEAN
  /\ pump \in PumpPcs /\ changed \in BOOLEAN /\ stop \in BOOLEAN
WaitsType ==
  /\ listening \subseteq Waits /\ woken \subseteq listening /\ expired \subseteq Bounded
  /\ pc \in [Waits -> WaitPcs] /\ answer \in [Waits -> Answers]
OwnerType ==
  /\ owner \in OwnerPcs /\ mode \in {"teardown", "release"} /\ slow \in BOOLEAN
  /\ reported \in BOOLEAN /\ asked \in BOOLEAN /\ late \subseteq Procs
FaultsType == faults \in 0..MaxFaults
TypeOK == KernelType /\ FieldsType /\ SharedType /\ WaitsType /\ OwnerType /\ FaultsType

Init ==
  /\ entered \in BOOLEAN
  /\ place = [p \in Procs |-> IF p = Root /\ entered THEN "leaf" ELSE "out"]
  /\ doomed = {} /\ queue = {} /\ listening = {} /\ woken = {} /\ expired = {}
  /\ armed = TRUE /\ pump = "none" /\ owner = "live" /\ mode = "teardown"
  /\ nested = FALSE /\ removed = FALSE /\ postponed = FALSE
  /\ killed = FALSE /\ killFailed = FALSE /\ watchGone = FALSE /\ gone = FALSE
  /\ failure = FALSE /\ changed = FALSE /\ stop = FALSE
  /\ slow = FALSE /\ reported = FALSE /\ asked = FALSE /\ late = {} /\ faults = 0
  /\ pc = [w \in Waits |-> "idle"] /\ answer = [w \in Waits |-> "none"]

-----------------------------------------------------------------------------
(* The kernel's leaf. `populated` covers the child cgroups. *)

Members(where) == {p \in Procs : where[p] \in {"leaf", "nested"}}
Populated == Members(place) # {}
Drained == removed \/ ~Populated

Fault == faults < MaxFaults /\ faults' = faults + 1

(* What the queue may become when `e` is added: siblings removed meanwhile may *)
(* have filled it, and then the event is lost behind an IN_Q_OVERFLOW.         *)
Queued(e) ==
  {queue \cup {e}} \cup (IF "sibling" \in queue THEN {queue \cup {"overflow"}} ELSE {})

(* Every flip of `populated` asks for a notification, now or on the timer. *)
Moved(newPlace) ==
  /\ place' = newPlace
  /\ postponed' = (postponed \/ (Populated # (Members(newPlace) # {})))

(* A fork or a migration into the leaf. A fork under a kill is killed too. *)
Enter(p) ==
  /\ place[p] = "out" /\ ~removed
  /\ \E where \in {"leaf"} \cup (IF nested THEN {"nested"} ELSE {}) :
       Moved([place EXCEPT ![p] = where])
  /\ doomed' \in {doomed} \cup (IF Members(place) \cap doomed # {} THEN {doomed \cup {p}} ELSE {})
  /\ late' = (IF owner \in {"wait", "poll"} THEN late \cup {p} ELSE late)
  /\ UNCHANGED <<nested, removed, queue, fields, shared, waits, giving, asked, faults>>

(* A member exits, or is moved out. *)
Depart(p) ==
  /\ p \in Members(place)
  /\ Moved([place EXCEPT ![p] = "left"])
  /\ UNCHANGED <<doomed, nested, removed, queue, fields, shared, waits, giving, seen, faults>>

(* A member makes a child cgroup and moves into it. *)
Nest(p) ==
  /\ place[p] = "leaf" /\ ~nested
  /\ nested' = TRUE /\ place' = [place EXCEPT ![p] = "nested"]
  /\ UNCHANGED <<doomed, removed, postponed, queue, fields, shared, waits, giving, seen, faults>>

(* The postponed notification runs: IN_MODIFY on cgroup.events. *)
Deliver ==
  /\ postponed /\ postponed' = FALSE
  /\ queue' \in Queued("modify")
  /\ UNCHANGED <<place, doomed, nested, removed, fields, shared, waits, giving, seen, faults>>

(* A sibling of the leaf is removed. *)
SiblingRemoved ==
  /\ "sibling" \notin queue /\ queue' = queue \cup {"sibling"}
  /\ UNCHANGED <<place, doomed, nested, removed, postponed, fields, shared, waits, giving,
                 seen, faults>>

(* The directory goes: IN_DELETE on the parent, and a notification still on *)
(* its timer is cancelled without being sent.                               *)
Removal ==
  /\ removed' = TRUE /\ queue' \in Queued("own") /\ postponed' = FALSE

(* Another party removes the drained leaf. *)
RemovedElsewhere ==
  /\ ~removed /\ ~Populated /\ ~nested
  /\ Removal
  /\ UNCHANGED <<place, doomed, nested, fields, shared, waits, giving, seen, faults>>

-----------------------------------------------------------------------------
(* The watch: DrainWatch::consume, and the pump that calls it. *)

ConsumeAnySibling ==
  /\ queue' = {}
  /\ watchGone' = (watchGone \/ queue \cap {"own", "sibling"} # {})
  /\ changed' = (queue \cap {"own", "modify", "overflow"} # {})

(* Take in the whole queue. The leaf's own removal, a write to cgroup.events *)
(* and an overflow bear on the leaf; a sibling's removal does not.           *)
Consume ==
  /\ queue' = {}
  /\ watchGone' = (watchGone \/ "own" \in queue)
  /\ changed' = (queue \cap {"own", "modify", "overflow"} # {})

NotifyAll == woken' = listening

PumpReads ==
  /\ pump = "poll" /\ ~stop /\ queue # {}
  /\ Consume /\ pump' = "took"
  /\ UNCHANGED <<place, doomed, nested, removed, postponed, fields, gone, failure, stop,
                 waits, giving, seen, faults>>

PumpStores ==
  /\ pump = "took" /\ gone' = (gone \/ watchGone) /\ pump' = "stored"
  /\ UNCHANGED <<kernel, fields, watchGone, failure, changed, stop, waits, giving, seen, faults>>

PumpNotifies ==
  /\ pump = "stored" /\ pump' = "poll"
  /\ IF changed THEN NotifyAll ELSE woken' = woken
  /\ UNCHANGED <<kernel, fields, watchGone, gone, failure, changed, stop, listening, pc,
                 answer, expired, giving, seen, faults>>

(* The poll or the read fails: record why, then wake every wait to read it. *)
PumpFails ==
  /\ pump = "poll" /\ Fault
  /\ failure' = TRUE /\ pump' = "failing"
  /\ UNCHANGED <<kernel, fields, watchGone, gone, changed, stop, waits, giving, seen>>

PumpTellsFailure ==
  /\ pump = "failing" /\ pump' = "failed" /\ NotifyAll
  /\ UNCHANGED <<kernel, fields, watchGone, gone, failure, changed, stop, listening, pc,
                 answer, expired, giving, seen, faults>>

(* The stop eventfd wins over a readable watch. *)
PumpStops ==
  /\ pump = "poll" /\ stop /\ pump' = "ended"
  /\ UNCHANGED <<kernel, fields, watchGone, gone, failure, changed, stop, waits, giving,
                 seen, faults>>

Pump == PumpReads \/ PumpStores \/ PumpNotifies \/ PumpFails \/ PumpTellsFailure \/ PumpStops

-----------------------------------------------------------------------------
(* The waits: one `drain_step` after another (leaf.rs). *)

keepOutsideWaits == <<kernel, fields, giving, seen>>

Idle == \A w \in Waits : pc[w] = "idle"

(* `w` answers and drops its listener, if it holds one. *)
Answer(w, a) ==
  /\ pc' = [pc EXCEPT ![w] = "idle"] /\ answer' = [answer EXCEPT ![w] = a]
  /\ listening' = listening \ {w} /\ woken' = woken \ {w} /\ expired' = expired \ {w}

Goes(w, to) ==
  pc' = [pc EXCEPT ![w] = to] /\ UNCHANGED <<listening, woken, answer, expired>>

BeginWait(w) ==
  /\ owner = "live" /\ entered /\ pc[w] = "idle"
  /\ pc' = [pc EXCEPT ![w] = "look"] /\ answer' = [answer EXCEPT ![w] = "none"]
  /\ UNCHANGED <<keepOutsideWaits, shared, listening, woken, expired, faults>>

(* drain_seen's two reads of the leaf. A removed leaf reads as drained. *)
Look(w) ==
  /\ pc[w] \in {"look", "lookAgain"}
  /\ UNCHANGED <<keepOutsideWaits, shared>>
  /\ \/ (gone \/ Drained) /\ Answer(w, "AllMembersExited") /\ UNCHANGED faults
     \/ /\ ~gone /\ ~Drained /\ UNCHANGED faults
        /\ Goes(w, IF pc[w] = "look" THEN "failure" ELSE "failureAgain")
     \/ ~gone /\ Fault /\ Answer(w, "error")

(* drain_seen's read of the pump's failure, then the deadline's check before *)
(* the first listen.                                                         *)
ReadFailure(w) ==
  /\ pc[w] \in {"failure", "failureAgain"}
  /\ UNCHANGED <<keepOutsideWaits, shared, faults>>
  /\ IF failure THEN Answer(w, "error")
     ELSE IF pc[w] = "failure" /\ w \in expired THEN Answer(w, "MembersRemain")
     ELSE Goes(w, IF pc[w] = "failure" THEN "listen" ELSE "blocked")

Listen(w) ==
  /\ pc[w] = "listen"
  /\ listening' = listening \cup {w} /\ pc' = [pc EXCEPT ![w] = "start"]
  /\ UNCHANGED <<keepOutsideWaits, shared, woken, answer, expired, faults>>

StartPumpTrusting(w) ==
  /\ pc[w] = "start"
  /\ UNCHANGED <<keepOutsideWaits, watchGone, gone, failure, changed, stop>>
  /\ \/ pump' = (IF pump = "none" THEN "poll" ELSE pump) /\ Goes(w, "failureAgain") /\ UNCHANGED faults
     \/ pump = "none" /\ Fault /\ Answer(w, "error") /\ UNCHANGED pump

(* start_pump, under its mutex: a pump that failed stays, and is not restarted. *)
StartPump(w) ==
  /\ pc[w] = "start"
  /\ UNCHANGED <<keepOutsideWaits, watchGone, gone, failure, changed, stop>>
  /\ \/ pump' = (IF pump = "none" THEN "poll" ELSE pump) /\ Goes(w, "lookAgain") /\ UNCHANGED faults
     \/ pump = "none" /\ Fault /\ Answer(w, "error") /\ UNCHANGED pump

UnblockByClock(w) ==
  /\ pc[w] = "blocked" /\ w \in expired
  /\ pc' = [pc EXCEPT ![w] = "look"]
  /\ listening' = listening \ {w} /\ woken' = woken \ {w}
  /\ UNCHANGED <<keepOutsideWaits, shared, answer, expired, faults>>

(* Woken, or past the deadline: the next step reads the leaf once more. *)
Unblock(w) ==
  /\ pc[w] = "blocked" /\ w \in woken \cup expired
  /\ pc' = [pc EXCEPT ![w] = "look"]
  /\ listening' = listening \ {w} /\ woken' = woken \ {w}
  /\ UNCHANGED <<keepOutsideWaits, shared, answer, expired, faults>>

Expire(w) ==
  /\ w \in Bounded \ expired /\ pc[w] # "idle" /\ expired' = expired \cup {w}
  /\ UNCHANGED <<keepOutsideWaits, shared, listening, woken, pc, answer, faults>>

(* An async wait is dropped at its await. *)
Cancel(w) ==
  /\ pc[w] = "blocked" /\ Answer(w, "cancelled")
  /\ UNCHANGED <<keepOutsideWaits, shared, faults>>

Wait(w) == Look(w) \/ ReadFailure(w) \/ Listen(w) \/ StartPump(w) \/ Unblock(w)

-----------------------------------------------------------------------------
(* The owner: kills, `disarm`, and giving the leaf up. *)

Ends(to) == owner' = to /\ UNCHANGED <<mode, slow, reported>>

(* Done with the directory; a released leaf's own Drop still stops its pump. *)
Finish(warns) ==
  /\ reported' = warns /\ owner' = (IF mode = "release" THEN "stop" ELSE "done")
  /\ UNCHANGED <<mode, slow>>

(* hard_kill, answering whether it is Ok: written, or the leaf already gone. *)
HardKill(ok) ==
  /\ UNCHANGED <<place, nested, removed, postponed, queue, entered, armed>>
  /\ \/ ok /\ removed /\ UNCHANGED <<doomed, killed, killFailed, faults>>
     \/ /\ ok /\ ~removed /\ killed' = TRUE /\ doomed' = doomed \cup Members(place)
        /\ UNCHANGED <<killFailed, faults>>
     \/ ~ok /\ Fault /\ killFailed' = TRUE /\ UNCHANGED <<doomed, killed>>

KillTree ==
  /\ owner = "live" /\ entered /\ asked' = TRUE
  /\ \E ok \in BOOLEAN : HardKill(ok)
  /\ UNCHANGED <<shared, waits, giving, late>>

Disarm ==
  /\ owner = "live" /\ armed /\ armed' = FALSE
  /\ UNCHANGED <<kernel, entered, killed, killFailed, shared, waits, giving, seen, faults>>

(* No wait is left; what they answered is nobody's any more. *)
GivesUp(how, to) ==
  /\ owner = "live" /\ Idle
  /\ owner' = to /\ mode' = how /\ answer' = [w \in Waits |-> "none"]
  /\ UNCHANGED <<kernel, fields, shared, listening, woken, pc, expired, slow, reported, seen, faults>>

BeginTearDown == GivesUp("teardown", "stop")
BeginRelease == GivesUp("release", "rmdir")

StopWithoutJoin ==
  /\ owner \in {"stop", "join"}
  /\ stop' = (pump # "none")
  /\ Ends(IF mode = "release" THEN "done" ELSE "rmdir")
  /\ UNCHANGED <<kernel, fields, watchGone, gone, failure, pump, changed, waits, seen, faults>>

(* stop_pump: write the eventfd, then join the thread. Nobody reads what it *)
(* shared after that.                                                        *)
StopPump ==
  /\ UNCHANGED <<kernel, fields, watchGone, waits, seen, faults>>
  /\ \/ /\ owner = "stop" /\ pump # "none"
        /\ stop' = TRUE /\ Ends("join") /\ UNCHANGED <<pump, gone, failure, changed>>
     \/ /\ \/ owner = "stop" /\ pump = "none"
           \/ owner = "join" /\ pump \in {"failed", "ended"}
        /\ pump' = "none"
        /\ gone' = FALSE /\ failure' = FALSE /\ changed' = FALSE /\ stop' = FALSE
        /\ Ends(IF mode = "release" THEN "done" ELSE "rmdir")

(* rmdir_leaf: what it answers, and the removal when it is Ok. *)
Rmdir(answered) ==
  /\ UNCHANGED <<place, doomed, nested>>
  /\ \/ answered = "gone" /\ removed /\ UNCHANGED <<removed, queue, postponed, faults>>
     \/ answered = "ok" /\ ~removed /\ ~Populated /\ ~nested /\ Removal /\ UNCHANGED faults
     \/ /\ answered = "refused" /\ ~removed
        /\ UNCHANGED <<removed, queue, postponed>>
        /\ IF Populated \/ nested THEN UNCHANGED faults ELSE Fault

AfterFirstKillsAnyway(answered) ==
  \/ answered # "refused" /\ Finish(FALSE)
  \/ answered = "refused" /\ ~entered /\ Finish(TRUE)
  \/ answered = "refused" /\ entered /\ Ends("kill")

(* The table of tear_down, and release's same choice: a leaf its child never *)
(* entered gets one rmdir; one armed or already killed is killed (again).    *)
AfterFirst(answered) ==
  \/ answered # "refused" /\ Finish(FALSE)
  \/ answered = "refused" /\ ~entered /\ Finish(TRUE)
  \/ answered = "refused" /\ entered /\ (armed \/ killed) /\ Ends("kill")
  \/ answered = "refused" /\ entered /\ ~armed /\ ~killed /\ Ends("now")

FirstRmdir ==
  /\ owner = "rmdir"
  /\ \E answered \in {"ok", "gone", "refused"} : Rmdir(answered) /\ AfterFirst(answered)
  /\ UNCHANGED <<fields, shared, waits, seen>>

(* drain_and_remove's kill, and release's: fired again even if one was written. *)
OwnerKills ==
  /\ owner = "kill"
  /\ \/ HardKill(TRUE) /\ Ends(IF mode = "release" THEN "now" ELSE "wait")
     \/ HardKill(FALSE) /\ Finish(TRUE)
  /\ UNCHANGED <<shared, waits, seen>>

OwnerReadsQuiet ==
  /\ owner = "now"
  /\ \/ Drained /\ Ends("sweep") /\ UNCHANGED faults
     \/ ~Drained /\ Finish(armed \/ killed) /\ UNCHANGED faults
     \/ Fault /\ Finish(armed \/ killed)
  /\ UNCHANGED <<kernel, fields, shared, waits, seen>>

(* drain_now with no wait: a leaf that holds members, or cannot be read, is *)
(* left behind.                                                             *)
OwnerReads ==
  /\ owner = "now"
  /\ \/ Drained /\ Ends("sweep") /\ UNCHANGED faults
     \/ ~Drained /\ Finish(armed \/ killed \/ killFailed) /\ UNCHANGED faults
     \/ Fault /\ Finish(armed \/ killed \/ killFailed)
  /\ UNCHANGED <<kernel, fields, shared, waits, seen>>

(* DrainWatch::wait's read of `populated`. *)
OwnerWaits ==
  /\ owner = "wait"
  /\ \/ (watchGone \/ Drained) /\ Ends("sweep") /\ UNCHANGED faults
     \/ ~watchGone /\ ~Drained /\ Ends("poll") /\ UNCHANGED faults
     \/ ~watchGone /\ Fault /\ Finish(TRUE)
  /\ UNCHANGED <<kernel, fields, shared, waits, seen>>

(* Its poll and consume; the slow-drain warning's timed poll ends once. *)
OwnerPolls ==
  /\ owner = "poll"
  /\ \/ /\ queue # {} /\ Consume /\ Ends("wait")
        /\ UNCHANGED <<place, doomed, nested, removed, postponed>>
     \/ /\ ~slow /\ slow' = TRUE /\ owner' = "wait" /\ UNCHANGED <<mode, reported>>
        /\ UNCHANGED <<kernel, watchGone, changed>>
  /\ UNCHANGED <<fields, gone, failure, pump, stop, waits, seen, faults>>

(* remove_children: a child cgroup something is in is left. *)
Sweep ==
  /\ owner = "sweep"
  /\ \/ nested' = (\E p \in Procs : place[p] = "nested") /\ Ends("retry") /\ UNCHANGED faults
     \/ nested' = nested /\ Fault /\ Finish(TRUE)
  /\ UNCHANGED <<place, doomed, removed, postponed, queue, fields, shared, waits, seen>>

LastRmdir ==
  /\ owner = "retry"
  /\ \E answered \in {"ok", "gone", "refused"} : Rmdir(answered) /\ Finish(answered = "refused")
  /\ UNCHANGED <<fields, shared, waits, seen>>

Owner == StopPump \/ FirstRmdir \/ OwnerKills \/ OwnerReads \/ OwnerWaits \/ OwnerPolls
         \/ Sweep \/ LastRmdir

-----------------------------------------------------------------------------
Next ==
  \/ \E p \in Procs : Enter(p) \/ Depart(p) \/ Nest(p)
  \/ Deliver \/ SiblingRemoved \/ RemovedElsewhere
  \/ Pump
  \/ \E w \in Waits : BeginWait(w) \/ Wait(w) \/ Expire(w) \/ Cancel(w)
  \/ KillTree \/ Disarm \/ BeginTearDown \/ BeginRelease
  \/ Owner

Spec == Init /\ [][Next]_vars

(* The pump, a wait and the owner are threads that run; the kernel runs its *)
(* timers and ends what SIGKILL reached. Nothing else is fair.              *)
Fairness ==
  /\ WF_vars(Deliver) /\ WF_vars(Owner)
  /\ WF_vars(PumpReads \/ PumpStores \/ PumpNotifies \/ PumpTellsFailure \/ PumpStops)
  /\ \A w \in Waits : WF_vars(Wait(w))
  /\ WF_vars(\E p \in doomed : Depart(p))

FairSpec == Spec /\ Fairness

-----------------------------------------------------------------------------
(* A wake-up that will reach every listener is under way. *)
WakeComing ==
  \/ postponed
  \/ queue \cap {"modify", "own", "overflow"} # {}
  \/ pump \in {"took", "stored"} /\ changed
  \/ pump = "failing"

(* No wait sleeps on a drained leaf with nothing on its way to wake it: the *)
(* listener is registered before the read the wait blocks on, and a removal *)
(* that cancels the kernel's notification is seen through the parent        *)
(* (watcher.rs "No lost wake-up", drain.rs). Nor does one sleep on a pump   *)
(* that stopped: whoever blocks has a running pump, or the broadcast of its *)
(* failure is to come or has reached it.                                    *)
NoLostWakeUp ==
  \A w \in Waits :
    /\ pc[w] \in {"failureAgain", "blocked"} /\ w \notin woken /\ Drained => WakeComing
    /\ pc[w] = "blocked" /\ w \notin woken => pump \in {"poll", "took", "stored", "failing"} /\ ~stop

(* A wait answers AllMembersExited only of a leaf that holds nobody at that *)
(* moment: a sibling's removal, an overflow or a failed pump never passes   *)
(* for the drain.                                                           *)
DrainedIsTrue ==
  [][\A w \in Waits :
       answer'[w] = "AllMembersExited" /\ answer[w] # "AllMembersExited" => Drained]_vars

(* The owner reads the watch itself only once its pump is joined: the two *)
(* would consume each other's events (get_mut, stop_pump).                *)
OneReader ==
  owner \in {"wait", "poll"} => pump = "none"

(* Giving the leaf up kills nobody unless the handle was armed or the caller *)
(* asked for the kill, and never anything of a leaf the child did not enter  *)
(* (the table in tear_down, and disarm).                                     *)
KillsOnlyWhenMeant ==
  doomed # {} => entered /\ (armed \/ asked)

(* A leaf that outlives its handle is reported, unless its caller wanted the *)
(* tree left running: disarmed, with no kill written and none failed.        *)
LeftBehindIsReported ==
  owner = "done" /\ ~removed =>
    reported \/ (entered /\ ~armed /\ ~killed /\ ~killFailed)

(* A wait on a leaf that has drained for good, or whose pump failed, returns: *)
(* a notification that is postponed, cancelled by the removal or lost in an   *)
(* overflow leaves nobody asleep (drain.rs, watcher.rs). Giving the leaf up   *)
(* ends too, however stale the kill record is: the kill is fired again before *)
(* the wait, so only a process that comes in during the wait itself can hold  *)
(* it (tear_down's "must not make this wait forever").                        *)
LeafCallsEnd ==
  /\ \A w \in Waits : []<>(pc[w] = "idle" \/ ~(Drained \/ failure))
  /\ []<>(owner \in {"live", "done"} \/ (Members(place) \cap late) \ doomed # {})
=============================================================================
