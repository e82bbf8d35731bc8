-------------------------- MODULE TokioChildProofs --------------------------
(***************************************************************************)
(* The async child on Linux, for any number of failing looks and watches:  *)
(* no reap by number is blind (NeverReapsBlindly), what a teardown says of  *)
(* the child is so (DropFateIsTrue), and a delivered kill is followed by    *)
(* the reap unless a panic unwinds the teardown (TornDownIsReaped).         *)
(***************************************************************************)
EXTENDS TokioChild, TLAPS

(* Where a call is, where the reap on events is, and where the backend must  *)
(* still hold a child that tokio has not collected.                          *)
Calling == {"idle", "trynum", "grace", "escalate", "gate"}
Looping == {"arm", "await", "look", "reap", "seen"}
Holding == Looping \cup {"trynum", "exitwait", "collect", "refused", "dropgate", "droptry"}

(* The number is the child's until it is reaped. This Child has the status   *)
(* it took itself, or a sibling's from the gap after a look.                  *)
StatusInv ==
  /\ num = "own" <=> kid # "reaped"
  /\ reaper \in {"none", "tokio", "foreign"}
  /\ reaper = "none" <=> kid # "reaped"
  /\ reaper = "tokio" => collected
  /\ collected => reaper = "tokio" \/ stolen = "gap"
  /\ collected => kid = "reaped"
  /\ stolen # "blind"

(* A backend that names another reaper is right. *)
ProcessInv ==
  /\ backend = "ReapedElsewhere" => reaper = "foreign"
  /\ backend = "Unproven" => kid = "reaped" \/ teardown.forgot \/ at = "over"
  /\ at \in {"reap", "collect"} => kid \in {"zombie", "reaped"}

(* A backend is released or handed to tokio's orphan queue only at the end,   *)
(* and a reap on events or a refused kill still holds the child.              *)
BackendInv ==
  /\ backend \in {"Tokio", "ReapedElsewhere", "Unproven", "Orphan", "Released"}
  /\ backend \in {"Orphan", "Released"} => at = "over"
  /\ at = "over" => backend # "Tokio"
  /\ backend = "Orphan" => ~collected
  /\ collected => backend \in {"Tokio", "Released"}
  /\ at \in Holding => HoldsUnreaped

(* A look that showed the child ours is behind every reap by number, and      *)
(* behind every release of a child that is not collected.                     *)
LookInv ==
  /\ at \in {"reap", "trynum", "droptry", "collect"} => shown
  /\ at \in {"settle", "report", "release"} /\ HoldsUnreaped => shown
  /\ backend = "Orphan" => shown

(* This Child had its status when the teardown began. *)
HadStatus == teardown.own /\ teardown.forgotten = "none"

(* The teardown's record: empty in a call, and true of the backend, of the    *)
(* child and of the kill it sent.                                             *)
TeardownInv ==
  /\ DOMAIN teardown = DOMAIN NoTeardown
  /\ at \in Calling => teardown = NoTeardown
  /\ at \in Looping => teardown.awaited \/ teardown = NoTeardown
  /\ teardown.forgot => backend # "Tokio"
  /\ at \in {"view", "kill"} => ~teardown.forgot
  /\ at \in {"view", "kill"} /\ teardown.own => IsReaped
  /\ at \in {"view", "kill"} /\ collected => HadStatus
  /\ teardown.view = "Reaped" => kid = "reaped"
  /\ HadStatus => collected
  /\ teardown.forgotten = "ReapedElsewhere" => reaper = "foreign"

(* A delivered kill is settled by the reap: past the settling, the child is   *)
(* reaped or the backend no longer holds it, unless a panic unwinds.          *)
KillInv ==
  /\ at \in {"view", "kill"} => teardown.sent = "none"
  /\ teardown.sent = "Delivered" => teardown.settle = "ReapAndDrain" /\ ~teardown.own
  /\ at \in {"refused", "dropgate", "droptry"} => teardown.sent = "Refused"
  /\ at \in {"view", "kill", "refused", "dropgate", "droptry", "second"} => teardown.fate # "none"
  /\ at = "unwind" => teardown.fate = "none"
  /\ at \in {"report", "release"} /\ HoldsUnreaped /\ teardown.sent = "Delivered"
       => kid = "reaped" \/ teardown.fate = "none"

(* The fate a teardown has so far. A child whose status this Child had before *)
(* is found Gone until the report, which says Reaped.                         *)
FateInv ==
  /\ teardown.fate = "Reaped" => collected
  /\ teardown.fate = "Gone" =>
        reaper = "foreign" \/ (HadStatus /\ at \in {"second", "settle", "report"})
  /\ teardown.fate = "Killed" => /\ teardown.sent = "Delivered" /\ reaper # "tokio"
                                 /\ kid # "running" \/ doomed
  /\ teardown.sent = "Delivered" /\ teardown.fate \notin {"Killed", "Reaped", "none"} =>
        /\ reaper = "foreign" /\ at \in {"report", "release", "over"}
        /\ backend \in {"Tokio", "Orphan", "Released"}

IInv == StatusInv /\ ProcessInv /\ BackendInv /\ LookInv /\ TeardownInv /\ KillInv /\ FateInv /\ TornDownIsReaped

-----------------------------------------------------------------------------
(* Records writes the fields it is given and keeps the others. *)
Written(fate, settle, sent, forgot) ==
  /\ DOMAIN teardown' = DOMAIN NoTeardown
  /\ teardown'.fate = fate /\ teardown'.settle = settle /\ teardown'.sent = sent
  /\ teardown'.forgot = forgot
  /\ teardown'.awaited = teardown.awaited /\ teardown'.own = teardown.own
  /\ teardown'.forgotten = teardown.forgotten

(* The record of no teardown. *)
LEMMA Empty ==
  ASSUME teardown = NoTeardown
  PROVE  /\ teardown.fate = "none" /\ teardown.sent = "none" /\ teardown.view = "none"
         /\ teardown.forgotten = "none" /\ ~teardown.own /\ ~teardown.forgot /\ ~teardown.awaited
BY DEF NoTeardown

(* The look at the start of a teardown writes its view. *)
LEMMA RecordsView ==
  ASSUME NEW x, Records([view |-> x]), DOMAIN teardown = DOMAIN NoTeardown
  PROVE  Written(teardown.fate, teardown.settle, teardown.sent, teardown.forgot) /\ teardown'.view = x
BY DEF Records, NoTeardown, Written

(* A collected exit, or a look on the way out, writes the fate. *)
LEMMA RecordsFate ==
  ASSUME NEW x, Records([fate |-> x]), DOMAIN teardown = DOMAIN NoTeardown
  PROVE  Written(x, teardown.settle, teardown.sent, teardown.forgot) /\ teardown'.view = teardown.view
BY DEF Records, NoTeardown, Written

(* A look that failed in the loop writes that the backend was forgotten. *)
LEMMA RecordsForgot ==
  ASSUME Records([forgot |-> TRUE]), DOMAIN teardown = DOMAIN NoTeardown
  PROVE  Written(teardown.fate, teardown.settle, teardown.sent, TRUE) /\ teardown'.view = teardown.view
BY DEF Records, NoTeardown, Written

(* A look after the kill writes both. *)
LEMMA RecordsFateForgot ==
  ASSUME NEW x, Records([fate |-> x, forgot |-> TRUE]), DOMAIN teardown = DOMAIN NoTeardown
  PROVE  Written(x, teardown.settle, teardown.sent, TRUE) /\ teardown'.view = teardown.view
BY DEF Records, NoTeardown, Written

(* A child already reaped is only drained. *)
LEMMA RecordsSettle ==
  ASSUME NEW x, NEW y, Records([fate |-> x, settle |-> y]), DOMAIN teardown = DOMAIN NoTeardown
  PROVE  Written(x, y, teardown.sent, teardown.forgot) /\ teardown'.view = teardown.view
BY DEF Records, NoTeardown, Written

(* A refused kill writes only that it was refused. *)
LEMMA RecordsSent ==
  ASSUME NEW z, Records([sent |-> z]), DOMAIN teardown = DOMAIN NoTeardown
  PROVE  Written(teardown.fate, teardown.settle, z, teardown.forgot) /\ teardown'.view = teardown.view
BY DEF Records, NoTeardown, Written

(* The kill writes what it did, and how the teardown settles. *)
LEMMA RecordsKill ==
  ASSUME NEW x, NEW y, NEW z, Records([fate |-> x, settle |-> y, sent |-> z]),
         DOMAIN teardown = DOMAIN NoTeardown
  PROVE  Written(x, y, z, teardown.forgot) /\ teardown'.view = teardown.view
BY DEF Records, NoTeardown, Written

-----------------------------------------------------------------------------
(* A status that this Child does not have is with another reaper, and a step *)
(* that touches no status keeps StatusInv.                                    *)
Known ==
  /\ kid = "reaped" /\ ~collected => reaper = "foreign"
  /\ reaper = "foreign" => kid = "reaped"
  /\ reaper = "tokio" => collected
  /\ collected => kid = "reaped"
  /\ num # "own" => kid = "reaped"
  /\ UNCHANGED <<kid, num, reaper, collected, stolen>> => StatusInv'

(* It follows from what is invariant of the statuses. *)
LEMMA Statuses == StatusInv => Known
BY DEF StatusInv, Known

(* A reap by number after a look takes the child's own status, a sibling's in *)
(* the gap, or none.                                                          *)
LEMMA Takes ==
  ASSUME StatusInv, ~collected, shown, TryWait
  PROVE  /\ StatusInv'
         /\ collected' => kid' = "reaped"
         /\ kid = "reaped" \/ ~collected' => UNCHANGED <<kid, reaper>>
         /\ collected' <=> ByNumber = "status"
         /\ reaper = "foreign" => reaper' = "foreign"
<1>1. CASE num = "own" /\ kid = "zombie" BY <1>1, Zenon DEF StatusInv, TryWait, ByNumber
<1>2. CASE num = "own" /\ kid # "zombie" BY <1>2, Zenon DEF StatusInv, TryWait, ByNumber
<1>3. CASE num # "own" BY <1>3, Zenon DEF StatusInv, TryWait, ByNumber, Steal
<1> QED BY <1>1, <1>2, <1>3

-----------------------------------------------------------------------------
(* The kernel, the rest of the process and the reactor keep the invariant. *)
LEMMA WorldStep ==
  ASSUME IInv, World \/ Reactor PROVE IInv'
<1> USE DEF IInv, StatusInv, ProcessInv, BackendInv, LookInv, TeardownInv, KillInv, FateInv, TornDownIsReaped,
            Unwound, HadStatus, HoldsUnreaped, IsReaped, Surroundings, Call, Holding, Looping, Calling
<1>1. CASE Exits /\ Call BY <1>1 DEF Exits
<1>2. CASE HandBack /\ Call BY <1>2 DEF HandBack
<1>3. CASE ForeignReap /\ Call BY <1>3 DEF ForeignReap
<1>4. CASE Reuse /\ Call BY <1>4 DEF Reuse
<1>5. CASE Reactor BY <1>5 DEF Reactor, ReactorTurns, process
<1> QED BY <1>1, <1>2, <1>3, <1>4, <1>5 DEF World

(* A call: the looks of wait and try_wait, the kill, the grace and the        *)
(* detach.                                                                    *)
LEMMA CallStep ==
  ASSUME IInv, Calls \/ TryNumber \/ (at = "escalate" /\ Kill) \/ GraceEnds \/ WaitAfterGrace
  PROVE  IInv'
<1>0. StatusInv /\ Known BY Statuses DEF IInv
<1> USE <1>0 DEF Known, IInv, ProcessInv, BackendInv, LookInv, TeardownInv, KillInv, FateInv, TornDownIsReaped,
            Unwound, HadStatus, HoldsUnreaped, IsReaped, Call, AsIs, process, Holding, Looping, Calling
<1>1. ASSUME NEW pass \in {"arm", "trynum"}, at \in {"idle", "gate"}, Gate(pass), Call PROVE IInv'
  BY <1>1, Zenon DEF Gate, Looks, States, Forget
<1>2. CASE TryNumber
  <2>1. /\ at = "trynum" /\ at' = "idle" /\ TryWait /\ shown' = FALSE
        /\ UNCHANGED <<doomed, backend, teardown>> /\ HoldsUnreaped /\ shown /\ teardown = NoTeardown
    BY <1>2, Zenon DEF TryNumber
  <2>2. StatusInv' BY <2>1, Takes
  <2> QED BY <2>1, <2>2, Empty
<1>3. CASE Kill BY <1>3, Zenon DEF Kill, Signal, Sents, Forget, ForgottenOf
<1>4. CASE GracefulShutdown \/ GraceEnds BY <1>4 DEF GracefulShutdown, GraceEnds
<1>5. CASE Detach BY <1>5 DEF Detach, sourceVars
<1>6. CASE BeginTearDown
  <2>1. PICK awaited \in BOOLEAN :
          Records([awaited |-> awaited, own |-> IsReaped, fate |-> "Running",
                   forgotten |-> IF backend = "Tokio" THEN "none" ELSE backend])
    BY <1>6 DEF BeginTearDown
  <2>2. at = "idle" /\ at' = "view" /\ UNCHANGED <<kid, doomed, num, reaper, shown, backend, collected, stolen>>
    BY <1>6 DEF BeginTearDown, Tears
  <2>3. /\ DOMAIN teardown' = DOMAIN NoTeardown
        /\ teardown'.own = IsReaped /\ teardown'.fate = "Running"
        /\ teardown'.forgotten = IF backend = "Tokio" THEN "none" ELSE backend
        /\ teardown'.view = "none" /\ teardown'.sent = "none" /\ teardown'.forgot = FALSE
    BY <2>1, <2>2 DEF Records, NoTeardown
  <2>4. teardown'.own /\ teardown'.forgotten = "none" => collected BY <2>3, Zenon
  <2>5. teardown'.forgotten = "ReapedElsewhere" => kid = "reaped" BY <2>3
  <2>6. /\ teardown'.fate = "Running" /\ teardown'.view = "none" /\ teardown'.sent = "none"
        /\ teardown'.forgot = FALSE /\ DOMAIN teardown' = DOMAIN NoTeardown /\ ~teardown.forgot
    BY <2>2, <2>3 DEF NoTeardown
  <2>7. StatusInv' /\ HoldsUnreaped' = HoldsUnreaped BY <2>2, Zenon
  <2>8. teardown'.own => IsReaped' BY <2>2, <2>3, Zenon
  <2>9. collected' => teardown'.own /\ teardown'.forgotten = "none" BY <2>2, <2>3, ZenonT(30)
  <2> QED BY <2>2, <2>4, <2>5, <2>6, <2>7, <2>8, <2>9
<1> QED BY <1>1, <1>2, <1>3, <1>4, <1>5, <1>6, Zenon
    DEF Calls, CallWait, CallTryWait, WaitAfterGrace

(* The reap on events, in a wait and in an awaited teardown, and its          *)
(* cancellation.                                                              *)
LEMMA LoopStep ==
  ASSUME IInv, Loop \/ Cancel PROVE IInv'
<1>0. StatusInv /\ Known BY Statuses DEF IInv
<1> USE <1>0 DEF Known, IInv, ProcessInv, BackendInv, LookInv, TeardownInv, KillInv, FateInv, TornDownIsReaped,
            Unwound, HadStatus, HoldsUnreaped, IsReaped, Call, AsIs, process, Holding, Looping, Calling, Tearing, Leaves,
            Unwatched, Written
<1>1. CASE Arm(Unwatched) /\ UNCHANGED <<armed, teardown>> BY <1>1 DEF Arm
<1>2. CASE TakeReady(Unwatched) /\ UNCHANGED <<armed, teardown>> BY <1>2, Zenon DEF TakeReady
<1>3. CASE Seen /\ UNCHANGED <<armed, teardown>> BY <1>3 DEF Seen
<1>4. CASE LookStep /\ UNCHANGED armed
  <2> PICK s \in States : LookForExit(s) /\ IF s = "Unreaped" THEN UNCHANGED teardown ELSE Halt(s)
    BY <1>4 DEF LookStep
  <2>1. CASE s = "Unreaped"
    <3>1. /\ at = "look" /\ at' = IF kid = "zombie" THEN "reap" ELSE "seen"
          /\ shown' = TRUE /\ UNCHANGED <<kid, doomed, num, reaper, backend, collected, stolen, teardown>>
      BY <2>1, Zenon DEF LookForExit, Looks
    <3> QED BY <2>1, <3>1
  <2>2. CASE s # "Unreaped" /\ ~Tearing BY <2>2 DEF LookForExit, Looks, Halt, Forget, States
  <2>3. CASE s # "Unreaped" /\ Tearing
    <3>1. Records([forgot |-> TRUE]) BY <2>3 DEF Halt
    <3>2. /\ at' = "report" /\ UNCHANGED <<kid, doomed, num, reaper, collected, stolen>>
          /\ backend' \in {"Unproven", "ReapedElsewhere"}
          /\ backend' = "ReapedElsewhere" => kid = "reaped"
      BY <2>3 DEF LookForExit, Looks, Halt, Forget, ForgottenOf, States
    <3>3. Written(teardown.fate, teardown.settle, teardown.sent, TRUE) /\ teardown'.view = teardown.view
      BY <3>1, RecordsForgot, Zenon
    <3>4. at = "look" BY DEF LookForExit
    <3> QED BY <3>2, <3>3, <3>4
  <2> QED BY <2>1, <2>2, <2>3
<1>5. CASE ReapStep /\ UNCHANGED armed
  <2>1. /\ at = "reap" /\ TryWait /\ shown' = FALSE /\ UNCHANGED doomed
        /\ shown /\ HoldsUnreaped /\ at' = IF Tearing THEN "report" ELSE "idle"
        /\ backend' = IF collected' THEN "Tokio" ELSE "ReapedElsewhere"
    BY <1>5, Zenon DEF ReapStep, ReapAfterLook, Forget
  <2>2. /\ StatusInv' /\ (collected' => kid' = "reaped")
        /\ kid = "reaped" \/ ~collected' => UNCHANGED <<kid, reaper>>
        /\ reaper = "foreign" => reaper' = "foreign"
    BY <2>1, Takes
  <2>3. kid' = "reaped" BY <2>1, <2>2 DEF ByNumber, TryWait, StatusInv
  <2>4. ~collected' => reaper' = "foreign" BY <2>2, <2>3 DEF StatusInv
  <2>5. CASE ~Tearing BY <1>5, <2>1, <2>2, <2>3, <2>4, <2>5, Empty DEF ReapStep
  <2>6. CASE Tearing /\ collected'
    <3>1. Written("Reaped", teardown.settle, teardown.sent, teardown.forgot) /\ teardown'.view = teardown.view
      BY <1>5, <2>6, RecordsFate, Zenon DEF ReapStep
    <3> QED BY <2>1, <2>2, <2>3, <2>6, <3>1
  <2>7. CASE Tearing /\ ~collected'
    <3>1. Written(teardown.fate, teardown.settle, teardown.sent, TRUE) /\ teardown'.view = teardown.view
      BY <1>5, <2>7, RecordsForgot, Zenon DEF ReapStep
    <3> QED BY <2>1, <2>2, <2>3, <2>4, <2>7, <3>1
  <2> QED BY <2>5, <2>6, <2>7
<1>6. CASE Cancel
  <2>1. CASE at' = (IF Tearing THEN "exitwait" ELSE "idle") /\ UNCHANGED teardown
    <3>1. /\ UNCHANGED <<kid, doomed, num, reaper, shown, backend, collected, stolen, teardown>>
          /\ at \in {"await", "grace"} /\ at' \in {"exitwait", "idle"}
          /\ at' = "idle" => ~Tearing
          /\ at' = "exitwait" => Tearing
      BY <1>6, <2>1, Zenon DEF Cancel
    <3> QED BY <3>1, Empty
  <2>2. CASE Tearing /\ at' = "unwind" /\ Records([fate |-> "none"])
    BY <1>6, <2>2, RecordsFate, Zenon DEF Cancel
  <2> QED BY <1>6, <2>1, <2>2 DEF Cancel
<1> QED BY <1>1, <1>2, <1>3, <1>4, <1>5, <1>6, Zenon DEF Loop

(* The teardown, from its view to the release of the backend. *)
LEMMA TeardownStep ==
  ASSUME IInv, TearDown PROVE IInv'
<1>0. StatusInv /\ Known BY Statuses DEF IInv
<1> USE <1>0 DEF Known, IInv, ProcessInv, BackendInv, LookInv, TeardownInv, KillInv, FateInv, TornDownIsReaped,
            Unwound, HadStatus, HoldsUnreaped, IsReaped, AsIs, process, Holding, Looping, Calling, Tears, Written
<1>1. CASE ReadView
  <2>1. /\ at = "view" /\ at' \in {"kill", "second"}
        /\ UNCHANGED <<kid, doomed, num, reaper, backend, collected, stolen>>
    BY <1>1 DEF ReadView
  <2>2. PICK s \in States : Records([view |-> s]) /\ (s = "Reaped" => kid = "reaped")
    BY <1>1 DEF ReadView, Looks, States
  <2> QED BY <2>1, <2>2, RecordsView
<1>2. CASE SignalRoot
  <2>1. at = "kill" /\ UNCHANGED <<kid, num, reaper, backend, collected, stolen>> BY <1>2 DEF SignalRoot
  <2>2. CASE teardown.view = "Reaped"
    <3>1. /\ Records([fate |-> "Gone", settle |-> "Drain"]) /\ at' = "second"
          /\ UNCHANGED <<doomed, shown>>
      BY <1>2, <2>2 DEF SignalRoot
    <3> QED BY <2>1, <2>2, <3>1, RecordsSettle
  <2>3. ASSUME NEW sent \in Sents, Signal(sent), at' = IF sent = "Refused" THEN "refused" ELSE "second",
               CASE sent = "Gone" -> Records([fate |-> "Gone", settle |-> "Drain", sent |-> sent])
                 [] sent = "Delivered" ->
                      Records([fate |-> "Killed", settle |-> "ReapAndDrain", sent |-> sent])
                 [] OTHER -> Records([sent |-> sent])
        PROVE IInv'
    <3>1. CASE sent = "Gone"
      <4>1. Records([fate |-> "Gone", settle |-> "Drain", sent |-> "Gone"]) BY <2>3, <3>1
      <4>2. kid = "reaped" /\ UNCHANGED doomed /\ at' = "second" BY <2>1, <2>3, <3>1 DEF Signal
      <4> QED BY <2>1, <4>1, <4>2, RecordsKill
    <3>2. CASE sent = "Delivered"
      <4>1. Records([fate |-> "Killed", settle |-> "ReapAndDrain", sent |-> "Delivered"]) BY <2>3, <3>2
      <4>2. doomed' = (doomed \/ kid = "running") /\ at' = "second" BY <2>1, <2>3, <3>2 DEF Signal
      <4>3. /\ Written("Killed", "ReapAndDrain", "Delivered", teardown.forgot)
            /\ teardown'.view = teardown.view
        BY <4>1, RecordsKill, Zenon
      <4>4. /\ ~collected /\ backend # "ReapedElsewhere" /\ kid # "reaped"
            /\ reaper # "tokio" /\ ~teardown.own
        BY <2>1, <2>3, <3>2 DEF Signal
      <4>5. (kid # "running" \/ doomed)' BY <2>1, <4>2, Zenon
      <4> QED BY <2>1, <4>2, <4>3, <4>4, <4>5
    <3>3. CASE sent = "Refused"
      <4>1. Records([sent |-> "Refused"]) BY <2>3, <3>3
      <4>2. UNCHANGED doomed /\ at' = "refused" /\ backend = "Tokio" /\ ~collected
        BY <2>1, <2>3, <3>3 DEF Signal
      <4> QED BY <2>1, <4>1, <4>2, RecordsSent
    <3> QED BY <2>3, <3>1, <3>2, <3>3 DEF Sents
  <2> QED BY <1>2, <2>2, <2>3, Zenon DEF SignalRoot
<1>3. CASE KillRefused
  <2>1. PICK s \in States :
          /\ Looks(s)
          /\ IF s = "Unreaped" THEN Tears("dropgate") /\ UNCHANGED <<backend, teardown>>
             ELSE /\ Tears("second") /\ Forget(ForgottenOf(s))
                  /\ Records([fate |-> IF s = "Reaped" THEN "Gone" ELSE "Running", forgot |-> TRUE])
    BY <1>3, Zenon DEF KillRefused
  <2>2. at = "refused" /\ UNCHANGED <<kid, doomed, num, reaper, collected, stolen>> BY <1>3 DEF KillRefused
  <2>3. CASE s = "Unreaped" BY <2>1, <2>2, <2>3 DEF Looks
  <2>4. CASE s # "Unreaped"
    <3>1. PICK f : f = (IF s = "Reaped" THEN "Gone" ELSE "Running") /\ Records([fate |-> f, forgot |-> TRUE])
      BY <2>1, <2>4, Zenon
    <3>2. /\ at' = "second" /\ backend' \in {"Unproven", "ReapedElsewhere"}
          /\ backend' = "ReapedElsewhere" \/ f = "Gone" => reaper = "foreign"
          /\ f \in {"Gone", "Running"}
      BY <2>1, <2>2, <2>4, <3>1 DEF Looks, Forget, ForgottenOf, States
    <3>3. Written(f, teardown.settle, teardown.sent, TRUE) /\ teardown'.view = teardown.view
      BY <3>1, RecordsFateForgot, Zenon
    <3> QED BY <2>2, <3>2, <3>3
  <2> QED BY <2>3, <2>4
<1>4. CASE DropGate
  <2>1. PICK s \in States :
          /\ Looks(s) /\ Tears(IF s = "Unreaped" THEN "droptry" ELSE "second")
          /\ Records([fate |-> CASE s = "Reaped" -> "Gone" [] s = "Unknown" -> "Unknown"
                                 [] OTHER -> teardown.fate])
          /\ IF s = "Reaped" THEN Forget("ReapedElsewhere") ELSE UNCHANGED backend
    BY <1>4 DEF DropGate
  <2>2. at = "dropgate" /\ UNCHANGED <<kid, doomed, num, reaper, collected, stolen>> BY <1>4 DEF DropGate
  <2>3. PICK f : /\ f = CASE s = "Reaped" -> "Gone" [] s = "Unknown" -> "Unknown" [] OTHER -> teardown.fate
                 /\ Records([fate |-> f])
    BY <2>1
  <2>4. f = teardown.fate \/ f = "Unknown" \/ (f = "Gone" /\ kid = "reaped")
    BY <2>1, <2>3 DEF Looks
  <2>5. Records([fate |-> f]) BY <2>3
  <2>6. Written(f, teardown.settle, teardown.sent, teardown.forgot) /\ teardown'.view = teardown.view
    BY <2>5, RecordsFate, Zenon
  <2>7. /\ at' = IF s = "Unreaped" THEN "droptry" ELSE "second"
        /\ backend' = IF s = "Reaped" THEN "ReapedElsewhere" ELSE "Tokio"
        /\ (s = "Reaped" => kid = "reaped") /\ shown' = (s = "Unreaped")
    BY <2>1, <2>2 DEF Looks, Forget
  <2> QED BY <2>2, <2>4, <2>6, <2>7, ZenonT(30)
<1>5. CASE CollectExit
  <2>1. PICK f : f = FateOfALook /\ Records([fate |-> f]) BY <1>5 DEF CollectExit
  <2>2. (f = "Reaped" <=> ByNumber = "status") /\ (f = "Gone" => num = "free") /\ f \notin {"Killed", "none"}
    BY <2>1 DEF FateOfALook, ByNumber
  <2>3. /\ at \in {"droptry", "collect"} /\ at' = IF at = "collect" THEN "report" ELSE "second"
        /\ TryWait /\ UNCHANGED <<doomed, backend, shown>>
    BY <1>5 DEF CollectExit
  <2>4. Records([fate |-> f]) BY <2>1
  <2>5. Written(f, teardown.settle, teardown.sent, teardown.forgot) /\ teardown'.view = teardown.view
    BY <2>4, RecordsFate, Zenon
  <2>6. HoldsUnreaped /\ shown BY <2>3
  <2>7. /\ StatusInv' /\ (collected' => kid' = "reaped")
        /\ kid = "reaped" \/ ~collected' => UNCHANGED <<kid, reaper>>
        /\ collected' <=> ByNumber = "status"
        /\ reaper = "foreign" => reaper' = "foreign"
    BY <2>3, <2>6, Takes
  <2>8. at = "collect" /\ ByNumber # "status" => reaper = "foreign" BY <2>6 DEF ByNumber, StatusInv
  <2> QED BY <2>2, <2>3, <2>5, <2>6, <2>7, <2>8
<1>6. CASE SecondLook
  <2>1. at = "second" /\ at' = "settle" /\ UNCHANGED <<kid, doomed, num, reaper, collected, stolen>>
    BY <1>6 DEF SecondLook
  <2>2. CASE UNCHANGED <<backend, teardown>> /\ (HoldsUnreaped => shown') BY <2>1, <2>2
  <2>3. ASSUME NEW s \in States \ {"Unreaped"}, Forget(ForgottenOf(s)), s = "Reaped" => kid = "reaped", ~collected,
               Records([forgot |-> TRUE, fate |-> IF s = "Reaped" /\ teardown.fate # "Killed"
                                                  THEN "Gone" ELSE teardown.fate])
        PROVE IInv'
    <3>1. PICK f : /\ f = IF s = "Reaped" /\ teardown.fate # "Killed" THEN "Gone" ELSE teardown.fate
                   /\ Records([forgot |-> TRUE, fate |-> f])
      BY <2>3, Zenon
    <3>2. f = teardown.fate \/ (f = "Gone" /\ reaper = "foreign" /\ teardown.fate # "Killed") BY <2>3, <3>1
    <3>3. /\ backend' # "Tokio" /\ (backend' = backend \/ backend' \in {"Unproven", "ReapedElsewhere"})
          /\ backend' = "ReapedElsewhere" => reaper = "foreign"
      BY <2>3 DEF Forget, ForgottenOf, States
    <3>4. Records([fate |-> f, forgot |-> TRUE]) BY <3>1 DEF Records
    <3>5. Written(f, teardown.settle, teardown.sent, TRUE) /\ teardown'.view = teardown.view
      BY <3>4, RecordsFateForgot, Zenon
    <3> QED BY <2>1, <2>3, <3>2, <3>3, <3>5
  <2> QED BY <1>6, <2>2, <2>3, Zenon DEF SecondLook, Looks, States
<1>7. CASE Settle BY <1>7 DEF Settle
<1>8. CASE WaitForExit
  <2>1. CASE at' = "collect" BY <1>8, <2>1 DEF WaitForExit
  <2>2. CASE at' = "report" BY <1>8, <2>2, RecordsForgot, ZenonT(30) DEF WaitForExit, Forget
  <2> QED BY <1>8, <2>1, <2>2 DEF WaitForExit
<1>9. CASE Report
  <2>1. CASE Records([fate |-> ReportedFate]) /\ at' = "release"
    BY <1>9, <2>1, RecordsFate DEF Report, ReportedFate
  <2>2. CASE Records([fate |-> "none"]) /\ at' = "unwind" BY <1>9, <2>2, RecordsFate DEF Report
  <2> QED BY <1>9, <2>1, <2>2 DEF Report
<1>10. CASE Unwind BY <1>10, Zenon DEF Unwind, Looks, States, Forget, ForgottenOf
<1>11. CASE Release BY <1>11, Takes, ZenonT(30) DEF Release
<1>12. CASE LoggerPanics
  <2>1. /\ at \in {"kill", "second", "settle", "exitwait"} /\ at' = "unwind"
        /\ UNCHANGED <<kid, doomed, num, reaper, shown, backend, collected, stolen>>
        /\ Records([fate |-> "none"])
    BY <1>12 DEF LoggerPanics
  <2>2. Written("none", teardown.settle, teardown.sent, teardown.forgot) /\ teardown'.view = teardown.view
    BY <2>1, RecordsFate, Zenon
  <2> QED BY <2>1, <2>2
<1> QED BY <1>1, <1>2, <1>3, <1>4, <1>5, <1>6, <1>7, <1>8, <1>9, <1>10, <1>11, <1>12, Zenon DEF TearDown

-----------------------------------------------------------------------------
(* The invariant holds of a fresh child. *)
LEMMA InitInv == Init => IInv
BY DEF Init, SourceInit, IInv, StatusInv, ProcessInv, BackendInv, LookInv, TeardownInv, KillInv, FateInv,
       TornDownIsReaped, Unwound, HadStatus, HoldsUnreaped, IsReaped, NoTeardown, Holding, Looping, Calling

(* IInv is inductive. *)
LEMMA InductiveStep == IInv /\ [Next]_vars => IInv'
<1> SUFFICES ASSUME IInv, [Next]_vars PROVE IInv' OBVIOUS
<1>1. CASE Calls \/ Goes \/ Cancel BY <1>1, CallStep, LoopStep, TeardownStep DEF Goes
<1>2. CASE World \/ Reactor BY <1>2, WorldStep
<1>3. CASE OrphanQueue
  <2> USE DEF IInv, ProcessInv, BackendInv, LookInv, TeardownInv, KillInv, FateInv, TornDownIsReaped,
              Unwound, HadStatus, HoldsUnreaped, IsReaped, Holding, Looping, Calling
  <2>1. /\ backend = "Orphan" /\ backend' = "Released" /\ TryWait /\ ByNumber # "none"
        /\ UNCHANGED <<doomed, shown, at, teardown>> /\ ~collected /\ shown /\ at = "over"
    BY <1>3, Zenon DEF OrphanQueue
  <2>2. /\ StatusInv' /\ (collected' => kid' = "reaped")
        /\ kid = "reaped" \/ ~collected' => UNCHANGED <<kid, reaper>>
        /\ reaper = "foreign" => reaper' = "foreign"
        /\ collected' <=> ByNumber = "status"
    BY <2>1, Takes
  <2>3. kid' = "reaped" BY <2>1, <2>2, Statuses DEF ByNumber, Known
  <2> QED BY <2>1, <2>2, <2>3
<1>4. CASE UNCHANGED vars
  BY <1>4 DEF vars, sourceVars, process, IInv, StatusInv, ProcessInv, BackendInv, LookInv, TeardownInv, KillInv,
              FateInv, TornDownIsReaped, Unwound, HadStatus, HoldsUnreaped, IsReaped
<1> QED BY <1>1, <1>2, <1>3, <1>4 DEF Next

(* Every reachable state of an async child satisfies IInv. *)
THEOREM Invariance == Spec => []IInv
BY InitInv, InductiveStep, PTL DEF Spec

(* However many looks fail and whatever is cancelled, every reap by number   *)
(* follows a look that showed the child ours (ProcSource, Child::drop).      *)
THEOREM NoBlindReap == Spec => []NeverReapsBlindly
<1>1. IInv => NeverReapsBlindly BY DEF IInv, StatusInv, NeverReapsBlindly
<1> QED BY <1>1, Invariance, PTL

(* The fate a teardown reports is the child's, whoever reaped it, outside    *)
(* the gaps that DropFateIsTrue names (signal_for_teardown, reap_killed_root, *)
(* report).                                                                    *)
THEOREM DropFatesAreTrue == Spec => []DropFateIsTrue
<1>1. IInv => DropFateIsTrue
  BY Zenon DEF IInv, StatusInv, ProcessInv, BackendInv, FateInv, DropFateIsTrue, Unwound
<1> QED BY <1>1, Invariance, PTL

(* A child torn down is reaped, unless its kill was not delivered, its handle *)
(* failed, or a panic unwound the teardown (settle, wait_and_reap_caused,      *)
(* Reaping's and ProcSource's drop).                                           *)
THEOREM TornDownAreReaped == Spec => []TornDownIsReaped
<1>1. IInv => TornDownIsReaped BY DEF IInv
<1> QED BY <1>1, Invariance, PTL
=============================================================================
