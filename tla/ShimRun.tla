------------------------------- MODULE ShimRun -------------------------------
(***************************************************************************)
(* The shim's process and its child (elevation/shim/run.rs, run/*.rs and   *)
(* step.rs): the handshake up to the answer, the clone, the program's      *)
(* process up to exec, the supervision loop, and the one frame at the end. *)
(***************************************************************************)
EXTENDS ShimChannel

VARIABLES
  watch,       \* whose pidfd the shim holds as the owner's
  signaled,    \* shims with a signal in their wake pipe
  st,          \* LoopState
  ev,          \* Events of the round under way
  fin,         \* Finished
  note,        \* the status pipe: "none", "written", "taken"
  terminated,  \* children whose TERMINATED is set
  doomed,      \* children the kernel has sent their PDEATHSIG
  ran,         \* history: children that reached exec
  wrote,       \* history: children that reported why they did not
  orphaned     \* history: children the shim killed because cosca was gone

loop == <<st, ev, fin>>
program == <<child, note, terminated, doomed, ran, wrote>>
run == <<shim, watch, signaled, loop, program, orphaned>>

NoEvents == [status_ready |-> FALSE, child_exited |-> FALSE, owner_exited |-> FALSE, signaled |-> FALSE, exec |-> "Nothing", control |-> "Nothing"]

\* What a process's end does to its memory.
LoopStart == [armed |-> TRUE, conn_open |-> TRUE, owner_watched |-> TRUE, exec_pending |-> TRUE]
NotFinished == [report |-> FALSE, reaped |-> FALSE, lost |-> FALSE]
Forgets(s) ==
  /\ st' = [st EXCEPT ![s] = LoopStart] /\ ev' = [ev EXCEPT ![s] = NoEvents] /\ fin' = [fin EXCEPT ![s] = NotFinished]
  /\ note' = [note EXCEPT ![s] = "none"]
  /\ signaled' = signaled \ {s} /\ terminated' = terminated \ {s}

RunInit ==
  /\ shim = [s \in Shims |-> "idle"] /\ watch = [s \in Shims |-> "none"] /\ signaled = {}
  /\ st = [s \in Shims |-> LoopStart]
  /\ ev = [s \in Shims |-> NoEvents]
  /\ fin = [s \in Shims |-> NotFinished]
  /\ child = [s \in Shims |-> "none"] /\ note = [s \in Shims |-> "none"]
  /\ terminated = {} /\ doomed = {} /\ ran = {} /\ wrote = {} /\ orphaned = {}

-----------------------------------------------------------------------------
(* step.rs *)

\* One supervision step: at most one signal, and a kill wins; the owner's exit
\* counts after the control byte.  A and N are valid only as the first byte.
Decide(state, events) ==
  LET armed == state.armed /\ events.control # "D"
      owner == \/ events.control = "Eof" /\ state.armed
               \/ events.owner_exited /\ state.owner_watched /\ armed
  IN [state |-> [armed |-> armed,
                 conn_open |-> state.conn_open /\ events.control # "Eof",
                 owner_watched |-> state.owner_watched /\ ~events.owner_exited,
                 exec_pending |-> state.exec_pending /\ events.exec = "Nothing"],
      owner |-> owner,
      signal |-> IF owner \/ events.signaled \/ events.control \in {"K", "A", "N"} THEN "Kill"
                 ELSE IF events.control = "T" THEN "Term" ELSE "none"]

\* The bytes of a round in order, the last one with the round's events.
Round(state, controls, events) ==
  LET bytes == IF controls = <<>> THEN <<"Nothing">> ELSE controls
      after[i \in 0 .. Len(bytes)] ==
        IF i = 0 THEN [state |-> state, owner |-> FALSE, signals |-> {}]
        ELSE LET d == Decide(after[i - 1].state,
                             [(IF i = Len(bytes) THEN events ELSE NoEvents) EXCEPT !.control = bytes[i]])
             IN [state |-> d.state, owner |-> after[i - 1].owner \/ d.owner,
                 signals |-> after[i - 1].signals \cup {d.signal}]
  IN after[Len(bytes)]

\* Mutant: the reap's answer wins over the child's own report.
ConcludeReapFirst(f) ==
  IF f.reaped THEN (IF f.lost THEN "L" ELSE "S") ELSE IF f.report THEN "F" ELSE "U"

\* The precedence is F, U, L, S.
Conclude(f) ==
  IF f.report THEN "F" ELSE IF ~f.reaped THEN "U" ELSE IF f.lost THEN "L" ELSE "S"

-----------------------------------------------------------------------------
(* The handshake *)

Goto(s, pc) == shim' = [shim EXCEPT ![s] = pc]

\* Everything but the shim's place and its connection.
Still == UNCHANGED <<cosca, reused, copied, path, listening, signaled, loop, program, orphaned>>

Launched(s) ==
  /\ shim[s] = "idle" /\ Goto(s, "connect")
  /\ Still /\ UNCHANGED <<kept, end, down, up, watch>>

\* Mutant: the hello goes out before the owner is watched.
ConnectGreets(s) ==
  /\ shim[s] = "connect"
  /\ \/ /\ path /\ listening
        /\ end' = [end EXCEPT ![s] = "queued"] /\ up' = [up EXCEPT ![s] = Append(@, "H")]
        /\ Goto(s, "watch")
     \/ ~(path /\ listening) /\ Goto(s, "exited") /\ UNCHANGED <<end, up>>
  /\ Still /\ UNCHANGED <<kept, down, watch>>

\* connect and verify_listener; a refusal before hello writes nothing.
Connect(s) ==
  /\ shim[s] = "connect"
  /\ \/ /\ path /\ listening
        /\ end' = [end EXCEPT ![s] = "queued"] /\ UNCHANGED kept
        /\ Goto(s, "watch")
     \/ /\ path /\ ~listening /\ copied
        /\ end' = [end EXCEPT ![s] = "closed"] /\ kept' = kept \cup {s}
        /\ Goto(s, "watch")
     \/ /\ RunFaults \/ (path => ~listening /\ ~copied)
        /\ Goto(s, "exited") /\ UNCHANGED <<end, kept>>
  /\ Still /\ UNCHANGED <<down, up, watch>>

\* watch_owner: a pidfd on cosca's pid, whoever has it.
WatchOwner(s) ==
  /\ shim[s] = "watch"
  /\ \/ /\ watch' = [watch EXCEPT ![s] = IF reused THEN "stranger" ELSE "cosca"]
        /\ Goto(s, "hello")
     \/ /\ RunFaults \/ (cosca = "gone" /\ ~reused)
        /\ Goto(s, "exited") /\ UNCHANGED watch
  /\ Still /\ UNCHANGED <<kept, end, down, up>>

\* catch_signals and say_hello
SayHello(s) ==
  /\ shim[s] = "hello"
  /\ \/ up' = SentUp(s, "H") /\ Goto(s, IF CoscaHungUp(s) THEN "exited" ELSE "await")
     \/ RunFaults /\ Goto(s, "exited") /\ UNCHANGED up
  /\ Still /\ UNCHANGED <<kept, end, down, watch>>

OwnerFired(s) == watch[s] = "cosca" /\ cosca = "gone"

\* refuse_with and not_executed: the one frame, then the exit.
Gives(s, frame) == up' = SentUp(s, frame) /\ Goto(s, "leaving")

\* await_answer: cosca's exit and a signal come before the byte.
AwaitAnswer(s) ==
  /\ shim[s] = "await"
  /\ RunFaults \/ OwnerFired(s) \/ s \in signaled \/ (down[s] = <<>> /\ CoscaHungUp(s))
  /\ Gives(s, "R")
  /\ Still /\ UNCHANGED <<kept, end, down, watch>>

TakeAnswer(s) ==
  /\ shim[s] = "await" /\ ~OwnerFired(s) /\ s \notin signaled /\ down[s] # <<>>
  /\ down' = [down EXCEPT ![s] = Tail(@)]
  /\ IF Head(down[s]) = "A" THEN Goto(s, "recheck") /\ UNCHANGED up ELSE Gives(s, "R")
  /\ Still /\ UNCHANGED <<kept, end, watch>>

\* check_owner without a child.
RecheckOwner(s) ==
  /\ shim[s] = "recheck"
  /\ \/ (OwnerFired(s) \/ s \in signaled) /\ Gives(s, "R")
     \/ RunFaults /\ Gives(s, "F")
     \/ ~OwnerFired(s) /\ s \notin signaled /\ Goto(s, "start") /\ UNCHANGED up
  /\ Still /\ UNCHANGED <<kept, end, down, watch>>

\* The pipes, the resolution and the clone; the child is held before exec.
CloneChild(s) ==
  /\ shim[s] = "start"
  /\ \/ RunFaults /\ Gives(s, "F") /\ UNCHANGED child
     \/ child' = [child EXCEPT ![s] = "held"] /\ Goto(s, "held") /\ UNCHANGED up
  /\ UNCHANGED <<cosca, reused, copied, kept, path, listening, end, down, watch, signaled, loop, note, terminated, doomed, ran, wrote, orphaned>>

\* check_owner with the child held: abandon kills and reaps it before the frame.
CheckHeld(s) ==
  /\ shim[s] = "held"
  /\ \/ /\ \/ (OwnerFired(s) \/ s \in signaled) /\ Gives(s, "R")
           \/ RunFaults /\ Gives(s, "F")
        /\ child' = [child EXCEPT ![s] = "gone"]
     \/ /\ ~OwnerFired(s) /\ s \notin signaled
        /\ Goto(s, "poll") /\ UNCHANGED <<up, child>>
  /\ UNCHANGED <<cosca, reused, copied, kept, path, listening, end, down, watch, signaled, loop, note, terminated, doomed, ran, wrote, orphaned>>

-----------------------------------------------------------------------------
(* The program's process *)

\* The process ends; without its shim nobody keeps the zombie.
Ends(s) == child' = [child EXCEPT ![s] = IF Ended(s) THEN "gone" ELSE "zombie"]

ChildAt(s, from) == child[s] = from /\ UNCHANGED <<channel, shim, watch, signaled, loop, orphaned>>

ChildTo(s, to) == child' = [child EXCEPT ![s] = to] /\ UNCHANGED <<note, terminated, doomed, ran, wrote>>

\* The report, in one write; then _exit.
Reports(s) ==
  /\ child' = [child EXCEPT ![s] = "failing"] /\ note' = [note EXCEPT ![s] = "written"]
  /\ wrote' = wrote \cup {s}
  /\ UNCHANGED <<terminated, doomed, ran>>

\* The release pipe closes: the shim let the child go, or died.
Released(s) == shim[s] \in {"poll", "read", "serve", "reap", "conclude", "leaving"} \/ Ended(s)

ChildReleased(s) == ChildAt(s, "held") /\ Released(s) /\ ChildTo(s, "arming")

SetupFails(s) == RunFaults /\ (\E at \in {"held", "arming", "looking"} : ChildAt(s, at)) /\ Reports(s)

\* PR_SET_PDEATHSIG, then the look at the parent.
ChildArms(s) == ChildAt(s, "arming") /\ ChildTo(s, "asking")

\* Mutant: the parent is not looked at again once the signal is armed.
ChildAsksNot(s) == ChildAt(s, "asking") /\ ChildTo(s, "looking")

ChildAsks(s) ==
  /\ ChildAt(s, "asking")
  /\ \/ Ended(s) /\ Ends(s) /\ UNCHANGED <<note, terminated, doomed, ran, wrote>>
     \/ ~Ended(s) /\ ChildTo(s, "looking")

\* A termination recorded before exec is reported, never swallowed.
ChildLooks(s) ==
  /\ ChildAt(s, "looking")
  /\ IF s \in terminated THEN Reports(s) ELSE ChildTo(s, "execing")

ChildExecs(s) ==
  /\ ChildAt(s, "execing")
  /\ \/ child' = [child EXCEPT ![s] = "running"] /\ ran' = ran \cup {s} /\ UNCHANGED <<note, terminated, doomed, wrote>>
     \/ Reports(s)

ChildFails(s) == ChildAt(s, "failing") /\ Ends(s) /\ UNCHANGED <<note, terminated, doomed, ran, wrote>>

ProgramExits(s) == ChildAt(s, "running") /\ Ends(s) /\ UNCHANGED <<note, terminated, doomed, ran, wrote>>

\* SIGTERM: recorded while the handler is there; the program may handle it.
Termed(s) ==
  CASE child[s] \in {"held", "arming", "asking", "looking", "failing"} ->
         terminated' = terminated \cup {s} /\ UNCHANGED child
    [] child[s] = "execing" -> Ends(s) /\ UNCHANGED terminated
    [] child[s] = "running" -> (Ends(s) \/ UNCHANGED child) /\ UNCHANGED terminated
    [] OTHER -> UNCHANGED <<child, terminated>>

\* SIGKILL
Killed(s) ==
  /\ child' = [child EXCEPT ![s] = IF @ \in Alive THEN "zombie" ELSE @]
  /\ UNCHANGED terminated

ChildTermed(s) ==
  /\ Signals /\ child[s] \in Alive /\ Termed(s)
  /\ UNCHANGED <<channel, shim, watch, signaled, loop, note, doomed, ran, wrote, orphaned>>

ForeignReap(s) == Reapers /\ ~Ended(s) /\ ChildAt(s, "zombie") /\ ChildTo(s, "gone")

-----------------------------------------------------------------------------
(* The supervision loop *)

StatusReadable(s) == note[s] = "written" \/ child[s] \notin BeforeExec

ControlReadable(s) == down[s] # <<>> \/ CoscaHungUp(s)

AtRound(s, pc) == shim[s] = pc /\ UNCHANGED <<cosca, reused, copied, kept, path, listening, end, watch, terminated, doomed, ran, wrote>>

\* The round's one poll: a snapshot.
LoopPolls(s) ==
  /\ AtRound(s, "poll")
  /\ ev' = [ev EXCEPT ![s] = [NoEvents EXCEPT !.child_exited = child[s] \in {"zombie", "gone"},
                                            !.owner_exited = st[s].owner_watched /\ OwnerFired(s),
                                            !.status_ready = st[s].exec_pending /\ StatusReadable(s)]]
  /\ \/ s \in signaled \/ ev'[s].child_exited \/ ev'[s].owner_exited \/ ev'[s].status_ready
     \/ st[s].conn_open /\ ControlReadable(s)
  /\ Goto(s, "read")
  /\ UNCHANGED <<down, up, signaled, st, fin, child, note, orphaned>>

\* The poll fails: kill, reap, conclude.  Another thread may reap first.
LoopFails(s) ==
  /\ RunFaults /\ AtRound(s, "poll")
  /\ child' = [child EXCEPT ![s] = "gone"]
  /\ \E first \in {FALSE, Reapers} :
       fin' = [fin EXCEPT ![s].lost = TRUE, ![s].reaped = child[s] # "gone" /\ ~first]
  /\ Goto(s, "conclude")
  /\ UNCHANGED <<down, up, signaled, st, ev, note, orphaned>>

\* drain_status
TakesStatus(s) ==
  /\ note' = [note EXCEPT ![s] = IF @ = "written" THEN "taken" ELSE @]
  /\ fin' = [fin EXCEPT ![s].report = @ \/ note[s] = "written"]

\* drain_wake and drain_status.
LoopReads(s) ==
  /\ AtRound(s, "read")
  /\ signaled' = signaled \ {s}
  /\ IF ev[s].status_ready \/ (ev[s].child_exited /\ st[s].exec_pending)
       THEN /\ TakesStatus(s)
            /\ ev' = [ev EXCEPT ![s].signaled = s \in signaled,
                                ![s].exec = IF note[s] = "written" THEN "Report"
                                            ELSE IF child[s] \notin BeforeExec THEN "Eof" ELSE "Nothing"]
       ELSE ev' = [ev EXCEPT ![s].signaled = s \in signaled] /\ UNCHANGED <<note, fin>>
  /\ Goto(s, "serve")
  /\ UNCHANGED <<down, up, st, child, orphaned>>

\* Mutant: the owner's exit is served before the bytes that preceded it.
DrainControlLate(s) ==
  IF st[s].conn_open /\ ~ev[s].owner_exited THEN down[s] \o (IF CoscaHungUp(s) THEN <<"Eof">> ELSE <<>>) ELSE <<>>

\* drain_control: the bytes, then Eof if the connection ended.
DrainControl(s) ==
  IF st[s].conn_open THEN down[s] \o (IF CoscaHungUp(s) THEN <<"Eof">> ELSE <<>>) ELSE <<>>

\* Every byte in order, each signal through the child's pidfd.
LoopServes(s) ==
  LET round == Round(st[s], DrainControl(s), ev[s]) IN
  /\ shim[s] = "serve"
  /\ st' = [st EXCEPT ![s] = round.state]
  /\ down' = IF st[s].conn_open THEN [down EXCEPT ![s] = <<>>] ELSE down
  /\ IF "Kill" \in round.signals THEN Killed(s)
     ELSE IF "Term" \in round.signals THEN Termed(s) ELSE UNCHANGED <<child, terminated>>
  /\ orphaned' = IF round.owner THEN orphaned \cup {s} ELSE orphaned
  /\ Goto(s, IF ev[s].child_exited THEN "reap" ELSE "poll")
  /\ ev' = [ev EXCEPT ![s] = NoEvents]
  /\ UNCHANGED <<cosca, reused, copied, kept, path, listening, end, up, watch, signaled, fin, note, doomed, ran, wrote>>

\* Spawned::reap; None when someone else collected the status.
LoopReaps(s) ==
  /\ AtRound(s, "reap")
  /\ fin' = [fin EXCEPT ![s].reaped = child[s] = "zombie"]
  /\ child' = [child EXCEPT ![s] = "gone"]
  /\ Goto(s, "conclude")
  /\ UNCHANGED <<down, up, signaled, st, ev, note, orphaned>>

\* The status pipe once more, and the one frame while cosca's end is open.
Concludes(s) ==
  /\ AtRound(s, "conclude")
  /\ TakesStatus(s)
  /\ up' = IF st[s].conn_open THEN SentUp(s, Conclude(fin'[s])) ELSE up
  /\ Goto(s, "leaving")
  /\ UNCHANGED <<down, signaled, st, ev, child, orphaned>>

Leaves(s) ==
  /\ shim[s] = "leaving" /\ Goto(s, "exited") /\ Forgets(s)
  /\ UNCHANGED <<channel, watch, child, doomed, ran, wrote, orphaned>>

-----------------------------------------------------------------------------
(* What happens to a shim *)

\* A signal, caught from before hello on.
SignalReaches(s) ==
  /\ Signals /\ s \notin signaled /\ ~Ended(s) /\ shim[s] \notin {"idle", "connect", "watch", "leaving"}
  /\ signaled' = signaled \cup {s}
  /\ UNCHANGED <<channel, shim, watch, loop, program, orphaned>>

\* SIGKILL: the kernel sends PDEATHSIG to the child that has armed it ...
ShimCrashes(s) ==
  /\ s \in Crashes /\ shim[s] # "idle" /\ ~Ended(s)
  /\ Goto(s, "crashed")
  /\ IF child[s] \in {"asking", "looking", "execing", "running"}
       THEN doomed' = doomed \cup {s} /\ UNCHANGED child
       ELSE child' = [child EXCEPT ![s] = IF @ = "zombie" THEN "gone" ELSE @] /\ UNCHANGED doomed
  /\ UNCHANGED <<channel, watch, signaled, loop, note, terminated, ran, wrote, orphaned>>

\* ... which dies of it some time later.
DoomedDies(s) ==
  /\ s \in doomed /\ child[s] \in Alive
  /\ child' = [child EXCEPT ![s] = "gone"]
  /\ UNCHANGED <<channel, shim, watch, signaled, loop, note, terminated, doomed, ran, wrote, orphaned>>

ShimStep(s) ==
  \/ Connect(s) \/ WatchOwner(s) \/ SayHello(s) \/ AwaitAnswer(s) \/ TakeAnswer(s) \/ RecheckOwner(s)
  \/ CloneChild(s) \/ CheckHeld(s) \/ LoopPolls(s) \/ LoopReads(s) \/ LoopServes(s) \/ LoopReaps(s)
  \/ Concludes(s) \/ Leaves(s)

ChildStep(s) ==
  \/ ChildReleased(s) \/ ChildArms(s) \/ ChildAsks(s) \/ ChildLooks(s) \/ ChildExecs(s) \/ ChildFails(s) \/ DoomedDies(s)

RunNext ==
  \E s \in scene.shims :
    \/ Launched(s) \/ ShimStep(s) \/ ChildStep(s)
    \/ LoopFails(s) \/ SetupFails(s) \/ ProgramExits(s) \/ ChildTermed(s) \/ ForeignReap(s)
    \/ SignalReaches(s) \/ ShimCrashes(s)
=============================================================================
