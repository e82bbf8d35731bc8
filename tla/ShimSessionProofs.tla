------------------------- MODULE ShimSessionProofs --------------------------
(***************************************************************************)
(* For any number of shims and of callers' threads, and any scenes: the    *)
(* inductive invariant of the shim sessions; that cosca's end of the       *)
(* channel and cosca's own process keep it, and the shims' loops and the   *)
(* programs' processes. So at most one program starts (OneStart), it is    *)
(* watched for the right process (OwnerWatchIsCosca), what the link says   *)
(* of it is true (OutcomeIsTrue), and a disarm that was sent holds         *)
(* (DisarmHolds).                                                          *)
(***************************************************************************)
EXTENDS ShimSession, TLAPS

(* The bytes x and the frames x of a connection's queue. *)
Has(q, x) == \E i \in DOMAIN q : q[i] = x

(* A shim before watch_owner; between its hello and its exit; between the    *)
(* answer A and its last frame.                                              *)
Before == {"idle", "connect", "watch"}
Told == {"recheck", "start", "held", "poll", "read", "serve", "reap", "conclude"}
Greeted == {"await", "leaving", "recheck", "start", "held", "poll", "read", "serve", "reap", "conclude"}
Places == {"idle", "connect", "watch", "hello", "await", "recheck", "start", "held", "poll", "read", "serve",
           "reap", "conclude", "leaving", "exited", "crashed"}
Stages == {"none", "held", "arming", "asking", "looking", "execing", "failing", "running", "zombie", "gone"}

Notes == {"none", "written", "taken"}
Finishes == [report : BOOLEAN, reaped : BOOLEAN, lost : BOOLEAN]

(* The link's one start is this shim's. *)
Allowed(s) == start = "Live" /\ live = s

(* The shim's program has ended, or there will be none. *)
Final(s) ==
  /\ child[s] \notin Alive
  /\ child[s] = "none" => shim[s] \in {"leaving", "exited", "crashed"}

LinkShape ==
  /\ scene \in Scenes
  /\ start \in {"Pending", "Live", "Refused"}
  /\ IF start = "Live" THEN live \in Shims ELSE live = Nobody

RunShape ==
  /\ shim \in [Shims -> Places]
  /\ child \in [Shims -> Stages]
  /\ watch \in [Shims -> {"none", "cosca", "stranger"}]
  /\ note \in [Shims -> Notes]
  /\ fin \in [Shims -> Finishes]
  /\ ran \subseteq Shims /\ wrote \subseteq Shims

QueueShape == down \in [Shims -> Seq(Commands)] /\ up \in [Shims -> Seq(Frames)]

(* The types of what the invariant speaks of. *)
Shape == LinkShape /\ RunShape /\ QueueShape

(* An answer A, and all that follows from it, belongs to the one start. *)
AnswerInv ==
  \A s \in Shims :
    Has(down[s], "A") \/ shim[s] \in Told \/ child[s] # "none" \/ s \in ran => Allowed(s)

(* The answer comes after the hello, the hello after the pidfd, and a pidfd  *)
(* opened on a stranger only once cosca is gone.                             *)
OwnerInv ==
  /\ reused => cosca = "gone"
  /\ \A s \in Shims :
       /\ watch[s] = "stranger" => cosca = "gone"
       /\ shim[s] \in Before => watch[s] = "none"
       /\ shim[s] \in Greeted \cup {"hello"} \/ up[s] # <<>> => watch[s] # "none"
       /\ Allowed(s) => watch[s] = "cosca"

(* A shim and its program's process are in step, and a report that was       *)
(* written is not lost before the last frame.                                *)
InStep(s) ==
  /\ shim[s] \in Before \cup {"hello", "await", "recheck", "start"} => child[s] = "none"
  /\ shim[s] = "held" => child[s] \in {"held", "failing", "zombie", "gone"} /\ s \notin ran
  /\ shim[s] \in {"poll", "read", "serve", "reap"} => child[s] # "none"
  /\ shim[s] = "conclude" => child[s] = "gone"
  /\ s \in ran => child[s] \in {"running", "zombie", "gone"} /\ s \notin wrote
  /\ s \in wrote => child[s] \in {"failing", "zombie", "gone"}
  /\ note[s] = "written" \/ fin[s].report => s \in wrote
  /\ s \in wrote /\ ~Ended(s) => note[s] = "written" \/ fin[s].report

ProgramInv == \A s \in Shims : InStep(s)

(* A frame on its way tells the truth. *)
FrameInv ==
  \A s \in Shims :
    /\ Has(up[s], "S") \/ Has(up[s], "L") \/ Has(up[s], "U") => Final(s) /\ s \notin wrote
    /\ Has(up[s], "F") \/ Has(up[s], "R") => Final(s) /\ s \notin ran

(* So does what was made of it. *)
OutcomeInv ==
  /\ outcome \in {"Exited", "SupervisionLost", "StatusLost"} => start = "Live" /\ Final(live) /\ live \notin wrote
  /\ outcome \in {"NotExecuted", "ShimRefused"} => start = "Live" /\ Final(live) /\ live \notin ran
  /\ outcome \in {"Withheld", "AcceptorFailed"} => start = "Refused"
  /\ "AlreadyEnded" \in told => start = "Live" /\ Final(live)
  /\ "RefusedStart" \in told => start = "Refused"

IInv == Shape /\ AnswerInv /\ OwnerInv /\ ProgramInv /\ FrameInv /\ OutcomeInv

-----------------------------------------------------------------------------
(* What appending to a queue, taking its head and emptying it do to Has. *)
LEMMA AppendHas ==
  ASSUME NEW S, NEW q \in Seq(S), NEW x \in S, NEW y, Has(Append(q, x), y)
  PROVE  x = y \/ Has(q, y)
BY DEF Has

(* What is left of a queue was in it. *)
LEMMA TailHas ==
  ASSUME NEW S, NEW q \in Seq(S), q # <<>>, NEW y, Has(Tail(q), y)
  PROVE  Has(q, y)
BY DEF Has

(* The head of a queue is in it. *)
LEMMA HeadHas ==
  ASSUME NEW S, NEW q \in Seq(S), q # <<>>
  PROVE  Has(q, Head(q)) /\ Head(q) \in S
BY DEF Has

(* An empty queue holds nothing. *)
LEMMA EmptyHas == ASSUME NEW y PROVE ~Has(<<>>, y)
BY DEF Has

(* A byte or frame sent on one connection leaves queues. *)
LEMMA PutType ==
  ASSUME NEW S, NEW q \in [Shims -> Seq(S)], NEW s \in Shims, NEW x \in S, NEW new, new = [q EXCEPT ![s] = Append(@, x)]
  PROVE  new \in [Shims -> Seq(S)]
<1>1. Append(q[s], x) \in Seq(S) OBVIOUS
<1> QED BY <1>1

(* So does a byte taken off one (await_answer), which brings no answer A. *)
LEMMA ByteTaken ==
  ASSUME QueueShape, NEW s \in Shims, down[s] # <<>>, down' = [down EXCEPT ![s] = Tail(@)]
  PROVE  down' \in [Shims -> Seq(Commands)] /\ \A r \in Shims : Has(down'[r], "A") => Has(down[r], "A")
<1>1. down[s] \in Seq(Commands) BY DEF QueueShape
<1>2. Tail(down[s]) \in Seq(Commands) BY <1>1
<1>3. Has(Tail(down[s]), "A") => Has(down[s], "A") BY <1>1, TailHas
<1> QED BY <1>2, <1>3 DEF QueueShape

(* The initial states satisfy the invariant. *)
LEMMA InitInv == Init => IInv
<1> SUFFICES ASSUME Init PROVE IInv OBVIOUS
<1> USE ChannelAssumption DEF Init, ChannelInit, LinkInit, RunInit, NotFinished
<1>1. Shape BY DEF Shape, LinkShape, RunShape, QueueShape, Places, Stages, Notes, Finishes
<1>2. AnswerInv /\ FrameInv BY EmptyHas DEF AnswerInv, FrameInv, Told
<1>3. OwnerInv BY DEF OwnerInv, Before, Greeted, Told, Allowed
<1>4. ProgramInv BY DEF ProgramInv, InStep, Ended
<1>5. OutcomeInv BY DEF OutcomeInv
<1> QED BY <1>1, <1>2, <1>3, <1>4, <1>5 DEF IInv

-----------------------------------------------------------------------------
(* cosca's end *)

(* A step of cosca's that touches neither queue, and the start at most by    *)
(* refusing a pending one: nothing the invariant speaks of goes wrong.       *)
LEMMA QuietStep ==
  ASSUME IInv, UNCHANGED <<run, scene, cosca, reused, down, up, live, outcome, told>>,
         start' = start \/ (start = "Pending" /\ start' = "Refused")
  PROVE  IInv'
<1> USE DEF IInv, run, program, loop, Allowed, Final
<1>1. Shape' BY DEF Shape, LinkShape, RunShape, QueueShape
<1>2. AnswerInv' /\ FrameInv' BY DEF AnswerInv, FrameInv, Has
<1>3. OwnerInv' BY DEF OwnerInv
<1>4. ProgramInv' BY DEF ProgramInv, InStep, Ended
<1>5. OutcomeInv' BY DEF OutcomeInv
<1> QED BY <1>1, <1>2, <1>3, <1>4, <1>5

(* A step of cosca's that sends the shims bytes other than A. *)
LEMMA SendStep ==
  ASSUME IInv, UNCHANGED <<run, scene, cosca, reused, up, start, live, outcome>>,
         "AlreadyEnded" \in told' => "AlreadyEnded" \in told, "RefusedStart" \in told' => "RefusedStart" \in told,
         down' \in [Shims -> Seq(Commands)],
         \A s \in Shims : \/ down'[s] = down[s]
                          \/ \E b \in Commands \ {"A"} : down'[s] = Append(down[s], b)
  PROVE  IInv'
<1> USE DEF IInv, run, program, loop, Allowed, Final
<1>1. Shape' BY Zenon DEF Shape, LinkShape, RunShape, QueueShape
<1>2. AnswerInv'
  <2>1. ASSUME NEW s \in Shims, Has(down'[s], "A") PROVE Has(down[s], "A")
    <3>1. down[s] \in Seq(Commands) BY DEF Shape, QueueShape
    <3>2. CASE \E b \in Commands \ {"A"} : down'[s] = Append(down[s], b)
      <4> PICK b \in Commands \ {"A"} : down'[s] = Append(down[s], b) BY <3>2, Zenon
      <4> QED BY <2>1, <3>1, AppendHas, Zenon
    <3> QED BY <2>1, <3>2
  <2> QED BY <2>1 DEF AnswerInv
<1>3. FrameInv' /\ OwnerInv' BY Zenon DEF FrameInv, OwnerInv, Has
<1>4. ProgramInv' BY Zenon DEF ProgramInv, InStep, Ended
<1>5. OutcomeInv' BY DEF OutcomeInv
<1> QED BY <1>1, <1>2, <1>3, <1>4, <1>5, Zenon

(* The acceptor's steps. *)
LEMMA AcceptorStep == ASSUME IInv, Acceptor \/ AcceptorFails \/ StrayWake, UNCHANGED <<run, scene>> PROVE IInv'
<1> USE DEF channel, state, callers, accepts
<1>1. CASE AcceptorPolls \/ AcceptorLooks \/ StrayWake
  BY <1>1, QuietStep, Zenon DEF AcceptorPolls, AcceptorLooks, StrayWake
<1>2. CASE AcceptorFails BY <1>2, QuietStep, Zenon DEF AcceptorFails, FailClosed
<1>3. CASE AcceptorStops
  <2>1. PICK drained :
          down' = [s \in Shims |-> IF s \in drained /\ ~ShimHungUp(s) THEN Append(down[s], "N") ELSE down[s]]
    BY <1>3, Zenon DEF AcceptorStops
  <2>2. down' \in [Shims -> Seq(Commands)] BY <2>1 DEF IInv, Shape, QueueShape, Commands
  <2>3. \A s \in Shims : down'[s] = down[s] \/ \E b \in Commands \ {"A"} : down'[s] = Append(down[s], b)
    BY <2>1 DEF IInv, Shape, QueueShape, Commands
  <2> QED BY <1>3, <2>2, <2>3, SendStep DEF AcceptorStops
<1>4. CASE \E s \in Shims : ClosedBeforeHello(s) BY <1>4, QuietStep, Zenon DEF ClosedBeforeHello, Greeting
<1>5. CASE \E s \in Shims : AnswerHello(s)
  <2> PICK s \in Shims : AnswerHello(s) BY <1>5
  <2> USE DEF IInv, AnswerHello, Greeting, RefusePending
  <2>1. cosca = "up" /\ up[s] # <<>> /\ up' = [up EXCEPT ![s] = Tail(@)] BY Zenon DEF Serving
  <2>2. up' \in [Shims -> Seq(Frames)] /\ \A r \in Shims, f \in Frames : Has(up'[r], f) => Has(up[r], f)
    BY <2>1, TailHas DEF Shape, QueueShape
  <2>3. \A r \in Shims : up'[r] # <<>> => up[r] # <<>> BY <2>1, Zenon DEF Shape, QueueShape
  <2>4. watch[s] = "cosca" BY <2>1 DEF OwnerInv, Shape, RunShape
  <2>5. \A r \in Shims : Allowed(r) => Allowed(r)' BY DEF Allowed
  <2>6. \A r \in Shims : Allowed(r)' => Allowed(r) \/ r = s BY Zenon DEF Allowed, Shape, LinkShape
  <2>7. down' \in [Shims -> Seq(Commands)] /\ \A r \in Shims : Has(down'[r], "A") => Has(down[r], "A") \/ Allowed(r)'
    <3>1. down \in [Shims -> Seq(Commands)] /\ down[s] \in Seq(Commands) BY Zenon DEF Shape, QueueShape
    <3>2. CASE down' = [down EXCEPT ![s] = Append(@, "A")] /\ start' = "Live" /\ live' = s
      BY <3>1, <3>2, PutType DEF Commands, Allowed
    <3>3. CASE down' = [down EXCEPT ![s] = Append(@, "N")]
      <4>1. "N" \in Commands /\ down'[s] = Append(down[s], "N") BY <3>1, <3>3, Zenon DEF Commands
      <4>2. Has(down'[s], "A") => Has(down[s], "A") BY <3>1, <4>1, AppendHas, Zenon
      <4> QED BY <3>1, <3>3, <4>1, <4>2, PutType, Zenon
    <3>4. CASE down' = down BY <3>1, <3>4, Zenon
    <3> QED BY <3>2, <3>3, <3>4, Zenon
  <2>8. Shape' BY <2>2, <2>7, Zenon DEF Shape, LinkShape, RunShape, QueueShape, run, program, loop
  <2>9. AnswerInv' BY <2>5, <2>7, Zenon DEF AnswerInv, run, program
  <2>10. OwnerInv' BY <2>1, <2>3, <2>4, <2>6, Zenon DEF OwnerInv, run
  <2>11. ProgramInv' BY Zenon DEF ProgramInv, InStep, Ended, run, program, loop
  <2>12. FrameInv' BY <2>2, Zenon DEF FrameInv, Final, run, program, Frames
  <2>13. OutcomeInv' BY DEF OutcomeInv, Final, run, program
  <2> QED BY <2>8, <2>9, <2>10, <2>11, <2>12, <2>13, Zenon
<1> QED BY <1>1, <1>2, <1>3, <1>4, <1>5, Zenon DEF Acceptor

(* read_frame, by whichever call: the outcome is as true as the frame. *)
LEMMA ReadStep ==
  ASSUME IInv, start = "Live", ReadFrame, UNCHANGED <<run, scene, cosca, reused, down, start, live>>,
         "AlreadyEnded" \in told' => "AlreadyEnded" \in told \/ ProgramIsGone(outcome'),
         "RefusedStart" \in told' => "RefusedStart" \in told
  PROVE  IInv'
<1> USE DEF IInv
<1>1. up' \in [Shims -> Seq(Frames)] /\ \A r \in Shims, f \in Frames : Has(up'[r], f) => Has(up[r], f)
  <2>1. CASE up' = up BY <2>1 DEF Shape, QueueShape
  <2>2. CASE up[live] # <<>> /\ up' = [up EXCEPT ![live] = Tail(@)]
    BY <2>2, TailHas DEF Shape, LinkShape, QueueShape
  <2> QED BY <2>1, <2>2 DEF ReadFrame
<1>2. \A r \in Shims : up'[r] # <<>> => up[r] # <<>> BY Zenon DEF Shape, QueueShape, ReadFrame
<1>3. Shape' BY <1>1, Zenon DEF Shape, LinkShape, RunShape, QueueShape, run, program, loop
<1>4. AnswerInv' /\ OwnerInv' BY <1>2, Zenon DEF AnswerInv, OwnerInv, Allowed, run, program
<1>5. ProgramInv' BY Zenon DEF ProgramInv, InStep, Ended, run, program, loop
<1>6. FrameInv' BY <1>1, Zenon DEF FrameInv, Final, run, program, Frames
<1>7. OutcomeInv'
  <2>1. CASE outcome' \in {"ShimLost", "none"}
    BY <2>1, Zenon DEF OutcomeInv, Final, run, program, ProgramIsGone, NotStarted
  <2>2. CASE up[live] # <<>> /\ outcome' = Classify(Head(up[live]))
    <3>1. live \in Shims /\ Has(up[live], Head(up[live])) /\ Head(up[live]) \in Frames
      BY <2>2, HeadHas DEF Shape, LinkShape, QueueShape
    <3> QED BY <2>2, <3>1 DEF Classify, Frames, FrameInv, OutcomeInv, Final, run, program, ProgramIsGone, NotStarted
  <2> QED BY <2>1, <2>2, Zenon DEF ReadFrame, SetOutcome
<1> QED BY <1>3, <1>4, <1>5, <1>6, <1>7, Zenon

(* settle of a start that is not live: the program will never run. *)
LEMMA WithholdStep ==
  ASSUME IInv, start # "Live", RefusePending, UNCHANGED <<run, scene, cosca, reused, down, up, live>>,
         outcome' = outcome \/ outcome' \in {"Withheld", "AcceptorFailed"},
         "AlreadyEnded" \in told' => "AlreadyEnded" \in told
  PROVE  IInv'
<1> USE DEF IInv, run, program, loop, Allowed, Final, RefusePending
<1>1. Shape' BY Zenon DEF Shape, LinkShape, RunShape, QueueShape
<1>2. AnswerInv' /\ FrameInv' BY Zenon DEF AnswerInv, FrameInv, Has
<1>3. OwnerInv' BY Zenon DEF OwnerInv
<1>4. ProgramInv' BY Zenon DEF ProgramInv, InStep, Ended
<1>5. OutcomeInv' BY Zenon DEF OutcomeInv, Shape, LinkShape
<1> QED BY <1>1, <1>2, <1>3, <1>4, <1>5, Zenon

(* The steps of the caller's threads, and of the teardown. *)
LEMMA CallerStep ==
  ASSUME IInv, UNCHANGED <<run, scene>>,
         (\E t \in scene.threads : Caller(t) \/ Waiter(t)) \/ DropRefuses \/ Teardown
  PROVE  IInv'
<1> USE DEF channel, state, callers, accepts
<1>1. CASE DropRefuses \/ Teardown
  BY <1>1, QuietStep, Zenon DEF DropRefuses, RefusePending, Teardown, DropFlags, DropWakes, DropJoins
<1>2. CASE \E t \in scene.threads : WaitBegins(t) \/ WaitWakes(t) \/ WaitFails(t)
  BY <1>2, QuietStep, Zenon DEF WaitBegins, WaitWakes, WaitFails
<1>3. CASE \E t \in scene.threads : WaitSettles(t) \/ TryWait(t)
  <2>1. Settle /\ UNCHANGED <<cosca, reused, down, live, told>> BY <1>3, SMTT(20) DEF WaitSettles, TryWait
  <2>2. CASE outcome # "none" /\ UNCHANGED <<start, path, outcome, settled, up>> BY <2>1, <2>2, QuietStep, Zenon
  <2>3. CASE /\ start # "Live" /\ RefusePending /\ UNCHANGED up
             /\ SetOutcome(IF failure THEN "AcceptorFailed" ELSE "Withheld")
    BY <2>1, <2>3, WithholdStep, Zenon DEF SetOutcome
  <2>4. CASE start = "Live" /\ ReadFrame /\ UNCHANGED <<start, path>> BY <2>1, <2>4, ReadStep, Zenon
  <2> QED BY <2>1, <2>2, <2>3, <2>4, Zenon DEF Settle
<1>4. CASE \E t \in scene.threads : Observe(t) BY <1>4, ReadStep, QuietStep, Zenon DEF Observe
<1>5. CASE \E t \in scene.threads : Kill(t)
  <2>1. UNCHANGED <<cosca, reused, live>> BY <1>5 DEF Kill
  <2>2. CASE KillRefusesStart BY <2>1, <2>2, WithholdStep, Zenon DEF KillRefusesStart
  <2>3. CASE KillAfterOutcome
    <3> USE DEF IInv, run, program, loop, Final
    <3>1. UNCHANGED <<start, outcome, down, up>> /\ start = "Live" BY <2>3, Zenon DEF KillAfterOutcome
    <3>2. Shape' /\ AnswerInv' /\ OwnerInv'
      BY <2>1, <3>1, Zenon DEF Shape, LinkShape, RunShape, QueueShape, AnswerInv, OwnerInv, Allowed
    <3>3. ProgramInv' /\ FrameInv' BY <3>1, Zenon DEF ProgramInv, InStep, FrameInv, Ended
    <3>4. OutcomeInv' BY <2>1, <2>3, <3>1, Zenon DEF OutcomeInv, KillAfterOutcome, ProgramIsGone, NotStarted
    <3> QED BY <3>2, <3>3, <3>4, Zenon
  <2>4. CASE KillMeetsEpipe BY <2>1, <2>4, ReadStep, Zenon DEF KillMeetsEpipe
  <2>5. CASE KillSends
    <3>1. "K" \in Commands \ {"A"} BY Zenon DEF Commands
    <3>2. live \in Shims /\ (down' = down \/ down' = [down EXCEPT ![live] = Append(@, "K")])
      BY <2>5 DEF KillSends, IInv, Shape, LinkShape
    <3>3. down \in [Shims -> Seq(Commands)] BY DEF IInv, Shape, QueueShape
    <3>4. down' \in [Shims -> Seq(Commands)] BY <3>1, <3>2, <3>3, PutType, Zenon
    <3>5. \A s \in Shims : down'[s] = down[s] \/ down'[s] = Append(down[s], "K") BY <3>2, <3>3, Zenon
    <3> QED BY <2>1, <2>5, <3>1, <3>4, <3>5, SendStep DEF KillSends
  <2> QED BY <1>5, <2>2, <2>3, <2>4, <2>5, Zenon DEF Kill
<1>6. CASE \E t \in scene.threads, b \in Controls : SendControl(t, b)
  <2> PICK t \in scene.threads, b \in Controls : SendControl(t, b) BY <1>6, Zenon
  <2>1. b \in Commands \ {"A"} BY ScenesAssumption, Zenon DEF IInv, Shape, LinkShape, Controls, Commands
  <2>2. live \in Shims /\ down \in [Shims -> Seq(Commands)] /\ down' = [down EXCEPT ![live] = Append(@, b)]
    BY Zenon DEF SendControl, IInv, Shape, LinkShape, QueueShape
  <2>3. down' \in [Shims -> Seq(Commands)] BY <2>1, <2>2, PutType, Zenon
  <2>4. \A s \in Shims : down'[s] = down[s] \/ down'[s] = Append(down[s], b) BY <2>2, Zenon
  <2> QED BY <2>1, <2>3, <2>4, SendStep, Zenon DEF SendControl
<1> QED BY <1>1, <1>2, <1>3, <1>4, <1>5, <1>6, SMTT(20) DEF Caller, Waiter

(* cosca's process ends, its pid is reused, copies of it come and go. *)
LEMMA ProcessStep == ASSUME IInv, CoscaStep \/ CopyStep, UNCHANGED <<link, run, scene>> PROVE IInv'
<1> USE DEF IInv, link, state, callers, run, program, loop, Allowed, Final,
            CoscaStep, CopyStep, CoscaCloses, CoscaExits, PidReused, Forks, CopyExits
<1>1. UNCHANGED <<down, up>> /\ (cosca' = cosca \/ cosca # "gone") BY Zenon
<1>2. cosca = "gone" => cosca' = "gone" OBVIOUS
<1>3. reused' => reused \/ cosca' = "gone" BY Zenon
<1>4. Shape' BY <1>1 DEF Shape, LinkShape, RunShape, QueueShape
<1>5. AnswerInv' /\ FrameInv' BY <1>1, Zenon DEF AnswerInv, FrameInv
<1>6. OwnerInv' BY <1>1, <1>2, <1>3, Zenon DEF OwnerInv
<1>7. ProgramInv' BY Zenon DEF ProgramInv, InStep, Ended
<1>8. OutcomeInv' BY Zenon DEF OutcomeInv
<1> QED BY <1>4, <1>5, <1>6, <1>7, <1>8, Zenon

(* What no step of a shim or of its program does: turn back to before the    *)
(* hello, go on without the answer, or undo an end.                          *)
Onward(r) ==
  /\ shim'[r] \in Told => shim[r] \in Told \/ Allowed(r)
  /\ shim'[r] \in Before => shim[r] \in Before
  /\ shim'[r] \in Greeted \cup {"hello"} => shim[r] \in Greeted \cup {"hello"}
  /\ child'[r] # "none" \/ r \in ran' => child[r] # "none" \/ shim[r] \in Told \/ r \in ran
  /\ Final(r) => Final(r)' /\ (r \in ran' => r \in ran) /\ (r \in wrote' => r \in wrote)

(* Nothing moves but this shim and its program. *)
Only(s) ==
  /\ UNCHANGED <<scene, link, cosca, reused, watch>>
  /\ \A r \in Shims \ {s} :
       /\ shim'[r] = shim[r] /\ child'[r] = child[r] /\ note'[r] = note[r] /\ fin'[r] = fin[r]
       /\ r \in ran' => r \in ran
       /\ r \in wrote' <=> r \in wrote

(* No answer A comes into a shim's queue by its own steps. *)
Unanswered == down' \in [Shims -> Seq(Commands)] /\ \A r \in Shims : Has(down'[r], "A") => Has(down[r], "A")

(* A step of one shim or its program is a matter of that shim alone. *)
LEMMA OneShim ==
  ASSUME IInv, NEW s \in Shims, Only(s), InStep(s)', Onward(s)
  PROVE  ProgramInv' /\ \A r \in Shims : Onward(r)
<1>1. ASSUME NEW r \in Shims \ {s} PROVE InStep(r)' /\ Onward(r)
  <2>1. InStep(r) BY DEF IInv, ProgramInv
  <2>2. /\ shim'[r] = shim[r] /\ child'[r] = child[r] /\ note'[r] = note[r] /\ fin'[r] = fin[r]
        /\ (r \in ran' => r \in ran) /\ (r \in wrote' <=> r \in wrote)
    BY Zenon DEF Only
  <2>3. InStep(r)' BY <2>1, <2>2, Zenon DEF InStep, Ended
  <2>4. Onward(r) BY <2>2, Zenon DEF Onward, Final
  <2> QED BY <2>3, <2>4
<1> QED BY <1>1 DEF ProgramInv

(* A step of a shim after the pidfd that sends no frame. *)
LEMMA OnwardStep ==
  ASSUME IInv, NEW s \in Shims, Only(s), Unanswered, up' = up, RunShape', InStep(s)', Onward(s)
  PROVE  IInv'
<1>1. ProgramInv' /\ \A r \in Shims : Onward(r) BY OneShim, Zenon
<1>2. UNCHANGED <<scene, start, live, outcome, told, cosca, reused, watch, up>> BY Zenon DEF Only, link, state, callers
<1>3. Shape' BY <1>2, Zenon DEF IInv, Shape, LinkShape, QueueShape, Unanswered
<1>4. AnswerInv' BY <1>1, <1>2, Zenon DEF IInv, AnswerInv, Unanswered, Onward, Allowed
<1>5. OwnerInv' BY <1>1, <1>2 DEF IInv, OwnerInv, Onward, Allowed
<1>6. FrameInv' BY <1>1, <1>2, Zenon DEF IInv, FrameInv, Onward
<1>7. OutcomeInv' BY <1>1, <1>2, Zenon DEF IInv, OutcomeInv, Shape, LinkShape, Onward
<1> QED BY <1>1, <1>3, <1>4, <1>5, <1>6, <1>7, Zenon DEF IInv

(* A step that sends a frame: H, or the last one, which must be true. *)
LEMMA FrameStep ==
  ASSUME IInv, NEW s \in Shims, NEW frame \in Frames, Only(s), Unanswered,
         up' = SentUp(s, frame), watch[s] # "none", RunShape', InStep(s)', Onward(s),
         frame \in {"S", "L", "U"} => Final(s)' /\ s \notin wrote',
         frame \in {"F", "R"} => Final(s)' /\ s \notin ran'
  PROVE  IInv'
<1>1. ProgramInv' /\ \A r \in Shims : Onward(r) BY OneShim
<1>2. UNCHANGED <<scene, start, live, outcome, told, cosca, reused, watch>> BY Zenon DEF Only, link, state, callers
<1>3. up \in [Shims -> Seq(Frames)] BY DEF IInv, Shape, QueueShape
<1>4. up' = up \/ up' = [up EXCEPT ![s] = Append(@, frame)] BY Zenon DEF SentUp
<1>5. up' \in [Shims -> Seq(Frames)] BY <1>3, <1>4, PutType, Zenon
<1>6. \A r \in Shims, f \in Frames : Has(up'[r], f) => Has(up[r], f) \/ (r = s /\ f = frame)
  <2>1. CASE up' = up BY <2>1, Zenon
  <2>2. CASE up' = [up EXCEPT ![s] = Append(@, frame)]
    <3>1. up[s] \in Seq(Frames) /\ up'[s] = Append(up[s], frame) BY <1>3, <2>2, Zenon
    <3>2. \A r \in Shims : r # s => up'[r] = up[r] BY <1>3, <2>2, Zenon
    <3>3. \A f \in Frames : Has(up'[s], f) => Has(up[s], f) \/ f = frame BY <3>1, AppendHas, Zenon
    <3> QED BY <3>2, <3>3, Zenon
  <2> QED BY <1>4, <2>1, <2>2, Zenon
<1>7. \A r \in Shims : up'[r] # <<>> => up[r] # <<>> \/ r = s BY <1>3, <1>4, Zenon
<1>8. Shape' BY <1>2, <1>5 DEF IInv, Shape, LinkShape, QueueShape, Unanswered
<1>9. AnswerInv' BY <1>1, <1>2, Zenon DEF IInv, AnswerInv, Unanswered, Onward, Allowed
<1>10. OwnerInv' BY <1>1, <1>2, <1>7, Zenon DEF IInv, OwnerInv, Onward, Allowed
<1>11. FrameInv' BY <1>1, <1>6, Zenon DEF IInv, FrameInv, Frames, Onward
<1>12. OutcomeInv' BY <1>1, <1>2, Zenon DEF IInv, OutcomeInv, Shape, LinkShape, Onward
<1> QED BY <1>1, <1>8, <1>9, <1>10, <1>11, <1>12, Zenon DEF IInv

(* The program's process goes on without a report and without exec, its shim *)
(* with it or not.                                                           *)
Ahead(from, to) ==
  \/ to = from
  \/ from \in Alive /\ to = "zombie"
  \/ from # "none" /\ to = "gone"
  \/ from = "held" /\ to = "arming"
  \/ from = "arming" /\ to = "asking"
  \/ from = "asking" /\ to = "looking"
  \/ from = "looking" /\ to = "execing"

Along(from, to, stage) ==
  \/ to = from /\ (from = "held" => stage # "arming")
  \/ from \in {"poll", "read", "serve"} /\ to \in {"read", "serve", "poll", "reap"}
  \/ from \in {"poll", "reap"} /\ to = "conclude" /\ stage = "gone"
  \/ to = "crashed"

Moved(s) ==
  /\ UNCHANGED <<scene, link, cosca, reused, watch, up, note, ran, wrote>> /\ Unanswered
  /\ shim' \in [Shims -> Places] /\ child' \in [Shims -> Stages] /\ fin' \in [Shims -> Finishes]
  /\ \A r \in Shims \ {s} : shim'[r] = shim[r] /\ child'[r] = child[r] /\ fin'[r] = fin[r]
  /\ fin'[s].report = fin[s].report
  /\ Ahead(child[s], child'[s]) /\ Along(shim[s], shim'[s], child'[s])

(* A step of one shim that only moves along keeps the invariant. *)
LEMMA MovedStep == ASSUME IInv, NEW s \in Shims, Moved(s) PROVE IInv'
<1>1. InStep(s) BY Zenon DEF IInv, ProgramInv
<1>2. RunShape' BY Zenon DEF IInv, Shape, RunShape, Moved
<1>3. Only(s) BY SMTT(20) DEF Moved, Only
<1>4. /\ fin'[s].report = fin[s].report /\ note' = note /\ ran' = ran /\ wrote' = wrote
      /\ Ahead(child[s], child'[s]) /\ Along(shim[s], shim'[s], child'[s])
  BY Zenon DEF Moved
<1>5. InStep(s)' BY <1>1, <1>4, Zenon DEF InStep, Ended, Ahead, Along, Before, Alive, BeforeExec
<1>6. Onward(s) BY <1>1, <1>4, Zenon DEF InStep, Onward, Final, Ahead, Along, Before, Greeted, Told, Alive, BeforeExec
<1> QED BY <1>2, <1>3, <1>5, <1>6, OnwardStep, Zenon DEF Moved

(* The program's process reports why it could not exec. *)
Reported(s) ==
  /\ UNCHANGED <<scene, link, cosca, reused, watch, down, up, shim, fin, ran>>
  /\ child[s] \in {"held", "arming", "looking", "execing"} /\ child' = [child EXCEPT ![s] = "failing"]
  /\ note' = [note EXCEPT ![s] = "written"] /\ wrote' = wrote \cup {s}

(* A step of one shim that writes its report keeps the invariant. *)
LEMMA ReportedStep == ASSUME IInv, NEW s \in Shims, Reported(s) PROVE IInv'
<1>1. InStep(s) /\ RunShape BY Zenon DEF IInv, ProgramInv, Shape
<1>2. RunShape' BY <1>1 DEF RunShape, Reported, Stages, Notes
<1>3. Only(s) /\ Unanswered BY <1>1, Zenon DEF Reported, Only, Unanswered, RunShape, IInv, Shape, QueueShape
<1>4. InStep(s)' BY <1>1, Zenon DEF InStep, Reported, RunShape, Ended, Before
<1>5. Onward(s) BY <1>1, Zenon DEF InStep, Reported, RunShape, Onward, Final, Alive, BeforeExec
<1> QED BY <1>2, <1>3, <1>4, <1>5, OnwardStep, Zenon DEF Reported

(* The program's process. *)
LEMMA ChildMoves ==
  ASSUME IInv, NEW s \in Shims, UNCHANGED <<scene, link>>,
         \/ ChildStep(s) \/ SetupFails(s) \/ ProgramExits(s) \/ ChildTermed(s) \/ ForeignReap(s)
  PROVE  IInv'
<1> RunShape /\ QueueShape /\ InStep(s) BY DEF IInv, Shape, ProgramInv
<1> USE DEF channel, loop
<1>1. CASE /\ UNCHANGED <<cosca, reused, watch, down, up, shim, fin, note, ran, wrote>>
           /\ \E c \in Stages : /\ child' = [child EXCEPT ![s] = c] /\ Ahead(child[s], c)
                                /\ shim[s] = "held" => c # "arming"
  <2>1. Moved(s) BY <1>1, Zenon DEF Moved, Along, Unanswered, RunShape, QueueShape
  <2> QED BY <2>1, MovedStep, Zenon
<1>2. CASE ChildReleased(s)
  <2>1. shim[s] # "held" /\ child[s] = "held" /\ child' = [child EXCEPT ![s] = "arming"]
    BY <1>2, Zenon DEF ChildReleased, Released, Ended, ChildAt, ChildTo
  <2> QED BY <1>1, <1>2, <2>1, Zenon DEF ChildReleased, ChildAt, ChildTo, Ahead, Stages
<1>3. CASE ChildArms(s) BY <1>1, <1>3, Zenon DEF ChildArms, ChildAt, ChildTo, Ahead, Stages
<1>4. CASE ChildAsks(s)
  BY <1>1, <1>4, Zenon DEF ChildAsks, ChildAt, ChildTo, Ends, Ahead, Stages, Alive, BeforeExec
<1>5. CASE ChildLooks(s)
  <2>1. CASE Reports(s) BY <1>5, <2>1, ReportedStep, Zenon DEF ChildLooks, ChildAt, Reports, Reported
  <2>2. CASE ChildTo(s, "execing") BY <1>1, <1>5, <2>2 DEF ChildLooks, ChildAt, ChildTo, Ahead, Stages
  <2> QED BY <1>5, <2>1, <2>2 DEF ChildLooks
<1>6. CASE SetupFails(s) BY <1>6, ReportedStep, Zenon DEF SetupFails, ChildAt, Reports, Reported
<1>7. CASE ChildExecs(s)
  <2>1. CASE Reports(s) BY <1>7, <2>1, ReportedStep, Zenon DEF ChildExecs, ChildAt, Reports, Reported
  <2>2. CASE child' = [child EXCEPT ![s] = "running"] /\ ran' = ran \cup {s} /\ UNCHANGED <<note, wrote>>
    <3>1. child[s] = "execing" /\ UNCHANGED <<cosca, reused, watch, down, up, shim, fin>>
      BY <1>7, Zenon DEF ChildExecs, ChildAt
    <3>2. RunShape' BY <2>2, <3>1, Zenon DEF RunShape, Stages
    <3>3. Only(s) /\ Unanswered BY <2>2, <3>1, Zenon DEF Only, Unanswered, RunShape, QueueShape
    <3>4. InStep(s)' BY <2>2, <3>1, Zenon DEF InStep, RunShape, Ended, Before
    <3>5. Onward(s) BY <2>2, <3>1, Zenon DEF InStep, RunShape, Onward, Final, Alive, BeforeExec
    <3> QED BY <3>1, <3>2, <3>3, <3>4, <3>5, OnwardStep, Zenon
  <2> QED BY <1>7, <2>1, <2>2 DEF ChildExecs
<1>8. CASE ChildFails(s) \/ ProgramExits(s)
  BY <1>1, <1>8, Zenon DEF ChildFails, ProgramExits, ChildAt, Ends, Ahead, Stages, Alive, BeforeExec
<1>9. CASE ForeignReap(s) \/ DoomedDies(s)
  BY <1>1, <1>9, Zenon DEF ForeignReap, DoomedDies, ChildAt, ChildTo, Ahead, Stages, Alive, BeforeExec
<1>10. CASE ChildTermed(s)
  <2>1. UNCHANGED <<cosca, reused, watch, down, up, shim, fin, note, ran, wrote>> BY <1>10, Zenon DEF ChildTermed
  <2>2. CASE child' = child
    <3>1. Moved(s) BY <2>1, <2>2 DEF Moved, Ahead, Along, InStep, Unanswered, RunShape, QueueShape
    <3> QED BY <3>1, MovedStep
  <2>3. CASE Ends(s) BY <1>1, <1>10, <2>1, <2>3, Zenon DEF ChildTermed, Ends, Ahead, Stages, Alive, BeforeExec
  <2> QED BY <1>10, <2>2, <2>3, Zenon DEF ChildTermed, Termed
<1> QED BY <1>2, <1>3, <1>4, <1>5, <1>6, <1>7, <1>8, <1>9, <1>10, Zenon DEF ChildStep

(* drain_status moves a report from the pipe to Finished. *)
LEMMA StatusTaken ==
  ASSUME RunShape, NEW s \in Shims, TakesStatus(s)
  PROVE  /\ note' \in [Shims -> Notes] /\ fin' \in [Shims -> Finishes]
         /\ \A r \in Shims \ {s} : fin'[r] = fin[r] /\ note'[r] = note[r]
         /\ note'[s] # "written" /\ (fin'[s].report <=> fin[s].report \/ note[s] = "written")
<1>1. note' = [note EXCEPT ![s] = IF @ = "written" THEN "taken" ELSE @] BY DEF TakesStatus
<1>2. fin' = [fin EXCEPT ![s].report = @ \/ note[s] = "written"] BY Zenon DEF TakesStatus
<1>3. note' \in [Shims -> Notes] BY <1>1 DEF RunShape, Notes
<1>4. fin' \in [Shims -> Finishes] BY <1>2, ZenonT(30) DEF RunShape, Finishes
<1>5. fin'[s].report <=> fin[s].report \/ note[s] = "written" BY <1>2, Zenon DEF RunShape, Finishes
<1>6. \A r \in Shims : r # s => fin'[r] = fin[r] /\ note'[r] = note[r] BY <1>1, <1>2 DEF RunShape
<1>7. note'[s] # "written" BY <1>1, Zenon DEF RunShape
<1> QED BY <1>3, <1>4, <1>5, <1>6, <1>7, Zenon

(* The supervision loop up to the last frame, and the end by a signal. *)
LEMMA LoopMoves ==
  ASSUME IInv, NEW s \in Shims, UNCHANGED <<scene, link>>,
         \/ LoopPolls(s) \/ LoopFails(s) \/ LoopReads(s) \/ LoopServes(s) \/ LoopReaps(s)
         \/ SignalReaches(s) \/ ShimCrashes(s)
  PROVE  IInv'
<1> RunShape /\ QueueShape /\ InStep(s) BY Zenon DEF IInv, Shape, ProgramInv
<1>1. CASE LoopPolls(s) \/ SignalReaches(s)
  <2>1. UNCHANGED <<cosca, reused, watch, down, up, child, fin, note, ran, wrote>>
    BY <1>1, Zenon DEF LoopPolls, SignalReaches, AtRound, channel, loop, program
  <2>2. shim' = shim \/ (shim[s] = "poll" /\ shim' = [shim EXCEPT ![s] = "read"])
    BY <1>1 DEF LoopPolls, SignalReaches, AtRound, Goto
  <2>3. Moved(s) BY <2>1, <2>2, Zenon DEF Moved, Ahead, Along, InStep, Unanswered, RunShape, QueueShape, Places
  <2> QED BY <2>3, MovedStep, Zenon
<1>2. CASE LoopFails(s) \/ LoopReaps(s)
  <2>1. /\ UNCHANGED <<cosca, reused, watch, down, up, note, ran, wrote>>
        /\ shim[s] \in {"poll", "reap"} /\ shim' = [shim EXCEPT ![s] = "conclude"]
        /\ child' = [child EXCEPT ![s] = "gone"]
    BY <1>2, Zenon DEF LoopFails, LoopReaps, AtRound, Goto
  <2>2. fin' \in [Shims -> Finishes] /\ fin'[s].report = fin[s].report /\ \A r \in Shims \ {s} : fin'[r] = fin[r]
    <3>1. CASE LoopFails(s)
      <4> PICK reaped \in BOOLEAN : fin' = [fin EXCEPT ![s].lost = TRUE, ![s].reaped = reaped] BY <3>1, Zenon DEF LoopFails
      <4>1. fin' = [fin EXCEPT ![s] = [@ EXCEPT !.lost = TRUE, !.reaped = reaped]] BY Zenon DEF RunShape, Finishes
      <4>2. [fin[s] EXCEPT !.lost = TRUE, !.reaped = reaped] \in Finishes BY ZenonT(30) DEF RunShape, Finishes
      <4> QED BY <4>1, <4>2 DEF RunShape, Finishes
    <3>2. CASE LoopReaps(s)
      <4> PICK reaped \in BOOLEAN : fin' = [fin EXCEPT ![s].reaped = reaped] BY <3>2, Zenon DEF LoopReaps
      <4> QED BY DEF RunShape, Finishes
    <3> QED BY <1>2, <3>1, <3>2, Zenon
  <2>3. Moved(s) BY <2>1, <2>2, Zenon DEF Moved, Ahead, Along, InStep, Unanswered, RunShape, QueueShape, Places, Stages
  <2> QED BY <2>3, MovedStep
<1>3. CASE LoopReads(s)
  <2>1. shim[s] = "read" /\ shim' = [shim EXCEPT ![s] = "serve"]
        /\ UNCHANGED <<cosca, reused, watch, down, up, child, ran, wrote>>
    BY <1>3, Zenon DEF LoopReads, AtRound, Goto
  <2>2. CASE UNCHANGED <<note, fin>>
    <3>1. Moved(s) BY <2>1, <2>2, Zenon DEF Moved, Ahead, Along, Unanswered, RunShape, QueueShape, Places
    <3> QED BY <3>1, MovedStep
  <2>3. CASE TakesStatus(s)
    <3>1. /\ note' \in [Shims -> Notes] /\ fin' \in [Shims -> Finishes]
          /\ \A r \in Shims \ {s} : fin'[r] = fin[r] /\ note'[r] = note[r]
          /\ note'[s] # "written" /\ (fin'[s].report <=> fin[s].report \/ note[s] = "written")
      BY <2>3, StatusTaken, Zenon
    <3>2. RunShape' BY <2>1, <3>1, Zenon DEF RunShape, Places
    <3>3. Only(s) /\ Unanswered BY <2>1, <3>1, Zenon DEF Only, Unanswered, RunShape, QueueShape
    <3>4. InStep(s)' BY <2>1, <3>1, Zenon DEF InStep, RunShape, Ended, Before
    <3>5. Onward(s) BY <2>1 DEF Onward, RunShape, Final, Before, Greeted, Told
    <3> QED BY <2>1, <3>2, <3>3, <3>4, <3>5, OnwardStep, Zenon
  <2> QED BY <1>3, <2>2, <2>3, Zenon DEF LoopReads
<1>4. CASE LoopServes(s)
  <2>1. /\ UNCHANGED <<cosca, reused, watch, up, fin, note, ran, wrote>>
        /\ down' = down \/ down' = [down EXCEPT ![s] = <<>>]
        /\ shim[s] = "serve" /\ \E to \in {"poll", "reap"} : shim' = [shim EXCEPT ![s] = to]
        /\ Killed(s) \/ Termed(s) \/ child' = child
    BY <1>4, Zenon DEF LoopServes, Goto
  <2>2. Unanswered
    <3>1. CASE down' = down BY <3>1, Zenon DEF Unanswered, QueueShape
    <3>2. CASE down' = [down EXCEPT ![s] = <<>>] BY <3>2, EmptyHas DEF Unanswered, QueueShape
    <3> QED BY <2>1, <3>1, <3>2, Zenon
  <2>3. child' \in [Shims -> Stages] /\ Ahead(child[s], child'[s]) /\ \A r \in Shims \ {s} : child'[r] = child[r]
    BY <2>1 DEF Killed, Termed, Ends, Ahead, RunShape, Stages, Alive, BeforeExec
  <2>4. Moved(s) BY <2>1, <2>2, <2>3, ZenonT(30) DEF Moved, Along, RunShape, Places
  <2> QED BY <2>4, MovedStep
<1>5. CASE ShimCrashes(s)
  <2>1. /\ UNCHANGED <<cosca, reused, watch, down, up, fin, note, ran, wrote>>
        /\ shim' = [shim EXCEPT ![s] = "crashed"]
        /\ child' = child \/ child' = [child EXCEPT ![s] = IF @ = "zombie" THEN "gone" ELSE @]
    BY <1>5, Zenon DEF ShimCrashes, Goto, channel, loop
  <2>2. child' \in [Shims -> Stages] /\ Ahead(child[s], child'[s]) /\ \A r \in Shims \ {s} : child'[r] = child[r]
    BY <2>1 DEF Ahead, RunShape, Stages
  <2>3. Moved(s) BY <2>1, <2>2, Zenon DEF Moved, Along, Unanswered, RunShape, QueueShape, Places
  <2> QED BY <2>3, MovedStep
<1> QED BY <1>1, <1>2, <1>3, <1>4, <1>5, Zenon

(* The last frame, the report first whatever the reap gave, and the exit. *)
LEMMA LastMoves ==
  ASSUME IInv, NEW s \in Shims, UNCHANGED <<scene, link>>, Concludes(s) \/ Leaves(s)
  PROVE  IInv'
<1> RunShape /\ QueueShape /\ InStep(s) BY DEF IInv, Shape, ProgramInv
<1>1. CASE Concludes(s)
  <2>1. /\ note' \in [Shims -> Notes] /\ fin' \in [Shims -> Finishes]
        /\ \A r \in Shims \ {s} : fin'[r] = fin[r] /\ note'[r] = note[r]
        /\ note'[s] # "written" /\ (fin'[s].report <=> fin[s].report \/ note[s] = "written")
    BY <1>1, StatusTaken, Zenon DEF Concludes
  <2>2. /\ shim[s] = "conclude" /\ shim' = [shim EXCEPT ![s] = "leaving"] /\ child[s] = "gone"
        /\ UNCHANGED <<cosca, reused, watch, down, child, ran, wrote>>
    BY <1>1, Zenon DEF Concludes, AtRound, Goto, InStep
  <2>3. RunShape' BY <2>1, <2>2, Zenon DEF RunShape, Places
  <2>4. Only(s) /\ Unanswered BY <2>1, <2>2, Zenon DEF Only, Unanswered, RunShape, QueueShape
  <2>5. InStep(s)' BY <2>1, <2>2, Zenon DEF InStep, RunShape, Ended, Before
  <2>6. Onward(s) BY <2>2, Zenon DEF Onward, RunShape, Final, Before, Greeted, Told
  <2>7. CASE up' = up BY <2>3, <2>4, <2>5, <2>6, <2>7, OnwardStep, Zenon
  <2>8. CASE up' = SentUp(s, Conclude(fin'[s]))
    <3>1. watch[s] # "none" BY <2>2, Zenon DEF IInv, OwnerInv, Greeted
    <3>2. Conclude(fin'[s]) \in {"F", "U", "L", "S"} BY DEF Conclude
    <3>3. Conclude(fin'[s]) = "F" <=> s \in wrote BY <2>1, <2>2, Zenon DEF Conclude, InStep, Ended
    <3>4. s \in wrote => s \notin ran BY Zenon DEF InStep
    <3>5. Final(s)' BY <2>2, Zenon DEF Final, Alive, BeforeExec
    <3> QED BY <2>2, <2>3, <2>4, <2>5, <2>6, <2>8, <3>1, <3>2, <3>3, <3>4, <3>5, FrameStep, Zenon DEF Frames
  <2> QED BY <1>1, <2>7, <2>8, Zenon DEF Concludes
<1>2. CASE Leaves(s)
  <2>1. /\ UNCHANGED <<cosca, reused, watch, down, up, child, ran, wrote>>
        /\ shim[s] = "leaving" /\ shim' = [shim EXCEPT ![s] = "exited"]
        /\ note' = [note EXCEPT ![s] = "none"] /\ fin' = [fin EXCEPT ![s] = NotFinished]
    BY <1>2, Zenon DEF Leaves, Goto, Forgets, channel
  <2>2. RunShape' BY <2>1, Zenon DEF RunShape, Places, Notes, Finishes, NotFinished
  <2>3. Only(s) /\ Unanswered BY <2>1, Zenon DEF Only, Unanswered, RunShape, QueueShape
  <2>4. InStep(s)' BY <2>1, Zenon DEF InStep, RunShape, Ended, Before, NotFinished
  <2>5. Onward(s) BY <2>1, Zenon DEF Onward, RunShape, Final, Before, Greeted, Told
  <2> QED BY <2>1, <2>2, <2>3, <2>4, <2>5, OnwardStep, Zenon
<1> QED BY <1>1, <1>2

-----------------------------------------------------------------------------
(* The handshake, and the sessions as a whole                               *)

(* The handshake and the clone. *)
LEMMA HandshakeMoves ==
  ASSUME IInv, NEW s \in Shims, UNCHANGED <<scene, link>>,
         \/ Launched(s) \/ Connect(s) \/ WatchOwner(s) \/ SayHello(s) \/ AwaitAnswer(s) \/ TakeAnswer(s)
         \/ RecheckOwner(s) \/ CloneChild(s) \/ CheckHeld(s)
  PROVE  IInv'
<1> RunShape /\ QueueShape /\ InStep(s) BY Zenon DEF IInv, Shape, ProgramInv
<1> USE DEF program, loop, Still, Goto
<1>1. CASE Launched(s) \/ Connect(s)
  <2>1. /\ UNCHANGED <<cosca, reused, watch, down, up, child, fin, note, ran, wrote>>
        /\ shim[s] \in {"idle", "connect"} /\ \E to \in {"connect", "watch", "exited"} : shim' = [shim EXCEPT ![s] = to]
    BY <1>1, Zenon DEF Launched, Connect
  <2>2. RunShape' BY <2>1, Zenon DEF RunShape, Places
  <2>3. Only(s) /\ Unanswered BY <2>1, Zenon DEF Only, Unanswered, RunShape, QueueShape
  <2>4. InStep(s)' BY <2>1, SMTT(20) DEF InStep, RunShape, Ended, Before
  <2>5. Onward(s) BY <2>1, Zenon DEF Onward, RunShape, Final, Before, Greeted, Told
  <2> QED BY <2>1, <2>2, <2>3, <2>4, <2>5, OnwardStep, Zenon
<1>2. CASE WatchOwner(s)
  <2>1. shim[s] = "watch" /\ UNCHANGED <<cosca, reused, down, up, child, fin, note, ran, wrote>> BY <1>2, Zenon DEF WatchOwner
  <2>2. \/ shim' = [shim EXCEPT ![s] = "hello"] /\ watch' = [watch EXCEPT ![s] = IF reused THEN "stranger" ELSE "cosca"]
        \/ shim' = [shim EXCEPT ![s] = "exited"] /\ watch' = watch
    BY <1>2 DEF WatchOwner
  <2>3. child[s] = "none" /\ watch[s] = "none" /\ ~Allowed(s) BY <2>1, Zenon DEF IInv, InStep, OwnerInv, Before
  <2>4. UNCHANGED <<scene, start, live, outcome, told>> BY Zenon DEF link, state, callers
  <2>5. RunShape' BY <2>1, <2>2, Zenon DEF RunShape, Places
  <2>6. Shape' BY <2>1, <2>4, <2>5, Zenon DEF IInv, Shape, LinkShape, QueueShape
  <2>7. AnswerInv' BY <2>1, <2>2, <2>4 DEF IInv, RunShape, AnswerInv, Allowed, Told
  <2>8. OwnerInv'
    <3>1. \A r \in Shims : r # s => shim'[r] = shim[r] /\ watch'[r] = watch[r] BY <2>2, Zenon DEF RunShape
    <3>2. \/ shim'[s] = "hello" /\ watch'[s] = IF reused THEN "stranger" ELSE "cosca"
          \/ shim'[s] = "exited" /\ watch'[s] = "none"
      BY <2>2, <2>3 DEF RunShape
    <3>3. up[s] = <<>> \/ watch'[s] # "none" BY <2>3, Zenon DEF IInv, OwnerInv
    <3> QED BY <2>1, <2>3, <2>4, <3>1, <3>2, <3>3, Zenon DEF IInv, OwnerInv, Allowed, Before, Greeted
  <2>9. ASSUME NEW r \in Shims PROVE InStep(r)' /\ (Final(r) => Final(r)')
    <3>1. InStep(r) BY DEF IInv, ProgramInv
    <3>2. CASE r = s BY <2>1, <2>2, <2>3, <3>1, <3>2, Zenon DEF RunShape, InStep, Ended, Before, Final
    <3>3. CASE r # s
      <4>1. shim'[r] = shim[r] BY <2>2, <3>3 DEF RunShape
      <4> QED BY <2>1, <3>1, <4>1, Zenon DEF InStep, Ended, Final
    <3> QED BY <3>2, <3>3, Zenon
  <2>10. ProgramInv' /\ FrameInv' BY <2>1, <2>9, Zenon DEF IInv, ProgramInv, FrameInv
  <2>11. OutcomeInv' BY <2>1, <2>4, <2>9, Zenon DEF IInv, OutcomeInv, Shape, LinkShape
  <2> QED BY <2>6, <2>7, <2>8, <2>10, <2>11, Zenon DEF IInv
<1>3. CASE SayHello(s)
  <2>1. /\ UNCHANGED <<cosca, reused, watch, down, child, fin, note, ran, wrote>>
        /\ shim[s] = "hello" /\ \E to \in {"await", "exited"} : shim' = [shim EXCEPT ![s] = to]
    BY <1>3, Zenon DEF SayHello
  <2>2. RunShape' BY <2>1, Zenon DEF RunShape, Places
  <2>3. Only(s) /\ Unanswered BY <2>1, Zenon DEF Only, Unanswered, RunShape, QueueShape
  <2>4. InStep(s)' BY <2>1, Zenon DEF InStep, RunShape, Ended, Before
  <2>5. Onward(s) BY <2>1, Zenon DEF Onward, RunShape, Final, Before, Greeted, Told
  <2>6. CASE up' = up BY <2>2, <2>3, <2>4, <2>5, <2>6, OnwardStep, Zenon
  <2>7. CASE up' = SentUp(s, "H")
    <3>1. watch[s] # "none" /\ "H" \in Frames BY <2>1, Zenon DEF IInv, OwnerInv, Frames
    <3> QED BY <2>2, <2>3, <2>4, <2>5, <2>7, <3>1, FrameStep, Zenon
  <2> QED BY <1>3, <2>6, <2>7, Zenon DEF SayHello
<1>4. CASE /\ shim[s] \in {"await", "recheck", "start", "held"}
           /\ \E frame \in {"R", "F"} : Gives(s, frame)
           /\ down' = down \/ (down[s] # <<>> /\ down' = [down EXCEPT ![s] = Tail(@)])
           /\ child' = IF shim[s] = "held" THEN [child EXCEPT ![s] = "gone"] ELSE child
           /\ UNCHANGED <<cosca, reused, watch, fin, note, ran, wrote>>
  <2> PICK frame \in {"R", "F"} : Gives(s, frame) BY <1>4, Zenon
  <2>1. shim' = [shim EXCEPT ![s] = "leaving"] /\ up' = SentUp(s, frame) BY DEF Gives
  <2>2. watch[s] # "none" /\ frame \in Frames BY <1>4, Zenon DEF IInv, OwnerInv, Greeted, Frames
  <2>3. RunShape' BY <1>4, <2>1, Zenon DEF RunShape, Places, Stages
  <2>4. Unanswered
    <3>1. CASE down' = down BY <3>1, Zenon DEF Unanswered, QueueShape
    <3>2. CASE down' # down BY <1>4, <3>2, ByteTaken, Zenon DEF Unanswered
    <3> QED BY <3>1, <3>2, Zenon
  <2>5. Only(s) BY <1>4, <2>1 DEF Only, RunShape
  <2>6. InStep(s)' BY <1>4, <2>1, Zenon DEF InStep, RunShape, Ended, Before
  <2>7. Onward(s) BY <1>4, <2>1, Zenon DEF InStep, Onward, RunShape, Final, Before, Greeted, Told, Alive, BeforeExec
  <2>8. Final(s)' /\ s \notin ran' BY <1>4, <2>1, Zenon DEF Final, InStep, RunShape, Alive, BeforeExec
  <2> QED BY <2>1, <2>2, <2>3, <2>4, <2>5, <2>6, <2>7, <2>8, FrameStep, Zenon
<1>5. CASE /\ shim[s] = "await" /\ shim' = [shim EXCEPT ![s] = "recheck"]
           /\ down[s] # <<>> /\ Head(down[s]) = "A" /\ down' = [down EXCEPT ![s] = Tail(@)]
           /\ UNCHANGED <<cosca, reused, up, watch, fin, note, child, ran, wrote>>
  <2>1. down[s] \in Seq(Commands) BY DEF QueueShape
  <2>2. Allowed(s) BY <1>5, <2>1, HeadHas, Zenon DEF IInv, AnswerInv
  <2>3. Unanswered BY <1>5, ByteTaken, Zenon DEF Unanswered
  <2>4. RunShape' BY <1>5, Zenon DEF RunShape, Places
  <2>5. Only(s) BY <1>5 DEF Only, RunShape
  <2>6. InStep(s)' BY <1>5, Zenon DEF InStep, RunShape, Ended, Before
  <2>7. Onward(s) BY <1>5, <2>2, Zenon DEF InStep, Onward, RunShape, Final, Before, Greeted, Told
  <2> QED BY <1>5, <2>3, <2>4, <2>5, <2>6, <2>7, OnwardStep, Zenon
<1>6. CASE /\ \/ shim[s] = "recheck" /\ shim' = [shim EXCEPT ![s] = "start"] /\ child' = child
              \/ shim[s] = "start" /\ shim' = [shim EXCEPT ![s] = "held"] /\ child' = [child EXCEPT ![s] = "held"]
              \/ shim[s] = "held" /\ shim' = [shim EXCEPT ![s] = "poll"] /\ child' = child
           /\ UNCHANGED <<cosca, reused, down, up, watch, fin, note, ran, wrote>>
  <2>1. RunShape' BY <1>6, Zenon DEF RunShape, Places, Stages
  <2>2. Only(s) /\ Unanswered BY <1>6, Zenon DEF Only, Unanswered, RunShape, QueueShape
  <2>3. InStep(s)'
    <3>1. CASE shim[s] = "start" BY <1>6, <3>1, Zenon DEF InStep, RunShape, Ended, Before
    <3>2. CASE shim[s] = "recheck" BY <1>6, <3>2, Zenon DEF InStep, RunShape, Ended, Before
    <3>3. CASE shim[s] = "held" BY <1>6, <3>3, Zenon DEF InStep, RunShape, Ended, Before
    <3> QED BY <1>6, <3>1, <3>2, <3>3, Zenon
  <2>4. Onward(s) BY <1>6, Zenon DEF InStep, Onward, RunShape, Final, Before, Greeted, Told, Alive, BeforeExec
  <2> QED BY <1>6, <2>1, <2>2, <2>3, <2>4, OnwardStep, Zenon
<1>7. CASE AwaitAnswer(s) \/ TakeAnswer(s)
  BY <1>4, <1>5, <1>7, Zenon DEF AwaitAnswer, TakeAnswer, Gives
<1>8. CASE RecheckOwner(s) BY <1>4, <1>6, <1>8, Zenon DEF RecheckOwner
<1>9. CASE CloneChild(s) \/ CheckHeld(s) BY <1>4, <1>6, <1>9, Zenon DEF CloneChild, CheckHeld
<1> QED BY <1>1, <1>2, <1>3, <1>7, <1>8, <1>9, Zenon

-----------------------------------------------------------------------------
(* IInv is inductive. *)
LEMMA InductiveStep == IInv /\ [Next]_<<vars, scene>> => IInv'
<1> SUFFICES ASSUME IInv, [Next]_<<vars, scene>> PROVE IInv' BY Zenon
<1>1. CASE UNCHANGED <<vars, scene>> BY <1>1, QuietStep, SMTT(20) DEF vars, channel, link, state, callers
<1>2. CASE LinkNext /\ UNCHANGED <<run, scene>> BY <1>2, AcceptorStep, CallerStep, Zenon DEF LinkNext
<1>3. CASE RunNext /\ UNCHANGED <<link, scene>>
  <2> PICK s \in scene.shims :
        \/ Launched(s) \/ ShimStep(s) \/ ChildStep(s)
        \/ LoopFails(s) \/ SetupFails(s) \/ ProgramExits(s) \/ ChildTermed(s) \/ ForeignReap(s)
        \/ SignalReaches(s) \/ ShimCrashes(s)
    BY <1>3, Zenon DEF RunNext
  <2>1. s \in Shims BY ScenesAssumption, Zenon DEF IInv, Shape, LinkShape
  <2> QED BY <1>3, <2>1, HandshakeMoves, ChildMoves, LoopMoves, LastMoves, Zenon DEF ShimStep
<1>4. CASE (CoscaStep \/ CopyStep) /\ UNCHANGED <<link, run, scene>> BY <1>4, ProcessStep
<1> QED BY <1>1, <1>2, <1>3, <1>4, Zenon DEF Next, Over

(* Every reachable state of the link and its shims satisfies IInv. *)
THEOREM Invariance == Spec => []IInv
BY InitInv, InductiveStep, PTL DEF Spec

(* At most one of any number of shims is told to start, and none once the    *)
(* start was refused (answer_hello, StartState).                             *)
THEOREM AtMostOneStart == Spec => []OneStart
<1>1. IInv => OneStart BY DEF IInv, Shape, RunShape, AnswerInv, Allowed, OneStart
<1> QED BY <1>1, Invariance, PTL

(* A program is never started under the watch of a process that is not cosca *)
(* (watch_owner, say_hello, await_answer).                                   *)
THEOREM WatchIsOfCosca == Spec => []OwnerWatchIsCosca
<1>1. IInv => OwnerWatchIsCosca BY Zenon DEF IInv, AnswerInv, OwnerInv, OwnerWatchIsCosca
<1> QED BY <1>1, Invariance, PTL

(* What the link's outcome and kill say of the program is true when they say *)
(* it and stays true (settle, classify, conclude, ShimLink::kill).           *)
THEOREM OutcomesAreTrue == Spec => []OutcomeIsTrue
<1>1. ASSUME IInv PROVE OutcomeIsTrue
  <2> USE <1>1 DEF IInv
  <2>1. start # "Live" => ran = {} /\ live = Nobody BY DEF Shape, LinkShape, RunShape, AnswerInv, Allowed
  <2>2. start = "Live" => \A s \in Shims \ {live} : child[s] = "none" /\ s \notin ran BY Zenon DEF AnswerInv, Allowed
  <2>3. outcome \in NotStarted => ran = {} BY <2>1, <2>2, Zenon DEF OutcomeInv, NotStarted, Shape, RunShape
  <2>4. ProgramIsGone(outcome) /\ live # Nobody => child[live] \notin Alive
    BY <2>1, Zenon DEF OutcomeInv, ProgramIsGone, NotStarted, Final
  <2>5. live \in wrote => outcome \notin {"Exited", "SupervisionLost", "StatusLost"} BY Zenon DEF OutcomeInv
  <2>6. "AlreadyEnded" \in told => \A s \in Shims : child[s] \notin Alive
    BY <2>2, Zenon DEF OutcomeInv, Final, Alive, BeforeExec
  <2>7. "RefusedStart" \in told => ran = {} BY <2>1, Zenon DEF OutcomeInv
  <2> QED BY <2>3, <2>4, <2>5, <2>6, <2>7, Zenon DEF OutcomeIsTrue
<1> QED BY <1>1, Invariance, PTL

-----------------------------------------------------------------------------
(* The disarm                                                              *)

(* cosca's end of each connection: none before connect, open while the peer  *)
(* is pending, and of the started shim never closed but by cosca's end or by *)
(* the teardown.                                                             *)
ConnectionInv ==
  /\ DOMAIN end = Shims
  /\ \A s \in Shims : shim[s] \in {"idle", "connect"} => end[s] = "none"
  /\ cosca = "up" => \A s \in pending : s \in Shims /\ end[s] = "open"
  /\ acceptor \in {"look", "hello"} => polled.ready \subseteq pending
  /\ start = "Live" => live \notin pending /\ end[live] \in {"open", "closed"}
  /\ start = "Live" /\ end[live] = "closed" => cosca # "up" \/ drop = "done"

(* What a shim's loop holds of cosca's end is so: an exit that was polled, a  *)
(* connection that ended, a program killed for either.                       *)
LoopInv ==
  /\ DOMAIN st = Shims /\ DOMAIN ev = Shims
  /\ \A s \in Shims :
       /\ {"control", "owner_exited"} \subseteq DOMAIN ev[s]
       /\ ev[s].owner_exited => cosca = "gone"
       /\ ~st[s].conn_open => end[s] = "closed"
       /\ s \in orphaned => cosca # "up" \/ end[s] = "closed"

(* A D is on its way on a connection the shim still reads, or the shim has    *)
(* it, or there is no program to kill any more.                              *)
Disarms(s) ==
  \/ shim[s] \in {"leaving", "exited", "crashed"} \/ ~st[s].armed
  \/ st[s].conn_open /\ Has(down[s], "D")
DisarmInv == "D" \in sent => start = "Live" /\ live \notin orphaned /\ Disarms(live)

(* cosca's ends only go on: queued, then open, then closed. *)
EndsOnward ==
  /\ DOMAIN end' = Shims
  /\ \A s \in Shims : \/ end'[s] = end[s]
                      \/ end[s] = "queued" /\ end'[s] \in {"open", "closed"}
                      \/ end[s] = "open" /\ end'[s] = "closed"

(* A step of cosca's leaves the shims' loops what they are and what they hold *)
(* true.                                                                     *)
LEMMA LoopKept ==
  ASSUME ConnectionInv, LoopInv, EndsOnward, UNCHANGED <<st, ev, orphaned, shim>>,
         cosca = "gone" => cosca' = "gone", cosca # "up" => cosca' # "up"
  PROVE  LoopInv' /\ \A s \in Shims : shim'[s] \in {"idle", "connect"} => end'[s] = "none"
<1>1. ASSUME NEW s \in Shims PROVE (end[s] = "closed" => end'[s] = "closed") /\ (end[s] = "none" => end'[s] = "none")
  BY DEF EndsOnward
<1>2. LoopInv' BY <1>1, Zenon DEF LoopInv
<1>3. ASSUME NEW s \in Shims, shim'[s] \in {"idle", "connect"} PROVE end'[s] = "none"
  BY <1>1, <1>3 DEF ConnectionInv
<1> QED BY <1>2, <1>3, Zenon

(* Nor does it take a D back: the bytes of the started shim are only added to. *)
LEMMA DisarmKept ==
  ASSUME DisarmInv, Shape, UNCHANGED <<st, orphaned, shim, sent>>, start = "Live" => start' = "Live" /\ live' = live,
         start = "Live" => down'[live] = down[live] \/ \E b \in Commands : down'[live] = Append(down[live], b)
  PROVE  DisarmInv'
<1> SUFFICES ASSUME "D" \in sent PROVE DisarmInv' BY Zenon DEF DisarmInv
<1>1. start = "Live" /\ start' = "Live" /\ live' = live /\ live \in Shims /\ live \notin orphaned /\ Disarms(live)
  BY Zenon DEF DisarmInv, Shape, LinkShape
<1>2. Has(down[live], "D") => Has(down'[live], "D")
  <2>1. down[live] \in Seq(Commands) BY <1>1, Zenon DEF Shape, QueueShape
  <2>2. CASE down'[live] = down[live] BY <2>2, Zenon
  <2>3. ASSUME NEW b \in Commands, down'[live] = Append(down[live], b) PROVE Has(down[live], "D") => Has(down'[live], "D")
    BY <2>1, <2>3 DEF Has
  <2> QED BY <1>1, <2>2, <2>3, Zenon
<1>3. Disarms(live)' BY <1>1, <1>2, Zenon DEF Disarms
<1> QED BY <1>1, <1>3, Zenon DEF DisarmInv

(* The acceptor takes and closes connections, never the started shim's. *)
LEMMA AcceptorDisarm ==
  ASSUME IInv, ConnectionInv, LoopInv, DisarmInv, Acceptor \/ AcceptorFails \/ StrayWake, UNCHANGED <<run, scene>>
  PROVE  ConnectionInv' /\ LoopInv' /\ DisarmInv'
<1> USE DEF channel, state, callers, accepts
<1>0. UNCHANGED <<st, ev, orphaned, shim>> BY DEF run, loop, program
<1>01. start = "Live" => live \in Shims BY DEF IInv, Shape, LinkShape
<1>1. CASE AcceptorPolls \/ StrayWake
  <2>1. /\ UNCHANGED <<cosca, end, pending, start, live, drop, sent, down>>
        /\ UNCHANGED <<acceptor, polled>> \/ polled'.ready \subseteq pending
    <3>1. CASE AcceptorPolls BY <3>1, Zenon DEF AcceptorPolls
    <3>2. CASE StrayWake BY <3>2, Zenon DEF StrayWake
    <3> QED BY <1>1, <3>1, <3>2, Zenon
  <2>2. EndsOnward BY <2>1, Zenon DEF EndsOnward, ConnectionInv
  <2>3. LoopInv' BY <1>0, <2>1, <2>2, LoopKept, Zenon
  <2>4. ConnectionInv' BY <1>0, <2>1, Zenon DEF ConnectionInv
  <2>5. DisarmInv' BY <1>0, <2>1, DisarmKept, Zenon DEF IInv
  <2> QED BY <2>3, <2>4, <2>5
<1>2. CASE AcceptorFails
  <2>1. /\ UNCHANGED <<cosca, live, drop, sent, down, polled>> /\ cosca = "up" /\ acceptor' = "exited" /\ pending' = {}
        /\ start = "Live" => start' = "Live"
        /\ start' = "Live" => start = "Live"
        /\ end' = [s \in Shims |-> IF s \in pending \/ end[s] = "queued" THEN "closed" ELSE end[s]]
    BY <1>2, Zenon DEF AcceptorFails, FailClosed, ListenerCloses, Serving
  <2>2. EndsOnward BY <2>1, Zenon DEF EndsOnward, ConnectionInv
  <2>3. LoopInv' /\ \A s \in Shims : shim'[s] \in {"idle", "connect"} => end'[s] = "none" BY <1>0, <2>1, <2>2, LoopKept, Zenon
  <2>4. ConnectionInv' BY <1>01, <2>1, <2>3, Zenon DEF ConnectionInv
  <2>5. DisarmInv' BY <1>0, <2>1, DisarmKept, Zenon DEF IInv
  <2> QED BY <2>3, <2>4, <2>5, Zenon
<1>3. CASE AcceptorLooks
  <2>1. /\ UNCHANGED <<cosca, start, live, drop, sent, down, polled>> /\ cosca = "up" /\ acceptor = "look"
        /\ \/ UNCHANGED <<end, pending>>
           \/ end' = Accepted /\ pending' = pending \cup (Queued \ Strangers)
    BY <1>3, Zenon DEF AcceptorLooks, Serving
  <2>2. CASE UNCHANGED <<end, pending>>
    <3>1. EndsOnward BY <2>2, Zenon DEF EndsOnward, ConnectionInv
    <3>2. LoopInv' BY <1>0, <2>1, <3>1, LoopKept, Zenon
    <3>3. ConnectionInv' BY <1>0, <2>1, <2>2, Zenon DEF ConnectionInv
    <3> QED BY <1>0, <2>1, <3>2, <3>3, DisarmKept, Zenon DEF IInv
  <2>3. CASE end' = Accepted /\ pending' = pending \cup (Queued \ Strangers)
    <3>1. \A s \in Shims : end'[s] = IF end[s] = "queued" THEN (IF s \in Strangers THEN "closed" ELSE "open") ELSE end[s]
      BY <2>3, Zenon DEF Accepted, Queued
    <3>2. EndsOnward BY <2>3, <3>1, Zenon DEF EndsOnward, Accepted
    <3>3. LoopInv' /\ \A s \in Shims : shim'[s] \in {"idle", "connect"} => end'[s] = "none" BY <1>0, <2>1, <3>2, LoopKept, Zenon
    <3>4. ConnectionInv' BY <1>01, <2>1, <2>3, <3>1, <3>2, <3>3, Zenon DEF ConnectionInv, EndsOnward, Queued
    <3> QED BY <1>0, <2>1, <3>3, <3>4, DisarmKept, Zenon DEF IInv
  <2> QED BY <2>1, <2>2, <2>3, Zenon
<1>4. CASE AcceptorStops
  <2>1. PICK taken \in {Queued} \cup (IF LinkFaults THEN {{}} ELSE {}) :
          LET drained == pending \cup (taken \ Strangers) IN
          /\ down' = [s \in Shims |-> IF s \in drained /\ ~ShimHungUp(s) THEN Append(down[s], "N") ELSE down[s]]
          /\ ListenerCloses([s \in Shims |-> IF s \in drained \cup taken THEN "closed" ELSE end[s]])
    BY <1>4, Zenon DEF AcceptorStops
  <2>2. /\ UNCHANGED <<cosca, start, live, drop, sent, polled>> /\ cosca = "up" /\ acceptor' = "exited" /\ pending' = {}
    BY <1>4, Zenon DEF AcceptorStops, Serving
  <2>3. taken \subseteq Queued BY <2>1, Zenon
  <2>4. end' = [s \in Shims |-> IF s \in pending \/ end[s] = "queued" THEN "closed" ELSE end[s]]
    BY <2>1, <2>3, Zenon DEF ListenerCloses, Queued
  <2>5. EndsOnward BY <2>2, <2>4, Zenon DEF EndsOnward, ConnectionInv
  <2>6. LoopInv' /\ \A s \in Shims : shim'[s] \in {"idle", "connect"} => end'[s] = "none" BY <1>0, <2>2, <2>5, LoopKept, Zenon
  <2>7. ConnectionInv' BY <1>01, <2>2, <2>4, <2>6, Zenon DEF ConnectionInv
  <2>8. \A s \in Shims : down'[s] = down[s] \/ down'[s] = Append(down[s], "N") BY <2>1, Zenon
  <2>9. DisarmInv' BY <1>0, <1>01, <2>2, <2>8, DisarmKept, Zenon DEF IInv, Commands
  <2> QED BY <2>6, <2>7, <2>9
<1>5. CASE \E s \in Shims : ClosedBeforeHello(s) \/ AnswerHello(s)
  <2> PICK s \in Shims : ClosedBeforeHello(s) \/ AnswerHello(s) BY <1>5, Zenon
  <2>1. /\ UNCHANGED <<cosca, drop, sent>> /\ cosca = "up" /\ acceptor = "hello" /\ s \in polled.ready
        /\ polled' = [polled EXCEPT !.ready = @ \ {s}] /\ pending' = pending \ {s}
    BY Zenon DEF ClosedBeforeHello, AnswerHello, Greeting, Serving
  <2>2. \/ end' = [end EXCEPT ![s] = "closed"] /\ live' = live /\ (start' = start \/ (start # "Live" /\ start' # "Live"))
        \/ end' = end /\ start # "Live" /\ live' = s
    BY DEF ClosedBeforeHello, AnswerHello, RefusePending
  <2>3. s \in pending /\ end[s] = "open" /\ (start = "Live" => live # s) BY <2>1 DEF ConnectionInv
  <2>4. EndsOnward BY <2>2, <2>3, Zenon DEF EndsOnward, ConnectionInv
  <2>5. LoopInv' /\ \A r \in Shims : shim'[r] \in {"idle", "connect"} => end'[r] = "none" BY <1>0, <2>1, <2>4, LoopKept, Zenon
  <2>6. polled'.ready \subseteq pending'
    <3>1. polled.ready \subseteq pending BY <2>1 DEF ConnectionInv
    <3>2. polled'.ready \subseteq polled.ready \ {s} BY <2>1
    <3> QED BY <2>1, <3>1, <3>2, Zenon
  <2>7. \A r \in Shims : end'[r] = end[r] \/ (r = s /\ end'[r] = "closed") BY <2>2, Zenon DEF ConnectionInv
  <2>8. ConnectionInv' BY <1>01, <2>1, <2>2, <2>3, <2>4, <2>5, <2>6, <2>7, Zenon DEF ConnectionInv, EndsOnward
  <2>9. start = "Live" => start' = "Live" /\ live' = live /\ down'[live] = down[live]
    BY <1>01, <2>3, Zenon DEF ClosedBeforeHello, AnswerHello, IInv, Shape, QueueShape
  <2>10. DisarmInv' BY <1>0, <2>1, <2>9, DisarmKept, Zenon DEF IInv
  <2> QED BY <2>5, <2>8, <2>10, Zenon
<1> QED BY <1>1, <1>2, <1>3, <1>4, <1>5, Zenon DEF Acceptor

(* The calls and the teardown: a control is sent only while cosca's end is    *)
(* open, and only the teardown closes it.                                    *)
LEMMA CallerDisarm ==
  ASSUME IInv, ConnectionInv, LoopInv, DisarmInv, UNCHANGED <<run, scene>>,
         (\E t \in scene.threads : Caller(t) \/ Waiter(t)) \/ DropRefuses \/ Teardown
  PROVE  ConnectionInv' /\ LoopInv' /\ DisarmInv'
<1> USE DEF channel, state, callers, accepts
<1>0. UNCHANGED <<st, ev, orphaned, shim>> BY Zenon DEF run, loop, program
<1>01. start = "Live" => live \in Shims BY Zenon DEF IInv, Shape, LinkShape
<1>1. ASSUME UNCHANGED <<cosca, end, pending, polled, acceptor, live>>, drop' = drop \/ drop # "done",
             start' = start \/ (start # "Live" /\ start' # "Live")
      PROVE  ConnectionInv' /\ LoopInv'
  <2>1. EndsOnward BY <1>1, Zenon DEF EndsOnward, ConnectionInv
  <2>2. LoopInv' BY <1>0, <1>1, <2>1, LoopKept, Zenon
  <2>3. ConnectionInv' BY <1>0, <1>1, Zenon DEF ConnectionInv
  <2> QED BY <2>2, <2>3
<1>2. ASSUME UNCHANGED <<cosca, end, pending, polled, acceptor, live, down, sent>>, drop' = drop \/ drop # "done",
             start' = start \/ (start # "Live" /\ start' # "Live")
      PROVE  ConnectionInv' /\ LoopInv' /\ DisarmInv'
  <2>1. DisarmInv' BY <1>0, <1>2, DisarmKept, Zenon DEF IInv
  <2> QED BY <1>1, <1>2, <2>1, Zenon
<1>3. CASE DropRefuses \/ DropFlags \/ DropWakes
  BY <1>2, <1>3, Zenon DEF DropRefuses, RefusePending, DropFlags, DropWakes, Dropping
<1>4. CASE DropJoins
  <2>1. /\ UNCHANGED <<cosca, pending, polled, acceptor, start, live, down, sent>> /\ drop' = "done"
        /\ end' = [s \in Shims |-> IF s = live THEN "closed" ELSE end[s]]
    BY <1>4, Zenon DEF DropJoins, Dropping
  <2>2. live \in Shims => start = "Live" BY ChannelAssumption DEF IInv, Shape, LinkShape
  <2>3. EndsOnward BY <2>1, <2>2, Zenon DEF EndsOnward, ConnectionInv
  <2>4. LoopInv' /\ \A s \in Shims : shim'[s] \in {"idle", "connect"} => end'[s] = "none" BY <1>0, <2>1, <2>3, LoopKept, Zenon
  <2>5. ConnectionInv' BY <1>01, <2>1, <2>2, <2>4, Zenon DEF ConnectionInv
  <2>6. DisarmInv' BY <1>0, <2>1, DisarmKept, Zenon DEF IInv
  <2> QED BY <2>4, <2>5, <2>6, Zenon
<1>5. CASE \E t \in scene.threads : WaitBegins(t) \/ WaitWakes(t) \/ WaitFails(t)
  BY <1>2, <1>5, Zenon DEF WaitBegins, WaitWakes, WaitFails
<1>6. CASE \E t \in scene.threads : WaitSettles(t) \/ TryWait(t)
  BY <1>2, <1>6, Zenon DEF WaitSettles, TryWait, Settle, RefusePending
<1>7. CASE \E t \in scene.threads : Observe(t) BY <1>2, <1>7, Zenon DEF Observe
<1>8. CASE \E t \in scene.threads : Kill(t)
  <2>1. UNCHANGED <<cosca, end, pending, polled, acceptor, live, drop>> BY <1>8, Zenon DEF Kill
  <2>2. CASE KillRefusesStart BY <1>2, <2>1, <2>2, Zenon DEF KillRefusesStart, RefusePending
  <2>3. CASE KillAfterOutcome BY <1>2, <2>1, <2>3, Zenon DEF KillAfterOutcome
  <2>4. CASE KillMeetsEpipe BY <1>2, <2>1, <2>4, Zenon DEF KillMeetsEpipe
  <2>5. CASE KillSends
    <3>1. ConnectionInv' /\ LoopInv' BY <1>1, <2>1, <2>5, Zenon DEF KillSends
    <3>2. /\ start = "Live" /\ start' = start /\ ("D" \in sent' => "D" \in sent)
          /\ down'[live] = down[live] \/ down'[live] = Append(down[live], "K")
      BY <1>01, <2>5 DEF KillSends, IInv, Shape, QueueShape
    <3>3. DisarmInv'
      <4> SUFFICES ASSUME "D" \in sent PROVE DisarmInv' BY <3>2, Zenon DEF DisarmInv
      <4>1. down[live] \in Seq(Commands) BY <1>01, <3>2, Zenon DEF IInv, Shape, QueueShape
      <4>2. Has(down[live], "D") => Has(down'[live], "D") BY <3>2, <4>1 DEF Has, Commands
      <4> QED BY <1>0, <2>1, <3>2, <4>2, Zenon DEF DisarmInv, Disarms
    <3> QED BY <3>1, <3>3
  <2> QED BY <1>8, <2>2, <2>3, <2>4, <2>5, Zenon DEF Kill
<1>9. CASE \E t \in scene.threads, b \in Controls : SendControl(t, b)
  <2> PICK t \in scene.threads, b \in Controls : SendControl(t, b) BY <1>9, Zenon
  <2>1. /\ UNCHANGED <<cosca, end, pending, polled, acceptor, start, live, drop>>
        /\ start = "Live" /\ cosca = "up" /\ drop = "no"
        /\ down' = [down EXCEPT ![live] = Append(@, b)] /\ sent' = sent \cup {b}
    BY DEF SendControl, Calling
  <2>2. ConnectionInv' /\ LoopInv' BY <1>1, <2>1, Zenon
  <2>3. end[live] # "closed" BY <2>1, Zenon DEF ConnectionInv
  <2>4. live \notin orphaned /\ st[live].conn_open BY <1>01, <2>1, <2>3, Zenon DEF LoopInv
  <2>5. down[live] \in Seq(Commands) /\ down'[live] = Append(down[live], b) /\ b \in Commands
    BY <1>01, <2>1, ScenesAssumption, Zenon DEF IInv, Shape, LinkShape, QueueShape, Controls, Commands
  <2>6. Has(down[live], "D") \/ b = "D" => Has(down'[live], "D") BY <2>5 DEF Has
  <2>7. DisarmInv' BY <1>0, <2>1, <2>4, <2>6, Zenon DEF DisarmInv, Disarms
  <2> QED BY <2>2, <2>7, Zenon
<1> QED BY <1>3, <1>4, <1>5, <1>6, <1>7, <1>8, <1>9, Zenon DEF Caller, Waiter, Teardown

(* cosca's process and its copies. *)
LEMMA ProcessDisarm ==
  ASSUME IInv, ConnectionInv, LoopInv, DisarmInv, CoscaStep \/ CopyStep, UNCHANGED <<link, run, scene>>
  PROVE  ConnectionInv' /\ LoopInv' /\ DisarmInv'
<1>0. UNCHANGED <<st, ev, orphaned, shim, pending, polled, acceptor, start, live, drop, sent>>
  BY Zenon DEF run, loop, program, link, state, accepts, callers
<1>01. start = "Live" => live \in Shims BY Zenon DEF IInv, Shape, LinkShape
<1>1. /\ down' = down /\ (cosca = "gone" => cosca' = "gone") /\ (cosca # "up" => cosca' # "up")
      /\ \/ end' = end
         \/ /\ cosca' # "up"
            /\ end' = [s \in Shims |-> IF end[s] \in {"open", "queued"} THEN "closed" ELSE end[s]]
  BY Zenon DEF CoscaStep, CopyStep, CoscaCloses, CoscaExits, PidReused, Forks, CopyExits, ListenerCloses
<1>2. EndsOnward BY <1>1, Zenon DEF EndsOnward, ConnectionInv
<1>3. LoopInv' /\ \A s \in Shims : shim'[s] \in {"idle", "connect"} => end'[s] = "none" BY <1>0, <1>1, <1>2, LoopKept, Zenon
<1>4. cosca' = "up" => end' = end BY <1>1
<1>5. start = "Live" => end'[live] \in {"open", "closed"} BY <1>01, <1>2, Zenon DEF EndsOnward, ConnectionInv
<1>6. ConnectionInv' BY <1>0, <1>01, <1>1, <1>2, <1>3, <1>4, <1>5, Zenon DEF ConnectionInv, EndsOnward
<1>7. DisarmInv' BY <1>0, <1>1, DisarmKept, Zenon DEF IInv
<1> QED BY <1>3, <1>6, <1>7, Zenon

(* What every step of a shim but its connect, its poll, its reads and its     *)
(* serve leaves alone; a shim goes on, and a D it takes ends it.             *)
Aside(s) ==
  /\ UNCHANGED <<scene, link, cosca, end, st, ev, orphaned>>
  /\ shim' = shim \/ \E to \in Places \ {"idle"} : shim' = [shim EXCEPT ![s] = to] /\ (to = "connect" => shim[s] = "idle")
  /\ shim[s] \in {"leaving", "exited", "crashed"} => shim'[s] \in {"leaving", "exited", "crashed"}
  /\ \/ down' = down
     \/ /\ down[s] # <<>> /\ down' = [down EXCEPT ![s] = Tail(@)]
        /\ Head(down[s]) = "A" \/ shim'[s] = "leaving"

(* A byte other than D that is taken off a queue leaves its D there. *)
LEMMA TailKeeps ==
  ASSUME NEW S, NEW q \in Seq(S), q # <<>>, NEW y, Has(q, y), Head(q) # y
  PROVE  Has(Tail(q), y)
<1> PICK i \in DOMAIN q : q[i] = y BY DEF Has
<1>1. i \in 1 .. Len(q) /\ i # 1 OBVIOUS
<1>2. i - 1 \in DOMAIN Tail(q) /\ Tail(q)[i - 1] = q[i] BY <1>1
<1> QED BY <1>2, Zenon DEF Has

(* Such a step keeps cosca's ends, the loops and the disarm. *)
LEMMA AsideDisarm ==
  ASSUME IInv, ConnectionInv, LoopInv, DisarmInv, NEW s \in Shims, Aside(s)
  PROVE  ConnectionInv' /\ LoopInv' /\ DisarmInv'
<1>0. UNCHANGED <<cosca, end, st, ev, orphaned, pending, polled, acceptor, start, live, drop, sent>>
  BY Zenon DEF Aside, link, state, accepts, callers
<1>01. start = "Live" => live \in Shims BY Zenon DEF IInv, Shape, LinkShape
<1>02. shim \in [Shims -> Places] /\ down \in [Shims -> Seq(Commands)] BY Zenon DEF IInv, Shape, RunShape, QueueShape
<1>1. \A r \in Shims : shim'[r] \in {"idle", "connect"} => shim[r] \in {"idle", "connect"} BY <1>02, Zenon DEF Aside
<1>2. ConnectionInv' BY <1>0, <1>1 DEF ConnectionInv
<1>3. LoopInv' BY <1>0, Zenon DEF LoopInv
<1>4. ASSUME NEW r \in Shims, Disarms(r) PROVE Disarms(r)'
  <2>1. CASE shim[r] \in {"leaving", "exited", "crashed"}
    <3>1. shim'[r] \in {"leaving", "exited", "crashed"} BY <1>02, <2>1 DEF Aside
    <3> QED BY <3>1, Zenon DEF Disarms
  <2>2. CASE ~st[r].armed BY <1>0, <2>2, Zenon DEF Disarms
  <2>3. CASE st[r].conn_open /\ Has(down[r], "D")
    <3>1. CASE down'[r] = down[r] BY <1>0, <2>3, <3>1, Zenon DEF Disarms
    <3>2. CASE r = s /\ down[s] # <<>> /\ down'[s] = Tail(down[s]) /\ (Head(down[s]) = "A" \/ shim'[s] = "leaving")
      <4>1. CASE shim'[s] = "leaving" BY <3>2, <4>1, Zenon DEF Disarms
      <4>2. CASE Head(down[s]) = "A"
        <5>1. Has(Tail(down[s]), "D") BY <1>02, <2>3, <3>2, <4>2, TailKeeps, Zenon
        <5> QED BY <1>0, <2>3, <3>2, <5>1, Zenon DEF Disarms
      <4> QED BY <3>2, <4>1, <4>2, Zenon
    <3> QED BY <1>02, <3>1, <3>2 DEF Aside
  <2> QED BY <1>4, <2>1, <2>2, <2>3, Zenon DEF Disarms
<1>5. DisarmInv' BY <1>0, <1>01, <1>4, Zenon DEF DisarmInv
<1> QED BY <1>2, <1>3, <1>5, Zenon

(* The steps of a shim and its program that are such steps. *)
LEMMA AsideSteps ==
  ASSUME IInv, NEW s \in Shims, UNCHANGED <<scene, link>>,
         \/ Launched(s) \/ WatchOwner(s) \/ SayHello(s) \/ AwaitAnswer(s) \/ TakeAnswer(s) \/ RecheckOwner(s)
         \/ CloneChild(s) \/ CheckHeld(s) \/ LoopReaps(s) \/ Concludes(s) \/ LoopFails(s)
         \/ ChildStep(s) \/ SetupFails(s) \/ ProgramExits(s) \/ ChildTermed(s) \/ ForeignReap(s)
         \/ SignalReaches(s) \/ ShimCrashes(s)
  PROVE  Aside(s)
<1>0. shim \in [Shims -> Places] BY DEF IInv, Shape, RunShape
<1>1. CASE \/ Launched(s) \/ WatchOwner(s) \/ SayHello(s) \/ AwaitAnswer(s) \/ RecheckOwner(s)
  <2>1. UNCHANGED <<cosca, end, st, ev, orphaned, down>>
    BY <1>1, Zenon DEF Launched, WatchOwner, SayHello, AwaitAnswer, RecheckOwner, Still, loop
  <2>2. /\ shim[s] \in {"idle", "watch", "hello", "await", "recheck"}
        /\ \E to \in Places \ {"idle"} : shim' = [shim EXCEPT ![s] = to] /\ (to = "connect" => shim[s] = "idle")
    BY <1>1, Zenon DEF Launched, WatchOwner, SayHello, AwaitAnswer, RecheckOwner, Gives, Goto, Places
  <2> QED BY <2>1, <2>2, Zenon DEF Aside
<1>2. CASE TakeAnswer(s)
  <2>1. /\ UNCHANGED <<cosca, end, st, ev, orphaned>> /\ shim[s] = "await"
        /\ down[s] # <<>> /\ down' = [down EXCEPT ![s] = Tail(@)]
    BY <1>2, Zenon DEF TakeAnswer, Still, loop
  <2>2. \/ Head(down[s]) = "A" /\ shim' = [shim EXCEPT ![s] = "recheck"]
        \/ shim' = [shim EXCEPT ![s] = "leaving"]
    BY <1>2 DEF TakeAnswer, Gives, Goto
  <2> QED BY <1>0, <2>1, <2>2, Zenon DEF Aside, Places
<1>3. CASE CloneChild(s) \/ CheckHeld(s) \/ LoopReaps(s) \/ Concludes(s) \/ LoopFails(s)
  <2>1. UNCHANGED <<cosca, end, st, ev, orphaned, down>>
    BY <1>3, Zenon DEF CloneChild, CheckHeld, LoopReaps, Concludes, LoopFails, AtRound, loop
  <2>2. /\ shim[s] \in {"start", "held", "reap", "conclude", "poll"}
        /\ \E to \in {"held", "poll", "conclude", "leaving"} : shim' = [shim EXCEPT ![s] = to]
    BY <1>3, Zenon DEF CloneChild, CheckHeld, LoopReaps, Concludes, LoopFails, AtRound, Gives, Goto
  <2> QED BY <2>1, <2>2, Zenon DEF Aside, Places
<1>4. CASE ChildStep(s) \/ SetupFails(s) \/ ProgramExits(s) \/ ChildTermed(s) \/ ForeignReap(s) \/ SignalReaches(s)
  <2>1. UNCHANGED <<channel, shim, loop, orphaned>>
    BY <1>4, Zenon DEF ChildStep, ChildReleased, ChildArms, ChildAsks, ChildLooks, ChildExecs, ChildFails, DoomedDies,
                SetupFails, ProgramExits, ChildTermed, ForeignReap, SignalReaches, ChildAt
  <2> QED BY <2>1 DEF Aside, channel, loop
<1>5. CASE ShimCrashes(s)
  <2>1. UNCHANGED <<channel, loop, orphaned>> /\ shim' = [shim EXCEPT ![s] = "crashed"] BY <1>5, Zenon DEF ShimCrashes, Goto
  <2>2. "crashed" \in Places \ {"idle"} BY Zenon DEF Places
  <2>3. shim'[s] = "crashed" BY <1>0, <2>1, Zenon
  <2> QED BY <2>1, <2>2, <2>3, Zenon DEF Aside, channel, loop
<1> QED BY <1>1, <1>2, <1>3, <1>4, <1>5, Zenon

(* The connect gives a shim its end, of a connection nobody speaks on yet. *)
LEMMA ConnectDisarm ==
  ASSUME IInv, ConnectionInv, LoopInv, DisarmInv, NEW s \in Shims, Connect(s), UNCHANGED <<scene, link>>
  PROVE  ConnectionInv' /\ LoopInv' /\ DisarmInv'
<1>0. UNCHANGED <<cosca, st, ev, orphaned, pending, polled, acceptor, start, live, drop, sent, down>>
  BY Zenon DEF Connect, Still, loop, link, state, accepts, callers
<1>01. start = "Live" => live \in Shims BY Zenon DEF IInv, Shape, LinkShape
<1>02. shim \in [Shims -> Places] BY DEF IInv, Shape, RunShape
<1>1. shim[s] = "connect" /\ end[s] = "none" BY Zenon DEF Connect, ConnectionInv
<1>2. /\ \E to \in {"watch", "exited"} : shim' = [shim EXCEPT ![s] = to]
      /\ end' = end \/ \E to \in {"queued", "closed"} : end' = [end EXCEPT ![s] = to]
  BY Zenon DEF Connect, Goto
<1>3. shim'[s] \notin {"idle", "connect"} /\ \A r \in Shims \ {s} : shim'[r] = shim[r] BY <1>02, <1>2, Zenon
<1>4. DOMAIN end' = Shims /\ \A r \in Shims \ {s} : end'[r] = end[r] BY <1>2 DEF ConnectionInv
<1>5. (start = "Live" => live # s) /\ (cosca = "up" => s \notin pending) BY <1>1, Zenon DEF ConnectionInv
<1>6. ConnectionInv' BY <1>0, <1>01, <1>3, <1>4, <1>5, Zenon DEF ConnectionInv
<1>7. LoopInv' BY <1>0, <1>1, <1>4, Zenon DEF LoopInv
<1>8. DisarmInv' BY <1>0, <1>01, <1>3, <1>5, Zenon DEF DisarmInv, Disarms
<1> QED BY <1>6, <1>7, <1>8

(* A shim's exit forgets its loop, which nothing serves again. *)
LEMMA LeavesDisarm ==
  ASSUME IInv, ConnectionInv, LoopInv, DisarmInv, NEW s \in Shims, Leaves(s), UNCHANGED <<scene, link>>
  PROVE  ConnectionInv' /\ LoopInv' /\ DisarmInv'
<1>0. UNCHANGED <<cosca, end, orphaned, pending, polled, acceptor, start, live, drop, sent, down>>
  BY Zenon DEF Leaves, channel, link, state, accepts, callers
<1>01. start = "Live" => live \in Shims BY DEF IInv, Shape, LinkShape
<1>02. shim \in [Shims -> Places] BY Zenon DEF IInv, Shape, RunShape
<1>1. /\ shim' = [shim EXCEPT ![s] = "exited"]
      /\ st' = [st EXCEPT ![s] = LoopStart] /\ ev' = [ev EXCEPT ![s] = NoEvents]
  BY Zenon DEF Leaves, Goto, Forgets
<1>2. shim'[s] = "exited" /\ \A r \in Shims \ {s} : shim'[r] = shim[r] BY <1>02, <1>1
<1>3. /\ DOMAIN st' = Shims /\ st'[s] = LoopStart /\ \A r \in Shims \ {s} : st'[r] = st[r]
      /\ DOMAIN ev' = Shims /\ ev'[s] = NoEvents /\ \A r \in Shims \ {s} : ev'[r] = ev[r]
  BY <1>1, Zenon DEF LoopInv
<1>4. LoopStart.conn_open /\ ~NoEvents.owner_exited /\ {"control", "owner_exited"} \subseteq DOMAIN NoEvents
  BY Zenon DEF LoopStart, NoEvents
<1>5. ConnectionInv' BY <1>0, <1>2, Zenon DEF ConnectionInv
<1>6. LoopInv' BY <1>0, <1>3, <1>4, Zenon DEF LoopInv
<1>7. DisarmInv' BY <1>0, <1>01, <1>2, <1>3, Zenon DEF DisarmInv, Disarms
<1> QED BY <1>5, <1>6, <1>7, Zenon

(* The poll and the reads: an exit that is polled has happened. *)
LEMMA PollDisarm ==
  ASSUME IInv, ConnectionInv, LoopInv, DisarmInv, NEW s \in Shims, LoopPolls(s) \/ LoopReads(s), UNCHANGED <<scene, link>>
  PROVE  ConnectionInv' /\ LoopInv' /\ DisarmInv'
<1>0. UNCHANGED <<cosca, end, st, orphaned, pending, polled, acceptor, start, live, drop, sent, down>>
  BY Zenon DEF LoopPolls, LoopReads, AtRound, link, state, accepts, callers
<1>01. start = "Live" => live \in Shims BY Zenon DEF IInv, Shape, LinkShape
<1>02. shim \in [Shims -> Places] BY DEF IInv, Shape, RunShape
<1>1. shim[s] \in {"poll", "read"} /\ \E to \in {"read", "serve"} : shim' = [shim EXCEPT ![s] = to]
  BY Zenon DEF LoopPolls, LoopReads, AtRound, Goto
<1>2. shim'[s] \in {"read", "serve"} /\ \A r \in Shims \ {s} : shim'[r] = shim[r] BY <1>02, <1>1
<1>3. ConnectionInv' BY <1>0, <1>2, Zenon DEF ConnectionInv
<1>4. /\ DOMAIN ev' = Shims /\ \A r \in Shims \ {s} : ev'[r] = ev[r]
      /\ {"control", "owner_exited"} \subseteq DOMAIN ev'[s] /\ (ev'[s].owner_exited => cosca = "gone")
  <2>1. CASE LoopPolls(s)
    <3> DEFINE e == [NoEvents EXCEPT !.child_exited = child[s] \in {"zombie", "gone"},
                                     !.owner_exited = st[s].owner_watched /\ OwnerFired(s),
                                     !.status_ready = st[s].exec_pending /\ StatusReadable(s)]
    <3>1. ev' = [ev EXCEPT ![s] = e] BY <2>1, Zenon DEF LoopPolls
    <3>2. {"control", "owner_exited"} \subseteq DOMAIN e BY DEF NoEvents
    <3>3. e.owner_exited => OwnerFired(s) BY Zenon DEF NoEvents
    <3> HIDE DEF e
    <3> QED BY <3>1, <3>2, <3>3, Zenon DEF LoopInv, OwnerFired
  <2>2. CASE LoopReads(s)
    <3>1. (\E a : ev' = [ev EXCEPT ![s].signaled = a]) \/ (\E a, b : ev' = [ev EXCEPT ![s].signaled = a, ![s].exec = b])
      BY <2>2, Zenon DEF LoopReads
    <3>2. DOMAIN ev = Shims /\ {"control", "owner_exited"} \subseteq DOMAIN ev[s] /\ (ev[s].owner_exited => cosca = "gone")
      BY Zenon DEF LoopInv
    <3>3. DOMAIN ev' = Shims /\ (\A r \in Shims \ {s} : ev'[r] = ev[r]) BY <3>1, <3>2, Zenon
    <3>4. DOMAIN ev'[s] = DOMAIN ev[s] /\ ev'[s].owner_exited = ev[s].owner_exited
      <4>1. ASSUME NEW e, NEW a, NEW b,
                   e = [ev[s] EXCEPT !.signaled = a] \/ e = [[ev[s] EXCEPT !.signaled = a] EXCEPT !.exec = b]
            PROVE  DOMAIN e = DOMAIN ev[s] /\ e.owner_exited = ev[s].owner_exited
        BY <3>2, <4>1, Zenon
      <4>2. CASE \E a : ev' = [ev EXCEPT ![s].signaled = a]
        <5> PICK a : ev' = [ev EXCEPT ![s].signaled = a] BY <4>2, Zenon
        <5>1. ev'[s] = [ev[s] EXCEPT !.signaled = a] BY <3>2
        <5> QED BY <4>1, <5>1, Zenon
      <4>3. CASE \E a, b : ev' = [ev EXCEPT ![s].signaled = a, ![s].exec = b]
        <5> PICK a, b : ev' = [ev EXCEPT ![s].signaled = a, ![s].exec = b] BY <4>3, Zenon
        <5>1. ev'[s] = [[ev[s] EXCEPT !.signaled = a] EXCEPT !.exec = b] BY <3>2
        <5> QED BY <4>1, <5>1, Zenon
      <4> QED BY <3>1, <4>2, <4>3, Zenon
    <3> QED BY <3>2, <3>3, <3>4, Zenon
  <2> QED BY <2>1, <2>2, Zenon
<1>5. LoopInv' BY <1>0, <1>4, Zenon DEF LoopInv
<1>6. DisarmInv' BY <1>0, <1>01, <1>1, <1>2, Zenon DEF DisarmInv, Disarms
<1> QED BY <1>3, <1>5, <1>6, Zenon

(* The bytes a round serves: "nothing" counts as one. *)
Bytes(controls) == IF controls = <<>> THEN <<"Nothing">> ELSE controls

(* drain_control gives the bytes of the connection, its end last. *)
LEMMA Drained ==
  ASSUME NEW s \in Shims, QueueShape
  PROVE  LET bytes == Bytes(DrainControl(s))
         IN  /\ Len(bytes) \in Nat
             /\ \A i \in 1 .. Len(bytes) : bytes[i] = "Eof" => i = Len(bytes) /\ CoscaHungUp(s)
             /\ st[s].conn_open /\ Has(down[s], "D") => \E j \in 1 .. Len(bytes) : bytes[j] = "D"
<1> DEFINE controls == DrainControl(s)
           bytes == Bytes(controls)
<1>1. down[s] \in Seq(Commands) BY Zenon DEF QueueShape
<1>2. \A i \in DOMAIN down[s] : down[s][i] # "Eof" BY <1>1 DEF Commands
<1>3. CASE controls = <<>>
  <2>1. bytes = <<"Nothing">> BY <1>3, Zenon DEF Bytes
  <2>2. st[s].conn_open => down[s] = <<>>
    <3>1. CASE CoscaHungUp(s) /\ st[s].conn_open
      <4>1. controls = down[s] \o <<"Eof">> BY <3>1, Zenon DEF DrainControl
      <4> HIDE DEF controls
      <4> QED BY <1>1, <1>3, <4>1
    <3>2. CASE ~CoscaHungUp(s) /\ st[s].conn_open BY <1>1, <1>3, <3>2 DEF DrainControl
    <3> QED BY <3>1, <3>2, Zenon
  <2>3. ~(st[s].conn_open /\ Has(down[s], "D")) BY <2>2, EmptyHas, Zenon
  <2> HIDE DEF bytes
  <2>4. Len(bytes) = 1 /\ bytes[1] = "Nothing" BY <2>1
  <2>5. \A i \in 1 .. Len(bytes) : bytes[i] # "Eof" BY <2>4
  <2>6. Len(bytes) \in Nat BY <2>4
  <2> QED BY <2>3, <2>5, <2>6, Zenon DEF bytes
<1>4. CASE controls # <<>>
  <2>1. bytes = controls BY <1>4, Zenon DEF Bytes
  <2>2. CASE st[s].conn_open /\ ~CoscaHungUp(s)
    <3>1. controls = down[s] BY <1>1, <2>2 DEF DrainControl
    <3> HIDE DEF bytes, controls
    <3>2. Len(bytes) \in Nat /\ DOMAIN down[s] = 1 .. Len(bytes) BY <1>1, <2>1, <3>1
    <3> QED BY <1>2, <2>1, <3>1, <3>2, Zenon DEF Has, bytes, controls
  <2>3. CASE st[s].conn_open /\ CoscaHungUp(s)
    <3>1. controls = down[s] \o <<"Eof">> BY <2>3, Zenon DEF DrainControl
    <3> HIDE DEF bytes, controls
    <3>2. Len(bytes) = Len(down[s]) + 1 /\ Len(down[s]) \in Nat BY <1>1, <2>1, <3>1
    <3>3. \A i \in DOMAIN down[s] : i \in 1 .. Len(bytes) /\ bytes[i] = down[s][i] BY <1>1, <2>1, <3>1
    <3>4. \A i \in 1 .. Len(bytes) : i # Len(bytes) => i \in DOMAIN down[s] BY <1>1, <3>2
    <3>5. Len(bytes) \in Nat BY <3>2
    <3> QED BY <1>2, <2>3, <3>3, <3>4, <3>5, Zenon DEF Has, bytes, controls
  <2>4. CASE ~st[s].conn_open BY <1>4, <2>4, Zenon DEF DrainControl
  <2> QED BY <2>2, <2>3, <2>4, Zenon
<1> QED BY <1>3, <1>4, Zenon

(* What a round finds, of the owner, of the connection and of a D. *)
RoundFits(s, round) ==
  /\ round.state.armed => st[s].armed /\ ~(st[s].conn_open /\ Has(down[s], "D"))
  /\ ~round.state.conn_open => ~st[s].conn_open \/ CoscaHungUp(s)
  /\ round.owner => /\ st[s].armed /\ ~(st[s].conn_open /\ Has(down[s], "D"))
                    /\ ev[s].owner_exited \/ CoscaHungUp(s)

(* The round itself: a shim that has a D, or that reads one before the end of *)
(* the connection or with the exit, kills nothing for its owner's sake.       *)
LEMMA ServesDisarm ==
  ASSUME IInv, ConnectionInv, LoopInv, DisarmInv, NEW s \in Shims, LoopServes(s), UNCHANGED <<scene, link>>,
         RoundFits(s, Round(st[s], DrainControl(s), ev[s]))
  PROVE  ConnectionInv' /\ LoopInv' /\ DisarmInv'
<1> DEFINE round == Round(st[s], DrainControl(s), ev[s])
<1>0. UNCHANGED <<cosca, end, pending, polled, acceptor, start, live, drop, sent>>
  BY Zenon DEF LoopServes, link, state, accepts, callers
<1>01. start = "Live" => live \in Shims BY Zenon DEF IInv, Shape, LinkShape
<1>02. shim \in [Shims -> Places] /\ QueueShape BY Zenon DEF IInv, Shape, RunShape
<1>1. /\ round.state.armed => st[s].armed /\ ~(st[s].conn_open /\ Has(down[s], "D"))
      /\ ~round.state.conn_open => ~st[s].conn_open \/ CoscaHungUp(s)
      /\ round.owner => /\ st[s].armed /\ ~(st[s].conn_open /\ Has(down[s], "D"))
                        /\ ev[s].owner_exited \/ CoscaHungUp(s)
  BY Zenon DEF RoundFits
<1>2. /\ shim[s] = "serve" /\ \E to \in {"poll", "reap"} : shim' = [shim EXCEPT ![s] = to]
      /\ st' = [st EXCEPT ![s] = round.state] /\ ev' = [ev EXCEPT ![s] = NoEvents]
      /\ orphaned' = IF round.owner THEN orphaned \cup {s} ELSE orphaned
      /\ down' = IF st[s].conn_open THEN [down EXCEPT ![s] = <<>>] ELSE down
  BY Zenon DEF LoopServes, Goto
<1> HIDE DEF round
<1>3. shim'[s] \in {"poll", "reap"} /\ \A r \in Shims \ {s} : shim'[r] = shim[r] BY <1>02, <1>2
<1>4. /\ DOMAIN st' = Shims /\ st'[s] = round.state /\ \A r \in Shims \ {s} : st'[r] = st[r]
      /\ DOMAIN ev' = Shims /\ ev'[s] = NoEvents /\ \A r \in Shims \ {s} : ev'[r] = ev[r]
  BY <1>2, Zenon DEF LoopInv
<1>5. \A r \in Shims \ {s} : down'[r] = down[r] /\ (r \in orphaned' <=> r \in orphaned) BY <1>02, <1>2 DEF QueueShape
<1>6. ~NoEvents.owner_exited /\ {"control", "owner_exited"} \subseteq DOMAIN NoEvents BY Zenon DEF NoEvents
<1>7. ConnectionInv' BY <1>0, <1>3, Zenon DEF ConnectionInv
<1>8. LoopInv'
  <2>1. ~round.state.conn_open => end[s] = "closed" BY <1>1, Zenon DEF LoopInv, CoscaHungUp
  <2>2. s \in orphaned' => cosca # "up" \/ end[s] = "closed"
    <3>1. CASE round.owner BY <1>1, <3>1, Zenon DEF LoopInv, CoscaHungUp
    <3>2. CASE ~round.owner BY <1>2, <3>2, Zenon DEF LoopInv
    <3> QED BY <3>1, <3>2
  <2> QED BY <1>0, <1>4, <1>5, <1>6, <2>1, <2>2, Zenon DEF LoopInv
<1>9. DisarmInv'
  <2> SUFFICES ASSUME "D" \in sent PROVE DisarmInv' BY <1>0, Zenon DEF DisarmInv
  <2>1. start = "Live" /\ live \in Shims /\ live \notin orphaned /\ Disarms(live) BY <1>01, Zenon DEF DisarmInv
  <2>2. CASE live # s BY <1>0, <1>3, <1>4, <1>5, <2>1, <2>2, Zenon DEF DisarmInv, Disarms
  <2>3. CASE live = s
    <3>1. ~st[s].armed \/ (st[s].conn_open /\ Has(down[s], "D")) BY <1>2, <2>1, <2>3, Zenon DEF Disarms
    <3>2. ~round.owner /\ ~round.state.armed BY <1>1, <3>1, Zenon
    <3>3. orphaned' = orphaned BY <1>2, <3>2
    <3> QED BY <1>0, <1>4, <2>1, <2>3, <3>2, <3>3, Zenon DEF DisarmInv, Disarms
  <2> QED BY <2>2, <2>3, Zenon
<1> QED BY <1>7, <1>8, <1>9, Zenon

-----------------------------------------------------------------------------
(* The supervision loop: a round of any number of bytes                     *)

(* What a round has found so far. *)
SoFar(a, b, c) == [state |-> a, owner |-> b, signals |-> c]

(* One byte of a round: what the loop does to what it has by then. *)
ByteServed(f, i, was, bytes, events) ==
  IF i = 0 THEN SoFar(was, FALSE, {})
  ELSE LET d == Decide(f[i - 1].state,
                       [(IF i = Len(bytes) THEN events ELSE NoEvents) EXCEPT !.control = bytes[i]])
       IN SoFar(d.state, f[i - 1].owner \/ d.owner, f[i - 1].signals \cup {d.signal})

(* The bytes of a round served one by one, up to the n-th. *)
Serves(f, n, was, bytes, events) == f = [i \in 0 .. n |-> ByteServed(f, i, was, bytes, events)]

(* One more byte: D disarms, Eof ends the connection, and the owner's end    *)
(* counts only while armed, the exit only with the last byte.                *)
LEMMA ByteStep ==
  ASSUME NEW f, NEW n \in Nat, NEW was, NEW bytes, NEW events, Serves(f, n, was, bytes, events),
         {"control", "owner_exited"} \subseteq DOMAIN events, NEW i \in 1 .. n
  PROVE  /\ f[i].state.armed <=> f[i - 1].state.armed /\ bytes[i] # "D"
         /\ f[i].state.conn_open <=> f[i - 1].state.conn_open /\ bytes[i] # "Eof"
         /\ f[i].owner => \/ f[i - 1].owner
                          \/ f[i - 1].state.armed /\ bytes[i] = "Eof"
                          \/ /\ f[i - 1].state.armed /\ bytes[i] # "D"
                             /\ i = Len(bytes) /\ events.owner_exited
<1> DEFINE e == [(IF i = Len(bytes) THEN events ELSE NoEvents) EXCEPT !.control = bytes[i]]
           d == Decide(f[i - 1].state, e)
<1>1. e.control = bytes[i] /\ (e.owner_exited => i = Len(bytes) /\ events.owner_exited)
  <2>1. CASE i = Len(bytes)
    <3>1. e = [events EXCEPT !.control = bytes[i]] BY <2>1
    <3>2. e.control = bytes[i] BY <3>1
    <3>3. e.owner_exited = events.owner_exited BY <3>1
    <3> QED BY <2>1, <3>2, <3>3
  <2>2. CASE i # Len(bytes) BY <2>2, Zenon DEF NoEvents
  <2> QED BY <2>1, <2>2
<1>2. f[i].state = d.state /\ (f[i].owner <=> f[i - 1].owner \/ d.owner)
  <2>1. i \in 0 .. n /\ i # 0 OBVIOUS
  <2>2. f[i] = ByteServed(f, i, was, bytes, events) BY <2>1, Zenon DEF Serves
  <2>3. f[i] = SoFar(d.state, f[i - 1].owner \/ d.owner, f[i - 1].signals \cup {d.signal})
    BY <2>1, <2>2, Zenon DEF ByteServed
  <2> DEFINE o == f[i - 1].owner \/ d.owner
  <2>4. f[i] = SoFar(d.state, o, f[i - 1].signals \cup {d.signal}) BY <2>3, Zenon
  <2> HIDE DEF d, o
  <2>5. f[i].state = d.state /\ f[i].owner = o BY ONLY <2>4, SMT DEF SoFar
  <2> QED BY <2>5, Zenon DEF o
<1> HIDE DEF e
<1>3. /\ d.state.armed <=> f[i - 1].state.armed /\ e.control # "D"
      /\ d.state.conn_open <=> f[i - 1].state.conn_open /\ e.control # "Eof"
      /\ d.owner => f[i - 1].state.armed /\ (e.control = "Eof" \/ (e.control # "D" /\ e.owner_exited))
  BY Zenon DEF Decide
<1> HIDE DEF d
<1> QED BY <1>1, <1>2, <1>3, Zenon

INSTANCE WellFoundedInduction

(* Induction over the numbers, for a set of them. *)
LEMMA SetInduction ==
  ASSUME NEW T, 0 \in T, \A n \in Nat : n \in T => n + 1 \in T
  PROVE  \A n \in Nat : n \in T
<1> DEFINE B == {n \in Nat : n \notin T}
<1> SUFFICES ASSUME B # {} PROVE FALSE OBVIOUS
<1>1. IsWellFoundedOn(OpToRel(<, Nat), Nat) BY NatLessThanWellFounded, Zenon
<1>2. B \subseteq Nat OBVIOUS
<1> HIDE DEF B
<1>3. PICK m \in B : \A y \in B : ~(<<y, m>> \in OpToRel(<, Nat))
  BY <1>1, <1>2, WFMin, Zenon
<1> USE DEF B
<1>4. m \in Nat /\ m # 0 BY <1>3, Zenon
<1>5. m - 1 \in B
  <2>1. m - 1 \in Nat /\ (m - 1) + 1 = m BY <1>4
  <2>2. m - 1 \in T => (m - 1) + 1 \in T BY <2>1, Zenon
  <2> QED BY <1>3, <2>1, <2>2, Zenon
<1>6. <<m - 1, m>> \in OpToRel(<, Nat) BY <1>4, SMT DEF OpToRel
<1> QED BY <1>3, <1>5, <1>6, Zenon

(* There is such a function: the loop over the bytes of a round is defined    *)
(* whatever bytes there are, and however many.                               *)
LEMMA RoundFunction ==
  ASSUME NEW was, NEW bytes, NEW events, NEW n \in Nat
  PROVE  \E f : Serves(f, n, was, bytes, events)
<1> DEFINE T == {m \in Nat : \E f : Serves(f, m, was, bytes, events)}
<1>1. 0 \in T
  <2> DEFINE g == [i \in 0 .. 0 |-> SoFar(was, FALSE, {})]
  <2>1. g = [i \in 0 .. 0 |-> ByteServed(g, i, was, bytes, events)] BY DEF ByteServed
  <2> QED BY <2>1, Zenon DEF Serves
<1>2. ASSUME NEW m \in Nat, m \in T PROVE m + 1 \in T
  <2> PICK f : f = [i \in 0 .. m |-> ByteServed(f, i, was, bytes, events)] BY <1>2, Zenon DEF Serves
  <2> DEFINE g == [i \in 0 .. m + 1 |-> IF i = m + 1 THEN ByteServed(f, i, was, bytes, events) ELSE f[i]]
  <2>1. \A i \in 0 .. m : g[i] = f[i] OBVIOUS
  <2>2. ASSUME NEW i \in 0 .. m + 1 PROVE g[i] = ByteServed(g, i, was, bytes, events)
    <3>1. g[i] = ByteServed(f, i, was, bytes, events) OBVIOUS
    <3>2. i = 0 \/ (i - 1 \in 0 .. m /\ g[i - 1] = f[i - 1]) BY <2>1
    <3> HIDE DEF g
    <3> QED BY <3>1, <3>2, Zenon DEF ByteServed
  <2>3. g = [i \in 0 .. m + 1 |-> g[i]] OBVIOUS
  <2> HIDE DEF g
  <2>4. g = [i \in 0 .. m + 1 |-> ByteServed(g, i, was, bytes, events)] BY <2>2, <2>3, Zenon
  <2>5. \E h : Serves(h, m + 1, was, bytes, events) BY <2>4, Zenon DEF Serves
  <2> QED BY <2>5
<1> HIDE DEF T
<1>3. n \in T BY <1>1, <1>2, SetInduction, Zenon
<1> QED BY <1>3 DEF T

(* A round is what it is after the last byte. *)
LEMMA RoundIs ==
  ASSUME NEW was, NEW controls, NEW events, Len(Bytes(controls)) \in Nat
  PROVE  \E f : /\ Serves(f, Len(Bytes(controls)), was, Bytes(controls), events)
                /\ Round(was, controls, events) = f[Len(Bytes(controls))]
<1> DEFINE bytes == Bytes(controls)
           F == CHOOSE f : Serves(f, Len(bytes), was, bytes, events)
<1>1. Serves(F, Len(bytes), was, bytes, events)
  <2>1. \E f : Serves(f, Len(bytes), was, bytes, events) BY RoundFunction, Zenon
  <2> QED BY <2>1, Zenon
<1>2. Round(was, controls, events) = F[Len(bytes)] BY DEF Round, Serves, ByteServed, SoFar, Bytes
<1> QED BY <1>1, <1>2, Zenon

(* A round over the bytes of a connection, its Eof last: a state that was     *)
(* disarmed, or that reads a D, ends disarmed and finds no owner gone; and     *)
(* only an Eof or the owner's exit finds one.                                 *)
LEMMA RoundFound ==
  ASSUME NEW was, NEW bytes, NEW events, {"control", "owner_exited"} \subseteq DOMAIN events, Len(bytes) \in Nat,
         \A i \in 1 .. Len(bytes) : bytes[i] = "Eof" => i = Len(bytes),
         NEW f, Serves(f, Len(bytes), was, bytes, events)
  PROVE  /\ f[Len(bytes)].state.armed => was.armed /\ \A j \in 1 .. Len(bytes) : bytes[j] # "D"
         /\ ~f[Len(bytes)].state.conn_open => ~was.conn_open \/ \E j \in 1 .. Len(bytes) : bytes[j] = "Eof"
         /\ f[Len(bytes)].owner => /\ was.armed /\ \A j \in 1 .. Len(bytes) : bytes[j] # "D"
                                   /\ events.owner_exited \/ \E j \in 1 .. Len(bytes) : bytes[j] = "Eof"
<1> DEFINE Among(n, b) == \E j \in 1 .. n : bytes[j] = b
           P(n) == /\ f[n].state.armed => was.armed /\ ~Among(n, "D")
                   /\ ~f[n].state.conn_open => ~was.conn_open \/ Among(n, "Eof")
                   /\ f[n].owner => /\ n = Len(bytes) /\ was.armed /\ ~Among(n, "D")
                                    /\ events.owner_exited \/ Among(n, "Eof")
           T == {n \in Nat : n <= Len(bytes) => P(n)}
<1>1. 0 \in T
  <2>1. 0 \in 0 .. Len(bytes) OBVIOUS
  <2>2. f[0] = ByteServed(f, 0, was, bytes, events) BY <2>1, Zenon DEF Serves
  <2> DEFINE none == FALSE
  <2>3. f[0] = SoFar(was, none, {}) BY <2>2, Zenon DEF ByteServed
  <2> HIDE DEF none
  <2>4. f[0].state = was /\ f[0].owner = none BY ONLY <2>3, SMT DEF SoFar
  <2>5. f[0].state = was /\ ~f[0].owner BY <2>4, Zenon DEF none
  <2>6. \A j \in 1 .. 0 : FALSE OBVIOUS
  <2>7. P(0) BY <2>5, <2>6, Zenon
  <2> QED BY <2>7, Zenon
<1>2. ASSUME NEW n \in Nat, n \in T PROVE n + 1 \in T
  <2> SUFFICES ASSUME n + 1 <= Len(bytes) PROVE P(n + 1) OBVIOUS
  <2>1. n + 1 \in 1 .. Len(bytes) /\ (n + 1) - 1 = n /\ n # Len(bytes) /\ n <= Len(bytes) OBVIOUS
  <2>2. P(n) BY <1>2, <2>1, Zenon
  <2>3. ASSUME NEW b PROVE Among(n + 1, b) <=> Among(n, b) \/ bytes[n + 1] = b
    <3>1. \A j : j \in 1 .. n + 1 <=> j \in 1 .. n \/ j = n + 1 OBVIOUS
    <3> QED BY <3>1, Zenon
  <2>4. /\ f[n + 1].state.armed <=> f[n].state.armed /\ bytes[n + 1] # "D"
        /\ f[n + 1].state.conn_open <=> f[n].state.conn_open /\ bytes[n + 1] # "Eof"
        /\ f[n + 1].owner => \/ f[n].owner
                             \/ f[n].state.armed /\ bytes[n + 1] = "Eof"
                             \/ /\ f[n].state.armed /\ bytes[n + 1] # "D"
                                /\ n + 1 = Len(bytes) /\ events.owner_exited
    BY <2>1, ByteStep
  <2>5. bytes[n + 1] = "Eof" => n + 1 = Len(bytes) BY <2>1, Zenon
  <2> HIDE DEF Among
  <2> QED BY <2>1, <2>2, <2>3, <2>4, <2>5, Zenon
<1> HIDE DEF T
<1>3. Len(bytes) \in T BY <1>1, <1>2, SetInduction, Zenon
<1>4. P(Len(bytes)) BY <1>3 DEF T
<1> QED BY <1>4, Zenon

(* So a round of the loop fits, whatever bytes came and in whatever number. *)
LEMMA RoundServed ==
  ASSUME NEW s \in Shims, QueueShape, LoopInv
  PROVE  RoundFits(s, Round(st[s], DrainControl(s), ev[s]))
<1> DEFINE controls == DrainControl(s)
           bytes == Bytes(controls)
           round == Round(st[s], controls, ev[s])
<1>1. /\ Len(bytes) \in Nat
      /\ \A i \in 1 .. Len(bytes) : bytes[i] = "Eof" => i = Len(bytes) /\ CoscaHungUp(s)
      /\ st[s].conn_open /\ Has(down[s], "D") => \E j \in 1 .. Len(bytes) : bytes[j] = "D"
  BY Drained, Zenon
<1>2. {"control", "owner_exited"} \subseteq DOMAIN ev[s] BY Zenon DEF LoopInv
<1>3. PICK f : Serves(f, Len(bytes), st[s], bytes, ev[s]) /\ round = f[Len(bytes)] BY <1>1, RoundIs, Zenon
<1> HIDE DEF bytes, round
<1>4. \A i \in 1 .. Len(bytes) : bytes[i] = "Eof" => i = Len(bytes) BY <1>1, Zenon
<1>5. /\ f[Len(bytes)].state.armed => st[s].armed /\ \A j \in 1 .. Len(bytes) : bytes[j] # "D"
      /\ ~f[Len(bytes)].state.conn_open => ~st[s].conn_open \/ \E j \in 1 .. Len(bytes) : bytes[j] = "Eof"
      /\ f[Len(bytes)].owner => /\ st[s].armed /\ \A j \in 1 .. Len(bytes) : bytes[j] # "D"
                                /\ ev[s].owner_exited \/ \E j \in 1 .. Len(bytes) : bytes[j] = "Eof"
  BY <1>1, <1>2, <1>3, <1>4, RoundFound, Zenon
<1>6. RoundFits(s, round) BY <1>1, <1>3, <1>5, Zenon DEF RoundFits
<1> QED BY <1>6, Zenon DEF round

(* What the disarm needs is inductive, given IInv. *)
LEMMA DisarmStep ==
  ASSUME IInv, ConnectionInv, LoopInv, DisarmInv, [Next]_<<vars, scene>>
  PROVE  ConnectionInv' /\ LoopInv' /\ DisarmInv'
<1>1. CASE UNCHANGED <<vars, scene>>
  <2>1. UNCHANGED <<cosca, end, pending, polled, acceptor, start, live, drop, sent, down, st, ev, orphaned, shim>>
    BY <1>1, Zenon DEF vars, channel, link, state, accepts, callers, run, loop
  <2>2. ConnectionInv' BY <2>1, Zenon DEF ConnectionInv
  <2>3. LoopInv' BY <2>1, Zenon DEF LoopInv
  <2>4. DisarmInv' BY <2>1, Zenon DEF DisarmInv, Disarms
  <2> QED BY <2>2, <2>3, <2>4, Zenon
<1>2. CASE LinkNext /\ UNCHANGED <<run, scene>> BY <1>2, AcceptorDisarm, CallerDisarm, Zenon DEF LinkNext
<1>3. CASE RunNext /\ UNCHANGED <<link, scene>>
  <2> PICK s \in scene.shims :
        \/ Launched(s) \/ ShimStep(s) \/ ChildStep(s)
        \/ LoopFails(s) \/ SetupFails(s) \/ ProgramExits(s) \/ ChildTermed(s) \/ ForeignReap(s)
        \/ SignalReaches(s) \/ ShimCrashes(s)
    BY <1>3, Zenon DEF RunNext
  <2>1. s \in Shims BY ScenesAssumption, Zenon DEF IInv, Shape, LinkShape
  <2>2. CASE Aside(s) BY <2>1, <2>2, AsideDisarm, Zenon
  <2>3. RoundFits(s, Round(st[s], DrainControl(s), ev[s])) BY <2>1, RoundServed, Zenon DEF IInv, Shape
  <2> QED BY <1>3, <2>1, <2>2, <2>3, AsideSteps, ConnectDisarm, LeavesDisarm, PollDisarm, ServesDisarm, Zenon DEF ShimStep
<1>4. CASE (CoscaStep \/ CopyStep) /\ UNCHANGED <<link, run, scene>> BY <1>4, ProcessDisarm, Zenon
<1> QED BY <1>1, <1>2, <1>3, <1>4, Zenon DEF Next, Over

(* Once D is sent, neither cosca's exit nor the end of the connection kills    *)
(* the program: the bytes of a round are served in order and the exit after    *)
(* the last of them, whatever their number (decide, serve's control loop).     *)
THEOREM DisarmIsKept == Spec => []DisarmHolds
<1>1. Init => ConnectionInv /\ LoopInv /\ DisarmInv
  <2> SUFFICES ASSUME Init PROVE ConnectionInv /\ LoopInv /\ DisarmInv OBVIOUS
  <2> USE DEF Init, ChannelInit, LinkInit, RunInit
  <2>1. ConnectionInv BY Zenon DEF ConnectionInv
  <2>2. LoopInv BY Zenon DEF LoopInv, LoopStart, NoEvents
  <2>3. DisarmInv BY Zenon DEF DisarmInv
  <2> QED BY <2>1, <2>2, <2>3, Zenon
<1>2. (ConnectionInv /\ LoopInv /\ DisarmInv) /\ IInv /\ [Next]_<<vars, scene>> => (ConnectionInv /\ LoopInv /\ DisarmInv)'
  BY DisarmStep, Zenon
<1>3. DisarmInv => DisarmHolds BY DEF DisarmInv, DisarmHolds
<1> QED BY <1>1, <1>2, <1>3, Invariance, PTL DEF Spec
=============================================================================
