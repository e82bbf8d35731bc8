----------------------------- MODULE ShimSession -----------------------------
(***************************************************************************)
(* cosca and the shims a front starts, over their channel: ShimLink on one *)
(* side, ShimRun on the other, and either process may end at any moment.   *)
(***************************************************************************)
EXTENDS ShimLink, ShimRun

vars == <<channel, link, run>>

Init == ChannelInit /\ LinkInit /\ RunInit

CoscaStep == CoscaDies /\ (CoscaCloses \/ CoscaExits \/ PidReused)
CopyStep == Copies /\ (Forks \/ CopyExits)

\* Every shim is gone and cosca has nothing left to do.
Over ==
  /\ \A s \in scene.shims : Ended(s) /\ child[s] \notin Alive
  /\ UNCHANGED vars

Next ==
  /\ \/ LinkNext /\ UNCHANGED run
     \/ RunNext /\ UNCHANGED link
     \/ (CoscaStep \/ CopyStep) /\ UNCHANGED <<link, run>>
     \/ Over
  /\ UNCHANGED scene

Spec == Init /\ [][Next]_<<vars, scene>>

\* cosca's own threads are scheduled.  So are shims and held children, unless
\* the scene lets them be stopped for ever, and a cosca that has closed its
\* descriptors goes on to exit.  (One fairness does for all of them, since none
\* runs for ever by itself.)  Nothing makes a program exit, a copy end, a
\* caller call or a front start a shim.
FairSpec ==
  /\ Spec
  /\ WF_vars(Acceptor /\ UNCHANGED run)
  /\ WF_vars(Teardown /\ UNCHANGED run)
  /\ \A t \in Threads : WF_vars(Waiter(t) /\ UNCHANGED run)
  /\ WF_vars(~Stalls /\ (\E s \in scene.shims : ShimStep(s) \/ ChildStep(s)) /\ UNCHANGED link)
  /\ WF_vars(CoscaDies /\ CoscaExits /\ UNCHANGED <<link, run>>)

-----------------------------------------------------------------------------
\* StartState: of all the shims a front may start, at most one is ever told to
\* start, and a start that was refused, by kill, by a wait, by the teardown or
\* by a failing acceptor, stays refused whatever hello arrives later.
OneStart == \A s \in ran : start = "Live" /\ live = s

\* LinkOutcome: what the link reports is true of the program's process when it
\* is reported: NotStarted of a program that never runs, every other outcome but
\* ShimLost of one that has ended.  A child's report is, in conclude's words,
\* "positive evidence the program never ran, whatever the reap gave", whenever
\* the child was killed or reaped after it.  So is what kill is told: AlreadyEnded
\* is said only of a program that has ended or never ran, RefusedStart only when
\* none will.
OutcomeIsTrue ==
  /\ outcome \in NotStarted => ran = {}
  /\ ProgramIsGone(outcome) /\ live # Nobody => child[live] \notin Alive
  /\ live \in wrote => outcome \notin {"Exited", "SupervisionLost", "StatusLost"}
  /\ "AlreadyEnded" \in told => \A s \in Shims : child[s] \notin Alive
  /\ "RefusedStart" \in told => ran = {}

\* watch_owner opens a pidfd on a number; the answer, which only cosca can have
\* written, and after the hello, proves that the number was still cosca's.
OwnerWatchIsCosca ==
  \A s \in Shims : child[s] # "none" => watch[s] = "cosca"

\* decide, "a D and the exit in one round leave the program": once D is on its
\* way, neither cosca's exit nor the end of the connection kills the program.
DisarmHolds == "D" \in sent => live \notin orphaned

\* The program must end: its shim was killed, a K was delivered, cosca ended
\* without a teardown or with one, and no disarm was sent.
Condemned(s) ==
  \/ shim[s] = "crashed" \/ "Delivered" \in told
  \/ (cosca = "gone" \/ (drop = "done" /\ s \notin kept)) /\ "D" \notin sent

\* Nothing outlives what should end it: a shim killed at any moment takes its
\* program along (PDEATHSIG once the child has armed it, the child's own look at
\* its parent before that), K ends the program also when it overtakes the start,
\* a cosca that ends takes the program with it by EOF, or by the owner's pidfd
\* when a copy keeps the connection open, and a teardown ends every shim.
NothingOutlives ==
  []<>(\A s \in scene.shims :
         Stalls \/ ~Condemned(s) \/ (child[s] \notin Alive /\ (drop = "done" => shim[s] = "idle" \/ Ended(s))))

\* Every wait returns once the frame is there, whichever thread reads it, and
\* without any further step of the shim; and Drop joins the acceptor, whatever
\* wakes a fork copy sends it and whatever the shims do.  (The calls of a behaviour are
\* finitely many, so "in the end all are idle" is "each returns".)
WaitersReturn ==
  /\ []<>(\/ \A t \in Threads : call[t] = "idle"
          \/ outcome = "none" /\ (live = Nobody \/ up[live] = <<>>)
          \/ cosca # "up")
  /\ []<>(drop \in {"no", "done"} \/ cosca # "up")
=============================================================================
