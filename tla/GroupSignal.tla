----------------------------- MODULE GroupSignal -----------------------------
(***************************************************************************)
(* signal_group (containment/unix.rs and containment/unix/group.rs): send  *)
(* a signal to the root's process group, then list the group and settle    *)
(* every member of the listing one by one.  SIGKILL is resent to each;     *)
(* SIGTERM is only probed for, never sent twice.  Each kernel call is a    *)
(* step of its own: processes die, fork, are reaped and have their numbers *)
(* taken in between.                                                       *)
(***************************************************************************)
EXTENDS ProcessGroup

VARIABLES
  pc,             \* where the call is
  sig,            \* "kill" or "term"
  todo,           \* the listed members not settled yet
  cur,            \* the member being settled
  refused,        \* converge's refused
  unassessable,   \* converge's unassessable
  outcome,        \* the answer of signal_group
  tree_killed     \* Child.tree_killed: a kill of the whole tree was complete

pass == <<sig, todo, cur, refused, unassessable, outcome>>

\* A step of the call that changes nothing in the kernel.
Quietly == fresh' = FALSE /\ UNCHANGED <<life, reaper, away, taker, leads, held, missed, terms, struck>>

Goto(next) == pc' = next /\ Quietly /\ UNCHANGED pass

\* signal_group answers; converge's locals are gone.
Sent(answer) ==
  /\ outcome' = answer /\ pc' = "sent"
  /\ todo' = {} /\ refused' = {} /\ unassessable' = {}
  /\ Quietly /\ UNCHANGED <<sig, cur>>

-----------------------------------------------------------------------------
(* send_to_group, signal_direct *)

AfterSend(answer) == IF answer = "EPERM" THEN "direct" ELSE "list"

\* Through the root's pidfd, which names the group exactly; EINVAL without the flag.
SendThroughPidfd ==
  /\ pc = "send" /\ Flag
  /\ Take(InGroup, sig)
  /\ \E a \in Answers(InGroup) : pc' = AfterSend(a)
  /\ UNCHANGED pass

FlagRefused == pc = "send" /\ ~Flag /\ Goto("check")

\* Mutant: the number is used without a check of the root.
CheckBeforeKillpgSkipped == pc = "check" /\ Goto("killpg")

\* By number: the root's check, right before the send ...
CheckBeforeKillpg ==
  /\ pc = "check"
  /\ \/ "ok" \in RootChecks /\ Goto("killpg")
     \/ RootChecks # {"ok"} /\ Sent("unassessable")

\* ... and the killpg itself.
Killpg ==
  /\ pc = "killpg"
  /\ Take(GroupOfNumber, sig)
  /\ \E a \in Answers(GroupOfNumber) : pc' = AfterSend(a)
  /\ UNCHANGED pass

\* EPERM: the leader alone, through its pidfd; best effort.
SignalDirect ==
  /\ pc = "direct"
  /\ Take(IF life[Root] \in Unreaped THEN {Root} ELSE {}, sig)
  /\ pc' = "list"
  /\ UNCHANGED pass

-----------------------------------------------------------------------------
(* converge: one listing, every listed member settled *)

Listed(S, skipped) ==
  /\ pc = "list"
  /\ todo' = S \ skipped /\ refused' = {} /\ unassessable' = {}
  /\ missed' = IF tree_killed THEN missed ELSE skipped \cap Members
  /\ pc' = "member"
  /\ UNCHANGED <<life, reaper, away, taker, leads, held, terms, fresh, struck, sig, cur, outcome>>

\* members: a process that hidepid hides, or whose row does not parse, is skipped.
List == \E skipped \in SUBSET Hidden : Listed(GroupOfNumber, skipped)

ListFails == pc = "list" /\ Sent("unlistable")

\* ProcessId::is_alive of a listed member.
IsDead(p) == p # Stranger /\ life[p] \in {"zombie", "reaped"}

\* The member is settled: reached, refused or beyond an answer.
Settled(verdict) ==
  /\ pc' = "member" /\ todo' = todo \ {cur} /\ cur' = Nobody
  /\ refused' = IF verdict = "No" THEN refused \cup {cur} ELSE refused
  /\ unassessable' = IF verdict = "Unknown" THEN unassessable \cup {cur} ELSE unassessable
  /\ UNCHANGED <<sig, outcome>>

\* classify_member: a member known to be dead needs no signal; any other is tried.
NextMember(p) ==
  /\ pc = "member" /\ p \in todo
  /\ \/ IsDead(p) /\ todo' = todo \ {p} /\ UNCHANGED <<pc, cur>>
     \/ cur' = p /\ pc' = (IF sig = "kill" THEN "pin" ELSE "root") /\ UNCHANGED todo
  /\ Quietly /\ UNCHANGED <<sig, refused, unassessable, outcome>>

\* open_verified: a pidfd whose process is the one that was listed.
Pin ==
  /\ pc = "pin"
  /\ \/ IsDead(cur) /\ Settled("Yes") /\ Quietly
     \/ ~IsDead(cur) /\ PidfdOpens /\ Goto("pinned")
     \/ ~PidfdOpens /\ Goto("root")
     \/ Settled("Unknown") /\ Quietly

\* root_check_before_send.
RootCheckBeforeSend(next) ==
  \/ "ok" \in RootChecks /\ Goto(next)
  \/ "Empty" \in RootChecks /\ Settled("Yes") /\ Quietly
  \/ "Unproven" \in RootChecks /\ Settled("Unknown") /\ Quietly

CheckPinned == pc = "pinned" /\ RootCheckBeforeSend("pidfd_send")

\* What a send or a probe that reaches the processes of S says of the member.
Verdict(S) == IF S = {} \/ S \ Refusers # {} THEN "Yes" ELSE "No"

\* A refusal is looked at once more; every other answer settles the member.
AfterAnswer(S) ==
  IF Verdict(S) = "No" THEN pc' = "reconfirm" /\ UNCHANGED pass ELSE Settled(Verdict(S))

PinnedTarget == IF cur = Stranger \/ life[cur] \in Unreaped THEN {cur} ELSE {}

SendMemberPidfd ==
  /\ pc = "pidfd_send"
  /\ Take(PinnedTarget, "kill")
  /\ AfterAnswer(PinnedTarget)

CheckRoot == pc = "root" /\ RootCheckBeforeSend("identity")

\* Whom the member's pid names now.
NumberTarget == IF cur = Stranger THEN {cur} ELSE {Holder(cur)} \ {Nobody}

\* check_or_signal: the member's identity, right before the send by its pid.
CheckIdentity ==
  /\ pc = "identity"
  /\ \/ NumberTarget = {cur} /\ Goto("number")
     \/ NumberTarget # {cur} /\ Settled("Yes") /\ Quietly
     \/ Settled("Unknown") /\ Quietly

\* Mutant: SIGTERM is resent instead of probed for.
SendByNumberResends ==
  /\ pc = "number"
  /\ Take(NumberTarget, sig)
  /\ AfterAnswer(NumberTarget)

\* SIGKILL is resent by the member's pid; SIGTERM is probed for with signal 0.
SendByNumber ==
  /\ pc = "number"
  /\ IF sig = "kill" THEN Take(NumberTarget, "kill") ELSE Quietly
  /\ AfterAnswer(NumberTarget)

\* reconfirm_survivor: a refuser that has died meanwhile is no survivor; a
\* look that cannot say leaves the refusal standing.
Reconfirm ==
  /\ pc = "reconfirm"
  /\ \/ IsDead(cur) /\ Settled("Yes")
     \/ Settled("No")
  /\ Quietly

\* decide, verify.
Decide ==
  /\ pc = "member" /\ todo = {}
  /\ Sent(IF refused # {} THEN "containment" ELSE IF unassessable # {} THEN "unassessable" ELSE "ok")

SignalGroup ==
  \/ SendThroughPidfd \/ FlagRefused \/ CheckBeforeKillpg \/ Killpg \/ SignalDirect
  \/ List \/ ListFails \/ (\E p \in Procs \cup {Stranger} : NextMember(p))
  \/ Pin \/ CheckPinned \/ SendMemberPidfd \/ CheckRoot \/ CheckIdentity \/ SendByNumber
  \/ Reconfirm \/ Decide
=============================================================================
