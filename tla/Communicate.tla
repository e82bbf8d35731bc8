----------------------------- MODULE Communicate -----------------------------
(***************************************************************************)
(* `communicate` under each of its three drivers: the poll loop of Unix,   *)
(* the joined threads of Windows and tokio's try_join.                     *)
(***************************************************************************)
EXTENDS CommunicatePoll, CommunicateJoin

vars == <<pipes, common, host, local, signals, task>>

Init ==
  /\ PipesInit
  /\ \E driver \in {"poll", "threads", "tokio"} :
       PollInit(driver = "poll") /\ JoinInit(driver # "poll", driver = "tokio")

Next ==
  /\ \/ (PollStep \/ HostSignals) /\ UNCHANGED task
     \/ ((\E t \in Tasks : JoinStep(t) \/ TaskFails(t)) \/ Joined) /\ UNCHANGED <<local, signals>>
     \/ World /\ UNCHANGED <<common, host, local, signals, task>>
     \/ (result # "none" \/ hostDead) /\ child = "exited" /\ UNCHANGED vars
  /\ UNCHANGED TryJoin

Spec == Init /\ [][Next]_<<vars, TryJoin>>

(* The calling thread runs, and so does each thread of the join, or the   *)
(* executor each of its tasks; the child works through its script.        *)
FairSpec ==
  /\ Spec /\ ChildFairness
  /\ WF_vars(PollStep /\ UNCHANGED task)
  /\ WF_vars(Joined /\ UNCHANGED <<local, signals>>)
  /\ \A t \in Tasks : WF_vars(JoinStep(t) /\ UNCHANGED <<local, signals>>)

-----------------------------------------------------------------------------
(* An Ok result holds every byte the child and its heirs wrote, and the input *)
(* all went in unless the child stopped reading it (communicate's contract);  *)
(* no byte of it is lost or sent twice on the way.                            *)
OkIsWhole ==
  /\ taken + buf["stdin"] + rest = input
  /\ result = "ok" =>
       /\ \A s \in Outs \cap piped : got[s] = wrote[s] /\ ~Written(s)
       /\ rest = 0 \/ ~StdinRead

(* The blocking communicate of Unix: the host is not killed by the SIGPIPE of *)
(* a write of the poll loop, and a SIGPIPE of its own is still pending for it *)
(* afterwards (write_without_sigpipe). Nothing is said of tokio's write, which *)
(* has no guard (tokio/pump.rs): there a child that closes its stdin early     *)
(* ends a host that left SIGPIPE at its default.                               *)
SigpipeContained == pc # "off" => ~hostDead /\ (hostSignal => inProcess)

(* communicate returns, whatever the child reads and writes and in whatever  *)
(* order: no full pipe stalls it (the first line of child/pump/poll.rs), and *)
(* no task keeps a pipe another one, or the child, waits on. Only a host that *)
(* tokio's unguarded write took down has no call to return to.                *)
CommunicateReturns == <>(result # "none" \/ (TryJoin /\ hostDead))
=============================================================================
