--------------------------- MODULE CommunicateJoin ---------------------------
(***************************************************************************)
(* `communicate` where each stream has a task of its own and the wait runs *)
(* beside them: the scoped threads of Windows (child/pump/threads.rs), all *)
(* of which are joined, and tokio's try_join (tokio/pump.rs), which drops  *)
(* the other tasks at the first error.                                     *)
(***************************************************************************)
EXTENDS PipedChild

VARIABLES
  task,     \* each task: "runs", "ok", "failed", or "off"
  TryJoin   \* tokio's: the first error ends the call

Tasks == Streams \cup {"wait"}

(* A stream that is not piped has no task. Windows has no SIGPIPE. *)
JoinInit(runs, how) ==
  /\ task = [t \in Tasks |-> IF ~runs THEN "off" ELSE IF t = "wait" \/ t \in piped THEN "runs" ELSE "ok"]
  /\ TryJoin = how
  /\ runs /\ ~how => hostBlocks

Running(t) == result = "none" /\ ~hostDead /\ task[t] = "runs"

(* A task ends and drops its pipe; under TryJoin an error ends the whole call, *)
(* and every pipe of ours with it.                                             *)
End(t, how) ==
  /\ task' = [task EXCEPT ![t] = how]
  /\ IF how = "failed" /\ TryJoin
       THEN result' = t /\ ours' = {}
       ELSE result' = result /\ ours' = ours \ {t}

TaskFails(t) ==
  /\ Running(t) /\ Fault /\ End(t, "failed")
  /\ UNCHANGED <<buf, taken, wrote, rest, got, host>> /\ Idle

(* A write to a pipe nobody reads: the end of the input. Nothing guards the    *)
(* write of tokio's task, whose SIGPIPE kills a host that left it at its default. *)
BrokenPipe ==
  IF hostBlocks
    THEN End("stdin", "ok") /\ UNCHANGED host
    ELSE hostDead' = TRUE /\ ours' = {} /\ UNCHANGED <<task, result, hostBlocks>>

(* write_all, then the drop that is the child's EOF. *)
WriteAll ==
  /\ Running("stdin")
  /\ \/ rest = 0 /\ End("stdin", "ok") /\ UNCHANGED <<buf, rest, host>>
     \/ rest > 0 /\ ~StdinRead /\ BrokenPipe /\ UNCHANGED <<buf, rest>>
     \/ /\ rest > 0 /\ StdinRead
        /\ \E n \in 1..Min2(rest, Capacity - buf["stdin"]) :
             rest' = rest - n /\ buf' = [buf EXCEPT !["stdin"] = @ + n]
        /\ UNCHANGED <<task, result, ours, host>>
  /\ UNCHANGED <<taken, wrote, got, faults>> /\ Idle

(* read_to_end. *)
ReadToEnd(s) ==
  /\ Running(s)
  /\ \/ /\ buf[s] > 0 /\ got' = [got EXCEPT ![s] = @ + buf[s]] /\ buf' = [buf EXCEPT ![s] = 0]
        /\ UNCHANGED <<task, result, ours>>
     \/ buf[s] = 0 /\ ~Written(s) /\ End(s, "ok") /\ UNCHANGED <<buf, got>>
  /\ UNCHANGED <<taken, wrote, rest, faults, host>> /\ Idle

WaitEnds ==
  /\ Running("wait") /\ child = "exited" /\ End("wait", "ok")
  /\ UNCHANGED <<buf, taken, wrote, rest, got, faults, host>> /\ Idle

(* Every task is joined; the first failure in the order of the joins returns. *)
Joined ==
  /\ result = "none" /\ ~hostDead /\ \A t \in Tasks : task[t] \in {"ok", "failed"}
  /\ result' = IF task["wait"] = "failed" THEN "wait"
               ELSE IF task["stdout"] = "failed" THEN "stdout"
               ELSE IF task["stderr"] = "failed" THEN "stderr"
               ELSE IF task["stdin"] = "failed" THEN "stdin" ELSE "ok"
  /\ UNCHANGED <<pipes, task, rest, got, faults, host>>

JoinStep(t) ==
  \/ t = "stdin" /\ WriteAll
  \/ t \in Outs /\ ReadToEnd(t)
  \/ t = "wait" /\ WaitEnds
=============================================================================
