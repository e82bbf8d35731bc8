--------------------------- MODULE CommunicatePoll ---------------------------
(***************************************************************************)
(* `Child::communicate` on Unix (child/pump/poll.rs): one poll loop over   *)
(* three non-blocking pipes, each write with SIGPIPE blocked around it,    *)
(* then the wait, and the first failure returned.                          *)
(***************************************************************************)
EXTENDS PipedChild

VARIABLES
  pc,          \* "new", "poll", "serve", "write", "restore", "wait", "done", or "off"
  ready,       \* streams the poll found ready and not yet served
  failed,      \* what failed: "poll" and the streams
  broken,      \* the last write met a broken pipe
  hostSignal,  \* a SIGPIPE of the host's own was sent to the process
  inProcess,   \* SIGPIPE is pending for the process
  inThread,    \* SIGPIPE is pending for this thread
  wasPending   \* write_without_sigpipe's local

signals == <<hostSignal, inProcess, inThread, wasPending>>
local == <<pc, ready, failed, broken>>

PollInit(runs) ==
  /\ pc = (IF runs THEN "new" ELSE "off") /\ ready = {} /\ failed = {} /\ broken = FALSE
  /\ hostSignal = FALSE /\ inProcess = FALSE /\ inThread = FALSE /\ wasPending = FALSE

Closes(ends) == ours' = ours \ ends /\ UNCHANGED <<buf, taken, wrote>> /\ Idle

(* Pump::new: with no input the child's EOF is at once; a pipe that cannot be *)
(* made non-blocking is dropped with its error.                               *)
New ==
  /\ pc = "new" /\ pc' = "poll"
  /\ \/ failed' = {} /\ UNCHANGED faults
     \/ \E s \in (IF input = 0 THEN ours \ {"stdin"} ELSE ours) : Fault /\ failed' = {s}
  /\ Closes((IF input = 0 THEN {"stdin"} ELSE {}) \cup failed')
  /\ UNCHANGED <<ready, rest, got, broken, result, signals, host>>

(* What poll reports: readable or writable, and always a hang-up. *)
Ready(s) ==
  IF s = "stdin" THEN buf[s] < Capacity \/ ~StdinRead ELSE buf[s] > 0 \/ ~Written(s)

PollStdinFirst ==
  /\ pc = "poll"
  /\ \/ /\ ours = {} /\ pc' = "wait" /\ UNCHANGED <<ready, failed, faults, pipes>>
     \/ /\ ready' = {s \in ours : Ready(s) /\ (s = "stdin" \/ "stdin" \notin ours)}
        /\ ready' # {} /\ pc' = "serve" /\ UNCHANGED <<failed, faults, pipes>>
     \/ /\ ours # {} /\ Fault /\ failed' = failed \cup {"poll"} /\ pc' = "wait"
        /\ Closes(ours) /\ UNCHANGED ready
  /\ UNCHANGED <<rest, got, broken, result, signals, host>>

(* One round: poll every open stream. A failing poll closes them all (finish). *)
Poll ==
  /\ pc = "poll"
  /\ \/ /\ ours = {} /\ pc' = "wait" /\ UNCHANGED <<ready, failed, faults, pipes>>
     \/ /\ \E s \in ours : Ready(s)
        /\ ready' = {s \in ours : Ready(s)} /\ pc' = "serve" /\ UNCHANGED <<failed, faults, pipes>>
     \/ /\ ours # {} /\ Fault /\ failed' = failed \cup {"poll"} /\ pc' = "wait"
        /\ Closes(ours) /\ UNCHANGED ready
  /\ UNCHANGED <<rest, got, broken, result, signals, host>>

Served ==
  /\ pc = "serve" /\ ready = {} /\ pc' = "poll"
  /\ UNCHANGED <<pipes, ready, rest, got, failed, broken, result, signals, host, faults>>

(* write_without_sigpipe, first half: SIGPIPE blocked, what was pending read. *)
BeginWrite ==
  /\ pc = "serve" /\ "stdin" \in ready /\ pc' = "write"
  /\ wasPending' = (inThread \/ inProcess)
  /\ UNCHANGED <<pipes, ready, rest, got, failed, broken, result, host, hostSignal,
                 inProcess, inThread, faults>>

(* The write: some bytes, a broken pipe, which raises SIGPIPE for this thread, *)
(* EINTR, or an error.                                                         *)
Write ==
  /\ pc = "write" /\ pc' = "restore"
  /\ \/ /\ StdinRead /\ broken' = FALSE /\ UNCHANGED <<failed, inThread, faults>>
        /\ \E n \in 1..Min2(rest, Capacity - buf["stdin"]) :
             rest' = rest - n /\ buf' = [buf EXCEPT !["stdin"] = @ + n]
     \/ /\ ~StdinRead /\ broken' = TRUE /\ inThread' = TRUE
        /\ UNCHANGED <<rest, buf, failed, faults>>
     \/ /\ Fault /\ failed' \in {failed, failed \cup {"stdin"}} /\ broken' = FALSE
        /\ UNCHANGED <<rest, buf, inThread>>
  /\ UNCHANGED <<ours, taken, wrote, ready, got, result, host, hostSignal, inProcess,
                 wasPending>> /\ Idle

TakesNone(takes) == takes = "none"

(* What sigwait takes when it runs: the thread's own signal before the process's. *)
Takes(takes) ==
  takes = IF ~broken \/ wasPending THEN "none"
          ELSE IF inThread THEN "thread" ELSE IF inProcess THEN "process" ELSE "none"

(* write_without_sigpipe, second half, and write_some's answer: the signal the *)
(* write raised is consumed and the mask restored; a feed that is written out, *)
(* broken or failed is closed.                                                 *)
Restore ==
  /\ pc = "restore" /\ pc' = "serve" /\ ready' = ready \ {"stdin"}
  /\ \E takes \in {"none", "thread", "process"} :
       /\ Takes(takes)
       /\ inThread' = (inThread /\ takes # "thread" /\ hostBlocks)
       /\ inProcess' = (inProcess /\ takes # "process")
       /\ hostDead' = (hostDead \/ (inThread /\ takes # "thread" /\ ~hostBlocks))
  /\ Closes(IF rest = 0 \/ broken \/ "stdin" \in failed THEN {"stdin"} ELSE {})
  /\ UNCHANGED <<rest, got, failed, broken, result, hostBlocks, hostSignal, wasPending, faults>>

ReadSomeHasty(s) ==
  /\ pc = "serve" /\ s \in ready /\ "stdin" \notin ready /\ (s = "stderr" => "stdout" \notin ready)
  /\ ready' = ready \ {s}
  /\ got' = got /\ buf' = buf
  /\ ours' = (IF Written(s) THEN ours ELSE ours \ {s})
  /\ UNCHANGED <<taken, wrote, pc, rest, failed, broken, result, signals, host, faults>> /\ Idle

(* read_some: what is there, the end of the stream, EINTR, or an error. The *)
(* streams of a round are served in the order stdin, stdout, stderr.        *)
ReadSome(s) ==
  /\ pc = "serve" /\ s \in ready /\ "stdin" \notin ready /\ (s = "stderr" => "stdout" \notin ready)
  /\ ready' = ready \ {s}
  /\ \/ /\ buf[s] > 0 /\ got' = [got EXCEPT ![s] = @ + buf[s]] /\ buf' = [buf EXCEPT ![s] = 0]
        /\ UNCHANGED <<ours, failed, faults>>
     \/ /\ buf[s] = 0 /\ ~Written(s) /\ ours' = ours \ {s}
        /\ UNCHANGED <<buf, got, failed, faults>>
     \/ /\ Fault /\ failed' \in {failed, failed \cup {s}} /\ ours' = ours \ (failed' \cap {s})
        /\ UNCHANGED <<buf, got>>
  /\ UNCHANGED <<taken, wrote, pc, rest, broken, result, signals, host>> /\ Idle

(* The child's status, then the first failure: the wait's, poll's, stdout's, *)
(* stderr's, stdin's.                                                        *)
Returns ==
  /\ pc = "wait" /\ pc' = "done"
  /\ \/ child = "exited" /\ UNCHANGED faults
        /\ result' = IF failed = {} THEN "ok"
                     ELSE CHOOSE f \in failed :
                            \A g \in failed : \/ f = "poll" \/ g = "stdin" \/ f = g
                                              \/ f = "stdout" /\ g # "poll"
     \/ Fault /\ result' = "wait"
  /\ UNCHANGED <<pipes, ready, rest, got, failed, broken, signals, host>>

(* A SIGPIPE of the host's own, sent to a process that keeps it blocked. *)
HostSignals ==
  /\ hostBlocks /\ ~hostSignal /\ pc \notin {"done", "off"}
  /\ hostSignal' = TRUE /\ inProcess' = TRUE
  /\ UNCHANGED <<pipes, common, local, host, inThread, wasPending>>

PollStep ==
  New \/ Poll \/ Served \/ BeginWrite \/ Write \/ Restore \/ (\E s \in Outs : ReadSome(s)) \/ Returns
=============================================================================
