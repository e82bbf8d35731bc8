----------------------------- MODULE PipedChild -----------------------------
(***************************************************************************)
(* What `communicate` talks to: a child whose stdio is up to three pipes   *)
(* of bounded capacity, running any short script of reads and writes, and  *)
(* perhaps a grandchild that inherited its stdout. All of it external, but *)
(* for what the three drivers of `communicate` keep alike.                 *)
(***************************************************************************)
EXTENDS Naturals, Sequences

CONSTANTS Capacity,    \* bytes a pipe holds
          InputLen,    \* bytes of input
          Scripts,     \* the programs: sequences of "read", "close", "stdout", "stderr"
          MaxFaults    \* bound: system calls of ours that fail

ASSUME PipesAssumption == Capacity \in Nat \ {0} /\ {InputLen, MaxFaults} \subseteq Nat

VARIABLES
  piped,    \* the streams that are pipes
  input,    \* bytes of input the caller gave
  script,   \* what the child has still to do
  child,    \* "runs" or "exited"
  reads,    \* the child holds its stdin open
  heir,     \* a grandchild holds the child's stdout
  buf,      \* bytes in each pipe
  ours,     \* our ends still open
  taken,    \* bytes the child read
  wrote,    \* bytes written to each of stdout and stderr
  rest,     \* bytes of input we have not yet written
  got,      \* bytes we have read from each stream
  result,   \* "none", "ok", or the name of what failed
  faults,
  hostBlocks,  \* the host keeps SIGPIPE blocked, or handles it; at its default it kills
  hostDead     \* the host was killed by SIGPIPE

pipes == <<piped, input, script, child, reads, heir, buf, ours, taken, wrote>>
common == <<rest, got, result, faults>>
host == <<hostBlocks, hostDead>>

Outs == {"stdout", "stderr"}
Streams == {"stdin"} \cup Outs

(* Input is given only over a piped stdin (the caller's contract). *)
PipesInit ==
  /\ piped \in SUBSET Streams /\ ours = piped
  /\ input \in IF "stdin" \in piped THEN {0, InputLen} ELSE {0}
  /\ script \in Scripts /\ child = "runs" /\ reads = TRUE /\ heir \in BOOLEAN
  /\ buf = [s \in Streams |-> 0] /\ taken = 0 /\ wrote = [s \in Outs |-> 0]
  /\ rest = input /\ got = [s \in Outs |-> 0] /\ result = "none" /\ faults = 0
  /\ hostBlocks \in BOOLEAN /\ hostDead = FALSE

(* Somebody still holds the other end. *)
StdinRead == child = "runs" /\ reads
Written(s) == child = "runs" \/ (s = "stdout" /\ heir)

ChildReads ==
  /\ child = "runs" /\ script # <<>> /\ Head(script) = "read"
  /\ \/ "stdin" \in piped /\ reads /\ buf["stdin"] > 0
        /\ buf' = [buf EXCEPT !["stdin"] = @ - 1] /\ taken' = taken + 1
     \/ ~("stdin" \in piped /\ reads /\ ("stdin" \in ours \/ buf["stdin"] > 0))
        /\ UNCHANGED <<buf, taken>>
  /\ script' = Tail(script)
  /\ UNCHANGED <<piped, input, child, reads, heir, ours, wrote>>

ChildStopsReading ==
  /\ child = "runs" /\ script # <<>> /\ Head(script) = "close"
  /\ reads' = FALSE /\ script' = Tail(script)
  /\ UNCHANGED <<piped, input, child, heir, buf, ours, taken, wrote>>

(* A write blocks on a full pipe; one to a pipe we closed ends the child. *)
ChildWrites ==
  /\ child = "runs" /\ script # <<>> /\ Head(script) \in Outs
  /\ LET s == Head(script) IN
       \/ /\ s \in ours /\ buf[s] < Capacity
          /\ buf' = [buf EXCEPT ![s] = @ + 1] /\ wrote' = [wrote EXCEPT ![s] = @ + 1]
          /\ script' = Tail(script) /\ UNCHANGED child
       \/ s \notin piped /\ script' = Tail(script) /\ UNCHANGED <<buf, wrote, child>>
       \/ s \in piped \ ours /\ child' = "exited" /\ UNCHANGED <<buf, wrote, script>>
  /\ UNCHANGED <<piped, input, reads, heir, ours, taken>>

ChildExits ==
  /\ child = "runs" /\ script = <<>> /\ child' = "exited"
  /\ UNCHANGED <<piped, input, script, reads, heir, buf, ours, taken, wrote>>

(* The child is killed from outside. *)
ChildKilled ==
  /\ child = "runs" /\ child' = "exited"
  /\ UNCHANGED <<piped, input, script, reads, heir, buf, ours, taken, wrote>>

HeirCloses ==
  /\ heir /\ heir' = FALSE
  /\ UNCHANGED <<piped, input, script, child, reads, buf, ours, taken, wrote>>

ChildSteps == ChildReads \/ ChildStopsReading \/ ChildWrites \/ ChildExits

(* The child works through its script, and the grandchild lets go in the end. *)
ChildFairness == WF_pipes(ChildSteps) /\ WF_pipes(HeirCloses)

World == ChildSteps \/ ChildKilled \/ HeirCloses

Idle == UNCHANGED <<piped, input, script, child, reads, heir>>

Fault == faults < MaxFaults /\ faults' = faults + 1
Min2(a, b) == IF a < b THEN a ELSE b
=============================================================================
