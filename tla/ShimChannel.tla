----------------------------- MODULE ShimChannel -----------------------------
(***************************************************************************)
(* What the two ends of the elevation shim's channel share: cosca's        *)
(* process, the socket in the private directory, and one connection for    *)
(* each shim the elevation front starts.  The bytes are the commands and   *)
(* frames of elevation/shim/protocol.rs; a frame travels whole (ShimFrame  *)
(* is about its bytes).                                                    *)
(***************************************************************************)
EXTENDS Naturals, Sequences, FiniteSets

CONSTANTS
  Shims,       \* the shims a front may start; normally one
  Nobody,
  SocketCap,   \* bytes a connection's buffer holds
  Threads,     \* the caller's threads
  Scenes       \* what may go on around the link: the choices of a behaviour's environment

Mays == {"link faults", "run faults", "signals", "reapers", "cosca dies", "copies", "stalls"}

ASSUME ChannelAssumption == Nobody \notin Shims /\ SocketCap \in Nat \ {0}
ASSUME ScenesAssumption ==
  \A c \in Scenes :
    /\ c.shims \cup c.strangers \cup c.crashes \subseteq Shims /\ c.threads \subseteq Threads
    /\ c.controls \subseteq {"T", "D"} /\ c.calls \in Nat /\ c.may \subseteq Mays

VARIABLES
  scene,      \* the scene; it never changes
  cosca,      \* cosca's process: "up", "closing" (its descriptors are closed), "gone" (its pidfd fires)
  reused,     \* cosca's pid names another process
  copied,     \* a fork copy of cosca holds the listener
  kept,       \* connections whose cosca end, or whose place in the backlog, the copy holds
  path,       \* the socket is in its directory
  listening,  \* the acceptor's listener is open
  end,        \* cosca's end of each shim's connection
  down,       \* bytes sent to the shim and not read
  up,         \* frames sent to cosca and not read
  shim,       \* where each shim is
  child       \* where each shim's program is

channel == <<cosca, reused, copied, kept, path, listening, end, down, up>>

Strangers == scene.strangers              \* peers without the expected euid
Crashes == scene.crashes                  \* shims that may be ended by SIGKILL
Controls == scene.controls                \* control bytes cosca sends besides K
MaxCalls == scene.calls                   \* bound: calls in a behaviour
LinkFaults == "link faults" \in scene.may \* the acceptor's and the waiters' system calls may fail
RunFaults == "run faults" \in scene.may   \* the shim's and the child's set-up calls may fail
Signals == "signals" \in scene.may        \* a signal may reach the shim, and SIGTERM the child
Reapers == "reapers" \in scene.may        \* another thread of the shim's process may reap the child
CoscaDies == "cosca dies" \in scene.may   \* cosca's process may end without a teardown
Copies == "copies" \in scene.may          \* cosca may have fork copies
Stalls == "stalls" \in scene.may          \* a shim may be stopped for ever

Commands == {"A", "N", "K", "T", "D"}
Frames == {"H", "S", "L", "U", "F", "R"}

\* The program's process, from the clone to the reap.
BeforeExec == {"held", "arming", "asking", "looking", "execing", "failing"}
Alive == BeforeExec \cup {"running"}

Ended(s) == shim[s] \in {"exited", "crashed"}

ChannelInit ==
  /\ scene \in Scenes
  /\ cosca = "up" /\ reused = FALSE /\ copied = FALSE /\ kept = {} /\ path = TRUE /\ listening = TRUE
  /\ end = [s \in Shims |-> "none"]
  /\ down = [s \in Shims |-> <<>>] /\ up = [s \in Shims |-> <<>>]

\* Nobody holds cosca's end any more: the shim reads EOF, and its sends fail.
CoscaHungUp(s) == end[s] = "closed" /\ s \notin kept

\* Nobody holds the shim's end any more.  It is close-on-exec, so the program's
\* process keeps it open from the clone to exec.
ShimHungUp(s) == Ended(s) /\ child[s] \notin BeforeExec

\* A send to cosca; EPIPE is ignored.
SentUp(s, frame) == IF CoscaHungUp(s) THEN up ELSE [up EXCEPT ![s] = Append(@, frame)]

-----------------------------------------------------------------------------
(* cosca's process and its fork copies *)

Queued == {s \in Shims : end[s] = "queued"}

\* The listener closes: what is still queued on it sees EOF, unless the copy
\* holds the listener too.
ListenerCloses(ends) ==
  /\ listening' = FALSE
  /\ end' = [s \in Shims |-> IF ends[s] = "queued" THEN "closed" ELSE ends[s]]
  /\ kept' = IF copied THEN kept \cup {s \in Shims : ends[s] = "queued"} ELSE kept

\* cosca is killed, or exits without a teardown: its threads stop and its
\* descriptors close ...
CoscaCloses ==
  /\ cosca = "up" /\ cosca' = "closing"
  /\ ListenerCloses([s \in Shims |-> IF end[s] = "open" THEN "closed" ELSE end[s]])
  /\ UNCHANGED <<reused, copied, path, down, up>>

\* ... before its pidfd says so.
CoscaExits ==
  /\ cosca = "closing" /\ cosca' = "gone"
  /\ UNCHANGED <<reused, copied, kept, path, listening, end, down, up>>

PidReused ==
  /\ cosca = "gone" /\ ~reused /\ reused' = TRUE
  /\ UNCHANGED <<cosca, copied, kept, path, listening, end, down, up>>

\* A fork copy has no acceptor thread, and its descriptors close only when it
\* execs or exits (ShimLink::release).
Forks ==
  /\ cosca = "up" /\ ~copied /\ kept = {}
  /\ copied' = listening
  /\ kept' = {s \in Shims : end[s] \in {"queued", "open"}}
  /\ UNCHANGED <<cosca, reused, path, listening, end, down, up>>

CopyExits ==
  /\ copied \/ kept # {}
  /\ copied' = FALSE /\ kept' = {}
  /\ UNCHANGED <<cosca, reused, path, listening, end, down, up>>
=============================================================================
