------------------------------ MODULE ShimLink ------------------------------
(***************************************************************************)
(* cosca's end of the shim channel (elevation/shim/link.rs, link/state.rs, *)
(* link/acceptor.rs, link/outcome.rs): the acceptor thread that answers    *)
(* each shim, the caller's threads, which wait for the one outcome or send *)
(* a kill, and the teardown.  A critical section of the link's lock is one *)
(* step; a poll, a load of the stop flag and a blocking join are steps of  *)
(* their own.                                                              *)
(***************************************************************************)
EXTENDS ShimChannel, Integers

VARIABLES
  start,      \* StartState
  failure,    \* the acceptor failed while the start was not Live
  outcome,    \* LinkOutcome, "none" until it is set
  live,       \* whose connection Shared.conn is
  settled,    \* the settled pipe has its byte
  stopping,   \* the stop flag
  wake,       \* bytes in the acceptor's wake pipe
  acceptor,   \* where the acceptor thread is
  pending,    \* accepted peers that have not said hello
  polled,     \* what the acceptor's last poll found
  call,       \* where each caller's thread is
  calls,      \* calls begun
  drop,       \* how far the teardown is
  sent,       \* history: control bytes sent to the live shim
  told        \* history: what kill returned

state == <<start, failure, outcome, live, settled>>
accepts == <<wake, acceptor, pending, polled>>
callers == <<call, calls, drop, stopping, sent, told>>
link == <<state, accepts, callers>>

LinkInit ==
  /\ start = "Pending" /\ failure = FALSE /\ outcome = "none" /\ live = Nobody /\ settled = FALSE
  /\ stopping = FALSE /\ wake = 0 /\ acceptor = "poll" /\ pending = {}
  /\ polled = [woken |-> FALSE, incoming |-> FALSE, ready |-> {}]
  /\ call = [t \in Threads |-> "idle"] /\ calls = 0 /\ drop = "no" /\ sent = {} /\ told = {}

\* NotStarted: why the program never ran.
NotStarted == {"NotExecuted", "ShimRefused", "Withheld", "AcceptorFailed"}

\* LinkOutcome::program_is_gone
ProgramIsGone(o) == o \in NotStarted \cup {"Exited", "SupervisionLost", "StatusLost"}

\* classify, of a whole frame.
Classify(frame) ==
  CASE frame = "S" -> "Exited"
    [] frame = "L" -> "SupervisionLost"
    [] frame = "U" -> "StatusLost"
    [] frame = "F" -> "NotExecuted"
    [] frame = "R" -> "ShimRefused"
    [] frame = "H" -> "ShimLost"

-----------------------------------------------------------------------------
(* Shared: what is done under the lock *)

\* Pending to Refused, removing the path in the same critical section.
RefusePending ==
  /\ start' = IF start = "Pending" THEN "Refused" ELSE start
  /\ path' = (path /\ start # "Pending")

\* Mutant: the byte that wakes the other waiters is not written.
SetOutcomeQuietly(o) == outcome' = o /\ UNCHANGED settled

SetOutcome(o) ==
  /\ outcome' = o
  /\ settled' = (settled \/ o # "none")

\* read_frame: what the connection has, without blocking; any read may fail.
ReadFrame ==
  \/ /\ up[live] # <<>> /\ up' = [up EXCEPT ![live] = Tail(@)]
     /\ SetOutcome(Classify(Head(up[live])))
  \/ /\ up[live] = <<>> /\ UNCHANGED up
     /\ SetOutcome(IF ShimHungUp(live) THEN "ShimLost" ELSE "none")
  \/ LinkFaults /\ SetOutcome("ShimLost") /\ UNCHANGED up

\* settle: the outcome, if it can be told; refuses a pending start.
Settle ==
  \/ /\ outcome # "none" /\ UNCHANGED <<start, path, outcome, settled, up>>
  \/ /\ outcome = "none" /\ start # "Live"
     /\ RefusePending
     /\ SetOutcome(IF failure THEN "AcceptorFailed" ELSE "Withheld")
     /\ UNCHANGED up
  \/ /\ outcome = "none" /\ start = "Live"
     /\ ReadFrame /\ UNCHANGED <<start, path>>

\* fail_closed
FailClosed ==
  /\ failure' = (failure \/ start # "Live")
  /\ start' = IF start = "Pending" THEN "Refused" ELSE start
  /\ path' = (path /\ start = "Refused")

-----------------------------------------------------------------------------
(* The acceptor thread *)

Serving == cosca = "up" /\ acceptor # "exited"

\* serve: the one poll of a round.
AcceptorPolls ==
  /\ Serving /\ acceptor = "poll"
  /\ polled' = [woken |-> wake > 0, incoming |-> Queued # {},
                ready |-> {s \in pending : up[s] # <<>> \/ ShimHungUp(s)}]
  /\ polled'.woken \/ polled'.incoming \/ polled'.ready # {}
  /\ acceptor' = "look"
  /\ UNCHANGED <<channel, state, callers, wake, pending>>

\* A poll or an accept fails, or the thread panics: the start is refused and
\* the listener and the pending connections close.
AcceptorFails ==
  /\ LinkFaults /\ Serving
  /\ acceptor = "look" => ~(polled.woken /\ stopping)
  /\ FailClosed
  /\ acceptor' = "exited" /\ pending' = {}
  /\ ListenerCloses([s \in Shims |-> IF s \in pending THEN "closed" ELSE end[s]])
  /\ UNCHANGED <<cosca, reused, copied, down, up, outcome, live, settled, callers, wake, polled>>

\* accept_all and admit: every queued connection, those of the expected euid.
Accepted == [s \in Shims |-> IF s \in Queued THEN (IF s \in Strangers THEN "closed" ELSE "open") ELSE end[s]]

\* The stop flag is loaded after the poll; a byte that is not a stop is consumed.
AcceptorLooks ==
  /\ Serving /\ acceptor = "look" /\ ~(polled.woken /\ stopping)
  /\ wake' = IF polled.woken THEN wake - 1 ELSE wake
  /\ IF polled.incoming
       THEN end' = Accepted /\ pending' = pending \cup (Queued \ Strangers)
       ELSE UNCHANGED <<end, pending>>
  /\ acceptor' = IF polled.ready = {} THEN "poll" ELSE "hello"
  /\ UNCHANGED <<cosca, reused, copied, kept, path, listening, down, up, state, callers, polled>>

\* The stop: what is queued is taken (or the accept fails), and everyone
\* pending is answered N, hello or not.
AcceptorStops ==
  /\ Serving /\ acceptor = "look" /\ polled.woken /\ stopping
  /\ \E taken \in {Queued} \cup (IF LinkFaults THEN {{}} ELSE {}) :
       LET drained == pending \cup (taken \ Strangers) IN
       /\ down' = [s \in Shims |-> IF s \in drained /\ ~ShimHungUp(s) THEN Append(down[s], "N") ELSE down[s]]
       /\ ListenerCloses([s \in Shims |-> IF s \in drained \cup taken THEN "closed" ELSE end[s]])
  /\ acceptor' = "exited" /\ pending' = {}
  /\ UNCHANGED <<cosca, reused, copied, path, up, state, callers, wake, polled>>

\* say_hellos: one polled peer.
Greeting(s) ==
  /\ Serving /\ acceptor = "hello" /\ s \in polled.ready
  /\ polled' = [polled EXCEPT !.ready = @ \ {s}]
  /\ acceptor' = IF polled.ready = {s} THEN "poll" ELSE "hello"
  /\ pending' = pending \ {s}
  /\ UNCHANGED <<cosca, reused, copied, kept, listening, failure, outcome, settled, callers, wake>>

ClosedBeforeHello(s) ==
  /\ Greeting(s) /\ up[s] = <<>>
  /\ end' = [end EXCEPT ![s] = "closed"]
  /\ UNCHANGED <<path, down, up, start, live>>

\* Mutant: a further shim that says hello is allowed to start as well.
AnswerHelloTwice(s) ==
  /\ Greeting(s) /\ up[s] # <<>>
  /\ up' = [up EXCEPT ![s] = Tail(@)]
  /\ \/ /\ start # "Refused"
        /\ start' = "Live" /\ live' = (IF live = Nobody THEN s ELSE live) /\ path' = FALSE
        /\ down' = [down EXCEPT ![s] = Append(@, "A")]
     \/ /\ start = "Refused"
        /\ down' = [down EXCEPT ![s] = Append(@, "N")]
        /\ UNCHANGED <<start, live, path>>
  /\ UNCHANGED end

\* answer_hello, under the lock: A to the first hello of a pending start, which
\* is refused if A cannot be sent; N to any other.
AnswerHello(s) ==
  /\ Greeting(s) /\ up[s] # <<>>
  /\ up' = [up EXCEPT ![s] = Tail(@)]
  /\ \/ /\ start = "Pending" /\ ~ShimHungUp(s)
        /\ start' = "Live" /\ live' = s /\ path' = FALSE
        /\ down' = [down EXCEPT ![s] = Append(@, "A")]
        /\ UNCHANGED end
     \/ /\ start = "Pending" /\ ShimHungUp(s)
        /\ RefusePending
        /\ end' = [end EXCEPT ![s] = "closed"]
        /\ UNCHANGED <<live, down>>
     \/ /\ start # "Pending"
        /\ down' = IF ShimHungUp(s) THEN down ELSE [down EXCEPT ![s] = Append(@, "N")]
        /\ end' = [end EXCEPT ![s] = "closed"]
        /\ UNCHANGED <<start, live, path>>

Acceptor ==
  \/ AcceptorPolls \/ AcceptorLooks \/ AcceptorStops
  \/ \E s \in Shims : ClosedBeforeHello(s) \/ AnswerHello(s)

-----------------------------------------------------------------------------
(* The caller's threads *)

Calling(t) == cosca = "up" /\ drop = "no" /\ call[t] = "idle" /\ calls < MaxCalls /\ calls' = calls + 1

WaitBegins(t) ==
  /\ Calling(t) /\ call' = [call EXCEPT ![t] = "settle"]
  /\ UNCHANGED <<channel, state, accepts, drop, stopping, sent, told>>

\* wait: the outcome under the lock, or a poll outside it.
WaitSettles(t) ==
  /\ cosca = "up" /\ call[t] = "settle"
  /\ Settle
  /\ call' = [call EXCEPT ![t] = IF outcome' = "none" THEN "poll" ELSE "idle"]
  /\ UNCHANGED <<cosca, reused, copied, kept, listening, end, down, failure, live, accepts, calls, drop, stopping, sent, told>>

\* The connection, or the settled pipe: another reader may take the frame.
WaitWakes(t) ==
  /\ cosca = "up" /\ call[t] = "poll"
  /\ up[live] # <<>> \/ ShimHungUp(live) \/ settled
  /\ call' = [call EXCEPT ![t] = "settle"]
  /\ UNCHANGED <<channel, state, accepts, calls, drop, stopping, sent, told>>

WaitFails(t) ==
  /\ LinkFaults /\ cosca = "up" /\ call[t] = "poll"
  /\ call' = [call EXCEPT ![t] = "idle"]
  /\ UNCHANGED <<channel, state, accepts, calls, drop, stopping, sent, told>>

TryWait(t) ==
  /\ Calling(t) /\ Settle
  /\ UNCHANGED <<cosca, reused, copied, kept, listening, end, down, failure, live, accepts, call, drop, stopping, sent, told>>

\* observe moves nothing but the frame.
Observe(t) ==
  /\ Calling(t)
  /\ IF start = "Live" /\ outcome = "none" THEN ReadFrame ELSE UNCHANGED <<outcome, settled, up>>
  /\ UNCHANGED <<cosca, reused, copied, kept, path, listening, end, down, start, failure, live, accepts, call, drop,
                 stopping, sent, told>>

KillRefusesStart ==
  /\ start # "Live" /\ RefusePending /\ told' = told \cup {"RefusedStart"}
  /\ UNCHANGED <<outcome, settled, up, down, sent>>

KillAfterOutcome ==
  /\ start = "Live" /\ outcome # "none"
  /\ told' = told \cup {IF ProgramIsGone(outcome) THEN "AlreadyEnded" ELSE "ShimLost"}
  /\ UNCHANGED <<start, path, outcome, settled, up, down, sent>>

\* EPIPE: whether the program is gone depends on what the shim said first.
KillMeetsEpipe ==
  /\ start = "Live" /\ outcome = "none" /\ ShimHungUp(live)
  /\ ReadFrame
  /\ told' = told \cup {IF ProgramIsGone(outcome') THEN "AlreadyEnded" ELSE "ShimLost"}
  /\ UNCHANGED <<start, path, down, sent>>

KillSends ==
  /\ start = "Live" /\ outcome = "none" /\ ~ShimHungUp(live)
  /\ IF Len(down[live]) < SocketCap
       THEN /\ down' = [down EXCEPT ![live] = Append(@, "K")]
            /\ sent' = sent \cup {"K"} /\ told' = told \cup {"Delivered"}
       ELSE told' = told \cup {"Unkillable"} /\ UNCHANGED <<down, sent>>
  /\ UNCHANGED <<start, path, outcome, settled, up>>

Kill(t) ==
  /\ Calling(t)
  /\ KillRefusesStart \/ KillAfterOutcome \/ KillMeetsEpipe \/ KillSends
  /\ UNCHANGED <<cosca, reused, copied, kept, listening, end, failure, live, accepts, call, drop, stopping>>

\* send_control: the bytes that terminate and detach send.
SendControl(t, b) ==
  /\ Calling(t) /\ start = "Live" /\ ~ShimHungUp(live) /\ Len(down[live]) < SocketCap
  /\ down' = [down EXCEPT ![live] = Append(@, b)] /\ sent' = sent \cup {b}
  /\ UNCHANGED <<cosca, reused, copied, kept, path, listening, end, up, state, accepts, call, drop, stopping, told>>

-----------------------------------------------------------------------------
(* teardown, and the wake of a copy that cannot tell it is one *)

Dropping(from, to) == cosca = "up" /\ drop = from /\ drop' = to

DropRefuses ==
  /\ Dropping("no", "refused") /\ \A t \in Threads : call[t] = "idle"
  /\ RefusePending
  /\ UNCHANGED <<cosca, reused, copied, kept, listening, end, down, up, failure, outcome, live, settled, accepts, call, calls,
                 stopping, sent, told>>

DropFlags ==
  /\ Dropping("refused", "flagged") /\ stopping' = TRUE
  /\ UNCHANGED <<channel, state, accepts, call, calls, sent, told>>

DropWakes ==
  /\ Dropping("flagged", "joining") /\ wake' = wake + 1
  /\ UNCHANGED <<channel, state, acceptor, pending, polled, call, calls, stopping, sent, told>>

\* The acceptor is joined, the connection closed, the directory removed.
DropJoins ==
  /\ Dropping("joining", "done") /\ acceptor = "exited"
  /\ path' = FALSE
  /\ end' = [s \in Shims |-> IF s = live THEN "closed" ELSE end[s]]
  /\ UNCHANGED <<cosca, reused, copied, kept, listening, down, up, state, accepts, call, calls, stopping, sent, told>>

\* ShimLink::release in a copy whose origin is unknown: its flag is its own
\* memory, its byte goes into the pipe it shares.
StrayWake ==
  /\ cosca = "up" /\ copied /\ wake = 0 /\ wake' = 1
  /\ UNCHANGED <<channel, state, acceptor, pending, polled, callers>>

Caller(t) ==
  \/ WaitBegins(t) \/ WaitFails(t) \/ TryWait(t) \/ Observe(t) \/ Kill(t)
  \/ \E b \in Controls : SendControl(t, b)

Waiter(t) == WaitSettles(t) \/ WaitWakes(t)

Teardown == DropFlags \/ DropWakes \/ DropJoins

LinkNext ==
  \/ Acceptor \/ AcceptorFails \/ StrayWake
  \/ \E t \in scene.threads : Caller(t) \/ Waiter(t)
  \/ DropRefuses \/ Teardown
=============================================================================
