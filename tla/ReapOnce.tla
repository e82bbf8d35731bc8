------------------------------ MODULE ReapOnce ------------------------------
(***************************************************************************)
(* What an OwnedChild promises the code above it, without its mutex, its   *)
(* condvar, its holder and its wait loop: a child that is reaped at most   *)
(* once, together with its record, and never under a hold; waits, watches  *)
(* and signals whose answers agree with what has become of the child.      *)
(***************************************************************************)
CONSTANTS Threads

VARIABLES
  child,   \* "alive", "dead" (an unreaped zombie), "reaped" here, or "lost"
  busy,    \* the threads in a wait or a watch
  held,    \* the threads that hold the reap off
  ret      \* what each thread's last call returned

vars == <<child, busy, held, ret>>

Init ==
  /\ child = "alive"
  /\ busy = {} /\ held = {}
  /\ ret = [t \in Threads |-> "none"]

Dies == child = "alive" /\ child' = "dead" /\ UNCHANGED <<busy, held, ret>>

Lost == child = "dead" /\ child' = "lost" /\ UNCHANGED <<busy, held, ret>>

Call(t) ==
  /\ t \notin busy \cup held
  /\ busy' = busy \cup {t}
  /\ ret' = [ret EXCEPT ![t] = "none"]
  /\ UNCHANGED <<child, held>>

Returns(t, result) ==
  /\ t \in busy
  /\ busy' = busy \ {t}
  /\ ret' = [ret EXCEPT ![t] = result]
  /\ UNCHANGED held

\* The call that reaps also records, and no hold is in force.
Reaps(t) == child = "dead" /\ held = {} /\ child' = "reaped" /\ Returns(t, "exited")

Finds(t) ==
  /\ UNCHANGED child
  /\ \/ child # "alive" /\ Returns(t, "exited")
     \/ child = "lost" /\ Returns(t, "foreign")
     \/ child # "reaped" /\ Returns(t, "deadline")
     \/ Returns(t, "error")

Hold(t) ==
  /\ t \notin busy \cup held
  /\ held = {}
  /\ held' = {t}
  /\ UNCHANGED <<child, busy, ret>>

Release(t) == t \in held /\ held' = held \ {t} /\ UNCHANGED <<child, busy, ret>>

\* A send: it reaches a child that nobody has reaped, and asks nothing of the
\* OS once this handle has (so it cannot fail then).
Sends(t) ==
  /\ t \notin busy
  /\ held \subseteq {t}
  /\ \/ child \in {"alive", "dead"} /\ ret' = [ret EXCEPT ![t] = "delivered"]
     \/ child \in {"reaped", "lost"} /\ ret' = [ret EXCEPT ![t] = "gone"]
     \/ child # "reaped" /\ ret' = [ret EXCEPT ![t] = "error"]
  /\ UNCHANGED <<child, busy, held>>

Next ==
  \/ Dies \/ Lost
  \/ \E t \in Threads : Call(t) \/ Reaps(t) \/ Finds(t) \/ Hold(t) \/ Release(t) \/ Sends(t)

Spec == Init /\ [][Next]_vars
=============================================================================
