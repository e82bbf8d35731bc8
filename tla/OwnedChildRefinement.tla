------------------------ MODULE OwnedChildRefinement ------------------------
(***************************************************************************)
(* OwnedChild implements ReapOnce.  The consuming wait and the write of    *)
(* its record are two steps of the implementation and one of the promise:  *)
(* the child counts as reaped from the record on.                          *)
(***************************************************************************)
EXTENDS OwnedChild

ChildBar ==
  IF state = "E" THEN "reaped"
  ELSE IF os = "running" THEN "alive"
  ELSE IF os = "foreign" THEN "lost" ELSE "dead"

BusyBar == {t \in Threads : pc[t] \notin {"idle", "hold"}}

HeldBar == {t \in Threads : pc[t] = "hold"}

\* An error on its way out through the guard's Drop is not returned yet.
RetBar == [t \in Threads |-> IF pc[t] = "drop" THEN "none" ELSE ret[t]]

Promise == INSTANCE ReapOnce WITH child <- ChildBar, busy <- BusyBar, held <- HeldBar, ret <- RetBar

\* Every behaviour of the OwnedChild, with its mutex, condvar and hand-offs,
\* is one of the reap-once promise the callers in child.rs rely on.
KeepsPromise == Promise!Spec
=============================================================================
