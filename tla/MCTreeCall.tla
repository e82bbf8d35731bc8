----------------------------- MODULE MCTreeCall -----------------------------
(* TreeCall for TLC. *)
EXTENDS TreeCall

CONSTANTS root, m1, m2

OnHost(flag, opens, refusers, hidden) ==
  [flag |-> flag, pidfd_opens |-> opens, foreign_reaper |-> TRUE, refusers |-> refusers, hidden |-> hidden]

\* A kernel with the flag and pidfds for the members, and one with neither,
\* whose /proc hides the member of another user.
NewAndOld == {OnHost(TRUE, TRUE, {m2}, {}), OnHost(FALSE, FALSE, {m2}, {m2})}

\* Nobody but the root takes a signal.
AllRefuse == {OnHost(TRUE, TRUE, {m1, m2}, {})}

\* A member refuses on an old kernel; the root itself does on a new one.
SomeRefuse == {OnHost(FALSE, TRUE, {m1}, {m1}), OnHost(TRUE, TRUE, {root, m1}, {})}
=============================================================================
