---------------------------- MODULE ProcessGroup ----------------------------
(***************************************************************************)
(* The kernel's view of a contained tree that is a Linux process group, and *)
(* what the code can ask of it: its root, the root's descendants, and one   *)
(* stranger that may take a number (a pid) the kernel has freed.            *)
(*                                                                         *)
(* A pid is not reissued while its process is unreaped, nor while it is the *)
(* id of a group with a member, zombies included.  SIGKILL dooms a process  *)
(* at once (it can fork no more) and takes it some time later.             *)
(***************************************************************************)
EXTENDS Naturals, FiniteSets

CONSTANTS
  Root, Members,   \* the root, and the descendants it may come to have
  Nobody,          \* no process
  Stranger,        \* a process of someone else's
  Hosts            \* the kernels, users and programs this one may find itself among

Procs == Members \cup {Root}

ASSUME ProcsAssumption ==
  Root \notin Members /\ Stranger \notin Procs /\ Nobody \notin Procs \cup {Stranger}
ASSUME HostsAssumption ==
  Hosts \subseteq [flag : BOOLEAN, pidfd_opens : BOOLEAN, foreign_reaper : BOOLEAN,
             refusers : SUBSET Procs, hidden : SUBSET Procs]

VARIABLES
  host,      \* the host; it never changes
  life,      \* each process: unborn, alive, doomed, zombie, reaped
  reaper,    \* who reaped the root: nobody, this handle, or someone else
  away,      \* the root has left its own group
  taker,     \* the process whose number the stranger took, or Nobody
  leads,     \* the stranger leads a group by that number
  held,      \* a ReapHold is in force
  missed,    \* history: whom the last listing before a complete kill did not show: left out, or forked since
  terms,     \* history: the SIGTERMs each process got from this call
  fresh,     \* history: a number changed hands since the call's last step
  struck     \* history: how the stranger came to be signalled, if it was

kernel == <<life, reaper, away, taker, leads, held, missed, terms, fresh, struck>>

Flag == host.flag                       \* the kernel knows PIDFD_SIGNAL_PROCESS_GROUP (6.9+)
PidfdOpens == host.pidfd_opens          \* a listed member's pidfd can be opened
ForeignReaper == host.foreign_reaper    \* another reaper runs in this process
Refusers == host.refusers               \* those this process may not signal (another user's)
Hidden == host.hidden                   \* those /proc may not show: hidepid, or a row that does not parse

Unreaped == {"alive", "doomed", "zombie"}
RootReaped == life[Root] = "reaped"

\* The root's group, zombies included.
InGroup == {p \in Procs : life[p] \in Unreaped /\ (p = Root => ~away)}

\* Who a number names now: its process, the stranger, or nobody.
Holder(p) ==
  IF life[p] \in Unreaped THEN p ELSE IF taker = p THEN Stranger ELSE Nobody

\* Who the root's number names as a group.
GroupOfNumber == IF taker = Root THEN (IF leads THEN {Stranger} ELSE {}) ELSE InGroup

KernelInit ==
  /\ host \in Hosts
  /\ life \in [Procs -> {"unborn", "alive"}] /\ life[Root] = "alive"
  /\ reaper = "nobody" /\ away = FALSE
  /\ taker = Nobody /\ leads = FALSE
  /\ held = FALSE
  /\ missed = {}
  /\ terms = [p \in Procs |-> 0]
  /\ fresh = FALSE /\ struck = "no"

Becomes(p, stage) == life' = [life EXCEPT ![p] = stage]

Fork(p, q) ==
  /\ p \in InGroup /\ life[p] = "alive" /\ life[q] = "unborn"
  /\ p \in Refusers => q \in Refusers
  /\ Becomes(q, "alive")
  /\ missed' = missed \cup {q}
  /\ UNCHANGED <<reaper, away, taker, leads, held, terms, fresh, struck>>

Dies(p) ==
  /\ life[p] \in {"alive", "doomed"}
  /\ Becomes(p, "zombie")
  /\ UNCHANGED <<reaper, away, taker, leads, held, missed, terms, fresh, struck>>

\* A descendant's zombie is reaped by its parent, or by init.
Reaped(p) ==
  /\ p # Root /\ life[p] = "zombie"
  /\ Becomes(p, "reaped")
  /\ UNCHANGED <<reaper, away, taker, leads, held, missed, terms, fresh, struck>>

RootLeavesGroup ==
  /\ life[Root] = "alive" /\ ~away /\ away' = TRUE
  /\ UNCHANGED <<life, reaper, taker, leads, held, missed, terms, fresh, struck>>

ReapsRoot(who) ==
  /\ life[Root] = "zombie"
  /\ Becomes(Root, "reaped") /\ reaper' = who

\* Another reaper in this process takes the root's zombie, hold or no hold.
ForeignReap ==
  /\ ForeignReaper /\ ReapsRoot("elsewhere")
  /\ UNCHANGED <<away, taker, leads, held, missed, terms, fresh, struck>>

\* The kernel reissues a number, and its new process may lead a group by it.
TakeNumber(p) ==
  /\ taker = Nobody /\ life[p] = "reaped"
  /\ p = Root => InGroup = {}
  /\ taker' = p
  /\ leads' \in BOOLEAN /\ (leads' => p = Root)
  /\ fresh' = TRUE
  /\ UNCHANGED <<life, reaper, away, held, missed, terms, struck>>

-----------------------------------------------------------------------------
(* Signals *)

\* The processes of S take the signal, as far as they may be sent it.
Take(S, sig) ==
  /\ life' = [p \in Procs |-> IF p \in S \ Refusers /\ sig = "kill" /\ life[p] = "alive" THEN "doomed" ELSE life[p]]
  /\ terms' = [p \in Procs |-> IF p \in S \ Refusers /\ sig = "term" THEN terms[p] + 1 ELSE terms[p]]
  /\ struck' = IF Stranger \in S THEN (IF fresh THEN "window" ELSE "stale") ELSE struck
  /\ UNCHANGED <<reaper, away, taker, leads, held, missed, fresh>>

\* The answers a send to the processes of S may get.  One that nobody took
\* answers with the error of the member asked last.
Answers(S) ==
  IF S = {} THEN {"ESRCH"} ELSE IF S \ Refusers # {} THEN {"ok"} ELSE {"EPERM", "ESRCH"}

\* pidfd_group_has_member: a signal 0 to the group through the root's pidfd.
pidfd_group_has_member ==
  IF ~Flag THEN "none"
  ELSE IF InGroup = {} THEN "false"
  ELSE IF InGroup \ Refusers # {} THEN "true" ELSE "none"

\* ReapHold::state: the root through its own handle.
RootStates ==
  IF reaper = "own" THEN {"own"}
  ELSE IF reaper = "elsewhere" THEN {"elsewhere", "unknown"} ELSE {"unreaped", "unknown"}

\* root_identity_now: which process holds the root's number, if it can be read.
RootReads == {"Unknown", IF Holder(Root) = Nobody THEN "Gone" ELSE "Found"}

\* group_number_holds: the check from the root's state, where the pidfd cannot say.
group_number_holds ==
  UNION {IF s = "unreaped" THEN {"ok"}
         ELSE IF s = "own" THEN {IF r = "Gone" THEN "ok" ELSE "Unproven" : r \in RootReads}
         ELSE {"Unproven"} : s \in RootStates}

\* GroupRoot::check, before each send by the group's number.
RootChecks ==
  IF pidfd_group_has_member = "true" THEN {"ok"}
  ELSE IF pidfd_group_has_member = "false" THEN {"Empty"} ELSE group_number_holds
=============================================================================
