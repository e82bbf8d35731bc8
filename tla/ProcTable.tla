----------------------------- MODULE ProcTable -----------------------------
(***************************************************************************)
(* The host's process table, as the tree walk and `ProcessId` see it: a    *)
(* number (pid) is held by one process at a time, and a process is         *)
(* identified by its number and its start token (identity.rs).  The table  *)
(* belongs to the operating system and keeps changing while a walk reads   *)
(* it: processes fork, exit, are reaped, and numbers change hands.         *)
(*                                                                         *)
(* Two systems are told apart.  Linux hands the children of an exiting     *)
(* process to pid 1, so a parent number is always current.  Windows never  *)
(* rewrites it, so it may name a number that has changed hands since.      *)
(***************************************************************************)
EXTENDS Integers, FiniteSets, Sequences

CONSTANTS Numbers,      \* the process numbers in play, positive integers
          Systems,      \* the operating systems to look at
          Accesses,     \* what a process may let the caller do to it
          MaxOdd,       \* bound on the processes that are not open to the caller
          MaxTick,      \* bound on the start-token clock
          MaxBirths     \* bound on the processes ever created

ASSUME TableAssumption ==
    /\ Numbers \subseteq Nat \ {0} /\ IsFiniteSet(Numbers)
    /\ Systems \subseteq {"linux", "windows"}
    /\ Accesses \subseteq {"open", "refuses", "hidden"}
    /\ MaxOdd \in Nat /\ MaxTick \in Nat /\ MaxBirths \in Nat

VARIABLES os,       \* the operating system; never changes
          table,    \* who holds each number
          clock,    \* the clock start tokens are read from
          births,   \* how many processes were ever created
          odd       \* how many of them are not open to the caller

tableVars == <<os, table, clock, births, odd>>

\* The number of pid 1, and of every process outside the play.
Outside == 0
OutsideId == [pid |-> Outside, token |-> -1]

\* A number nobody holds.  It remembers its last holder's token: two holders of
\* one number never share a token, which is what makes a ProcessId unique.
Free(token) == [state |-> "free", token |-> token]

\* `ppid` is the parent number the table shows.  `line` is the truth about its
\* descent, which no system call tells: the identities of its makers, eldest
\* first.
Process(token, ppid, line, access) ==
    [state |-> "running", token |-> token, ppid |-> ppid, line |-> line, access |-> access]

Holds(n) == table[n].state # "free"
Running(n) == table[n].state = "running"

IdAt(n) == [pid |-> n, token |-> table[n].token]
IsAt(id) == Holds(id.pid) /\ table[id.pid].token = id.token
Lives(id) == IsAt(id) /\ Running(id.pid)

DescendsFrom(n, root) == \E i \in DOMAIN table[n].line : table[n].line[i] = root

\* What a read of number n's identity answers (ProcessId::of): a process that
\* has exited and is not reaped yet still has one, and one that may not be
\* queried is not taken for absent.
Resolve(n) ==
    IF n = Outside THEN [is |-> "found", id |-> OutsideId]
    ELSE IF ~Holds(n) THEN [is |-> "gone"]
    ELSE IF table[n].access = "hidden" THEN [is |-> "unknown"]
    ELSE [is |-> "found", id |-> IdAt(n)]

TableInit ==
    /\ os \in Systems
    /\ table = [n \in Numbers |-> Free(-1)]
    /\ clock = 0
    /\ births = 0 /\ odd = 0

Tick ==
    /\ clock < MaxTick
    /\ clock' = clock + 1
    /\ UNCHANGED <<os, table, births, odd>>

\* Process `by` (or one outside the play) makes a process with number n.  The
\* Windows clock is fine enough that a child's token is past its maker's.
Fork(by, n) ==
    /\ ~Holds(n) /\ table[n].token < clock
    /\ by # Outside => /\ Running(by)
                       /\ os = "windows" => table[by].token < clock
    /\ \E access \in Accesses :
         /\ odd' = odd + (IF access = "open" THEN 0 ELSE 1)
         /\ odd' <= MaxOdd /\ births + odd' < MaxBirths
         /\ LET line == IF by = Outside THEN <<>> ELSE Append(table[by].line, IdAt(by))
            IN  table' = [table EXCEPT ![n] = Process(clock, by, line, access)]
    /\ births' = births + 1
    /\ UNCHANGED <<os, clock>>

\* The table after process n has ended.
Ended(n) ==
    [m \in Numbers |->
        IF m = n THEN [table[m] EXCEPT !.state = "exited"]
        ELSE IF os = "linux" /\ Holds(m) /\ table[m].ppid = n
             THEN [table[m] EXCEPT !.ppid = Outside]
        ELSE table[m]]

Exit(n) ==
    /\ Running(n)
    /\ table' = Ended(n)
    /\ UNCHANGED <<os, clock, births, odd>>

\* The number of an exited process comes free: its parent waited for it (Linux),
\* or the last handle to it was closed (Windows).
Release(n) ==
    /\ table[n].state = "exited"
    /\ table' = [table EXCEPT ![n] = Free(table[n].token)]
    /\ UNCHANGED <<os, clock, births, odd>>

=============================================================================
