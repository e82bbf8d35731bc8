------------------------------ MODULE TreeWalk ------------------------------
(***************************************************************************)
(* The identity-aware tree walk (containment/treewalk.rs) and the two      *)
(* questions of identity/tree.rs that share its snapshot: one call         *)
(*                                                                         *)
(*   hard_kill, terminate    walk down from `root`, signal root and found  *)
(*   children, subtree       `ProcessId::children`, one level or all       *)
(*   parent                  `ProcessId::parent`                           *)
(*                                                                         *)
(* made while the process table (ProcTable) goes on changing between any   *)
(* two of the call's reads.                                                *)
(***************************************************************************)
EXTENDS ProcTable

CONSTANTS Ops,      \* the calls to look at
          MaxMoves  \* for each: bound on what the table does during it

ASSUME OpsAssumption ==
    /\ Ops \subseteq {"hard_kill", "terminate", "children", "subtree", "parent"}
    /\ MaxMoves \in [Ops \X Systems -> Nat]

NoId == [pid |-> -1, token |-> -1]

VARIABLES root,     \* the identity the call is about
          maker,    \* ghost: who made root, for `parent`
          op, pc,
          listed,   \* numbers of the /proc listing whose stat is still unread
          rows,     \* the (pid, ppid) snapshot, as far as it is unattached
          frontier, next,
          found,    \* the identities kept, in order: [id, kin, first]
          queue,    \* the identities still to be signalled
          seen,     \* what the last re-verification read at its number
          complete,
          result,   \* "none" until the call returns
          answer,   \* what `parent` answers
          calm,     \* ghost: what the table did since the call began
          moves,    \* how often the table changed since then
          owed,     \* ghost: who the call had to find if nothing moves
          strikes   \* ghost: [want, hit, seen] of every signal delivered

scan == <<listed, rows>>
bfs == <<frontier, next, found>>
kills == <<queue, seen, complete, strikes>>
ghosts == <<maker, calm, moves, owed>>
vars == <<tableVars, root, op, pc, scan, bfs, kills, result, answer, ghosts>>

Kills == op \in {"hard_kill", "terminate"}

Init ==
    /\ TableInit
    /\ root = NoId /\ maker = NoId
    /\ op = "none" /\ pc = "idle"
    /\ listed = {} /\ rows = {}
    /\ frontier = {} /\ next = {} /\ found = <<>>
    /\ queue = <<>> /\ seen = NoId /\ complete = TRUE
    /\ result = "none" /\ answer = NoId
    /\ calm = "still" /\ moves = 0 /\ owed = {} /\ strikes = {}

-----------------------------------------------------------------------------
(* The token-order rule                                                    *)

AllowEqualToken == os = "linux"

\* A mutant: the strict rule everywhere.
KeepsTokenStrict(token, anchor) == token > anchor

KeepsToken(token, anchor) ==
    token > anchor \/ (AllowEqualToken /\ token = anchor)

\* What the start token now at root's number says of root.
RootExists ==
    LET read == Resolve(root.pid)
    IN  CASE read.is = "unknown" -> "unknown"
          [] read.is = "found" /\ read.id = root -> "present"
          [] OTHER -> "gone"

-----------------------------------------------------------------------------
(* The call begins: a caller has root's identity, from a spawn or a lookup *)

Know(n) ==
    /\ pc = "idle" /\ root = NoId
    /\ Resolve(n).is = "found"
    /\ root' = IdAt(n)
    /\ maker' = IF table[n].line = <<>> THEN OutsideId
                ELSE table[n].line[Len(table[n].line)]
    /\ UNCHANGED <<tableVars, op, pc, scan, bfs, kills, result, answer, calm, moves, owed>>

\* Below root through running, readable makers all the way, root itself holding
\* its number.
Within(n) ==
    /\ IsAt(root) /\ table[root.pid].access # "hidden"
    /\ os = "linux" => Running(root.pid)
    /\ Running(n) /\ table[n].access # "hidden"
    /\ \E i \in DOMAIN table[n].line :
         /\ table[n].line[i] = root
         /\ \A j \in i + 1 .. Len(table[n].line) :
              LET up == table[n].line[j]
              IN  Lives(up) /\ table[up.pid].access # "hidden"

\* From here on only root's own descent matters of the truth about anyone's.
LineOfRoot ==
    table' = [n \in Numbers |->
        IF Holds(n) THEN [table[n] EXCEPT !.line = IF DescendsFrom(n, root) THEN <<root>> ELSE <<>>]
        ELSE table[n]]

Begin(o) ==
    /\ pc = "idle" /\ root # NoId
    /\ o = "terminate" => os = "linux"
    /\ op' = o
    /\ listed' = IF os = "linux" THEN {n \in Numbers : Holds(n)} ELSE {}
    /\ pc' = IF os = "linux" /\ listed' = {} THEN "anchor" ELSE "scan"
    /\ owed' = IF o # "hard_kill" THEN {}
               ELSE {IdAt(n) : n \in {m \in Numbers : Holds(m) /\ Within(m)}}
    /\ LineOfRoot
    /\ maker' = IF o = "parent" THEN maker ELSE NoId
    /\ UNCHANGED <<os, clock, births, odd, root, rows, bfs, kills, result, answer, calm, moves>>

\* The call's locals go with it.
Return(r) ==
    /\ pc' = "done" /\ result' = r
    /\ listed' = {} /\ rows' = {} /\ frontier' = {} /\ next' = {}

\* Linux: one stat after another, in the order of the numbers.  A process that
\* exited since the listing, or that hidepid hides, is left out.
ReadRow ==
    /\ pc = "scan" /\ os = "linux"
    /\ \E n \in listed :
         /\ \A m \in listed : n <= m
         /\ listed' = listed \ {n}
         /\ rows' = IF Resolve(n).is = "found"
                      THEN rows \union {<<n, table[n].ppid>>} ELSE rows
         /\ pc' = IF listed' = {} THEN "anchor" ELSE "scan"
    /\ UNCHANGED <<tableVars, root, op, bfs, kills, result, answer, ghosts>>

\* Windows: ToolHelp's copy is of one instant.  An exited process whose object
\* is still held may or may not be in it.
Snapshot ==
    /\ pc = "scan" /\ os = "windows"
    /\ \E dead \in SUBSET {n \in Numbers : Holds(n) /\ ~Running(n)} :
         rows' = {<<n, table[n].ppid>> : n \in {m \in Numbers : Running(m)} \union dead}
    /\ pc' = "anchor"
    /\ UNCHANGED <<tableVars, root, op, listed, bfs, kills, result, answer, ghosts>>

\* No snapshot, no walk: a partial list would read as "no descendants".
ScanFails ==
    /\ pc = "scan"
    /\ Return("error")
    /\ UNCHANGED <<tableVars, root, op, found, kills, answer, ghosts>>

-----------------------------------------------------------------------------
(* The anchor, asked after the snapshot                                    *)

HasRow(n) == \E r \in rows : r[1] = n

\* A mutant: root is not asked for again.
AnchorAssumed ==
    /\ pc = "anchor"
    /\ pc' = "walk" /\ frontier' = {root.pid} /\ UNCHANGED result
    /\ UNCHANGED <<tableVars, root, op, scan, next, found, kills, answer, ghosts>>

Anchor ==
    /\ pc = "anchor"
    /\ \/ RootExists = "unknown" /\ Return("error")
       \/ RootExists = "gone" /\ Return("ok")
       \/ /\ RootExists = "present"
          /\ pc' = CASE ~Kills /\ ~HasRow(root.pid) -> "absent"
                     [] op = "parent" /\ HasRow(root.pid) -> "of"
                     [] OTHER -> "walk"
          /\ frontier' = {root.pid}
          /\ UNCHANGED <<scan, next, result>>
    /\ UNCHANGED <<tableVars, root, op, found, kills, answer, ghosts>>

\* Root was there at its anchor and has no row: it went since, or the snapshot
\* left it out, which is an error.
AbsentFromSnapshot ==
    /\ pc = "absent"
    /\ Return(IF RootExists = "gone" THEN "ok" ELSE "error")
    /\ UNCHANGED <<tableVars, root, op, found, kills, answer, ghosts>>

\* `parent`: the number in root's row, read for its identity.
ParentOf ==
    /\ pc = "of"
    /\ LET row == CHOOSE r \in rows : r[1] = root.pid
           read == Resolve(row[2])
       IN  \/ read.is = "unknown" /\ Return("error") /\ UNCHANGED answer
           \/ read.is = "gone" /\ Return("ok") /\ UNCHANGED answer
           \/ /\ read.is = "found" /\ Return("ok")
              /\ answer' = IF row[2] # root.pid /\ KeepsToken(root.token, read.id.token)
                             THEN read.id ELSE NoId
    /\ UNCHANGED <<tableVars, root, op, found, kills, ghosts>>

-----------------------------------------------------------------------------
(* The walk: level by level, each candidate's identity read as it comes up *)

\* A number that may not be queried is dropped like one that is gone.
ResolveOrDrop(n) == Resolve(n).is = "found"

Candidates == {r \in rows : r[2] \in frontier}

Examine ==
    /\ pc = "walk"
    /\ \E row \in Candidates :
         LET n == row[1]
             kept == n # row[2] /\ ResolveOrDrop(n) /\ KeepsToken(table[n].token, root.token)
         IN  /\ \A r \in Candidates : n <= r[1]
             /\ rows' = rows \ {row}
             /\ IF kept
                  THEN /\ found' = Append(found, [id |-> IdAt(n),
                                                  kin |-> DescendsFrom(n, root),
                                                  first |-> row[2] = root.pid])
                       /\ next' = next \union {n}
                  ELSE UNCHANGED <<found, next>>
    /\ UNCHANGED <<tableVars, root, op, pc, listed, frontier, kills, result, answer, ghosts>>

\* Who is signalled: the root first.
Targets == <<root>> \o [i \in DOMAIN found |-> found[i].id]

\* The level is exhausted.  After the last one a kill turns to its targets;
\* `children` looks at one level only.
EndLevel ==
    /\ pc = "walk" /\ Candidates = {}
    /\ \/ /\ next # {} /\ op # "children"
          /\ frontier' = next /\ next' = {}
          /\ UNCHANGED <<pc, scan, queue, result>>
       \/ /\ (next = {} \/ op = "children") /\ ~Kills
          /\ Return("ok") /\ UNCHANGED queue
       \/ /\ next = {} /\ Kills
          /\ queue' = Targets
          /\ pc' = "verify" /\ rows' = {} /\ frontier' = {}
          /\ UNCHANGED <<listed, next, result>>
    /\ UNCHANGED <<tableVars, root, op, found, seen, complete, strikes, answer, ghosts>>

-----------------------------------------------------------------------------
(* kill_by_identity, for each target in turn                               *)

Target == Head(queue)
Skip == queue' = Tail(queue) /\ pc' = "verify" /\ seen' = NoId
Seen == seen' = IF Holds(Target.pid) THEN IdAt(Target.pid) ELSE NoId

\* Windows opens the process for the kill and the check at once.
OpenRefused(n) == os = "windows" /\ Holds(n) /\ table[n].access # "open"

\* Whether a signal to number n reaches its holder: Linux delivers to an exited
\* process too, TerminateProcess tells it apart.
Lands(n) == Holds(n) /\ table[n].access = "open" /\ (os = "windows" => Running(n))

\* A mutant: the kill trusts the identity the walk read.
VerifyUnasked ==
    /\ pc = "verify" /\ queue # <<>>
    /\ Seen /\ pc' = "strike" /\ UNCHANGED <<queue, complete>>
    /\ UNCHANGED <<tableVars, root, op, scan, bfs, strikes, result, answer, ghosts>>

\* The re-verification.  On Windows a refusal shows here already, and the handle
\* keeps the number from moving on.
Verify ==
    /\ pc = "verify" /\ queue # <<>>
    /\ LET read == Resolve(Target.pid)
           denied == read.is = "unknown" \/ OpenRefused(Target.pid)
       IN  \/ denied /\ complete' = FALSE /\ Skip
           \/ /\ ~denied /\ read # [is |-> "found", id |-> Target]
              /\ Skip /\ UNCHANGED complete
           \/ /\ ~denied /\ read = [is |-> "found", id |-> Target]
              /\ Seen /\ pc' = "strike" /\ UNCHANGED <<queue, complete>>
    /\ UNCHANGED <<tableVars, root, op, scan, bfs, strikes, result, answer, ghosts>>

\* The signal itself.  On Linux it goes to whoever holds the number by now.
Strike ==
    /\ pc = "strike" /\ Skip
    /\ LET n == Target.pid
       IN  /\ complete' = (complete /\ ~(Holds(n) /\ table[n].access # "open"))
           /\ strikes' = IF Lands(n)
                           THEN strikes \union {[want |-> Target, hit |-> IdAt(n), seen |-> seen]}
                           ELSE strikes
           /\ table' = IF Lands(n) /\ op = "hard_kill" /\ Running(n) THEN Ended(n) ELSE table
    /\ UNCHANGED <<os, clock, births, odd, root, op, scan, bfs, result, answer, ghosts>>

AllStruck ==
    /\ pc = "verify" /\ queue = <<>>
    /\ Return(IF complete \/ op = "terminate" THEN "ok" ELSE "incomplete")
    /\ UNCHANGED <<tableVars, root, op, found, kills, answer, ghosts>>

-----------------------------------------------------------------------------
(* The host, between any two steps of the call                             *)

Pinned(n) == pc = "strike" /\ os = "windows" /\ Target.pid = n

\* The table may still change: always before the call, within the bound during it.
Restless == IF pc = "idle" THEN TRUE ELSE moves + 2 * odd < MaxMoves[op, os]

During(change) ==
    IF pc = "idle" THEN UNCHANGED <<calm, moves>>
    ELSE /\ moves' = moves + 1
         /\ calm' = IF calm = "swapped" THEN calm ELSE change

\* Before a Windows snapshot the call has read nothing yet, and what happens then
\* may as well happen before the call.
World ==
    /\ Restless /\ pc # "done" /\ ~(pc = "scan" /\ os = "windows")
    /\ \/ Tick /\ UNCHANGED <<calm, moves>>
       \/ \E n \in Numbers, by \in Numbers \union {Outside} :
            Fork(by, n) /\ During(IF table[n].token = -1 THEN "moving" ELSE "swapped")
       \/ \E n \in Numbers : Exit(n) /\ During("moving")
       \/ \E n \in Numbers : ~Pinned(n) /\ Release(n) /\ During("moving")
    /\ UNCHANGED <<root, maker, op, pc, scan, bfs, kills, result, answer, owed>>

Next ==
    \/ \E n \in Numbers : Know(n)
    \/ \E o \in Ops : Begin(o)
    \/ ReadRow \/ Snapshot \/ ScanFails
    \/ Anchor \/ AbsentFromSnapshot \/ ParentOf
    \/ Examine \/ EndLevel
    \/ Verify \/ Strike \/ AllStruck
    \/ World

Spec == Init /\ [][Next]_vars

-----------------------------------------------------------------------------
(* Properties                                                              *)

\* As long as no number changes hands under the walk, what it keeps descends
\* from root: on Linux at every level, on Windows at the first (below it a
\* parent number that went stale before the walk is held against root's token
\* only, not against its own parent's).  `parent` then answers root's maker, or
\* pid 1 once Linux has handed root over; on Windows it does so always, because
\* a new holder of the maker's number is younger than root.
FoundIsGenuine ==
    /\ calm # "swapped" =>
         \A i \in DOMAIN found :
           found[i].kin \/ (os = "windows" /\ ~found[i].first)
    /\ answer # NoId /\ (calm # "swapped" \/ os = "windows") =>
         answer = maker \/ (os = "linux" /\ answer = OutsideId)

\* A signal reaches the identity it was meant for.  On Linux, where the kill is
\* by number, it can reach another only if the number changed hands after the
\* re-verification had found the right process there.
HitsTheIdentity ==
    \A s \in strikes :
      s.hit = s.want \/ (os = "linux" /\ s.seen = s.want)

\* A hard_kill that reports a complete walk leaves neither root nor anything it
\* resolved running; and if the table stood still meanwhile, nothing below root
\* that could be read, at any depth.
CompleteMeansDown ==
    op = "hard_kill" /\ result = "ok" =>
      /\ \A i \in DOMAIN found : ~Lives(found[i].id)
      /\ ~Lives(root)
      /\ calm = "still" => \A id \in owed : ~Lives(id)

=============================================================================
