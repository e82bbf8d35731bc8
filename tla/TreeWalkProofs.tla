--------------------------- MODULE TreeWalkProofs ---------------------------
(***************************************************************************)
(* What the tree walk promises, proved for any process numbers, any clock, *)
(* any number of processes and any changes of the table under the call.    *)
(***************************************************************************)
EXTENDS TreeWalk, TLAPS

-----------------------------------------------------------------------------
(* Types, phases, tokens and parents: the invariant                        *)

\* What the state holds: identities, what the walk keeps, a number's slot.
Id == [pid : Numbers, token : Nat]
Kept == [id : Id, kin : BOOLEAN, first : BOOLEAN]
FreeSlot == [state : {"free"}, token : Nat \cup {-1}]
UsedSlot == [state : {"running", "exited"}, token : Nat, ppid : Numbers \cup {Outside},
             line : Seq(Id), access : Accesses]

\* Every variable has its type.
TypeInv ==
  /\ os \in {"linux", "windows"} /\ clock \in Nat
  /\ table \in [Numbers -> FreeSlot \cup UsedSlot]
  /\ root \in Id \cup {NoId} /\ maker \in Id \cup {OutsideId, NoId}
  /\ \A n \in listed : n \in Numbers
  /\ \A r \in rows : r = <<r[1], r[2]>> /\ r[1] \in Numbers /\ r[2] \in Numbers \cup {Outside}
  /\ \A n \in frontier \cup next : n \in Numbers
  /\ found \in Seq(Kept)
  /\ queue \in Seq(Id)

(* Where the call is, and what it has by then. *)
Scanned == {"anchor", "absent", "of", "walk"}
Killing == {"verify", "strike"}
PhaseInv ==
  /\ pc \in {"idle", "scan", "done"} \cup Scanned \cup Killing
  /\ pc # "idle" => root \in Id /\ op \in Ops
  /\ pc = "idle" => op = "none"
  /\ pc = "absent" => ~Kills
  /\ pc = "of" => op = "parent"
  /\ pc \in Killing => Kills
  /\ pc = "strike" => queue # <<>>
  /\ pc = "scan" /\ os = "linux" => listed # {}
  /\ pc \in {"idle", "scan", "anchor"} => frontier = {} /\ next = {} /\ found = <<>>
  /\ pc \in {"idle", "done"} \cup Killing \/ (pc = "scan" /\ os = "windows") => rows = {}
  /\ pc # "done" => result = "none" /\ answer = NoId
  /\ op # "hard_kill" => owed = {}

(* Tokens come from the clock, and a number's tokens only grow: one that was  *)
(* somebody's is at most the one the number has now.                          *)
Once(id) == id.token <= table[id.pid].token
TokenInv ==
  /\ \A n \in Numbers : table[n].token <= clock
  /\ root \in Id => Once(root)
  /\ \A i \in DOMAIN found : Once(found[i].id)

(* Nobody is his own parent, and on Linux a parent number is a running process. *)
ParentInv ==
  \A m \in Numbers : Holds(m) =>
    /\ table[m].ppid # m
    /\ os = "linux" /\ table[m].ppid # Outside => Running(table[m].ppid)

\* n descends from root, truly.
Kin(n) == DescendsFrom(n, root)

\* root's number has not changed hands.
RootKeeps == table[root.pid].token = root.token

-----------------------------------------------------------------------------
(* What a step does to the table, number by number                         *)

\* `by` makes a process with number n.
Forks(by, n) ==
  /\ n \in Numbers /\ by \in Numbers \cup {Outside} /\ by # n
  /\ ~Holds(n) /\ table[n].token < clock
  /\ by # Outside => Running(by) /\ (os = "windows" => table[by].token < clock)
  /\ table'[n].state = "running" /\ table'[n].token = clock /\ table'[n].ppid = by
  /\ table'[n].line = IF by = Outside THEN <<>> ELSE Append(table[by].line, IdAt(by))
  /\ table'[n] \in UsedSlot
  /\ \A m \in Numbers : m # n => table'[m] = table[m]

\* The process at n exits; on Linux its children go to pid 1.
Ends(n) ==
  /\ n \in Numbers /\ Running(n) /\ table'[n].state = "exited"
  /\ \A m \in Numbers :
       /\ table'[m].token = table[m].token
       /\ m # n => table'[m].state = table[m].state
       /\ Holds(m) =>
            /\ table'[m].line = table[m].line /\ table'[m].access = table[m].access
            /\ table'[m].ppid = IF m # n /\ os = "linux" /\ table[m].ppid = n
                                  THEN Outside ELSE table[m].ppid

\* The number n comes free.
Frees(n) ==
  /\ n \in Numbers /\ table[n].state = "exited"
  /\ table'[n].state = "free" /\ table'[n].token = table[n].token
  /\ \A m \in Numbers : m # n => table'[m] = table[m]

\* The call begins, and of each line only root is kept.
Trims ==
  \A m \in Numbers :
    /\ table'[m].token = table[m].token /\ table'[m].state = table[m].state
    /\ Holds(m) =>
         /\ table'[m].ppid = table[m].ppid /\ table'[m].access = table[m].access
         /\ table'[m].line = IF Kin(m) THEN <<root>> ELSE <<>>

\* A slot is free or used, and a used one has the fields of a process.
LEMMA SlotShape ==
  ASSUME TypeInv, NEW m \in Numbers
  PROVE  /\ table[m].token \in Int
         /\ ~Holds(m) => table[m] \in FreeSlot
         /\ Holds(m) => /\ table[m] \in UsedSlot /\ table[m].token \in Nat
                        /\ table[m].ppid \in Numbers \cup {Outside}
                        /\ table[m].line \in Seq(Id) /\ table[m].access \in Accesses
                        /\ table[m].state \in {"running", "exited"}
                        /\ IdAt(m) \in Id
<1>1. table[m] \in FreeSlot \/ table[m] \in UsedSlot BY DEF TypeInv
<1>2. table[m] \in FreeSlot => table[m].token \in Int /\ ~Holds(m) BY DEF FreeSlot, Holds
<1>3. table[m] \in UsedSlot =>
        /\ table[m].token \in Nat /\ Holds(m) /\ table[m].ppid \in Numbers \cup {Outside}
        /\ table[m].line \in Seq(Id) /\ table[m].access \in Accesses
        /\ table[m].state \in {"running", "exited"}
  BY DEF UsedSlot, Holds
<1>4. table[m].token \in Nat => IdAt(m) \in Id BY DEF Id, IdAt
<1> QED BY <1>1, <1>2, <1>3, <1>4

\* Process numbers are positive.
LEMMA NumberShape ==
  ASSUME NEW m \in Numbers
  PROVE  m \in Nat /\ m # Outside /\ m # -1 /\ [pid |-> m, token |-> 0] # NoId
  BY TableAssumption DEF Outside, NoId

\* Fork, seen number by number, and the slot stays well formed.
LEMMA ForkView ==
  ASSUME TypeInv, NEW n \in Numbers, NEW by \in Numbers \cup {Outside}, Fork(by, n)
  PROVE  Forks(by, n) /\ table' \in [Numbers -> FreeSlot \cup UsedSlot]
<1>1. table \in [Numbers -> FreeSlot \cup UsedSlot] /\ clock \in Nat BY DEF TypeInv
<1>2. by # Outside => by \in Numbers /\ Running(by) BY DEF Fork
<1>3. by # n BY <1>2, NumberShape DEF Fork, Holds, Running
<1> DEFINE line == IF by = Outside THEN <<>> ELSE Append(table[by].line, IdAt(by))
<1>4. line \in Seq(Id)
  <2>1. CASE by = Outside BY <2>1
  <2>2. CASE by # Outside
    <3>1. Holds(by) BY <1>2, <2>2 DEF Holds, Running
    <3>2. table[by].line \in Seq(Id) /\ IdAt(by) \in Id BY <1>2, <2>2, <3>1, SlotShape
    <3> QED BY <2>2, <3>2
  <2> QED BY <2>1, <2>2
<1>5. PICK access \in Accesses : table' = [table EXCEPT ![n] = Process(clock, by, line, access)]
  BY Zenon DEF Fork
<1> HIDE DEF line
<1>6. Process(clock, by, line, access) \in UsedSlot BY <1>1, <1>4 DEF Process, UsedSlot
<1>7. table'[n] = Process(clock, by, line, access) BY <1>1, <1>5
<1>8. \A m \in Numbers : m # n => table'[m] = table[m] BY <1>1, <1>5
<1>9. table' \in [Numbers -> FreeSlot \cup UsedSlot] BY <1>1, <1>5, <1>6
<1>10. /\ table'[n].state = "running" /\ table'[n].token = clock /\ table'[n].ppid = by
       /\ table'[n].line = line
  BY <1>7 DEF Process
<1>11. /\ ~Holds(n) /\ table[n].token < clock
       /\ by # Outside => Running(by) /\ (os = "windows" => table[by].token < clock)
  BY DEF Fork
<1> QED BY <1>3, <1>6, <1>7, <1>8, <1>9, <1>10, <1>11 DEF Forks, line

\* The end of a process, by exit or by the kill, seen number by number.
LEMMA EndView ==
  ASSUME TypeInv, NEW n \in Numbers, Running(n), table' = Ended(n)
  PROVE  Ends(n) /\ table' \in [Numbers -> FreeSlot \cup UsedSlot]
<1>0. table \in [Numbers -> FreeSlot \cup UsedSlot] BY DEF TypeInv
<1>1. Holds(n) BY DEF Holds, Running
<1>2. /\ table'[n] = [table[n] EXCEPT !.state = "exited"]
      /\ table[n] \in UsedSlot
  BY <1>1, SlotShape DEF Ended
<1>3. /\ table'[n] \in UsedSlot /\ table'[n].state = "exited"
      /\ table'[n].token = table[n].token /\ table'[n].line = table[n].line
      /\ table'[n].access = table[n].access /\ table'[n].ppid = table[n].ppid
  BY <1>2 DEF UsedSlot
<1>4. ASSUME NEW m \in Numbers, m # n
      PROVE  /\ table'[m] \in FreeSlot \cup UsedSlot
             /\ table'[m].token = table[m].token /\ table'[m].state = table[m].state
             /\ Holds(m) =>
                  /\ table'[m].line = table[m].line /\ table'[m].access = table[m].access
                  /\ table'[m].ppid = IF os = "linux" /\ table[m].ppid = n THEN Outside ELSE table[m].ppid
  <2>1. CASE os = "linux" /\ Holds(m) /\ table[m].ppid = n
    <3>1. table'[m] = [table[m] EXCEPT !.ppid = Outside] /\ table[m] \in UsedSlot
      BY <1>4, <2>1, SlotShape DEF Ended
    <3> QED BY <2>1, <3>1 DEF UsedSlot
  <2>2. CASE ~(os = "linux" /\ Holds(m) /\ table[m].ppid = n)
    <3>1. table'[m] = table[m] BY <1>4, <2>2 DEF Ended
    <3> QED BY <1>0, <2>2, <3>1
  <2> QED BY <2>1, <2>2
<1>5. table' \in [Numbers -> FreeSlot \cup UsedSlot]
  <2>1. \A m \in Numbers : table'[m] \in FreeSlot \cup UsedSlot BY <1>3, <1>4
  <2>2. table' = [m \in Numbers |-> table'[m]] BY DEF Ended
  <2> QED BY <2>1, <2>2
<1>6. Ends(n)
  BY <1>3, <1>4, Zenon DEF Ends
<1> QED BY <1>5, <1>6

\* A number coming free, seen number by number.
LEMMA ReleaseView ==
  ASSUME TypeInv, NEW n \in Numbers, Release(n)
  PROVE  Frees(n) /\ table' \in [Numbers -> FreeSlot \cup UsedSlot]
<1>0. table \in [Numbers -> FreeSlot \cup UsedSlot] BY DEF TypeInv
<1>1. table[n].state = "exited" /\ table' = [table EXCEPT ![n] = Free(table[n].token)] BY DEF Release
<1>2. table[n].token \in Nat BY <1>1, SlotShape DEF Holds
<1>3. Free(table[n].token) \in FreeSlot BY <1>2 DEF Free, FreeSlot
<1>4. table'[n] = Free(table[n].token) /\ \A m \in Numbers : m # n => table'[m] = table[m] BY <1>0, <1>1
<1>5. table'[n].state = "free" /\ table'[n].token = table[n].token BY <1>4 DEF Free
<1>6. table' \in [Numbers -> FreeSlot \cup UsedSlot] BY <1>0, <1>1, <1>3
<1> QED BY <1>1, <1>4, <1>5, <1>6 DEF Frees

\* The lines as a call begins, seen number by number.
LEMMA TrimView ==
  ASSUME TypeInv, root \in Id, LineOfRoot
  PROVE  Trims /\ table' \in [Numbers -> FreeSlot \cup UsedSlot]
<1>0. table \in [Numbers -> FreeSlot \cup UsedSlot] BY DEF TypeInv
<1>1. ASSUME NEW m \in Numbers
      PROVE  /\ table'[m] \in FreeSlot \cup UsedSlot
             /\ table'[m].token = table[m].token /\ table'[m].state = table[m].state
             /\ Holds(m) =>
                  /\ table'[m].ppid = table[m].ppid /\ table'[m].access = table[m].access
                  /\ table'[m].line = IF Kin(m) THEN <<root>> ELSE <<>>
  <2>1. CASE Holds(m)
    <3> DEFINE line == IF Kin(m) THEN <<root>> ELSE <<>>
    <3>1. table'[m] = [table[m] EXCEPT !.line = line] BY <2>1 DEF LineOfRoot, Kin
    <3>2. line \in Seq(Id) OBVIOUS
    <3>3. table[m] \in UsedSlot BY <2>1, SlotShape
    <3> HIDE DEF line
    <3>4. /\ table'[m] \in UsedSlot /\ table'[m].line = line
          /\ table'[m].token = table[m].token /\ table'[m].state = table[m].state
          /\ table'[m].ppid = table[m].ppid /\ table'[m].access = table[m].access
      BY <3>1, <3>2, <3>3, Zenon DEF UsedSlot
    <3> QED BY <3>4, Zenon DEF line
  <2>2. CASE ~Holds(m)
    <3>1. table'[m] = table[m] BY <2>2 DEF LineOfRoot
    <3> QED BY <1>0, <2>2, <3>1
  <2> QED BY <2>1, <2>2
<1>2. table' \in [Numbers -> FreeSlot \cup UsedSlot]
  <2>1. table' = [m \in Numbers |-> table'[m]] BY DEF LineOfRoot
  <2> QED BY <1>1, <2>1
<1>3. Trims BY <1>1, Zenon DEF Trims
<1> QED BY <1>2, <1>3

-----------------------------------------------------------------------------
(* What the host and the call's reads give                                 *)

\* What a step of the host leaves alone.
HostKeeps ==
  /\ pc # "done" /\ pc' = pc /\ ~(pc = "scan" /\ os = "windows")
  /\ UNCHANGED <<os, root, maker, op, listed, rows, frontier, next, found>>
  /\ UNCHANGED <<queue, seen, complete, strikes, result, answer, owed>>

\* The ghost `calm` tells a table that stood still during the call, and one in
\* which no number changed hands.
Moved == calm' # "still" /\ (calm' # "swapped" => calm # "swapped")

\* A step of the host ticks, forks, ends a process or frees its number.
LEMMA HostView ==
  ASSUME TypeInv, World
  PROVE  /\ HostKeeps /\ table' \in [Numbers -> FreeSlot \cup UsedSlot]
         /\ pc = "idle" => calm' = calm
         /\ \/ table' = table /\ clock' = clock + 1 /\ calm' = calm
            \/ /\ clock' = clock /\ (pc # "idle" => Moved)
               /\ \/ \E n \in Numbers, by \in Numbers \cup {Outside} :
                       /\ Forks(by, n)
                       /\ pc # "idle" /\ calm' # "swapped" => table[n].token = -1
                  \/ \E n \in Numbers : Ends(n)
                  \/ \E n \in Numbers : Frees(n) /\ ~Pinned(n)
<1>1. HostKeeps
  <2>1. os' = os BY DEF World, Tick, Fork, Exit, Release
  <2> QED BY <2>1 DEF World, HostKeeps, scan, bfs, kills
<1>2. CASE Tick /\ UNCHANGED <<calm, moves>>
  <2>1. table' \in [Numbers -> FreeSlot \cup UsedSlot] BY <1>2 DEF Tick, TypeInv
  <2> QED BY <1>1, <1>2, <2>1 DEF Tick
<1>3. ASSUME NEW n \in Numbers, NEW by \in Numbers \cup {Outside}, Fork(by, n),
             During(IF table[n].token = -1 THEN "moving" ELSE "swapped")
      PROVE  /\ Forks(by, n) /\ table' \in [Numbers -> FreeSlot \cup UsedSlot]
             /\ clock' = clock /\ (pc = "idle" => calm' = calm) /\ (pc # "idle" => Moved)
             /\ pc # "idle" /\ calm' # "swapped" => table[n].token = -1
  <2>1. clock' = clock BY <1>3 DEF Fork
  <2>2. Forks(by, n) /\ table' \in [Numbers -> FreeSlot \cup UsedSlot] BY <1>3, ForkView
  <2>3. (pc = "idle" => calm' = calm) /\ (pc # "idle" => Moved) BY <1>3 DEF During, Moved
  <2>4. pc # "idle" /\ calm' # "swapped" => table[n].token = -1 BY <1>3 DEF During
  <2> QED BY <2>1, <2>2, <2>3, <2>4
<1>4. ASSUME NEW n \in Numbers, Exit(n), During("moving")
      PROVE  /\ Ends(n) /\ table' \in [Numbers -> FreeSlot \cup UsedSlot]
             /\ clock' = clock /\ (pc = "idle" => calm' = calm) /\ (pc # "idle" => Moved)
  <2>1. clock' = clock /\ Running(n) /\ table' = Ended(n) BY <1>4 DEF Exit
  <2>2. Ends(n) /\ table' \in [Numbers -> FreeSlot \cup UsedSlot] BY <2>1, EndView
  <2>3. (pc = "idle" => calm' = calm) /\ (pc # "idle" => Moved) BY <1>4 DEF During, Moved
  <2> QED BY <2>1, <2>2, <2>3
<1>5. ASSUME NEW n \in Numbers, Release(n), During("moving"), ~Pinned(n)
      PROVE  /\ Frees(n) /\ table' \in [Numbers -> FreeSlot \cup UsedSlot]
             /\ clock' = clock /\ (pc = "idle" => calm' = calm) /\ (pc # "idle" => Moved)
  <2>1. clock' = clock BY <1>5 DEF Release
  <2>2. Frees(n) /\ table' \in [Numbers -> FreeSlot \cup UsedSlot] BY <1>5, ReleaseView
  <2>3. (pc = "idle" => calm' = calm) /\ (pc # "idle" => Moved) BY <1>5 DEF During, Moved
  <2> QED BY <2>1, <2>2, <2>3
<1> QED BY <1>1, <1>2, <1>3, <1>4, <1>5, Zenon DEF World

\* The kill's signal ends its target or leaves the table alone.
LEMMA StrikeView ==
  ASSUME TypeInv, Strike, Target.pid \in Numbers
  PROVE  /\ table' \in [Numbers -> FreeSlot \cup UsedSlot]
         /\ \/ table' = table /\ ~(Lands(Target.pid) /\ op = "hard_kill" /\ Running(Target.pid))
            \/ Ends(Target.pid) /\ Lands(Target.pid) /\ op = "hard_kill" /\ Running(Target.pid)
<1>1. CASE Lands(Target.pid) /\ op = "hard_kill" /\ Running(Target.pid)
  <2>1. table' = Ended(Target.pid) BY <1>1 DEF Strike
  <2> HIDE DEF Target
  <2>2. Ends(Target.pid) /\ table' \in [Numbers -> FreeSlot \cup UsedSlot] BY <1>1, <2>1, EndView
  <2> QED BY <1>1, <2>2
<1>2. CASE ~(Lands(Target.pid) /\ op = "hard_kill" /\ Running(Target.pid))
  <2>1. table' = table BY <1>2 DEF Strike
  <2> QED BY <1>2, <2>1 DEF TypeInv
<1> QED BY <1>1, <1>2

\* What a read of a number answers.
LEMMA ReadView ==
  ASSUME TypeInv, NEW n \in Numbers
  PROVE  /\ Resolve(n).is = "found" <=> Holds(n) /\ table[n].access # "hidden"
         /\ Resolve(n).is = "gone" <=> ~Holds(n)
         /\ Resolve(n).is = "found" => Resolve(n) = [is |-> "found", id |-> IdAt(n)]
         /\ Resolve(n).is \in {"found", "gone", "unknown"}
<1>1. n # Outside BY NumberShape
<1> QED BY <1>1 DEF Resolve

\* An identity is where its number's slot has its token.
LEMMA IdentityShape ==
  ASSUME NEW id \in Id
  PROVE  /\ id.pid \in Numbers /\ id.token \in Nat /\ id # NoId /\ id # OutsideId
         /\ \A n : id = IdAt(n) <=> n = id.pid /\ table[n].token = id.token
<1>1. id = [pid |-> id.pid, token |-> id.token] /\ id.pid \in Numbers /\ id.token \in Nat BY DEF Id
<1>2. id # NoId /\ id # OutsideId BY <1>1, NumberShape DEF NoId, OutsideId
<1>3. \A n : id = IdAt(n) <=> n = id.pid /\ table[n].token = id.token BY <1>1 DEF IdAt
<1> QED BY <1>1, <1>2, <1>3

\* The anchor: what the token at root's number says of root.
LEMMA AnchorView ==
  ASSUME TypeInv, root \in Id
  PROVE  /\ RootExists = "present" <=> IsAt(root) /\ table[root.pid].access # "hidden"
         /\ RootExists = "gone" => ~IsAt(root)
         /\ RootExists \in {"present", "gone", "unknown"}
<1>1. root.pid \in Numbers /\ \A n : root = IdAt(n) <=> n = root.pid /\ table[n].token = root.token
  BY IdentityShape
<1> DEFINE read == Resolve(root.pid)
<1>2. /\ read.is = "found" <=> Holds(root.pid) /\ table[root.pid].access # "hidden"
      /\ read.is = "gone" <=> ~Holds(root.pid)
      /\ read.is = "found" => read.id = IdAt(root.pid)
      /\ read.is \in {"found", "gone", "unknown"}
  BY <1>1, ReadView
<1> HIDE DEF read
<1>3. RootExists = CASE read.is = "unknown" -> "unknown"
                     [] read.is = "found" /\ read.id = root -> "present"
                     [] OTHER -> "gone"
  BY DEF RootExists, read
<1>4. read.is = "unknown" => RootExists = "unknown" BY <1>3
<1>5. read.is = "found" /\ read.id = root => RootExists = "present" BY <1>3
<1>6. read.is # "unknown" /\ ~(read.is = "found" /\ read.id = root) => RootExists = "gone" BY <1>3
<1> QED BY <1>1, <1>2, <1>4, <1>5, <1>6 DEF IsAt

-----------------------------------------------------------------------------
(* Types and phases                                                        *)

Shape == TypeInv /\ PhaseInv

\* TypeInv but for the table: what the call's own steps keep or set.
CallTypes ==
  /\ os \in {"linux", "windows"} /\ clock \in Nat
  /\ root \in Id \cup {NoId} /\ maker \in Id \cup {OutsideId, NoId}
  /\ \A n \in listed : n \in Numbers
  /\ \A r \in rows : r = <<r[1], r[2]>> /\ r[1] \in Numbers /\ r[2] \in Numbers \cup {Outside}
  /\ \A n \in frontier \cup next : n \in Numbers
  /\ found \in Seq(Kept)
  /\ queue \in Seq(Id)

\* ReadRow takes a listed number off, and adds its row if its stat was read.
LEMMA ReadRowView ==
  ASSUME Shape, ReadRow
  PROVE  \E n \in Numbers :
           /\ n \in listed /\ listed' = listed \ {n}
           /\ Resolve(n).is = "found" => Holds(n) /\ rows' = rows \cup {<<n, table[n].ppid>>}
           /\ Resolve(n).is # "found" => rows' = rows
           /\ pc' = IF listed' = {} THEN "anchor" ELSE "scan"
<1>1. PICK n \in listed : /\ listed' = listed \ {n}
                          /\ rows' = IF Resolve(n).is = "found"
                                       THEN rows \cup {<<n, table[n].ppid>>} ELSE rows
                          /\ pc' = IF listed' = {} THEN "anchor" ELSE "scan"
  BY Zenon DEF ReadRow
<1>2. n \in Numbers BY DEF Shape, TypeInv
<1>3. Resolve(n).is = "found" => Holds(n) BY <1>2, ReadView DEF Shape
<1> QED BY <1>1, <1>2, <1>3

\* Examine takes one row below the frontier off, and keeps what it resolves
\* there unless it is its own parent, unreadable, or older than root.
Keeps(row) ==
  /\ row[1] # row[2] /\ Holds(row[1]) /\ table[row[1]].access # "hidden"
  /\ KeepsToken(table[row[1]].token, root.token)

\* descendants_with takes one candidate row, and keeps its number or drops it.
LEMMA ExamineView ==
  ASSUME Shape, Examine
  PROVE  \E row \in rows :
           /\ row[2] \in frontier /\ rows' = rows \ {row}
           /\ row[1] \in Numbers
           /\ Keeps(row) =>
                /\ found' = Append(found, [id |-> IdAt(row[1]), kin |-> Kin(row[1]),
                                           first |-> row[2] = root.pid])
                /\ next' = next \cup {row[1]}
           /\ ~Keeps(row) => found' = found /\ next' = next
<1> DEFINE kept(r) == r[1] # r[2] /\ ResolveOrDrop(r[1]) /\ KeepsToken(table[r[1]].token, root.token)
<1>1. PICK row \in Candidates :
        /\ rows' = rows \ {row}
        /\ kept(row) => /\ found' = Append(found, [id |-> IdAt(row[1]), kin |-> DescendsFrom(row[1], root),
                                                   first |-> row[2] = root.pid])
                        /\ next' = next \cup {row[1]}
        /\ ~kept(row) => found' = found /\ next' = next
  BY Zenon DEF Examine
<1>2. row \in rows /\ row[2] \in frontier /\ row[1] \in Numbers BY DEF Candidates, Shape, TypeInv
<1>3. kept(row) <=> Keeps(row) BY <1>2, ReadView DEF Keeps, ResolveOrDrop, Shape
<1> HIDE DEF kept
<1> QED BY <1>1, <1>2, <1>3, Zenon DEF Kin

\* What was found stays when one more is.
LEMMA OneMoreFound ==
  ASSUME found \in Seq(Kept), NEW e, found' = Append(found, e)
  PROVE  /\ \A i \in DOMAIN found : i \in DOMAIN found' /\ found'[i] = found[i]
         /\ \A i \in DOMAIN found' : (i \in DOMAIN found /\ found'[i] = found[i]) \/ found'[i] = e
         /\ \E i \in DOMAIN found' : found'[i] = e
<1>1. /\ Len(found) \in Nat /\ DOMAIN found = 1 .. Len(found) /\ DOMAIN found' = 1 .. Len(found) + 1
      /\ found'[Len(found) + 1] = e
      /\ \A i \in 1 .. Len(found) : found'[i] = found[i]
  OBVIOUS
<1>2. \A i \in 1 .. Len(found) + 1 : i \in 1 .. Len(found) \/ i = Len(found) + 1 BY <1>1
<1>3. Len(found) + 1 \in 1 .. Len(found) + 1 /\ \A i \in 1 .. Len(found) : i \in 1 .. Len(found) + 1 BY <1>1
<1> QED BY <1>1, <1>2, <1>3, Zenon

\* The targets are root and what was found.
LEMMA TargetsView ==
  ASSUME TypeInv, root \in Id
  PROVE  /\ Targets \in Seq(Id)
         /\ 1 \in DOMAIN Targets /\ Targets[1] = root
         /\ \A i \in DOMAIN found : i + 1 \in DOMAIN Targets /\ Targets[i + 1] = found[i].id
<1> DEFINE ids == [i \in DOMAIN found |-> found[i].id]
<1>1. found \in Seq(Kept) BY DEF TypeInv
<1>2. Len(found) \in Nat /\ DOMAIN found = 1 .. Len(found) BY <1>1
<1>3. \A i \in DOMAIN found : found[i].id \in Id
  <2> TAKE i \in DOMAIN found
  <2>1. found[i] \in Kept BY <1>1
  <2> QED BY <2>1 DEF Kept
<1>4. ids \in Seq(Id) /\ Len(ids) = Len(found) BY <1>2, <1>3
<1>5. \A i \in DOMAIN found : ids[i] = found[i].id OBVIOUS
<1> HIDE DEF ids
<1>6. Targets = <<root>> \o ids BY DEF Targets, ids
<1> QED BY <1>2, <1>4, <1>5, <1>6

\* The head of a queue of identities is one, and so is what is left.
LEMMA QueueView ==
  ASSUME TypeInv, queue # <<>>
  PROVE  /\ Target \in Id /\ Tail(queue) \in Seq(Id) /\ Target = queue[1]
         /\ \A i \in DOMAIN queue : i # 1 => i - 1 \in DOMAIN Tail(queue) /\ Tail(queue)[i - 1] = queue[i]
         /\ \A i \in DOMAIN Tail(queue) : i + 1 \in DOMAIN queue /\ Tail(queue)[i] = queue[i + 1]
  BY DEF TypeInv, Target

\* The state the program starts in is well formed.
LEMMA ShapeInit == Init => Shape
<1> SUFFICES ASSUME Init PROVE Shape OBVIOUS
<1>1. table \in [Numbers -> FreeSlot \cup UsedSlot]
  <2>1. Free(-1) \in FreeSlot BY DEF Free, FreeSlot
  <2> QED BY <2>1 DEF Init, TableInit
<1>2. CallTypes
  <2>1. os \in {"linux", "windows"} BY TableAssumption DEF Init, TableInit
  <2> QED BY <2>1 DEF Init, TableInit, CallTypes
<1>3. PhaseInv BY DEF Init, PhaseInv, Kills, Killing, Scanned
<1> QED BY <1>1, <1>2, <1>3 DEF Shape, TypeInv, CallTypes

\* Types and phases are kept by every step.
LEMMA ShapeStep == Shape /\ [Next]_vars => Shape'
<1> SUFFICES ASSUME Shape, [Next]_vars PROVE Shape'
  OBVIOUS
<1>0. TypeInv /\ PhaseInv /\ CallTypes BY DEF Shape, TypeInv, CallTypes
<1> DEFINE TableType == table \in [Numbers -> FreeSlot \cup UsedSlot]
<1>00. SUFFICES TableType' /\ CallTypes' /\ PhaseInv'
  BY DEF Shape, TypeInv, CallTypes
<1>01. TableType BY <1>0 DEF TypeInv
<1> USE DEF Killing, Scanned, Kills
<1>1. ASSUME NEW n \in Numbers, Know(n) PROVE TableType' /\ CallTypes' /\ PhaseInv'
  <2>1. Holds(n) BY <1>0, <1>1, ReadView DEF Know
  <2>2. IdAt(n) \in Id /\ table[n].line \in Seq(Id) BY <1>0, <2>1, SlotShape
  <2>3. root' \in Id /\ maker' \in Id \cup {OutsideId} BY <1>1, <2>2 DEF Know
  <2>4. TableType' BY <1>1, <1>01, Zenon DEF Know, tableVars
  <2>5. CallTypes' BY <1>0, <1>1, <2>3, Zenon DEF Know, tableVars, scan, bfs, kills, CallTypes
  <2>6. PhaseInv' BY <1>0, <1>1, <2>3 DEF Know, tableVars, scan, bfs, kills, PhaseInv
  <2> QED BY <2>4, <2>5, <2>6, Zenon
<1>2. ASSUME NEW o \in Ops, Begin(o) PROVE TableType' /\ CallTypes' /\ PhaseInv'
  <2>1. root \in Id BY <1>0, <1>2 DEF Begin, CallTypes
  <2>2. TableType' BY <1>0, <1>2, <2>1, TrimView, Zenon DEF Begin
  <2>3. CallTypes' BY <1>0, <1>2, Zenon DEF Begin, scan, bfs, kills, CallTypes
  <2>4. PhaseInv'
    <3>1. pc = "idle" BY <1>2 DEF Begin
    <3>2. /\ frontier = {} /\ next = {} /\ found = <<>> /\ rows = {}
          /\ result = "none" /\ answer = NoId
      BY <1>0, <3>1 DEF PhaseInv
    <3>3. pc' \in {"scan", "anchor"} /\ (pc' = "scan" /\ os = "linux" => listed' # {}) BY <1>2 DEF Begin
    <3>4. op' = o /\ (op' # "hard_kill" => owed' = {}) BY <1>2 DEF Begin
    <3> QED BY <1>2, <2>1, <3>2, <3>3, <3>4 DEF Begin, bfs, PhaseInv
  <2> QED BY <2>2, <2>3, <2>4
<1>3. CASE ReadRow
  <2>1. TableType' BY <1>01, <1>3 DEF ReadRow, tableVars
  <2>2. PICK n \in Numbers :
           /\ n \in listed /\ listed' = listed \ {n}
           /\ Resolve(n).is = "found" => Holds(n) /\ rows' = rows \cup {<<n, table[n].ppid>>}
           /\ Resolve(n).is # "found" => rows' = rows
           /\ pc' = IF listed' = {} THEN "anchor" ELSE "scan"
    BY <1>3, ReadRowView, Zenon
  <2>3. CallTypes'
    <3>1. Holds(n) => table[n].ppid \in Numbers \cup {Outside} BY <1>0, SlotShape, Zenon
    <3> QED BY <1>0, <1>3, <2>2, <3>1 DEF ReadRow, tableVars, bfs, kills, ghosts, CallTypes
  <2>4. PhaseInv' BY <1>0, <1>3, <2>2 DEF ReadRow, tableVars, bfs, kills, ghosts, PhaseInv
  <2> QED BY <2>1, <2>3, <2>4
<1>4. CASE Snapshot
  <2>1. TableType' BY <1>01, <1>4 DEF Snapshot, tableVars
  <2>2. \A r \in rows' : \E n \in Numbers : Holds(n) /\ r = <<n, table[n].ppid>>
    BY <1>4, Zenon DEF Snapshot, Holds, Running
  <2>3. CallTypes'
    <3>1. \A n \in Numbers : Holds(n) => table[n].ppid \in Numbers \cup {Outside} BY <1>0, SlotShape, Zenon
    <3> QED BY <1>0, <1>4, <2>2, <3>1 DEF Snapshot, tableVars, bfs, kills, ghosts, CallTypes
  <2>4. PhaseInv' BY <1>0, <1>4, Zenon DEF Snapshot, tableVars, bfs, kills, ghosts, PhaseInv
  <2> QED BY <2>1, <2>3, <2>4, Zenon
<1>5. CASE ScanFails
  <2>1. TableType' BY <1>01, <1>5, Zenon DEF ScanFails, tableVars
  <2>2. CallTypes' BY <1>0, <1>5, Zenon DEF ScanFails, Return, tableVars, kills, ghosts, CallTypes
  <2>3. PhaseInv' BY <1>0, <1>5 DEF ScanFails, Return, tableVars, kills, ghosts, PhaseInv
  <2> QED BY <2>1, <2>2, <2>3
<1>6. CASE Anchor
  <2>1. TableType' BY <1>01, <1>6 DEF Anchor, tableVars
  <2>2. root.pid \in Numbers BY <1>0, <1>6, IdentityShape DEF Anchor, PhaseInv
  <2>3. CallTypes' BY <1>0, <1>6, <2>2 DEF Anchor, Return, scan, tableVars, kills, ghosts, CallTypes
  <2>4. PhaseInv' BY <1>0, <1>6, Zenon DEF Anchor, Return, scan, tableVars, kills, ghosts, PhaseInv
  <2> QED BY <2>1, <2>3, <2>4
<1>7. CASE AbsentFromSnapshot
  <2>1. TableType' BY <1>01, <1>7, Zenon DEF AbsentFromSnapshot, tableVars
  <2>2. CallTypes' BY <1>0, <1>7, Zenon DEF AbsentFromSnapshot, Return, tableVars, kills, ghosts, CallTypes
  <2>3. PhaseInv' BY <1>0, <1>7, Zenon DEF AbsentFromSnapshot, Return, tableVars, kills, ghosts, PhaseInv
  <2> QED BY <2>1, <2>2, <2>3
<1>8. CASE ParentOf
  <2>1. TableType' BY <1>01, <1>8, Zenon DEF ParentOf, tableVars
  <2>2. /\ pc = "of" /\ pc' = "done" /\ listed' = {} /\ rows' = {} /\ frontier' = {} /\ next' = {}
        /\ UNCHANGED <<os, clock, root, op, found, queue, maker, owed>>
    BY <1>8 DEF ParentOf, Return, tableVars, kills, ghosts
  <2>3. CallTypes' BY <1>0, <2>2, Zenon DEF CallTypes
  <2>4. PhaseInv' BY <1>0, <2>2 DEF PhaseInv
  <2> QED BY <2>1, <2>3, <2>4
<1>9. CASE Examine
  <2>1. TableType' BY <1>01, <1>9, Zenon DEF Examine, tableVars
  <2>2. PICK row \in rows :
           /\ row[2] \in frontier /\ rows' = rows \ {row}
           /\ row[1] \in Numbers
           /\ Keeps(row) =>
                /\ found' = Append(found, [id |-> IdAt(row[1]), kin |-> Kin(row[1]),
                                           first |-> row[2] = root.pid])
                /\ next' = next \cup {row[1]}
           /\ ~Keeps(row) => found' = found /\ next' = next
    BY <1>9, ExamineView, Zenon
  <2>3. found' \in Seq(Kept) /\ \A n \in next' : n \in Numbers
    <3>1. CASE Keeps(row)
      <4>1. IdAt(row[1]) \in Id BY <1>0, <2>2, <3>1, SlotShape DEF Keeps
      <4>2. Kin(row[1]) \in BOOLEAN BY DEF Kin, DescendsFrom
      <4>3. (row[2] = root.pid) \in BOOLEAN OBVIOUS
      <4>4. [id |-> IdAt(row[1]), kin |-> Kin(row[1]), first |-> row[2] = root.pid]
              \in Kept
        BY <4>1, <4>2, <4>3, Zenon DEF Kept
      <4>5. found \in Seq(Kept) BY <1>0 DEF CallTypes
      <4>6. PICK e \in Kept : found' = Append(found, e) BY <2>2, <3>1, <4>4, Zenon
      <4>7. found' \in Seq(Kept) BY <4>5, <4>6
      <4>8. \A n \in next' : n \in Numbers
        <5>1. next' = next \cup {row[1]} /\ row[1] \in Numbers BY <2>2, <3>1, Zenon
        <5> QED BY <1>0, <5>1, Zenon DEF CallTypes
      <4> QED BY <4>7, <4>8
    <3>2. CASE ~Keeps(row) BY <1>0, <2>2, <3>2, Zenon DEF CallTypes
    <3> QED BY <3>1, <3>2
  <2>4. CallTypes' BY <1>0, <1>9, <2>2, <2>3, Zenon DEF Examine, tableVars, kills, ghosts, CallTypes
  <2>5. PhaseInv' BY <1>0, <1>9, Zenon DEF Examine, tableVars, kills, ghosts, PhaseInv
  <2> QED BY <2>1, <2>4, <2>5, Zenon
<1>10. CASE EndLevel
  <2>1. TableType' BY <1>01, <1>10, Zenon DEF EndLevel, tableVars
  <2>2. root \in Id BY <1>0, <1>10 DEF EndLevel, PhaseInv
  <2>3. Targets \in Seq(Id) BY <1>0, <2>2, TargetsView, Zenon
  <2>4. CallTypes' BY <1>0, <1>10, <2>3, Zenon DEF EndLevel, Return, scan, tableVars, ghosts, CallTypes
  <2>5. PhaseInv' BY <1>0, <1>10, Zenon DEF EndLevel, Return, scan, tableVars, ghosts, PhaseInv
  <2> QED BY <2>1, <2>4, <2>5
<1>11. CASE Verify
  <2>1. TableType' BY <1>01, <1>11, Zenon DEF Verify, tableVars
  <2>2. /\ pc = "verify" /\ pc' \in {"verify", "strike"} /\ queue # <<>>
        /\ queue' \in {queue, Tail(queue)} /\ (pc' = "strike" => queue' = queue)
        /\ UNCHANGED <<os, clock, root, op, listed, rows, frontier, next, found, result, answer, maker, owed>>
    BY <1>11, Zenon DEF Verify, Skip, tableVars, scan, bfs, ghosts
  <2>3. queue' \in Seq(Id) BY <1>0, <2>2, QueueView, Zenon DEF CallTypes
  <2>4. CallTypes' BY <1>0, <2>2, <2>3, Zenon DEF CallTypes
  <2>5. PhaseInv' BY <1>0, <2>2, Zenon DEF PhaseInv
  <2> QED BY <2>1, <2>4, <2>5
<1>12. CASE Strike
  <2>1. queue # <<>> /\ pc = "strike" BY <1>0, <1>12, Zenon DEF Strike, PhaseInv
  <2>2. Target.pid \in Numbers /\ Tail(queue) \in Seq(Id) BY <1>0, <2>1, QueueView, IdentityShape
  <2>3. TableType' BY <1>0, <1>12, <2>2, StrikeView, Zenon
  <2>4. /\ pc' = "verify" /\ queue' = Tail(queue)
        /\ UNCHANGED <<os, clock, root, op, listed, rows, frontier, next, found, result, answer, maker, owed>>
    BY <1>12, Zenon DEF Strike, Skip, scan, bfs, ghosts
  <2>5. CallTypes' BY <1>0, <2>2, <2>4, Zenon DEF CallTypes
  <2>6. PhaseInv' BY <1>0, <2>1, <2>4, Zenon DEF PhaseInv
  <2> QED BY <2>3, <2>5, <2>6
<1>13. CASE AllStruck
  <2>1. TableType' BY <1>01, <1>13, Zenon DEF AllStruck, tableVars
  <2>2. CallTypes' BY <1>0, <1>13, Zenon DEF AllStruck, Return, tableVars, kills, ghosts, CallTypes
  <2>3. PhaseInv' BY <1>0, <1>13 DEF AllStruck, Return, tableVars, kills, ghosts, PhaseInv
  <2> QED BY <2>1, <2>2, <2>3
<1>14. CASE World
  <2>1. HostKeeps /\ TableType' /\ clock' \in {clock, clock + 1} BY <1>0, <1>14, HostView, Zenon
  <2>2. CallTypes' BY <1>0, <2>1 DEF HostKeeps, CallTypes
  <2>3. PhaseInv' BY <1>0, <2>1, Zenon DEF HostKeeps, PhaseInv
  <2> QED BY <2>1, <2>2, <2>3, Zenon
<1>15. CASE UNCHANGED vars
  <2>1. TableType' BY <1>01, <1>15, Zenon DEF vars, tableVars
  <2>2. CallTypes' BY <1>0, <1>15, Zenon DEF vars, tableVars, scan, bfs, kills, ghosts, CallTypes
  <2>3. PhaseInv' BY <1>0, <1>15 DEF vars, tableVars, scan, bfs, kills, ghosts, PhaseInv
  <2> QED BY <2>1, <2>2, <2>3
<1> QED
  BY <1>1, <1>2, <1>3, <1>4, <1>5, <1>6, <1>7, <1>8, <1>9, <1>10, <1>11, <1>12, <1>13, <1>14, <1>15, Zenon
  DEF Next

-----------------------------------------------------------------------------
(* Tokens and parents                                                      *)

\* What any step does to the table.
LEMMA TableView ==
  ASSUME Shape, [Next]_vars
  PROVE  /\ os' = os /\ clock' \in {clock, clock + 1}
         /\ \/ table' = table
            \/ Trims /\ pc = "idle" /\ root \in Id
            \/ \E n \in Numbers, by \in Numbers \cup {Outside} : Forks(by, n) /\ clock' = clock
            \/ \E n \in Numbers : Ends(n)
            \/ \E n \in Numbers : Frees(n)
<1>0. TypeInv /\ PhaseInv BY Zenon DEF Shape
<1>1. ASSUME NEW o \in Ops, Begin(o) PROVE os' = os /\ clock' = clock /\ Trims /\ pc = "idle" /\ root \in Id
  <2>1. root \in Id BY <1>0, <1>1, Zenon DEF Begin, TypeInv
  <2>2. Trims BY <1>0, <1>1, <2>1, TrimView DEF Begin
  <2> QED BY <1>1, <2>1, <2>2, Zenon DEF Begin
<1>2. CASE Strike
  <2>1. queue # <<>> BY <1>0, <1>2, Zenon DEF Strike, PhaseInv
  <2>2. Target.pid \in Numbers BY <1>0, <2>1, QueueView, IdentityShape
  <2>3. table' = table \/ Ends(Target.pid) BY <1>0, <1>2, <2>2, StrikeView, Zenon
  <2>4. os' = os /\ clock' = clock BY <1>2 DEF Strike
  <2> HIDE DEF Target
  <2> QED BY <2>2, <2>3, <2>4, Zenon
<1>3. CASE World
  <2>1. os' = os BY <1>0, <1>3, HostView, Zenon DEF HostKeeps
  <2> QED BY <1>0, <1>3, <2>1, HostView, Zenon
<1>4. CASE UNCHANGED tableVars BY <1>4, Zenon DEF tableVars
<1>5. CASE UNCHANGED vars BY <1>5, Zenon DEF vars, tableVars
<1>6. ASSUME NEW n \in Numbers, Know(n) PROVE UNCHANGED tableVars BY <1>6, Zenon DEF Know
<1>7. ReadRow \/ Snapshot \/ ScanFails \/ Anchor \/ AbsentFromSnapshot \/ ParentOf => UNCHANGED tableVars
  BY Zenon DEF ReadRow, Snapshot, ScanFails, Anchor, AbsentFromSnapshot, ParentOf
<1>8. Examine \/ EndLevel \/ Verify \/ AllStruck => UNCHANGED tableVars
  BY DEF Examine, EndLevel, Verify, AllStruck
<1> QED BY <1>1, <1>2, <1>3, <1>4, <1>5, <1>6, <1>7, <1>8, Zenon DEF Next

\* A number's tokens never go back, and never run ahead of the clock.
LEMMA TokensGrow ==
  ASSUME Shape, TokenInv, [Next]_vars
  PROVE  \A n \in Numbers : table[n].token <= table'[n].token /\ table'[n].token <= clock'
<1>0. TypeInv /\ clock \in Nat /\ \A n \in Numbers : table[n].token \in Int /\ table[n].token <= clock
  BY SlotShape DEF Shape, TypeInv, TokenInv
<1>1. clock' \in {clock, clock + 1} BY TableView, Zenon
<1>2. CASE table' = table BY <1>0, <1>1, <1>2
<1>3. CASE Trims BY <1>0, <1>1, <1>3 DEF Trims
<1>4. ASSUME NEW m \in Numbers, NEW by \in Numbers \cup {Outside}, Forks(by, m), clock' = clock
      PROVE  \A n \in Numbers : table[n].token <= table'[n].token /\ table'[n].token <= clock'
  BY <1>0, <1>4 DEF Forks
<1>5. ASSUME NEW m \in Numbers, Ends(m)
      PROVE  \A n \in Numbers : table[n].token <= table'[n].token /\ table'[n].token <= clock'
  BY <1>0, <1>1, <1>5 DEF Ends
<1>6. ASSUME NEW m \in Numbers, Frees(m)
      PROVE  \A n \in Numbers : table[n].token <= table'[n].token /\ table'[n].token <= clock'
  BY <1>0, <1>1, <1>6 DEF Frees
<1> QED BY <1>2, <1>3, <1>4, <1>5, <1>6, TableView, Zenon

\* root is set once, to the holder of a number, and never changes again.
LEMMA RootView ==
  ASSUME Shape, [Next]_vars
  PROVE  \/ root' = root
         \/ \E n \in Numbers : root' = IdAt(n) /\ Holds(n) /\ Know(n) /\ root = NoId
<1>1. ASSUME NEW n \in Numbers, Know(n) PROVE root' = IdAt(n) /\ Holds(n) /\ root = NoId
  BY <1>1, ReadView, Zenon DEF Know, Shape
<1>2. ASSUME NEW o \in Ops, Begin(o) PROVE root' = root BY <1>2, Zenon DEF Begin
<1>3. ReadRow \/ Snapshot \/ ScanFails \/ Anchor \/ AbsentFromSnapshot \/ ParentOf => root' = root
  BY DEF ReadRow, Snapshot, ScanFails, Anchor, AbsentFromSnapshot, ParentOf
<1>4. Examine \/ EndLevel \/ Verify \/ Strike \/ AllStruck => root' = root
  BY Zenon DEF Examine, EndLevel, Verify, Strike, AllStruck
<1>5. World \/ UNCHANGED vars => root' = root BY DEF World, vars
<1> QED BY <1>1, <1>2, <1>3, <1>4, <1>5, Zenon DEF Next

\* Only Examine adds to what was found, and it adds the holder of a number.
LEMMA FoundView ==
  ASSUME Shape, [Next]_vars
  PROVE  \/ found' = found
         \/ /\ Examine /\ table' = table
            /\ \E n \in Numbers, e \in Kept : Holds(n) /\ e.id = IdAt(n) /\ found' = Append(found, e)
<1>0. TypeInv BY Zenon DEF Shape
<1>1. ASSUME NEW n \in Numbers, Know(n) PROVE found' = found BY <1>1, Zenon DEF Know, bfs
<1>2. ASSUME NEW o \in Ops, Begin(o) PROVE found' = found BY <1>2, Zenon DEF Begin, bfs
<1>3. ReadRow \/ Snapshot \/ ScanFails \/ Anchor \/ AbsentFromSnapshot \/ ParentOf => found' = found
  BY DEF ReadRow, Snapshot, ScanFails, Anchor, AbsentFromSnapshot, ParentOf, bfs
<1>4. EndLevel \/ Verify \/ Strike \/ AllStruck => found' = found
  BY Zenon DEF EndLevel, Verify, Strike, AllStruck, bfs
<1>5. World \/ UNCHANGED vars => found' = found BY Zenon DEF World, vars, bfs
<1>6. ASSUME Examine
      PROVE  \/ found' = found
             \/ /\ table' = table
                /\ \E n \in Numbers, e \in Kept : Holds(n) /\ e.id = IdAt(n) /\ found' = Append(found, e)
  <2>1. PICK row \in rows :
           /\ row[1] \in Numbers
           /\ Keeps(row) =>
                found' = Append(found, [id |-> IdAt(row[1]), kin |-> Kin(row[1]),
                                        first |-> row[2] = root.pid])
           /\ ~Keeps(row) => found' = found
    BY <1>6, ExamineView, Zenon
  <2>2. CASE ~Keeps(row) BY <2>1, <2>2, Zenon
  <2>3. CASE Keeps(row)
    <3> DEFINE e == [id |-> IdAt(row[1]), kin |-> Kin(row[1]), first |-> row[2] = root.pid]
    <3>1. Holds(row[1]) BY <2>3, Zenon DEF Keeps
    <3>2. IdAt(row[1]) \in Id BY <1>0, <2>1, <3>1, SlotShape
    <3>3. Kin(row[1]) \in BOOLEAN BY Zenon DEF Kin, DescendsFrom
    <3>4. (row[2] = root.pid) \in BOOLEAN BY Zenon
    <3>5. e \in Kept BY <3>2, <3>3, <3>4, Zenon DEF Kept
    <3>6. e.id = IdAt(row[1]) BY Zenon
    <3>7. found' = Append(found, e) BY <2>1, <2>3
    <3>8. table' = table BY <1>6, Zenon DEF Examine, tableVars
    <3> HIDE DEF e
    <3> QED BY <2>1, <3>1, <3>5, <3>6, <3>7, <3>8, Zenon
  <2> QED BY <2>2, <2>3
<1> QED BY <1>1, <1>2, <1>3, <1>4, <1>5, <1>6, Zenon DEF Next

\* Who was seen once was seen with a token its number still has, or has outgrown.
LEMMA TokenStep == Shape /\ TokenInv /\ [Next]_vars => TokenInv'
<1> SUFFICES ASSUME Shape, TokenInv, [Next]_vars PROVE TokenInv'
  BY Zenon
<1>0. TypeInv /\ \A n \in Numbers : table[n].token \in Int BY SlotShape DEF Shape
<1>00. Shape' BY ShapeStep, Zenon
<1>01. \A n \in Numbers : table'[n].token \in Int BY <1>00, SlotShape DEF Shape, TypeInv, FreeSlot, UsedSlot
<1>1. \A n \in Numbers : table[n].token <= table'[n].token /\ table'[n].token <= clock' BY TokensGrow, Zenon
<1>2. ASSUME NEW id \in Id, Once(id) PROVE Once(id)'
  <2>1. id.pid \in Numbers /\ id.token \in Nat BY IdentityShape, Zenon
  <2> QED BY <1>0, <1>01, <1>1, <1>2, <2>1 DEF Once
<1>3. root' \in Id => Once(root)'
  <2>1. CASE root' = root
    <3>1. root \in Id => Once(root) BY Zenon DEF TokenInv
    <3> QED BY <1>2, <2>1, <3>1, Zenon DEF Once
  <2>2. ASSUME NEW n \in Numbers, root' = IdAt(n), Know(n) PROVE Once(root)'
    <3>1. table' = table BY <2>2, Zenon DEF Know, tableVars
    <3> QED BY <1>0, <2>2, <3>1 DEF IdAt, Once
  <2> QED BY <2>1, <2>2, RootView, Zenon
<1>4. \A i \in DOMAIN found' : Once(found[i].id)'
  <2>0. found \in Seq(Kept) /\ \A i \in DOMAIN found : Once(found[i].id) BY <1>0 DEF TypeInv, TokenInv
  <2>01. \A i \in DOMAIN found : found[i] \in Kept BY <2>0
  <2>02. \A e \in Kept : e.id \in Id BY Zenon DEF Kept
  <2>1. ASSUME NEW i \in DOMAIN found PROVE table'[found[i].id.pid].token >= found[i].id.token
    <3>1. found[i].id \in Id /\ Once(found[i].id) BY <2>0, <2>01, <2>02, Zenon
    <3>2. Once(found[i].id) /\ found[i].id.pid \in Numbers /\ found[i].id.token \in Nat BY <3>1, IdentityShape, Zenon
    <3> QED BY <1>0, <1>01, <1>1, <3>2 DEF Once
  <2>2. CASE found' = found BY <2>1, <2>2, Zenon DEF Once
  <2>3. ASSUME table' = table, NEW n \in Numbers, NEW e \in Kept, e.id = IdAt(n), found' = Append(found, e)
        PROVE  \A i \in DOMAIN found' : Once(found[i].id)'
    <3>1. table'[e.id.pid].token = e.id.token BY <2>3 DEF IdAt
    <3>2. table'[e.id.pid].token \in Int BY <1>01, <2>02, IdentityShape, Zenon
    <3> SUFFICES ASSUME NEW i \in DOMAIN found' PROVE found'[i].id.token <= table'[found'[i].id.pid].token
      BY Zenon DEF Once
    <3>3. (i \in DOMAIN found /\ found'[i] = found[i]) \/ found'[i] = e BY <2>0, <2>3
    <3>4. CASE found'[i] = e BY <3>1, <3>2, <3>4
    <3>5. CASE i \in DOMAIN found /\ found'[i] = found[i] BY <2>1, <3>5
    <3> QED BY <3>3, <3>4, <3>5, Zenon
  <2> QED BY <2>2, <2>3, FoundView, Zenon
<1> QED BY <1>1, <1>3, <1>4, Zenon DEF TokenInv

\* Linux rewrites a parent number when the parent exits, so it always names a
\* running process; and nobody is his own parent.
LEMMA ParentStep == Shape /\ ParentInv /\ [Next]_vars => ParentInv'
<1> SUFFICES ASSUME Shape, ParentInv, [Next]_vars, NEW m \in Numbers, Holds(m)'
             PROVE  /\ table'[m].ppid # m
                    /\ os' = "linux" /\ table'[m].ppid # Outside => Running(table[m].ppid)'
  BY Zenon DEF ParentInv
<1>0. /\ Holds(m) => /\ table[m].ppid \in Numbers \cup {Outside} /\ table[m].ppid # m
                     /\ os = "linux" /\ table[m].ppid # Outside => Running(table[m].ppid)
  BY SlotShape, Zenon DEF ParentInv, Shape
<1>1. os' = os BY TableView
<1>2. m # Outside BY NumberShape, Zenon
<1>3. CASE table' = table BY <1>0, <1>1, <1>3, Zenon DEF Holds, Running
<1>4. CASE Trims BY <1>0, <1>1, <1>4, Zenon DEF Holds, Running, Trims
<1>5. ASSUME NEW n \in Numbers, NEW by \in Numbers \cup {Outside}, Forks(by, n)
      PROVE  table'[m].ppid # m /\ (os = "linux" /\ table'[m].ppid # Outside => Running(table[m].ppid)')
  BY <1>0, <1>1, <1>5, Zenon DEF Holds, Running, Forks
<1>6. ASSUME NEW n \in Numbers, Ends(n)
      PROVE  table'[m].ppid # m /\ (os = "linux" /\ table'[m].ppid # Outside => Running(table[m].ppid)')
  <2>1. Holds(m) BY <1>6, Zenon DEF Ends, Holds, Running
  <2> QED BY <1>0, <1>2, <1>6, <2>1, Zenon DEF Holds, Running, Ends
<1>7. ASSUME NEW n \in Numbers, Frees(n)
      PROVE  table'[m].ppid # m /\ (os = "linux" /\ table'[m].ppid # Outside => Running(table[m].ppid)')
  BY <1>0, <1>7 DEF Holds, Running, Frees
<1> QED BY <1>1, <1>3, <1>4, <1>5, <1>6, <1>7, TableView, Zenon

\* The layer the others stand on.
Base == Shape /\ TokenInv /\ ParentInv

\* Every reachable state is well formed, its tokens and parents in order.
THEOREM WalkIsWellFormed == Spec => []Base
<1>1. Init => Base
  <2> SUFFICES ASSUME Init PROVE Base BY Zenon
  <2>1. \A n \in Numbers : table[n].state = "free" /\ table[n].token = -1 BY Zenon DEF Init, TableInit, Free
  <2>2. root \notin Id /\ found = <<>> /\ clock = 0 BY IdentityShape, Zenon DEF Init, TableInit
  <2>3. TokenInv BY <2>1, <2>2 DEF TokenInv
  <2>4. ParentInv BY <2>1 DEF ParentInv, Holds
  <2> QED BY <2>3, <2>4, ShapeInit, Zenon DEF Base
<1>2. Base /\ [Next]_vars => Base' BY ShapeStep, TokenStep, ParentStep DEF Base
<1> QED BY <1>1, <1>2, PTL DEF Spec

-----------------------------------------------------------------------------
(* The signal reaches the identity it was meant for                        *)

(* The kill: what the re-verification saw, and on Windows what its handle holds. *)
StrikeInv ==
  pc = "strike" =>
    /\ seen = Target
    /\ os = "windows" => IsAt(Target)

\* Between the re-verification and the signal, on Windows the handle keeps the
\* target at its number; and every signal delivered so far was well aimed.
LEMMA StrikeStep == Shape /\ StrikeInv /\ HitsTheIdentity /\ [Next]_vars => StrikeInv' /\ HitsTheIdentity'
<1> SUFFICES ASSUME Shape, StrikeInv, HitsTheIdentity, [Next]_vars PROVE StrikeInv' /\ HitsTheIdentity'
  OBVIOUS
<1>0. TypeInv /\ PhaseInv BY Zenon DEF Shape
<1>1. os' = os BY TableView, Zenon
<1>2. ASSUME strikes' = strikes PROVE HitsTheIdentity' BY <1>1, <1>2, Zenon DEF HitsTheIdentity
<1>3. ASSUME pc' # "strike" PROVE StrikeInv' BY <1>3, Zenon DEF StrikeInv
<1>4. ASSUME NEW n \in Numbers, Know(n) PROVE strikes' = strikes /\ pc' # "strike" BY <1>4, Zenon DEF Know, kills
<1>5. ASSUME NEW o \in Ops, Begin(o) PROVE strikes' = strikes /\ pc' # "strike" BY <1>5, Zenon DEF Begin, kills
<1>6. ReadRow \/ Snapshot \/ ScanFails => strikes' = strikes /\ pc' # "strike"
  BY Zenon DEF ReadRow, Snapshot, ScanFails, Return, kills
<1>7. Anchor \/ AbsentFromSnapshot \/ ParentOf => strikes' = strikes /\ pc' # "strike"
  BY Zenon DEF Anchor, AbsentFromSnapshot, ParentOf, Return, kills
<1>8. Examine \/ EndLevel \/ AllStruck => strikes' = strikes /\ pc' # "strike"
  BY DEF Examine, EndLevel, AllStruck, Return, kills
<1>9. CASE Verify
  <2>1. strikes' = strikes BY <1>9, Zenon DEF Verify
  <2>2. StrikeInv'
    <3>1. SUFFICES ASSUME pc' = "strike" PROVE StrikeInv' BY <1>3, Zenon
    <3>2. /\ queue # <<>> /\ queue' = queue /\ table' = table /\ Seen
          /\ Resolve(Target.pid) = [is |-> "found", id |-> Target]
      BY <1>9, <3>1, Zenon DEF Verify, Skip, tableVars
    <3>3. Target \in Id BY <1>0, <3>2, QueueView, Zenon
    <3>4. Target.pid \in Numbers /\ \A n : Target = IdAt(n) <=> n = Target.pid /\ table[n].token = Target.token
      BY <3>3, IdentityShape, Zenon
    <3> HIDE DEF Target
    <3>5. Resolve(Target.pid).is = "found" /\ Resolve(Target.pid).id = Target BY <3>2
    <3>6. Holds(Target.pid) /\ Target = IdAt(Target.pid) BY <1>0, <3>4, <3>5, ReadView
    <3>7. seen' = Target BY <3>2, <3>6, Zenon DEF Seen
    <3>8. table[Target.pid].token = Target.token BY <3>4, <3>6
    <3> QED BY <3>2, <3>6, <3>7, <3>8 DEF StrikeInv, IsAt, Holds, Target
  <2> QED BY <1>2, <2>1, <2>2, Zenon
<1>10. CASE Strike
  <2>1. pc = "strike" /\ pc' = "verify" /\ queue # <<>> BY <1>0, <1>10, Zenon DEF Strike, Skip, PhaseInv
  <2>2. seen = Target /\ (os = "windows" => IsAt(Target)) BY <2>1, Zenon DEF StrikeInv
  <2>3. Target \in Id BY <1>0, <2>1, QueueView, Zenon
  <2> DEFINE blow == [want |-> Target, hit |-> IdAt(Target.pid), seen |-> seen]
  <2>4. strikes' = strikes \/ strikes' = strikes \cup {blow} BY <1>10, Zenon DEF Strike
  <2>5. os = "windows" => IdAt(Target.pid) = Target BY <2>2, <2>3, IdentityShape, Zenon DEF IsAt
  <2>6. blow.hit = blow.want \/ (os = "linux" /\ blow.seen = blow.want)
    <3>1. os \in {"linux", "windows"} BY <1>0, Zenon DEF TypeInv
    <3> QED BY <2>2, <2>5, <3>1, Zenon
  <2> HIDE DEF blow
  <2>7. HitsTheIdentity' BY <1>1, <2>4, <2>6, Zenon DEF HitsTheIdentity
  <2> QED BY <1>3, <2>1, <2>7
<1>11. CASE World
  <2>1. HostKeeps BY <1>0, <1>11, HostView, Zenon
  <2>2. StrikeInv'
    <3> SUFFICES ASSUME pc = "strike" PROVE StrikeInv' BY <2>1, Zenon DEF StrikeInv, HostKeeps
    <3>1. Target' = Target /\ seen' = seen /\ seen = Target BY <2>1, Zenon DEF StrikeInv, HostKeeps, Target
    <3>2. queue # <<>> BY <1>0, Zenon DEF PhaseInv
    <3>3. Target.pid \in Numbers BY <1>0, <3>2, QueueView, IdentityShape, Zenon
    <3>4. ASSUME os = "windows" PROVE IsAt(Target)'
      <4>0. IsAt(Target) BY <3>4 DEF StrikeInv
      <4>00. PICK n \in Numbers : n = Target.pid BY <3>3, Zenon
      <4>1. Holds(n) /\ table[n].token = Target.token BY <4>0, <4>00, Zenon DEF IsAt
      <4>2. \A m \in Numbers : Frees(m) /\ ~Pinned(m) => m # n BY <3>4, <4>00, Zenon DEF Pinned
      <4>3. table' = table => Holds(n)' /\ table'[n].token = table[n].token BY <4>1, Zenon DEF Holds
      <4>4. \A m \in Numbers, by \in Numbers \cup {Outside} : Forks(by, m) => table'[n] = table[n]
        BY <4>1, Zenon DEF Forks
      <4>5. \A m \in Numbers : Ends(m) => Holds(n)' /\ table'[n].token = table[n].token
        BY <4>1, Zenon DEF Ends, Holds
      <4>6. \A m \in Numbers : Frees(m) /\ m # n => table'[n] = table[n] BY DEF Frees
      <4>7. Holds(n)' /\ table'[n].token = table[n].token
        <5>1. table'[n] = table[n] => Holds(n)' /\ table'[n].token = table[n].token BY <4>1, Zenon DEF Holds
        <5> QED BY <1>0, <1>11, <4>2, <4>3, <4>4, <4>5, <4>6, <5>1, HostView, Zenon
      <4> QED BY <3>1, <4>00, <4>1, <4>7, Zenon DEF IsAt, Holds
    <3> QED BY <1>1, <3>1, <3>4, Zenon DEF StrikeInv
  <2> QED BY <1>2, <2>1, <2>2, Zenon DEF HostKeeps
<1>12. CASE UNCHANGED vars
  <2>1. UNCHANGED <<table, os, pc, queue, seen, strikes>> BY <1>12, Zenon DEF vars, tableVars, kills
  <2>2. StrikeInv' BY <2>1 DEF StrikeInv, Target, IsAt, Holds
  <2> QED BY <1>2, <2>1, <2>2, Zenon
<1> QED
  BY <1>2, <1>3, <1>4, <1>5, <1>6, <1>7, <1>8, <1>9, <1>10, <1>11, <1>12, Zenon DEF Next

\* kill_by_identity: a signal reaches the identity it was meant for; on Linux,
\* where the kill is by number, it can miss only after the re-verification had
\* found the right process there.
THEOREM WalkHitsTheIdentity == Spec => []HitsTheIdentity
<1>1. Init => StrikeInv /\ HitsTheIdentity BY DEF Init, StrikeInv, HitsTheIdentity
<1>2. Base => Shape BY DEF Base
<1> QED BY <1>1, <1>2, WalkIsWellFormed, StrikeStep, PTL DEF Spec

-----------------------------------------------------------------------------
(* Lines of descent before the call                                        *)

\* A process's maker is the last of its line.
Last(line) == line[Len(line)]

(* Before the call: how the numbers the table shows fit the true lines.  The   *)
(* makers are older; Linux shows the last maker, Windows the number of one that *)
(* may have gone since; and a last maker who is still running is the parent.    *)
OlderLine(m) ==
  \A i \in DOMAIN table[m].line :
    /\ Once(table[m].line[i]) /\ table[m].line[i].token <= table[m].token
    /\ os = "windows" => table[m].line[i].token < table[m].token
LinuxLine(m) ==
  os = "linux" /\ table[m].ppid # Outside =>
    table[m].line = Append(table[table[m].ppid].line, IdAt(table[m].ppid))
WindowsLine(m) ==
  os = "windows" =>
    /\ table[m].ppid = Outside => table[m].line = <<>>
    /\ table[m].ppid # Outside =>
         /\ table[m].line # <<>> /\ Last(table[m].line).pid = table[m].ppid
         /\ \/ table[table[m].ppid].token = Last(table[m].line).token
            \/ table[table[m].ppid].token >= table[m].token
LivingLine(m) ==
  table[m].line # <<>> /\ Lives(Last(table[m].line)) =>
    /\ table[m].ppid = Last(table[m].line).pid
    /\ table[m].line = Append(table[table[m].ppid].line, Last(table[m].line))

\* All four, for everyone in the table, until the call begins.
LineInv ==
  pc = "idle" => \A m \in Numbers : Holds(m) =>
    OlderLine(m) /\ LinuxLine(m) /\ WindowsLine(m) /\ LivingLine(m)

\* Until the call begins only the host changes the table.
LEMMA IdleView ==
  ASSUME Shape, [Next]_vars, pc' = "idle"
  PROVE  /\ pc = "idle"
         /\ \/ table' = table
            \/ \E n \in Numbers, by \in Numbers \cup {Outside} : Forks(by, n)
            \/ \E n \in Numbers : Ends(n)
            \/ \E n \in Numbers : Frees(n)
<1>0. TypeInv BY Zenon DEF Shape
<1>1. ASSUME NEW n \in Numbers, Know(n) PROVE pc = "idle" /\ table' = table BY <1>1, Zenon DEF Know, tableVars
<1>2. ASSUME NEW o \in Ops, Begin(o) PROVE pc' # "idle" BY <1>2 DEF Begin
<1>3. ReadRow \/ Snapshot \/ ScanFails => pc' # "idle" BY Zenon DEF ReadRow, Snapshot, ScanFails, Return
<1>4. Anchor \/ AbsentFromSnapshot \/ ParentOf => pc' # "idle" BY DEF Anchor, AbsentFromSnapshot, ParentOf, Return
<1>5. Examine \/ EndLevel \/ AllStruck => pc' # "idle" BY Zenon DEF Examine, EndLevel, AllStruck, Return
<1>6. Verify \/ Strike => pc' # "idle" BY Zenon DEF Verify, Strike, Skip
<1>7. World => pc = "idle" BY <1>0, HostView, Zenon DEF HostKeeps
<1>8. UNCHANGED vars => pc = "idle" /\ table' = table BY Zenon DEF vars, tableVars
<1> QED BY <1>0, <1>1, <1>2, <1>3, <1>4, <1>5, <1>6, <1>7, <1>8, HostView, Zenon DEF Next

\* What a line is made of.
LEMMA LineShape ==
  ASSUME TypeInv, NEW m \in Numbers, Holds(m)
  PROVE  /\ table[m].line \in Seq(Id) /\ Len(table[m].line) \in Nat
         /\ \A i \in DOMAIN table[m].line : table[m].line[i] \in Id
         /\ table[m].line # <<>> =>
              /\ Len(table[m].line) \in DOMAIN table[m].line
              /\ Last(table[m].line) \in Id /\ Last(table[m].line).pid \in Numbers
              /\ Last(table[m].line).token \in Nat
<1>1. table[m].line \in Seq(Id) BY SlotShape, Zenon
<1>2. table[m].line # <<>> => /\ Len(table[m].line) \in DOMAIN table[m].line
                              /\ Last(table[m].line) \in Id
  BY <1>1 DEF Last
<1> QED BY <1>1, <1>2, IdentityShape

\* What a child's line is made of.
LEMMA ChildLine ==
  ASSUME NEW s \in Seq(Id), NEW e \in Id
  PROVE  /\ Append(s, e) # <<>> /\ Last(Append(s, e)) = e
         /\ \A i \in DOMAIN Append(s, e) : Append(s, e)[i] = e \/ (i \in DOMAIN s /\ Append(s, e)[i] = s[i])
         /\ \A i \in DOMAIN s : i \in DOMAIN Append(s, e) /\ Append(s, e)[i] = s[i]
         /\ Len(Append(s, e)) = Len(s) + 1 /\ Append(s, e)[Len(s) + 1] = e
  BY DEF Last

\* The lines fit the table as it changes before the call.
LEMMA LineStep == Base /\ LineInv /\ [Next]_vars => LineInv'
<1> SUFFICES ASSUME Base, LineInv, [Next]_vars, pc' = "idle", NEW m \in Numbers, Holds(m)'
             PROVE  (OlderLine(m) /\ LinuxLine(m) /\ WindowsLine(m) /\ LivingLine(m))'
  BY DEF LineInv
<1>0. TypeInv /\ Shape /\ TokenInv /\ ParentInv BY DEF Base, Shape
<1>1. pc = "idle" BY <1>0, IdleView, Zenon
<1>2. os' = os BY <1>0, TableView, Zenon
<1>3. \A k \in Numbers : table[k].token \in Int /\ table'[k].token \in Int /\ table[k].token <= table'[k].token
  <2>1. \A k \in Numbers : table[k].token \in Int BY <1>0, SlotShape, Zenon
  <2>2. TypeInv' BY <1>0, ShapeStep, Zenon DEF Shape
  <2>3. \A k \in Numbers : table'[k].token \in Int BY <2>2, SlotShape DEF TypeInv, FreeSlot, UsedSlot
  <2> QED BY <1>0, <2>1, <2>3, TokensGrow, Zenon
<1>4. ASSUME Holds(m)
      PROVE  /\ OlderLine(m) /\ LinuxLine(m) /\ WindowsLine(m) /\ LivingLine(m)
             /\ table[m].ppid \in Numbers \cup {Outside} /\ table[m].ppid # m
             /\ os = "linux" /\ table[m].ppid # Outside => Running(table[m].ppid)
  BY <1>0, <1>1, <1>4, SlotShape, Zenon DEF LineInv, ParentInv
<1>5. \A k \in Numbers : Holds(k) => \A i \in DOMAIN table[k].line :
        table[k].line[i].pid \in Numbers /\ table[k].line[i].token \in Nat
  BY <1>0, LineShape, IdentityShape, Zenon
<1>6. CASE table' = table
  <2>1. Holds(m) BY <1>6, Zenon DEF Holds
  <2>2. OlderLine(m) /\ LinuxLine(m) /\ WindowsLine(m) /\ LivingLine(m) BY <1>4, <2>1, Zenon
  <2> QED BY <1>2, <1>6, <2>2, Zenon
      DEF OlderLine, LinuxLine, WindowsLine, LivingLine, Once, IdAt, Lives, IsAt, Holds, Running
<1>7. ASSUME NEW n \in Numbers, NEW by \in Numbers \cup {Outside}, Forks(by, n)
      PROVE  (OlderLine(m) /\ LinuxLine(m) /\ WindowsLine(m) /\ LivingLine(m))'
  <2>0. clock \in Nat /\ \A k \in Numbers : table[k].token <= clock BY <1>0 DEF TypeInv, TokenInv
  <2>1. CASE m = n /\ by = Outside
    <3>1. table'[m].line = <<>> /\ table'[m].ppid = Outside BY <1>7, <2>1, Zenon DEF Forks
    <3>2. \A i \in DOMAIN table'[m].line : FALSE BY <3>1
    <3> QED BY <3>1, <3>2, Zenon DEF OlderLine, LinuxLine, WindowsLine, LivingLine
  <2>2. CASE m = n /\ by # Outside
    <3>1. /\ by \in Numbers /\ by # n /\ Running(by) /\ Holds(by) /\ table'[by] = table[by]
          /\ os = "windows" => table[by].token < clock
          /\ table'[m].ppid = by /\ table'[m].token = clock
          /\ table'[m].line = Append(table[by].line, IdAt(by))
      BY <1>7, <2>2, Zenon DEF Forks, Holds, Running
    <3>2. table[by].line \in Seq(Id) /\ IdAt(by) \in Id BY <1>0, <3>1, SlotShape
    <3>3. OlderLine(by) BY <1>0, <1>1, <3>1, Zenon DEF LineInv
    <3> DEFINE s == table[by].line  e == IdAt(by)
    <3>4. IdAt(by)' = e /\ e.pid = by /\ e.token = table[by].token BY <3>1 DEF IdAt
    <3> HIDE DEF s, e
    <3>5. table'[m].line = Append(s, e) /\ s \in Seq(Id) /\ e \in Id BY <3>1, <3>2, Zenon DEF s, e
    <3>6. /\ Append(s, e) # <<>> /\ Last(Append(s, e)) = e
          /\ \A i \in DOMAIN Append(s, e) : Append(s, e)[i] = e \/ (i \in DOMAIN s /\ Append(s, e)[i] = s[i])
      BY <3>5, ChildLine, Zenon
    <3>7. OlderLine(m)'
      <4> SUFFICES ASSUME NEW i \in DOMAIN Append(s, e)
                   PROVE  LET x == Append(s, e)[i] IN
                          /\ x.token <= table'[x.pid].token /\ x.token <= clock
                          /\ os = "windows" => x.token < clock
        BY <1>2, <3>1, <3>5 DEF OlderLine, Once
      <4>1. CASE Append(s, e)[i] = e BY <1>3, <2>0, <3>1, <3>4, <4>1, Zenon
      <4>2. CASE i \in DOMAIN s /\ Append(s, e)[i] = s[i]
        <5>1. /\ s[i].token <= table[s[i].pid].token /\ s[i].token <= table[by].token
              /\ os = "windows" => s[i].token < table[by].token
              /\ s[i].pid \in Numbers /\ s[i].token \in Nat
          BY <1>5, <3>1, <3>3, <4>2, Zenon DEF OlderLine, Once, s
        <5> QED BY <1>3, <2>0, <3>1, <4>2, <5>1
      <4> QED BY <3>6, <4>1, <4>2, Zenon
    <3>8. LinuxLine(m)' BY <3>1, <3>4, <3>5, Zenon DEF LinuxLine, s
    <3>9. WindowsLine(m)'
      <4>1. by # Outside BY <2>2
      <4> QED BY <3>1, <3>4, <3>5, <3>6, <4>1, Zenon DEF WindowsLine
    <3>10. LivingLine(m)' BY <3>1, <3>4, <3>5, <3>6, Zenon DEF LivingLine, s
    <3> QED BY <3>7, <3>8, <3>9, <3>10, Zenon
  <2>3. CASE m # n
    <3>1. /\ table'[m] = table[m] /\ Holds(m) /\ ~Holds(n) /\ table'[n].token = clock
          /\ table[n].token < clock /\ \A k \in Numbers : k # n => table'[k] = table[k]
      BY <1>7, <2>3, Zenon DEF Forks, Holds
    <3>2. OlderLine(m)'
      <4>1. OlderLine(m) BY <1>4, <3>1, Zenon
      <4> SUFFICES ASSUME NEW i \in DOMAIN table[m].line
                   PROVE  table[m].line[i].token <= table'[table[m].line[i].pid].token
        BY <1>2, <3>1, <4>1, Zenon DEF OlderLine, Once
      <4>2. table[m].line[i].token <= table[table[m].line[i].pid].token BY <4>1, Zenon DEF OlderLine, Once
      <4>3. table[m].line[i].pid \in Numbers /\ table[m].line[i].token \in Nat BY <1>5, <3>1
      <4> QED BY <1>3, <4>2, <4>3
    <3>3. LinuxLine(m)'
      <4>1. LinuxLine(m) BY <1>4, <3>1, Zenon
      <4>2. os = "linux" /\ table[m].ppid # Outside => table'[table[m].ppid] = table[table[m].ppid]
        BY <1>4, <3>1, Zenon DEF Holds, Running
      <4> QED BY <1>2, <3>1, <4>1, <4>2, Zenon DEF LinuxLine, IdAt
    <3>4. WindowsLine(m)'
      <4>1. WindowsLine(m) /\ table[m].token <= clock /\ table[m].token \in Int BY <1>3, <1>4, <2>0, <3>1, Zenon
      <4>2. CASE table[m].ppid = n BY <1>2, <2>0, <3>1, <4>1, <4>2, Zenon DEF WindowsLine
      <4>3. CASE table[m].ppid # n /\ table[m].ppid # Outside
        <5>1. table'[table[m].ppid] = table[table[m].ppid] BY <1>4, <3>1, <4>3, Zenon
        <5> QED BY <1>2, <3>1, <4>1, <5>1, Zenon DEF WindowsLine
      <4>4. CASE table[m].ppid = Outside BY <1>2, <3>1, <4>1, <4>4, Zenon DEF WindowsLine
      <4> QED BY <4>2, <4>3, <4>4
    <3>5. LivingLine(m)'
      <4> DEFINE last == Last(table[m].line)
      <4> SUFFICES ASSUME table[m].line # <<>>, Lives(last)'
                   PROVE  /\ table[m].ppid = last.pid
                          /\ table[m].line = Append(table'[table[m].ppid].line, last)
        <5>1. Last(table'[m].line) = last BY <3>1
        <5> QED BY <3>1, <5>1, Zenon DEF LivingLine, Lives, IsAt, Holds, Running
      <4>1. last.pid \in Numbers /\ last.token \in Nat BY <1>0, <3>1, LineShape, Zenon
      <4>2. last.token <= table[last.pid].token
        <5>1. OlderLine(m) /\ Len(table[m].line) \in DOMAIN table[m].line BY <1>0, <1>4, <3>1, LineShape, Zenon
        <5> QED BY <5>1 DEF OlderLine, Once, Last
      <4>3. table'[last.pid].token = last.token BY <3>1, Zenon DEF Lives, IsAt
      <4>4. last.pid # n
        <5> HIDE DEF last
        <5> QED BY <1>3, <2>0, <3>1, <4>1, <4>2, <4>3
      <4>5. table'[last.pid] = table[last.pid] BY <3>1, <4>1, <4>4, Zenon
      <4>6. Lives(last) BY <3>1, <4>5 DEF Lives, IsAt, Holds, Running
      <4>7. LivingLine(m) BY <1>4, <3>1, Zenon
      <4> QED BY <4>5, <4>6, <4>7, Zenon DEF LivingLine
    <3> QED BY <3>2, <3>3, <3>4, <3>5
  <2> QED BY <2>1, <2>2, <2>3, Zenon
<1>8. ASSUME NEW n \in Numbers, Ends(n)
      PROVE  (OlderLine(m) /\ LinuxLine(m) /\ WindowsLine(m) /\ LivingLine(m))'
  <2>1. /\ Holds(m) /\ table'[m].line = table[m].line
        /\ \A k \in Numbers : table'[k].token = table[k].token
        /\ \A k \in Numbers : Holds(k) => table'[k].line = table[k].line
        /\ table'[m].ppid = IF m # n /\ os = "linux" /\ table[m].ppid = n THEN Outside ELSE table[m].ppid
    BY <1>8 DEF Ends, Holds, Running
  <2>2. /\ OlderLine(m) /\ LinuxLine(m) /\ WindowsLine(m) /\ LivingLine(m)
        /\ table[m].ppid \in Numbers \cup {Outside}
        /\ os = "linux" /\ table[m].ppid # Outside => Running(table[m].ppid)
    BY <1>4, <2>1, Zenon
  <2>3. OlderLine(m)'
    <3>1. \A i \in DOMAIN table[m].line : table[m].line[i].pid \in Numbers BY <1>5, <2>1, Zenon
    <3> QED BY <1>2, <2>1, <2>2, <3>1, Zenon DEF OlderLine, Once
  <2>4. LinuxLine(m)'
    <3> SUFFICES ASSUME os = "linux", table'[m].ppid # Outside PROVE LinuxLine(m)' BY <1>2, Zenon DEF LinuxLine
    <3>1. /\ table'[m].ppid = table[m].ppid /\ table[m].ppid \in Numbers /\ Holds(table[m].ppid)
      BY <2>1, <2>2 DEF Holds, Running
    <3> QED BY <2>1, <2>2, <3>1, Zenon DEF LinuxLine, IdAt
  <2>5. WindowsLine(m)' BY <1>2, <2>1, <2>2, Zenon DEF WindowsLine
  <2>6. LivingLine(m)'
    <3> DEFINE last == Last(table[m].line)
    <3>0. Last(table'[m].line) = last BY <2>1
    <3> SUFFICES ASSUME table[m].line # <<>>, Lives(last)'
                 PROVE  /\ table'[m].ppid = last.pid
                        /\ table[m].line = Append(table'[table'[m].ppid].line, last)
      BY <2>1, <3>0, Zenon DEF LivingLine, Lives, IsAt, Holds, Running
    <3>1. last.pid \in Numbers BY <1>0, <2>1, LineShape, Zenon
    <3>2. table'[last.pid].state = "running" /\ table'[last.pid].token = last.token
      BY <2>1 DEF Lives, IsAt, Running
    <3>3. last.pid # n /\ table[last.pid].state = "running" BY <1>8, <3>1, <3>2, Zenon DEF Ends
    <3>4. Lives(last) /\ Holds(last.pid) BY <2>1, <3>1, <3>2, <3>3, Zenon DEF Lives, IsAt, Holds, Running
    <3>5. table[m].ppid = last.pid /\ table[m].line = Append(table[table[m].ppid].line, last)
      BY <2>2, <3>4, Zenon DEF LivingLine
    <3>6. table'[m].ppid = last.pid BY <2>1, <3>3, <3>5, Zenon
    <3> QED BY <2>1, <3>1, <3>4, <3>5, <3>6, Zenon
  <2> QED BY <2>3, <2>4, <2>5, <2>6, Zenon
<1>9. ASSUME NEW n \in Numbers, Frees(n)
      PROVE  (OlderLine(m) /\ LinuxLine(m) /\ WindowsLine(m) /\ LivingLine(m))'
  <2>1. /\ m # n /\ Holds(m) /\ ~Running(n) /\ table'[n].state = "free" /\ table'[m] = table[m]
        /\ \A k \in Numbers : table'[k].token = table[k].token
        /\ \A k \in Numbers : k # n => table'[k] = table[k]
    BY <1>9, Zenon DEF Frees, Holds, Running
  <2>2. /\ OlderLine(m) /\ LinuxLine(m) /\ WindowsLine(m) /\ LivingLine(m)
        /\ table[m].ppid \in Numbers \cup {Outside}
        /\ os = "linux" /\ table[m].ppid # Outside => Running(table[m].ppid)
    BY <1>4, <2>1
  <2>3. OlderLine(m)'
    <3>1. \A i \in DOMAIN table[m].line : table[m].line[i].pid \in Numbers BY <1>5, <2>1, Zenon
    <3> QED BY <1>2, <2>1, <2>2, <3>1, Zenon DEF OlderLine, Once
  <2>4. LinuxLine(m)'
    <3>1. os = "linux" /\ table[m].ppid # Outside => table'[table[m].ppid] = table[table[m].ppid]
      BY <2>1, <2>2, Zenon
    <3> QED BY <1>2, <2>1, <2>2, <3>1, Zenon DEF LinuxLine, IdAt
  <2>5. WindowsLine(m)' BY <1>2, <2>1, <2>2, Zenon DEF WindowsLine
  <2>6. LivingLine(m)'
    <3> DEFINE last == Last(table[m].line)
    <3>0. Last(table'[m].line) = last BY <2>1, Zenon
    <3> SUFFICES ASSUME table[m].line # <<>>, Lives(last)'
                 PROVE  /\ table[m].ppid = last.pid
                        /\ table[m].line = Append(table'[table[m].ppid].line, last)
      BY <2>1, <3>0, Zenon DEF LivingLine, Lives, IsAt, Holds, Running
    <3>1. last.pid \in Numbers BY <1>0, <2>1, LineShape, Zenon
    <3>2. table'[last.pid].state = "running" BY <2>1, Zenon DEF Lives, Running
    <3>3. table'[last.pid] = table[last.pid] BY <2>1, <3>1, <3>2
    <3>4. Lives(last) BY <2>1, <3>3, Zenon DEF Lives, IsAt, Holds, Running
    <3> QED BY <2>2, <3>3, <3>4, Zenon DEF LivingLine
  <2> QED BY <2>3, <2>4, <2>5, <2>6
<1> QED BY <1>0, <1>6, <1>7, <1>8, <1>9, IdleView, Zenon

\* The lines are in order whenever a call begins.
LEMMA LinesFit == Spec => []LineInv
<1>1. Init => LineInv BY DEF Init, TableInit, LineInv, Holds, Free
<1> QED BY <1>1, WalkIsWellFormed, LineStep, PTL DEF Spec

\* Whoever a still table lets the walk find has root for its parent number, or
\* somebody the walk can find too, with a shorter line: a last maker that still
\* runs is the parent.
LEMMA ParentWithin ==
  ASSUME TypeInv, LineInv, pc = "idle", root \in Id, NEW m \in Numbers, Within(m)
  PROVE  \/ table[m].ppid = root.pid
         \/ /\ table[m].ppid \in Numbers /\ Within(table[m].ppid)
            /\ Len(table[table[m].ppid].line) < Len(table[m].line)
<1> DEFINE line == table[m].line  last == Last(line)
<1>1. Holds(m) BY Zenon DEF Within, Holds, Running
<1>2. line \in Seq(Id) BY <1>1, LineShape, Zenon
<1>3. PICK i \in DOMAIN line :
        /\ line[i] = root
        /\ \A j \in i + 1 .. Len(line) : Lives(line[j]) /\ table[line[j].pid].access # "hidden"
  BY Zenon DEF Within
<1>4. /\ os \in {"linux", "windows"} /\ i \in Nat /\ 1 <= i /\ i <= Len(line) /\ line # <<>>
      /\ Len(line) \in Nat /\ last = line[Len(line)]
  <2> HIDE DEF line
  <2> QED BY <1>2, <1>3 DEF TypeInv, Last
<1>5. LinuxLine(m) /\ WindowsLine(m) /\ LivingLine(m) BY <1>1, Zenon DEF LineInv
<1>6. CASE i = Len(line)
  <2>1. last = root BY <1>3, <1>4, <1>6, Zenon
  <2>2. CASE os = "linux"
    <3>1. Lives(last) BY <2>1, <2>2, Zenon DEF Within, Lives
    <3> QED BY <1>4, <1>5, <2>1, <3>1, Zenon DEF LivingLine
  <2>3. CASE os = "windows" BY <1>4, <1>5, <2>1, <2>3, Zenon DEF WindowsLine
  <2> QED BY <1>4, <2>2, <2>3
<1>7. CASE i # Len(line)
  <2>1. i < Len(line) /\ Len(line) \in i + 1 .. Len(line)
    <3> HIDE DEF line
    <3> QED BY <1>4, <1>7
  <2>2. Lives(last) /\ table[last.pid].access # "hidden" BY <1>3, <1>4, <2>1, Zenon
  <2>3. last.pid \in Numbers /\ last \in Id BY <1>1, <1>4, LineShape, Zenon
  <2> DEFINE p == last.pid  up == table[p].line
  <2>4. table[m].ppid = p /\ line = Append(up, last) /\ Holds(p) /\ Running(p)
    BY <1>4, <1>5, <2>2, Zenon DEF LivingLine, Lives, IsAt
  <2>5. up \in Seq(Id) BY <2>3, <2>4, LineShape, Zenon
  <2> HIDE DEF up, last, line
  <2>6. /\ Len(up) \in Nat /\ Len(line) = Len(up) + 1 /\ DOMAIN up = 1 .. Len(up)
        /\ \A j \in 1 .. Len(up) : line[j] = up[j]
    BY <2>3, <2>4, <2>5
  <2>7. i \in 1 .. Len(up) /\ \A j \in i + 1 .. Len(up) : j \in i + 1 .. Len(line) /\ j \in 1 .. Len(up)
    BY <1>4, <2>1, <2>6
  <2>8. i \in DOMAIN up /\ up[i] = root BY <1>3, <2>6, <2>7, Zenon
  <2>9. \A j \in i + 1 .. Len(up) : Lives(up[j]) /\ table[up[j].pid].access # "hidden"
    BY <1>3, <2>6, <2>7, Zenon
  <2>10. Within(p)
    <3>1. /\ IsAt(root) /\ table[root.pid].access # "hidden"
          /\ os = "linux" => Running(root.pid)
      BY Zenon DEF Within
    <3> QED BY <2>2, <2>4, <2>8, <2>9, <3>1, Zenon DEF Within, up
  <2>11. Len(up) < Len(line) BY <2>6
  <2> QED BY <2>3, <2>4, <2>10, <2>11, Zenon DEF up, line
<1> QED BY <1>6, <1>7

-----------------------------------------------------------------------------
(* What the walk keeps is of root's descent                                *)

(* During the call: who is of root's descent. *)
KinAt(m) ==
  /\ os = "linux" /\ table[m].ppid # Outside /\ (Kin(table[m].ppid) \/ IdAt(table[m].ppid) = root) => Kin(m)
  /\ os = "windows" /\ table[m].ppid = root.pid /\ RootKeeps /\ table[m].token > root.token => Kin(m)
KinInv == pc # "idle" => \A m \in Numbers : Holds(m) => KinAt(m)

(* root's maker, and the number the table shows for it.  Windows may show a    *)
(* number that was taken again, but then by someone no older than root.         *)
MakerInv ==
  root \in Id /\ (pc = "idle" \/ op = "parent") =>
    /\ maker \in Id \cup {OutsideId}
    /\ os = "linux" /\ IsAt(root) /\ table[root.pid].ppid # Outside => maker = IdAt(table[root.pid].ppid)
    /\ os = "windows" /\ IsAt(root) => table[root.pid].ppid = maker.pid
    /\ os = "windows" /\ maker.pid # Outside =>
         table[maker.pid].token = maker.token \/ table[maker.pid].token >= root.token

(* The snapshot, while no number has changed hands since. *)
RowFits(r) ==
  /\ table[r[1]].token # -1
  /\ os = "linux" /\ r[2] # Outside =>
       /\ table[r[2]].token # -1
       /\ Holds(r[1]) /\ Holds(r[2]) /\ (Kin(r[2]) \/ IdAt(r[2]) = root) => Kin(r[1])
       /\ Holds(r[1]) /\ r[2] \in frontier \cup next => Kin(r[1])
       /\ op = "parent" /\ RootKeeps /\ r[1] = root.pid => maker = IdAt(r[2])
  /\ os = "windows" /\ Holds(r[1]) => table[r[1]].ppid = r[2]
RowInv ==
  calm # "swapped" =>
    /\ \A r \in rows : RowFits(r)
    /\ pc \in {"absent", "of", "walk"} => RootKeeps

(* root's own row, on Windows whatever happens, and that `parent` has one. *)
RootRowInv ==
  /\ op = "parent" /\ os = "windows" /\ (pc \in {"absent", "of"} \/ RootKeeps) =>
       \A r \in rows : r[1] = root.pid => r[2] = maker.pid
  /\ pc = "of" => HasRow(root.pid)

\* A call begins at most once, and no other step leaves the idle phase.
LEMMA BeginView ==
  ASSUME Shape, [Next]_vars, pc = "idle", pc' # "idle"
  PROVE  \E o \in Ops : Begin(o)
<1>1. \A n \in Numbers : ~Know(n) BY Zenon DEF Know
<1>2. ~(ReadRow \/ Snapshot \/ ScanFails \/ Anchor \/ AbsentFromSnapshot \/ ParentOf)
  BY DEF ReadRow, Snapshot, ScanFails, Anchor, AbsentFromSnapshot, ParentOf
<1>3. ~(Examine \/ EndLevel \/ Verify \/ Strike \/ AllStruck)
  BY Zenon DEF Examine, EndLevel, Verify, Strike, AllStruck
<1>4. ~World /\ ~UNCHANGED vars BY Zenon DEF World, vars
<1> QED BY <1>1, <1>2, <1>3, <1>4 DEF Next

\* A child of root, or of one of root's descent, is of root's descent.
LEMMA ForkKin ==
  ASSUME TypeInv, NEW n \in Numbers, NEW by \in Numbers, by # Outside, Forks(by, n), root' = root,
         Kin(by) \/ IdAt(by) = root
  PROVE  Kin(n)'
<1> DEFINE s == table[by].line  e == IdAt(by)
<1>1. table'[n].line = Append(s, e) /\ Holds(by) BY Zenon DEF Forks, Holds, Running
<1>2. s \in Seq(Id) /\ e \in Id BY <1>1, SlotShape, Zenon
<1>3. e = root \/ \E i \in DOMAIN s : s[i] = root BY Zenon DEF Kin, DescendsFrom
<1> HIDE DEF s, e
<1>4. \E i \in DOMAIN Append(s, e) : Append(s, e)[i] = root BY <1>2, <1>3
<1> QED BY <1>1, <1>4 DEF Kin, DescendsFrom

\* Nothing outlives root's token: a new holder of root's number has another one.
LEMMA RootNotForked ==
  ASSUME TypeInv, TokenInv, root \in Id, NEW n \in Numbers, NEW by, Forks(by, n)
  PROVE  /\ table[root.pid].token # -1
         /\ root.pid = n => table'[root.pid].token # root.token
<1>1. root.pid \in Numbers /\ root.token \in Nat /\ root.token <= table[root.pid].token
  BY IdentityShape, Zenon DEF TokenInv, Once
<1>2. table[root.pid].token \in Int /\ clock \in Nat BY <1>1, SlotShape DEF TypeInv
<1>3. table[n].token < clock /\ table'[n].token = clock BY Zenon DEF Forks
<1> QED BY <1>1, <1>2, <1>3

\* The numbers tell root's descent, as they do before the call, all through it.
LEMMA KinStep == Base /\ LineInv /\ KinInv /\ [Next]_vars => KinInv'
<1> SUFFICES ASSUME Base, LineInv, KinInv, [Next]_vars, pc' # "idle", NEW m \in Numbers, Holds(m)'
             PROVE  KinAt(m)'
  BY DEF KinInv
<1>0. TypeInv /\ Shape /\ PhaseInv /\ TokenInv /\ ParentInv BY Zenon DEF Base, Shape
<1>1. os' = os BY <1>0, TableView, Zenon
<1>2. m # Outside BY NumberShape
<1>3. CASE pc = "idle"
  <2>1. PICK o \in Ops : Begin(o) BY <1>0, <1>3, BeginView, Zenon
  <2>2. root \in Id /\ root' = root BY <1>0, <2>1, Zenon DEF Begin, TypeInv
  <2>3. Trims BY <1>0, <2>1, <2>2, TrimView, Zenon DEF Begin
  <2>4. \A k \in Numbers : Holds(k) => (Kin(k)' <=> Kin(k))
    <3> TAKE k \in Numbers
    <3> HAVE Holds(k)
    <3>1. table'[k].line = IF Kin(k) THEN <<root>> ELSE <<>> BY <2>3, Zenon DEF Trims
    <3>2. CASE Kin(k)
      <4>1. table'[k].line = <<root>> BY <3>1, <3>2, Zenon
      <4>2. 1 \in DOMAIN table'[k].line /\ table'[k].line[1] = root BY <4>1
      <4> QED BY <2>2, <3>2, <4>2, Zenon DEF Kin, DescendsFrom
    <3>3. CASE ~Kin(k)
      <4>1. table'[k].line = <<>> BY <3>1, <3>3, Zenon
      <4> QED BY <3>3, <4>1 DEF Kin, DescendsFrom
    <3> QED BY <3>2, <3>3, Zenon
  <2>5. /\ Holds(m) /\ table'[m].ppid = table[m].ppid /\ table'[m].token = table[m].token
        /\ \A k \in Numbers : IdAt(k)' = IdAt(k)
    BY <2>3, Zenon DEF Trims, Holds, IdAt
  <2>6. LinuxLine(m) /\ WindowsLine(m) /\ OlderLine(m) /\ table[m].ppid \in Numbers \cup {Outside}
    BY <1>0, <1>3, <2>5, SlotShape, Zenon DEF LineInv
  <2>7. table[m].line \in Seq(Id) BY <1>0, <2>5, SlotShape, Zenon
  <2>8. ASSUME os = "linux", table[m].ppid # Outside, Kin(table[m].ppid)' \/ IdAt(table[m].ppid)' = root
        PROVE  Kin(m)
    <3> DEFINE p == table[m].ppid  s == table[p].line  e == IdAt(p)
    <3>1. p \in Numbers /\ Holds(p) BY <1>0, <2>5, <2>6, <2>8, Zenon DEF ParentInv, Holds, Running
    <3>2. Kin(p) \/ e = root BY <2>4, <2>5, <2>8, <3>1, Zenon
    <3>3. table[m].line = Append(s, e) /\ s \in Seq(Id) /\ e \in Id BY <1>0, <2>6, <2>8, <3>1, SlotShape, Zenon DEF LinuxLine
    <3>4. e = root \/ \E i \in DOMAIN s : s[i] = root BY <3>2, Zenon DEF Kin, DescendsFrom
    <3> HIDE DEF s, e
    <3>5. \E i \in DOMAIN Append(s, e) : Append(s, e)[i] = root BY <3>3, <3>4
    <3> QED BY <3>3, <3>5 DEF Kin, DescendsFrom
  <2>9. ASSUME os = "windows", table[m].ppid = root.pid, table[root.pid].token = root.token,
               table[m].token > root.token
        PROVE  Kin(m)
    <3> DEFINE last == Last(table[m].line)
    <3>1. root.pid \in Numbers /\ root.pid # Outside /\ root.token \in Nat BY <2>2, IdentityShape, NumberShape, Zenon
    <3>2. /\ table[m].line # <<>> /\ last.pid = root.pid
          /\ table[root.pid].token = last.token \/ table[root.pid].token >= table[m].token
      BY <2>6, <2>9, <3>1, Zenon DEF WindowsLine
    <3>3. table[m].token \in Int BY <1>0, SlotShape, Zenon
    <3>4. last.token = root.token BY <2>9, <3>1, <3>2, <3>3
    <3>5. last \in Id /\ Len(table[m].line) \in DOMAIN table[m].line BY <1>0, <2>5, <3>2, LineShape, Zenon
    <3>6. last = root
      <4> HIDE DEF last
      <4> QED BY <2>2, <3>2, <3>4, <3>5 DEF Id
    <3> QED BY <3>5, <3>6, Zenon DEF Kin, DescendsFrom, Last
  <2>10. RootKeeps' <=> RootKeeps
    <3>1. root.pid \in Numbers BY <2>2, IdentityShape, Zenon
    <3> QED BY <2>2, <2>3, <3>1, Zenon DEF RootKeeps, Trims
  <2> QED BY <1>1, <2>2, <2>4, <2>5, <2>8, <2>9, <2>10, Zenon DEF KinAt, RootKeeps
<1>4. CASE pc # "idle"
  <2>0. root \in Id /\ root.pid \in Numbers BY <1>0, <1>4, IdentityShape, Zenon DEF PhaseInv
  <2>1. root' = root BY <1>0, <1>4, RootView, Zenon DEF Know
  <2>2. \A k \in Numbers : Holds(k) =>
          /\ KinAt(k) /\ table[k].ppid \in Numbers \cup {Outside}
          /\ os = "linux" /\ table[k].ppid # Outside => Running(table[k].ppid)
    BY <1>0, <1>4, SlotShape, Zenon DEF KinInv, ParentInv
  <2>3. CASE table' = table
    <3>1. Holds(m) /\ KinAt(m) BY <2>2, <2>3, Zenon DEF Holds
    <3> QED BY <1>1, <2>1, <2>3, <3>1, Zenon DEF KinAt, Kin, DescendsFrom, IdAt, RootKeeps
  <2>4. ASSUME NEW n \in Numbers, NEW by \in Numbers \cup {Outside}, Forks(by, n) PROVE KinAt(m)'
    <3>0. \A k \in Numbers : k # n => table'[k] = table[k] /\ Kin(k)' = Kin(k) /\ IdAt(k)' = IdAt(k)
      BY <2>1, <2>4, Zenon DEF Forks, Kin, DescendsFrom, IdAt
    <3>1. RootKeeps' => root.pid # n /\ RootKeeps
      <4>1. root.pid = n => table'[root.pid].token # root.token BY <1>0, <2>0, <2>4, RootNotForked, Zenon
      <4> QED BY <2>0, <2>1, <3>0, <4>1, Zenon DEF RootKeeps
    <3>2. CASE m = n
      <4>1. table'[m].ppid = by /\ by # n BY <2>4, <3>2, Zenon DEF Forks
      <4>2. CASE by = Outside
        <5>1. root.pid # Outside BY <2>0, NumberShape
        <5> QED BY <2>1, <4>1, <4>2, <5>1, Zenon DEF KinAt
      <4>3. CASE by # Outside
        <5>1. Kin(by) \/ IdAt(by) = root => Kin(m)' BY <1>0, <2>1, <2>4, <3>2, <4>3, ForkKin, Zenon
        <5>2. Kin(by)' = Kin(by) /\ IdAt(by)' = IdAt(by) BY <3>0, <4>1, <4>3, Zenon
        <5>3. by = root.pid /\ RootKeeps => IdAt(by) = root BY <2>0, IdentityShape, Zenon DEF RootKeeps
        <5> QED BY <2>1, <3>1, <4>1, <5>1, <5>2, <5>3, Zenon DEF KinAt
      <4> QED BY <4>2, <4>3
    <3>3. CASE m # n
      <4>1. table'[m] = table[m] /\ Holds(m) /\ Kin(m)' = Kin(m) BY <3>0, <3>3, Zenon DEF Holds
      <4>2. KinAt(m) BY <2>2, <4>1
      <4>3. os = "linux" /\ table[m].ppid # Outside => table[m].ppid \in Numbers /\ table[m].ppid # n
        BY <2>2, <2>4, <4>1, Zenon DEF Forks, Holds, Running
      <4> QED BY <1>1, <2>1, <3>0, <3>1, <4>1, <4>2, <4>3, Zenon DEF KinAt
    <3> QED BY <3>2, <3>3
  <2>5. ASSUME NEW n \in Numbers, Ends(n) PROVE KinAt(m)'
    <3>1. /\ Holds(m) /\ table'[m].token = table[m].token
          /\ table'[m].ppid \in {Outside, table[m].ppid}
          /\ \A k \in Numbers : IdAt(k)' = IdAt(k) /\ (Holds(k) => Kin(k)' = Kin(k))
      BY <2>1, <2>5, Zenon DEF Ends, Holds, Running, Kin, DescendsFrom, IdAt
    <3>2. RootKeeps' = RootKeeps BY <2>0, <2>1, <2>5, Zenon DEF RootKeeps, Ends
    <3>3. KinAt(m) BY <2>2, <3>1, Zenon
    <3>4. os = "linux" /\ table[m].ppid # Outside => table[m].ppid \in Numbers /\ Holds(table[m].ppid)
      BY <2>2, <3>1, Zenon DEF Holds, Running
    <3>5. root.pid # Outside BY <2>0, NumberShape
    <3> QED BY <1>1, <2>1, <3>1, <3>2, <3>3, <3>4, <3>5, Zenon DEF KinAt
  <2>6. ASSUME NEW n \in Numbers, Frees(n) PROVE KinAt(m)'
    <3>1. /\ m # n /\ Holds(m) /\ table'[m] = table[m]
          /\ \A k \in Numbers : IdAt(k)' = IdAt(k) /\ (k # n => Kin(k)' = Kin(k))
      BY <2>1, <2>6, Zenon DEF Frees, Holds, Kin, DescendsFrom, IdAt
    <3>2. RootKeeps' = RootKeeps BY <2>0, <2>1, <2>6 DEF RootKeeps, Frees
    <3>3. KinAt(m) BY <2>2, <3>1, Zenon
    <3>4. os = "linux" /\ table[m].ppid # Outside => table[m].ppid \in Numbers /\ table[m].ppid # n
      BY <2>2, <2>6, <3>1, Zenon DEF Frees, Running
    <3> QED BY <1>1, <2>1, <3>1, <3>2, <3>3, <3>4, Zenon DEF KinAt
  <2> QED BY <1>0, <1>4, <2>3, <2>4, <2>5, <2>6, TableView, Zenon
<1> QED BY <1>3, <1>4, Zenon

\* What is known of root's maker when its identity is learnt stays true.
LEMMA MakerStep == Base /\ LineInv /\ MakerInv /\ [Next]_vars => MakerInv'
<1> SUFFICES ASSUME Base, LineInv, MakerInv, [Next]_vars, root' \in Id, pc' = "idle" \/ op' = "parent"
             PROVE  MakerInv'
  BY Zenon DEF MakerInv
<1>0. TypeInv /\ Shape /\ PhaseInv /\ TokenInv /\ ParentInv BY Zenon DEF Base, Shape
<1>1. os' = os /\ os \in {"linux", "windows"} BY <1>0, TableView DEF TypeInv
<1>2. ASSUME NEW n \in Numbers, Know(n) PROVE MakerInv'
  <2>1. /\ pc = "idle" /\ table' = table /\ root' = IdAt(n)
        /\ maker' = IF table[n].line = <<>> THEN OutsideId ELSE Last(table[n].line)
    BY <1>2 DEF Know, tableVars, Last
  <2>2. Holds(n) BY <1>0, <1>2, ReadView, Zenon DEF Know
  <2>3. LinuxLine(n) /\ WindowsLine(n) BY <2>1, <2>2, Zenon DEF LineInv
  <2>4. root'.pid = n /\ root'.token = table[n].token BY <2>1, Zenon DEF IdAt
  <2>5. maker' \in Id \cup {OutsideId} BY <1>0, <2>1, <2>2, LineShape, Zenon
  <2>6. ASSUME os = "linux", table[n].ppid # Outside PROVE maker' = IdAt(table[n].ppid)
    <3>1. table[n].ppid \in Numbers /\ Holds(table[n].ppid)
      BY <1>0, <2>2, <2>6, SlotShape, Zenon DEF ParentInv, Holds, Running
    <3>2. table[table[n].ppid].line \in Seq(Id) /\ IdAt(table[n].ppid) \in Id BY <1>0, <3>1, SlotShape, Zenon
    <3>3. table[n].line = Append(table[table[n].ppid].line, IdAt(table[n].ppid)) BY <2>3, <2>6 DEF LinuxLine
    <3>4. /\ Append(table[table[n].ppid].line, IdAt(table[n].ppid)) # <<>>
          /\ Last(Append(table[table[n].ppid].line, IdAt(table[n].ppid))) = IdAt(table[n].ppid)
      BY <3>2, ChildLine, Zenon
    <3>5. table[n].line # <<>> /\ Last(table[n].line) = IdAt(table[n].ppid) BY <3>3, <3>4, Zenon
    <3> QED BY <2>1, <3>5, Zenon
  <2>7. ASSUME os = "windows" PROVE /\ table[n].ppid = maker'.pid
                                    /\ maker'.pid # Outside => \/ table[maker'.pid].token = maker'.token
                                                               \/ table[maker'.pid].token >= table[n].token
    <3>1. CASE table[n].ppid = Outside
      <4>1. maker' = OutsideId BY <2>1, <2>3, <2>7, <3>1, Zenon DEF WindowsLine
      <4> QED BY <3>1, <4>1 DEF OutsideId
    <3>2. CASE table[n].ppid # Outside BY <2>1, <2>3, <2>7, <3>2, Zenon DEF WindowsLine
    <3> QED BY <3>1, <3>2, Zenon
  <2>8. \A k : IdAt(k)' = IdAt(k) BY <2>1, Zenon DEF IdAt
  <2> QED BY <1>1, <2>1, <2>4, <2>5, <2>6, <2>7, <2>8, Zenon DEF MakerInv
<1>3. ASSUME root' = root, maker' = maker, pc = "idle" \/ op = "parent" PROVE MakerInv'
  <2>0. root \in Id /\ root.pid \in Numbers /\ root.token \in Nat BY <1>3, IdentityShape
  <2>1. /\ maker \in Id \cup {OutsideId}
        /\ os = "linux" /\ IsAt(root) /\ table[root.pid].ppid # Outside => maker = IdAt(table[root.pid].ppid)
        /\ os = "windows" /\ IsAt(root) => table[root.pid].ppid = maker.pid
        /\ os = "windows" /\ maker.pid # Outside =>
             table[maker.pid].token = maker.token \/ table[maker.pid].token >= root.token
    BY <1>3, <2>0, Zenon DEF MakerInv
  <2>2. maker.pid # Outside => maker.pid \in Numbers BY <2>1, IdentityShape DEF OutsideId
  <2>3. IsAt(root) => /\ table[root.pid].ppid \in Numbers \cup {Outside}
                      /\ os = "linux" /\ table[root.pid].ppid # Outside => Running(table[root.pid].ppid)
    BY <1>0, <2>0, SlotShape, Zenon DEF IsAt, ParentInv
  <2>4. SUFFICES /\ os = "linux" /\ IsAt(root)' /\ table'[root.pid].ppid # Outside =>
                      maker = IdAt(table[root.pid].ppid)'
                 /\ os = "windows" /\ IsAt(root)' => table'[root.pid].ppid = maker.pid
                 /\ os = "windows" /\ maker.pid # Outside =>
                      table'[maker.pid].token = maker.token \/ table'[maker.pid].token >= root.token
    BY <1>1, <1>3, <2>1, Zenon DEF MakerInv
  <2>5. CASE table' = table BY <1>3, <2>1, <2>5, Zenon DEF IsAt, Holds, IdAt
  <2>6. CASE Trims
    <3>1. IsAt(root)' => IsAt(root) /\ table'[root.pid].ppid = table[root.pid].ppid
      BY <1>3, <2>0, <2>6, Zenon DEF Trims, IsAt, Holds
    <3>2. \A k \in Numbers : table'[k].token = table[k].token BY <2>6 DEF Trims
    <3> QED BY <1>3, <2>1, <2>2, <2>3, <3>1, <3>2, Zenon DEF IdAt
  <2>7. ASSUME NEW n \in Numbers, NEW by \in Numbers \cup {Outside}, Forks(by, n)
        PROVE  /\ os = "linux" /\ IsAt(root)' /\ table'[root.pid].ppid # Outside =>
                    maker = IdAt(table[root.pid].ppid)'
               /\ os = "windows" /\ IsAt(root)' => table'[root.pid].ppid = maker.pid
               /\ os = "windows" /\ maker.pid # Outside =>
                    table'[maker.pid].token = maker.token \/ table'[maker.pid].token >= root.token
    <3>0. ~Holds(n) /\ table'[n].token = clock /\ \A k \in Numbers : k # n => table'[k] = table[k]
      BY <2>7 DEF Forks
    <3>1. IsAt(root)' => root.pid # n BY <1>0, <1>3, <2>0, <2>7, RootNotForked, Zenon DEF IsAt
    <3>2. IsAt(root)' => IsAt(root) /\ table'[root.pid] = table[root.pid]
      BY <1>3, <2>0, <3>0, <3>1, Zenon DEF IsAt, Holds
    <3>3. IsAt(root)' /\ os = "linux" /\ table[root.pid].ppid # Outside => table[root.pid].ppid # n
      BY <2>3, <3>0, <3>2, Zenon DEF Holds, Running
    <3>4. clock >= root.token
      <4>1. root.token <= table[root.pid].token /\ table[root.pid].token <= clock BY <1>0, <2>0, Zenon DEF TokenInv, Once
      <4>2. table[root.pid].token \in Int /\ clock \in Nat BY <1>0, <2>0, SlotShape, Zenon DEF TypeInv
      <4> QED BY <2>0, <4>1, <4>2
    <3>5. os = "linux" /\ IsAt(root)' /\ table'[root.pid].ppid # Outside => maker = IdAt(table[root.pid].ppid)'
      BY <1>3, <2>1, <2>3, <3>0, <3>2, <3>3, Zenon DEF IdAt
    <3>6. os = "windows" /\ IsAt(root)' => table'[root.pid].ppid = maker.pid BY <2>1, <3>2, Zenon
    <3>7. os = "windows" /\ maker.pid # Outside =>
            table'[maker.pid].token = maker.token \/ table'[maker.pid].token >= root.token
      BY <2>1, <2>2, <3>0, <3>4, Zenon
    <3> QED BY <3>5, <3>6, <3>7, Zenon
  <2>8. ASSUME NEW n \in Numbers, Ends(n)
        PROVE  /\ os = "linux" /\ IsAt(root)' /\ table'[root.pid].ppid # Outside =>
                    maker = IdAt(table[root.pid].ppid)'
               /\ os = "windows" /\ IsAt(root)' => table'[root.pid].ppid = maker.pid
               /\ os = "windows" /\ maker.pid # Outside =>
                    table'[maker.pid].token = maker.token \/ table'[maker.pid].token >= root.token
    <3>1. \A k \in Numbers : table'[k].token = table[k].token BY <2>8, Zenon DEF Ends
    <3>2. IsAt(root)' => /\ IsAt(root)
                         /\ os = "windows" => table'[root.pid].ppid = table[root.pid].ppid
                         /\ table'[root.pid].ppid \in {Outside, table[root.pid].ppid}
      BY <1>1, <1>3, <2>0, <2>8, Zenon DEF Ends, IsAt, Holds, Running
    <3>3. os = "linux" /\ IsAt(root)' /\ table'[root.pid].ppid # Outside => maker = IdAt(table[root.pid].ppid)'
      BY <1>3, <2>1, <2>3, <3>1, <3>2, Zenon DEF IdAt
    <3> QED BY <2>1, <2>2, <3>1, <3>2, <3>3, Zenon
  <2>9. ASSUME NEW n \in Numbers, Frees(n)
        PROVE  /\ os = "linux" /\ IsAt(root)' /\ table'[root.pid].ppid # Outside =>
                    maker = IdAt(table[root.pid].ppid)'
               /\ os = "windows" /\ IsAt(root)' => table'[root.pid].ppid = maker.pid
               /\ os = "windows" /\ maker.pid # Outside =>
                    table'[maker.pid].token = maker.token \/ table'[maker.pid].token >= root.token
    <3>1. \A k \in Numbers : table'[k].token = table[k].token BY <2>9 DEF Frees
    <3>2. IsAt(root)' => IsAt(root) /\ table'[root.pid].ppid = table[root.pid].ppid
      BY <1>3, <2>0, <2>9, Zenon DEF Frees, IsAt, Holds
    <3>3. os = "linux" /\ IsAt(root)' /\ table'[root.pid].ppid # Outside => maker = IdAt(table[root.pid].ppid)'
      BY <1>3, <2>1, <2>3, <3>1, <3>2, Zenon DEF IdAt
    <3> QED BY <2>1, <2>2, <3>1, <3>2, <3>3, Zenon
  <2> QED BY <1>0, <2>5, <2>6, <2>7, <2>8, <2>9, TableView, Zenon
<1>4. ASSUME NEW o \in Ops, Begin(o) PROVE root' = root /\ maker' = maker /\ pc = "idle"
  BY <1>4 DEF Begin
<1>5. ReadRow \/ Snapshot \/ ScanFails => root' = root /\ maker' = maker /\ op' = op /\ pc' # "idle"
  BY Zenon DEF ReadRow, Snapshot, ScanFails, Return, ghosts
<1>6. Anchor \/ AbsentFromSnapshot \/ ParentOf => root' = root /\ maker' = maker /\ op' = op /\ pc' # "idle"
  BY DEF Anchor, AbsentFromSnapshot, ParentOf, Return, ghosts
<1>7. Examine \/ EndLevel \/ AllStruck => root' = root /\ maker' = maker /\ op' = op /\ pc' # "idle"
  BY Zenon DEF Examine, EndLevel, AllStruck, Return, ghosts
<1>8. Verify \/ Strike => root' = root /\ maker' = maker /\ op' = op /\ pc' # "idle"
  BY Zenon DEF Verify, Strike, Skip, ghosts
<1>9. World => root' = root /\ maker' = maker /\ op' = op /\ pc' = pc BY Zenon DEF World
<1>10. UNCHANGED vars => root' = root /\ maker' = maker /\ op' = op /\ pc' = pc BY DEF vars, ghosts
<1> QED BY <1>2, <1>3, <1>4, <1>5, <1>6, <1>7, <1>8, <1>9, <1>10, ZenonT(60) DEF Next

\* While no number changes hands under the call, whoever held a number that was in
\* use keeps it, with its token, its descent and (on Windows) its parent number.
LEMMA HostQuiet ==
  ASSUME Base, World, pc # "idle", calm' # "swapped", NEW k \in Numbers, table[k].token # -1
  PROVE  /\ calm # "swapped" /\ table'[k].token = table[k].token
         /\ Holds(k)' => /\ Holds(k) /\ Kin(k)' = Kin(k)
                         /\ os = "windows" => table'[k].ppid = table[k].ppid
<1>0. TypeInv BY Zenon DEF Base, Shape
<1>1. root' = root /\ os' = os BY <1>0, HostView, Zenon DEF HostKeeps
<1>2. calm # "swapped" BY <1>0, HostView, Zenon DEF Moved
<1>3. ASSUME table'[k] = table[k]
      PROVE  /\ table'[k].token = table[k].token
             /\ Holds(k)' => /\ Holds(k) /\ Kin(k)' = Kin(k)
                             /\ os = "windows" => table'[k].ppid = table[k].ppid
  BY <1>1, <1>3, Zenon DEF Holds, Kin, DescendsFrom
<1>4. ASSUME NEW n \in Numbers, NEW by \in Numbers \cup {Outside}, Forks(by, n), table[n].token = -1
      PROVE  table'[k] = table[k]
  BY <1>4 DEF Forks
<1>5. ASSUME NEW n \in Numbers, Ends(n)
      PROVE  /\ table'[k].token = table[k].token
             /\ Holds(k)' => /\ Holds(k) /\ Kin(k)' = Kin(k)
                             /\ os = "windows" => table'[k].ppid = table[k].ppid
  <2>1. Holds(k)' => Holds(k) BY <1>5, Zenon DEF Ends, Holds, Running
  <2>2. Holds(k) => Kin(k)' = Kin(k) BY <1>1, <1>5 DEF Ends, Kin, DescendsFrom
  <2>3. table'[k].token = table[k].token BY <1>5, Zenon DEF Ends
  <2>4. Holds(k) /\ os = "windows" => table'[k].ppid = table[k].ppid BY <1>5, Zenon DEF Ends
  <2> QED BY <2>1, <2>2, <2>3, <2>4, Zenon
<1>6. ASSUME NEW n \in Numbers, Frees(n)
      PROVE  /\ table'[k].token = table[k].token
             /\ table'[k] = table[k] \/ ~Holds(k)'
  BY <1>6, Zenon DEF Frees, Holds
<1> QED BY <1>0, <1>2, <1>3, <1>4, <1>5, <1>6, HostView, Zenon

\* A row stays fitting while no number changes hands.
LEMMA RowHost ==
  ASSUME Base, World, pc # "idle", calm' # "swapped", NEW r \in rows, RowFits(r)
  PROVE  RowFits(r)'
<1>0. TypeInv /\ PhaseInv /\ TokenInv BY Zenon DEF Base, Shape
<1>1. UNCHANGED <<os, root, maker, op, frontier, next>> BY <1>0, HostView, Zenon DEF HostKeeps
<1>2. r[1] \in Numbers /\ r[2] \in Numbers \cup {Outside} BY <1>0, Zenon DEF TypeInv
<1>3. table[r[1]].token # -1 BY DEF RowFits
<1>4. /\ table'[r[1]].token = table[r[1]].token
      /\ Holds(r[1])' => /\ Holds(r[1]) /\ Kin(r[1])' = Kin(r[1])
                         /\ os = "windows" => table'[r[1]].ppid = table[r[1]].ppid
  BY <1>2, <1>3, HostQuiet, Zenon
<1>5. RootKeeps' => RootKeeps
  <2>1. root \in Id BY <1>0, Zenon DEF PhaseInv
  <2>2. root.pid \in Numbers /\ root.token \in Nat /\ root.token <= table[root.pid].token
    BY <1>0, <2>1, IdentityShape, Zenon DEF TokenInv, Once
  <2>3. table[root.pid].token # -1
    <3>1. table[root.pid].token \in Int BY <1>0, <2>2, SlotShape
    <3> QED BY <2>2, <3>1
  <2>4. table'[root.pid].token = table[root.pid].token BY <2>2, <2>3, HostQuiet, Zenon
  <2> QED BY <1>1, <2>4, Zenon DEF RootKeeps
<1>6. CASE os = "linux" /\ r[2] # Outside
  <2>1. table[r[2]].token # -1 /\ r[2] \in Numbers BY <1>2, <1>6, Zenon DEF RowFits
  <2>2. table'[r[2]].token = table[r[2]].token /\ (Holds(r[2])' => Holds(r[2]) /\ Kin(r[2])' = Kin(r[2]))
    BY <2>1, HostQuiet
  <2>3. IdAt(r[2])' = IdAt(r[2]) BY <2>2, Zenon DEF IdAt
  <2> QED BY <1>1, <1>3, <1>4, <1>5, <1>6, <2>1, <2>2, <2>3, Zenon DEF RowFits
<1>7. CASE ~(os = "linux" /\ r[2] # Outside) BY <1>1, <1>3, <1>4, <1>7, Zenon DEF RowFits
<1> QED BY <1>6, <1>7

\* m's row, as a snapshot reads it.
Row(m) == <<m, table[m].ppid>>

\* A row, as it is read, fits the table.
LEMMA RowRead ==
  ASSUME Base, KinInv, MakerInv, pc = "scan", NEW n \in Numbers, Holds(n)
  PROVE  RowFits(Row(n))
<1>0. TypeInv /\ PhaseInv /\ ParentInv BY Zenon DEF Base, Shape
<1> DEFINE p == table[n].ppid
<1>1. Row(n)[1] = n /\ Row(n)[2] = p BY DEF Row
<1>2. table[n].token \in Nat /\ p \in Numbers \cup {Outside} BY <1>0, SlotShape, Zenon
<1>3. KinAt(n) BY Zenon DEF KinInv
<1>4. frontier = {} /\ next = {} /\ root \in Id BY <1>0, Zenon DEF PhaseInv
<1>5. ASSUME os = "linux", p # Outside
      PROVE  /\ table[p].token # -1
             /\ Kin(p) \/ IdAt(p) = root => Kin(n)
             /\ op = "parent" /\ RootKeeps /\ n = root.pid => maker = IdAt(p)
  <2>1. p \in Numbers /\ Holds(p) BY <1>0, <1>2, <1>5, Zenon DEF ParentInv, Holds, Running
  <2>2. table[p].token \in Nat BY <1>0, <2>1, SlotShape, Zenon
  <2>3. Kin(p) \/ IdAt(p) = root => Kin(n) BY <1>3, <1>5, Zenon DEF KinAt
  <2>4. op = "parent" /\ RootKeeps /\ n = root.pid => maker = IdAt(p)
    BY <1>4, <1>5, Zenon DEF MakerInv, IsAt, RootKeeps
  <2> QED BY <2>2, <2>3, <2>4
<1>6. table[n].token # -1 BY <1>2
<1> HIDE DEF p
<1> QED BY <1>1, <1>4, <1>5, <1>6, Zenon DEF RowFits, p

\* Rows that are kept still fit when the table and what they are held against stay.
LEMMA RowsStay ==
  ASSUME UNCHANGED <<os, table, root, maker, op>>, NEW r, RowFits(r),
         Holds(r[1]) /\ os = "linux" /\ r[2] # Outside /\ r[2] \in frontier' \cup next' => Kin(r[1])
  PROVE  RowFits(r)'
<1>1. /\ Holds(r[1])' = Holds(r[1]) /\ Holds(r[2])' = Holds(r[2]) /\ IdAt(r[2])' = IdAt(r[2])
      /\ Kin(r[1])' = Kin(r[1]) /\ Kin(r[2])' = Kin(r[2]) /\ RootKeeps' = RootKeeps
  BY Zenon DEF Holds, IdAt, Kin, DescendsFrom, RootKeeps
<1> QED BY <1>1, Zenon DEF RowFits

\* The snapshot fits the table from its reading to the end of the walk.
LEMMA RowStep == Base /\ Base' /\ KinInv /\ MakerInv /\ RowInv /\ [Next]_vars => RowInv'
<1> SUFFICES ASSUME Base, Base', KinInv, MakerInv, RowInv, [Next]_vars, calm' # "swapped" PROVE RowInv'
  BY DEF RowInv
<1>0. TypeInv /\ Shape /\ PhaseInv /\ PhaseInv' /\ TokenInv BY Zenon DEF Base, Shape
<1>1. ASSUME rows' = {}, pc' \notin {"absent", "of", "walk"} PROVE RowInv' BY <1>1 DEF RowInv
<1>2. ASSUME NEW n \in Numbers, Know(n) PROVE RowInv'
  BY <1>0, <1>1, <1>2, Zenon DEF Know, PhaseInv, scan
<1>3. ASSUME NEW o \in Ops, Begin(o) PROVE RowInv'
  BY <1>0, <1>1, <1>3, Zenon DEF Begin, PhaseInv
<1>4. CASE ReadRow
  <2>0. /\ pc = "scan" /\ UNCHANGED <<os, table, root, maker, op, calm, frontier, next>>
        /\ pc' \notin {"absent", "of", "walk"}
    BY <1>4, Zenon DEF ReadRow, tableVars, bfs, ghosts
  <2>1. frontier = {} /\ next = {} BY <1>0, <2>0 DEF PhaseInv
  <2>2. PICK n \in Numbers :
           /\ Resolve(n).is = "found" => Holds(n) /\ rows' = rows \cup {Row(n)}
           /\ Resolve(n).is # "found" => rows' = rows
    BY <1>0, <1>4, ReadRowView, Zenon DEF Row
  <2>3. \A r \in rows' : r \in rows \/ (r = Row(n) /\ Holds(n)) BY <2>2, Zenon
  <2>4. \A r \in rows' : RowFits(r)
    <3>1. Holds(n) => RowFits(Row(n)) BY <2>0, RowRead, Zenon
    <3> QED BY <2>0, <2>3, <3>1, Zenon DEF RowInv
  <2>5. \A r \in rows' : RowFits(r)' BY <2>0, <2>1, <2>4, RowsStay, Zenon
  <2> QED BY <2>0, <2>5, Zenon DEF RowInv
<1>5. CASE Snapshot
  <2>0. /\ pc = "scan" /\ UNCHANGED <<os, table, root, maker, op, calm, frontier, next>>
        /\ pc' \notin {"absent", "of", "walk"}
    BY <1>5, Zenon DEF Snapshot, tableVars, bfs, ghosts
  <2>1. frontier = {} /\ next = {} BY <1>0, <2>0, Zenon DEF PhaseInv
  <2>2. \A r \in rows' : \E n \in Numbers : Holds(n) /\ r = Row(n)
    BY <1>5, Zenon DEF Snapshot, Row, Holds, Running
  <2>3. \A r \in rows' : RowFits(r) BY <2>0, <2>2, RowRead, Zenon
  <2>4. \A r \in rows' : RowFits(r)' BY <2>0, <2>1, <2>3, RowsStay, Zenon
  <2> QED BY <2>0, <2>4 DEF RowInv
<1>6. CASE ScanFails \/ AbsentFromSnapshot \/ AllStruck
  BY <1>1, <1>6 DEF ScanFails, AbsentFromSnapshot, AllStruck, Return
<1>7. CASE ParentOf BY <1>1, <1>7, Zenon DEF ParentOf, Return
<1>8. CASE Anchor
  <2>1. CASE RootExists = "present"
    <3>0. /\ pc = "anchor" /\ frontier' = {root.pid}
          /\ UNCHANGED <<os, table, root, maker, op, calm, rows, next>>
      BY <1>8, <2>1, Zenon DEF Anchor, Return, tableVars, scan, ghosts
    <3>1. root \in Id /\ next = {} BY <1>0, <3>0, Zenon DEF PhaseInv
    <3>2. IsAt(root) BY <1>0, <2>1, <3>1, AnchorView, Zenon
    <3>3. Holds(root.pid) /\ IdAt(root.pid) = root /\ RootKeeps BY <3>1, <3>2, IdentityShape, Zenon DEF IsAt, RootKeeps
    <3>4. ASSUME NEW r \in rows PROVE RowFits(r)'
      <4>1. RowFits(r) BY <3>0 DEF RowInv
      <4>2. Holds(r[1]) /\ os = "linux" /\ r[2] # Outside /\ r[2] \in frontier' \cup next' => Kin(r[1])
        BY <3>0, <3>1, <3>3, <4>1, Zenon DEF RowFits
      <4> QED BY <3>0, <4>1, <4>2, RowsStay, Zenon
    <3>5. RootKeeps' BY <3>0, <3>3, Zenon DEF RootKeeps
    <3> QED BY <3>0, <3>4, <3>5, Zenon DEF RowInv
  <2>2. CASE RootExists # "present" BY <1>1, <1>8, <2>2, Zenon DEF Anchor, Return
  <2> QED BY <2>1, <2>2, Zenon
<1>9. CASE Examine
  <2>0. /\ pc = "walk" /\ UNCHANGED <<os, table, root, maker, op, calm, frontier, pc>>
    BY <1>9, Zenon DEF Examine, tableVars, ghosts
  <2>1. PICK row \in rows :
           /\ row[2] \in frontier /\ rows' = rows \ {row} /\ row[1] \in Numbers
           /\ Keeps(row) => next' = next \cup {row[1]}
           /\ ~Keeps(row) => next' = next
    BY <1>0, <1>9, ExamineView, Zenon
  <2>2. \A r \in rows : RowFits(r) BY <2>0 DEF RowInv
  <2>3. os = "linux" /\ Keeps(row) => Holds(row[1]) /\ Kin(row[1])
    <3>1. row[2] # Outside BY <1>0, <2>1, NumberShape, Zenon DEF TypeInv
    <3> QED BY <2>1, <2>2, <3>1, Zenon DEF RowFits, Keeps
  <2>4. ASSUME NEW r \in rows PROVE RowFits(r)'
    <3>1. RowFits(r) BY <2>2, Zenon
    <3>2. Holds(r[1]) /\ os = "linux" /\ r[2] # Outside /\ r[2] \in frontier' \cup next' => Kin(r[1])
      <4> SUFFICES ASSUME Holds(r[1]), os = "linux", r[2] # Outside, r[2] \in frontier' \cup next' PROVE Kin(r[1])
        BY Zenon
      <4>1. r[2] \in frontier \cup next \/ (Keeps(row) /\ r[2] = row[1]) BY <2>0, <2>1
      <4>2. CASE r[2] \in frontier \cup next BY <3>1, <4>2, Zenon DEF RowFits
      <4>3. CASE Keeps(row) /\ r[2] = row[1] BY <2>3, <3>1, <4>3, Zenon DEF RowFits
      <4> QED BY <4>1, <4>2, <4>3, Zenon
    <3> QED BY <2>0, <3>1, <3>2, RowsStay, Zenon
  <2>5. RootKeeps' BY <2>0, Zenon DEF RowInv, RootKeeps
  <2> QED BY <2>0, <2>1, <2>4, <2>5, Zenon DEF RowInv
<1>10. CASE EndLevel
  <2>0. pc = "walk" /\ UNCHANGED <<os, table, root, maker, op, calm>> BY <1>10, Zenon DEF EndLevel, tableVars, ghosts
  <2>1. CASE pc' = "walk"
    <3>1. rows' = rows /\ frontier' = next /\ next' = {} BY <1>10, <2>1, Zenon DEF EndLevel, Return, scan
    <3>2. ASSUME NEW r \in rows PROVE RowFits(r)'
      <4>1. RowFits(r) BY <2>0 DEF RowInv
      <4>2. Holds(r[1]) /\ os = "linux" /\ r[2] # Outside /\ r[2] \in frontier' \cup next' => Kin(r[1])
        BY <3>1, <4>1, Zenon DEF RowFits
      <4> QED BY <2>0, <4>1, <4>2, RowsStay, Zenon
    <3>3. RootKeeps' BY <2>0, Zenon DEF RowInv, RootKeeps
    <3> QED BY <3>1, <3>2, <3>3, Zenon DEF RowInv
  <2>2. CASE pc' # "walk" BY <1>1, <1>10, <2>0, <2>2, Zenon DEF EndLevel, Return
  <2> QED BY <2>1, <2>2, Zenon
<1>11. CASE Verify \/ Strike
  <2>1. pc' \in Killing BY <1>11, Zenon DEF Verify, Strike, Skip, Killing
  <2>2. rows' = {} BY <1>0, <2>1, Zenon DEF PhaseInv
  <2> QED BY <1>1, <2>1, <2>2, Zenon DEF Killing
<1>12. CASE World
  <2>0. UNCHANGED <<pc, rows, root>> BY <1>0, <1>12, HostView DEF HostKeeps
  <2>1. CASE pc = "idle" BY <1>0, <1>1, <2>0, <2>1, Zenon DEF PhaseInv
  <2>2. CASE pc # "idle"
    <3>0. root \in Id BY <1>0, <2>2, Zenon DEF PhaseInv
    <3>1. root.pid \in Numbers /\ root.token \in Nat /\ root.token <= table[root.pid].token
      BY <1>0, <3>0, IdentityShape, Zenon DEF TokenInv, Once
    <3>2. table[root.pid].token # -1
      <4>1. table[root.pid].token \in Int BY <1>0, <3>1, SlotShape, Zenon
      <4> QED BY <3>1, <4>1
    <3>3. calm # "swapped" /\ table'[root.pid].token = table[root.pid].token
      BY <1>12, <2>2, <3>1, <3>2, HostQuiet, Zenon
    <3>4. \A r \in rows : RowFits(r)' BY <1>12, <2>2, <3>3, RowHost, Zenon DEF RowInv
    <3> QED BY <2>0, <3>3, <3>4, Zenon DEF RowInv, RootKeeps
  <2> QED BY <2>1, <2>2, Zenon
<1>13. CASE UNCHANGED vars
  <2>1. UNCHANGED <<os, table, root, maker, op, calm, pc, rows, frontier, next>>
    BY <1>13 DEF vars, tableVars, scan, bfs, ghosts
  <2>2. \A r \in rows : RowFits(r) => RowFits(r)' BY <2>1, RowsStay, Zenon DEF RowFits
  <2> QED BY <2>1, <2>2, Zenon DEF RowInv, RootKeeps
<1> QED
  BY <1>2, <1>3, <1>4, <1>5, <1>6, <1>7, <1>8, <1>9, <1>10, <1>11, <1>12, <1>13, Zenon DEF Next

\* On Windows root's row names its maker's number whatever the table does, as long
\* as it was read while root was there; and `parent` goes on only with a row.
LEMMA RootRowStep == Base /\ Base' /\ MakerInv /\ RootRowInv /\ [Next]_vars => RootRowInv'
<1> SUFFICES ASSUME Base, Base', MakerInv, RootRowInv, [Next]_vars PROVE RootRowInv'
  BY Zenon
<1>0. TypeInv /\ Shape /\ PhaseInv /\ PhaseInv' /\ TokenInv BY DEF Base, Shape
<1>1. ASSUME rows' = {}, pc' # "of" PROVE RootRowInv' BY <1>1, Zenon DEF RootRowInv
<1>2. ASSUME UNCHANGED <<os, table, root, maker, op, pc>>, pc # "of", \A r \in rows' : r \in rows PROVE RootRowInv'
  BY <1>2, Zenon DEF RootRowInv, RootKeeps
<1>3. ASSUME NEW n \in Numbers, Know(n) PROVE RootRowInv' BY <1>0, <1>1, <1>3, Zenon DEF Know, PhaseInv, scan
<1>4. ASSUME NEW o \in Ops, Begin(o) PROVE RootRowInv' BY <1>0, <1>1, <1>4, Zenon DEF Begin, PhaseInv
<1>5. CASE ReadRow
  <2>1. os' = "linux" /\ pc' # "of" BY <1>5, Zenon DEF ReadRow, tableVars
  <2> QED BY <2>1, Zenon DEF RootRowInv
<1>6. CASE Snapshot
  <2>0. pc = "scan" /\ os = "windows" /\ pc' = "anchor" /\ UNCHANGED <<os, table, root, maker, op>>
    BY <1>6, Zenon DEF Snapshot, tableVars, ghosts
  <2>1. \A r \in rows' : \E n \in Numbers : Holds(n) /\ r = <<n, table[n].ppid>>
    BY <1>6, Zenon DEF Snapshot, Holds, Running
  <2>2. root \in Id BY <1>0, <2>0 DEF PhaseInv
  <2>3. ASSUME op = "parent", RootKeeps, NEW r \in rows', r[1] = root.pid PROVE r[2] = maker.pid
    <3>1. Holds(root.pid) /\ r[2] = table[root.pid].ppid BY <2>1, <2>3
    <3> QED BY <2>0, <2>2, <2>3, <3>1, Zenon DEF MakerInv, IsAt, RootKeeps
  <2> QED BY <2>0, <2>3 DEF RootRowInv, RootKeeps
<1>7. CASE ScanFails \/ AbsentFromSnapshot \/ AllStruck
  BY <1>1, <1>7 DEF ScanFails, AbsentFromSnapshot, AllStruck, Return
<1>8. CASE ParentOf BY <1>1, <1>8, Zenon DEF ParentOf, Return
<1>9. CASE Anchor
  <2>1. CASE RootExists = "present"
    <3>0. /\ pc = "anchor" /\ UNCHANGED <<os, table, root, maker, op, rows>>
          /\ pc' = CASE ~Kills /\ ~HasRow(root.pid) -> "absent" [] op = "parent" /\ HasRow(root.pid) -> "of" [] OTHER -> "walk"
      BY <1>9, <2>1, Zenon DEF Anchor, Return, tableVars, scan, ghosts
    <3>1. root \in Id BY <1>0, <3>0, Zenon DEF PhaseInv
    <3>2. RootKeeps BY <1>0, <2>1, <3>1, AnchorView, Zenon DEF IsAt, RootKeeps
    <3>3. pc' = "of" => HasRow(root.pid)
      <4>1. ~Kills /\ ~HasRow(root.pid) => pc' = "absent" BY <3>0, Zenon
      <4>2. pc' = "of" => op' = "parent" BY <1>0 DEF PhaseInv
      <4>3. op = "parent" => ~Kills BY DEF Kills
      <4> QED BY <3>0, <4>1, <4>2, <4>3, Zenon
    <3> QED BY <3>0, <3>2, <3>3, Zenon DEF RootRowInv, HasRow
  <2>2. CASE RootExists # "present" BY <1>1, <1>9, <2>2, Zenon DEF Anchor, Return
  <2> QED BY <2>1, <2>2
<1>10. CASE Examine
  <2>1. UNCHANGED <<os, table, root, maker, op, pc>> /\ pc # "of" BY <1>10, Zenon DEF Examine, tableVars, ghosts
  <2>2. \A r \in rows' : r \in rows
    <3>1. \E row \in rows : rows' = rows \ {row} BY <1>0, <1>10, ExamineView, Zenon
    <3> QED BY <3>1
  <2> QED BY <1>2, <2>1, <2>2, Zenon
<1>11. CASE EndLevel
  <2>0. pc = "walk" /\ UNCHANGED <<os, table, root, maker, op>> BY <1>11, Zenon DEF EndLevel, tableVars, ghosts
  <2>1. CASE pc' = "walk"
    <3>1. rows' = rows BY <1>11, <2>1, Zenon DEF EndLevel, Return, scan
    <3> QED BY <1>2, <2>0, <2>1, <3>1, Zenon
  <2>2. CASE pc' # "walk" BY <1>1, <1>11, <2>0, <2>2, Zenon DEF EndLevel, Return
  <2> QED BY <2>1, <2>2, Zenon
<1>12. CASE Verify \/ Strike
  <2>1. pc' \in Killing BY <1>12, Zenon DEF Verify, Strike, Skip, Killing
  <2> QED BY <1>0, <1>1, <2>1, Zenon DEF PhaseInv, Killing
<1>13. CASE World
  <2>0. UNCHANGED <<os, pc, op, rows, root, maker>> BY <1>0, <1>13, HostView, Zenon DEF HostKeeps
  <2>1. CASE pc = "idle" BY <1>0, <1>1, <2>0, <2>1, Zenon DEF PhaseInv
  <2>2. CASE pc # "idle"
    <3>0. root \in Id /\ root.pid \in Numbers BY <1>0, <2>2, IdentityShape, Zenon DEF PhaseInv
    <3>1. RootKeeps' => RootKeeps
      <4> SUFFICES ASSUME table'[root.pid].token = root.token PROVE table[root.pid].token = root.token
        BY <2>0 DEF RootKeeps
      <4>1. \A n \in Numbers, by \in Numbers \cup {Outside} : Forks(by, n) => table'[root.pid] = table[root.pid]
        BY <1>0, <3>0, RootNotForked, Zenon DEF Forks
      <4>2. \A n \in Numbers : Ends(n) \/ Frees(n) => table'[root.pid].token = table[root.pid].token
        BY <3>0, Zenon DEF Ends, Frees
      <4> QED BY <1>0, <1>13, <4>1, <4>2, HostView, Zenon
    <3> QED BY <2>0, <3>1 DEF RootRowInv, HasRow
  <2> QED BY <2>1, <2>2, Zenon
<1>14. CASE UNCHANGED vars
  <2>1. UNCHANGED <<os, table, root, maker, op, pc, rows>> BY <1>14 DEF vars, tableVars, scan, ghosts
  <2> QED BY <2>1, Zenon DEF RootRowInv, RootKeeps, HasRow
<1> QED
  BY <1>3, <1>4, <1>5, <1>6, <1>7, <1>8, <1>9, <1>10, <1>11, <1>12, <1>13, <1>14, Zenon DEF Next

\* What Examine keeps is of root's descent, on Windows at the first level.
LEMMA ExamineGenuine ==
  ASSUME Base, KinInv, RowInv, Examine, calm # "swapped", NEW row \in rows, row[2] \in frontier, Keeps(row)
  PROVE  Kin(row[1]) \/ (os = "windows" /\ row[2] # root.pid)
<1>0. TypeInv /\ PhaseInv BY DEF Base, Shape
<1>1. pc = "walk" BY Zenon DEF Examine
<1>2. RowFits(row) /\ RootKeeps BY <1>1, Zenon DEF RowInv
<1>3. row[1] \in Numbers /\ row[2] \in Numbers /\ row[2] # Outside /\ os \in {"linux", "windows"}
  BY <1>0, NumberShape, Zenon DEF TypeInv
<1>4. Holds(row[1]) /\ KeepsToken(table[row[1]].token, root.token) BY DEF Keeps
<1>5. CASE os = "linux" BY <1>2, <1>3, <1>4, <1>5, Zenon DEF RowFits
<1>6. CASE os = "windows" /\ row[2] = root.pid
  <2>1. table[row[1]].ppid = root.pid BY <1>2, <1>4, <1>6, Zenon DEF RowFits
  <2>2. table[row[1]].token > root.token BY <1>4, <1>6, Zenon DEF KeepsToken, AllowEqualToken
  <2>3. KinAt(row[1]) BY <1>1, <1>3, <1>4, Zenon DEF KinInv
  <2> QED BY <1>2, <1>6, <2>1, <2>2, <2>3, ZenonT(60) DEF KinAt
<1> QED BY <1>3, <1>5, <1>6, Zenon

\* What `parent` answers is root's maker, or pid 1 on Linux.
LEMMA ParentGenuine ==
  ASSUME Base, MakerInv, RowInv, RootRowInv, ParentOf, answer' # NoId, calm # "swapped" \/ os = "windows"
  PROVE  answer' = maker \/ (os = "linux" /\ answer' = OutsideId)
<1>0. TypeInv /\ PhaseInv BY DEF Base, Shape
<1> DEFINE row == CHOOSE r \in rows : r[1] = root.pid
           read == Resolve(row[2])
<1>1. pc = "of" /\ op = "parent" /\ root \in Id /\ answer = NoId BY <1>0, Zenon DEF ParentOf, PhaseInv
<1>2. row \in rows /\ row[1] = root.pid
  <2>1. \E r \in rows : r[1] = root.pid BY <1>1 DEF RootRowInv, HasRow
  <2> QED BY <2>1, Zenon
<1>3. read.is = "found" /\ KeepsToken(root.token, read.id.token) /\ answer' = read.id
  BY <1>1, Zenon DEF ParentOf
<1> HIDE DEF row
<1>4. /\ row[2] \in Numbers \cup {Outside} /\ os \in {"linux", "windows"}
      /\ maker \in Id \cup {OutsideId} /\ root.token \in Nat
  BY <1>0, <1>1, <1>2, IdentityShape, Zenon DEF TypeInv, MakerInv
<1>5. CASE row[2] = Outside
  <2>1. answer' = OutsideId BY <1>3, <1>5, Zenon DEF Resolve
  <2>2. CASE os = "windows"
    <3>1. maker.pid = Outside BY <1>1, <1>2, <1>5, <2>2, Zenon DEF RootRowInv
    <3>2. maker = OutsideId BY <1>4, <3>1, IdentityShape, NumberShape, Zenon
    <3> QED BY <2>1, <3>2, Zenon
  <2> QED BY <1>4, <2>1, <2>2
<1>6. CASE row[2] # Outside
  <2>1. row[2] \in Numbers BY <1>4, <1>6
  <2>2. read = [is |-> "found", id |-> IdAt(row[2])] BY <1>0, <1>3, <2>1, ReadView, Zenon
  <2>3. read.id = IdAt(row[2]) BY <2>2
  <2> HIDE DEF read
  <2>7. read.id.token = table[row[2]].token BY <2>3 DEF IdAt
  <2>4. answer' = IdAt(row[2]) /\ KeepsToken(root.token, table[row[2]].token) BY <1>3, <2>3, <2>7, Zenon
  <2>5. CASE os = "linux"
    <3>1. RowFits(row) /\ RootKeeps BY <1>1, <1>2, <2>5, Zenon DEF RowInv
    <3>2. maker = IdAt(row[2]) BY <1>1, <1>2, <1>6, <2>5, <3>1, Zenon DEF RowFits
    <3> QED BY <2>4, <3>2, Zenon
  <2>6. CASE os = "windows"
    <3>1. maker.pid = row[2] BY <1>1, <1>2, <2>6, Zenon DEF RootRowInv
    <3>2. maker \in Id BY <1>4, <1>6, <3>1 DEF OutsideId
    <3>3. table[row[2]].token < root.token
      <4>1. table[row[2]].token \in Int BY <1>0, <2>1, SlotShape, Zenon
      <4> QED BY <1>4, <2>4, <2>6, <4>1, Zenon DEF KeepsToken, AllowEqualToken
    <3>4. table[row[2]].token = maker.token \/ table[row[2]].token >= root.token
      BY <1>1, <1>6, <2>6, <3>1, Zenon DEF MakerInv
    <3>5. table[row[2]].token = maker.token
      <4>1. table[row[2]].token \in Int BY <1>0, <2>1, SlotShape
      <4> QED BY <1>4, <3>3, <3>4, <4>1
    <3>6. maker = IdAt(row[2]) BY <3>1, <3>2, <3>5, IdentityShape, Zenon
    <3> QED BY <2>4, <3>6
  <2> QED BY <1>4, <2>5, <2>6, Zenon
<1> QED BY <1>5, <1>6, Zenon

\* `calm` never calms down, and `answer` is `parent`'s alone.
LEMMA GenuineView ==
  ASSUME Shape, [Next]_vars
  PROVE  /\ os' = os /\ (calm' # "swapped" => calm # "swapped")
         /\ ParentOf \/ answer' = NoId \/ UNCHANGED <<answer, maker>>
<1>0. TypeInv /\ PhaseInv BY DEF Shape
<1>1. os' = os BY TableView
<1>2. ASSUME NEW n \in Numbers, Know(n) PROVE calm' = calm /\ answer' = NoId
  BY <1>0, <1>2, Zenon DEF Know, PhaseInv
<1>3. ASSUME NEW o \in Ops, Begin(o) PROVE calm' = calm /\ answer' = NoId
  BY <1>0, <1>3, Zenon DEF Begin, PhaseInv
<1>4. ReadRow \/ Snapshot \/ ScanFails \/ Anchor \/ AbsentFromSnapshot => UNCHANGED <<calm, answer, maker>>
  BY DEF ReadRow, Snapshot, ScanFails, Anchor, AbsentFromSnapshot, ghosts
<1>5. Examine \/ EndLevel \/ Verify \/ Strike \/ AllStruck => UNCHANGED <<calm, answer, maker>>
  BY Zenon DEF Examine, EndLevel, Verify, Strike, AllStruck, ghosts
<1>6. ParentOf => calm' = calm BY Zenon DEF ParentOf, ghosts
<1>7. World => /\ UNCHANGED <<answer, maker>>
               /\ calm' # "swapped" => calm # "swapped"
  BY <1>0, HostView, Zenon DEF HostKeeps, Moved
<1>8. UNCHANGED vars => UNCHANGED <<calm, answer, maker>> BY Zenon DEF vars, ghosts
<1> QED BY <1>1, <1>2, <1>3, <1>4, <1>5, <1>6, <1>7, <1>8, Zenon DEF Next

\* What is found is genuine when it is found, and stays so.
LEMMA GenuineStep ==
  Base /\ KinInv /\ MakerInv /\ RowInv /\ RootRowInv /\ FoundIsGenuine /\ [Next]_vars => FoundIsGenuine'
<1> SUFFICES ASSUME Base, KinInv, MakerInv, RowInv, RootRowInv, FoundIsGenuine, [Next]_vars
             PROVE  FoundIsGenuine'
  OBVIOUS
<1>0. TypeInv /\ Shape BY Zenon DEF Base, Shape
<1>1. os' = os /\ (calm' # "swapped" => calm # "swapped") BY <1>0, GenuineView, Zenon
<1>2. ASSUME calm' # "swapped"
      PROVE  \A i \in DOMAIN found' : found'[i].kin \/ (os = "windows" /\ ~found'[i].first)
  <2>0. calm # "swapped" /\ \A i \in DOMAIN found : found[i].kin \/ (os = "windows" /\ ~found[i].first)
    BY <1>1, <1>2, Zenon DEF FoundIsGenuine
  <2>1. CASE found' = found BY <2>0, <2>1, Zenon
  <2>2. CASE Examine
    <3>1. PICK row \in rows :
             /\ row[2] \in frontier /\ row[1] \in Numbers
             /\ Keeps(row) =>
                  found' = Append(found, [id |-> IdAt(row[1]), kin |-> Kin(row[1]),
                                          first |-> row[2] = root.pid])
             /\ ~Keeps(row) => found' = found
      BY <1>0, <2>2, ExamineView, Zenon
    <3>2. CASE ~Keeps(row) BY <2>1, <3>1, <3>2, Zenon
    <3>3. CASE Keeps(row)
      <4> DEFINE e == [id |-> IdAt(row[1]), kin |-> Kin(row[1]), first |-> row[2] = root.pid]
      <4>1. Kin(row[1]) \/ (os = "windows" /\ row[2] # root.pid)
        BY <2>0, <2>2, <3>1, <3>3, ExamineGenuine, Zenon
      <4>2. e.kin = Kin(row[1]) /\ e.first = (row[2] = root.pid) BY Zenon
      <4>3. e.kin \/ (os = "windows" /\ ~e.first)
        <5>1. Kin(row[1]) => e.kin BY <4>2, Zenon
        <5>2. row[2] # root.pid => ~e.first BY <4>2, Zenon
        <5> QED BY <4>1, <5>1, <5>2, Zenon
      <4>4. found' = Append(found, e) BY <3>1, <3>3, Zenon
      <4> HIDE DEF e
      <4>5. found \in Seq(Kept) BY <1>0, Zenon DEF TypeInv
      <4>6. \A i \in DOMAIN found' : (i \in DOMAIN found /\ found'[i] = found[i]) \/ found'[i] = e
        BY <4>4, <4>5
      <4> QED BY <2>0, <4>3, <4>6, Zenon
    <3> QED BY <3>2, <3>3
  <2> QED BY <1>0, <2>1, <2>2, FoundView, Zenon
<1>3. ASSUME answer' # NoId, calm' # "swapped" \/ os = "windows"
      PROVE  answer' = maker' \/ (os = "linux" /\ answer' = OutsideId)
  <2>1. CASE ParentOf
    <3>1. maker' = maker BY <2>1, Zenon DEF ParentOf, ghosts
    <3>2. calm # "swapped" \/ os = "windows" BY <1>1, <1>3, Zenon
    <3> QED BY <1>3, <2>1, <3>1, <3>2, ParentGenuine, Zenon
  <2>2. CASE UNCHANGED <<answer, maker>> BY <1>1, <1>3, <2>2, Zenon DEF FoundIsGenuine
  <2> QED BY <1>0, <1>3, <2>1, <2>2, GenuineView, Zenon
<1> QED BY <1>1, <1>2, <1>3, Zenon DEF FoundIsGenuine

\* Descendants and parent: as long as no number changes hands under the call, what
\* the walk keeps descends from root (on Windows: at the first level), and `parent`
\* answers root's maker, or pid 1 on Linux; on Windows it does so always.
THEOREM WalkFindsTheGenuine == Spec => []FoundIsGenuine
<1>1. Init => KinInv /\ MakerInv /\ RowInv /\ RootRowInv /\ FoundIsGenuine
  <2> SUFFICES ASSUME Init PROVE KinInv /\ MakerInv /\ RowInv /\ RootRowInv /\ FoundIsGenuine
    OBVIOUS
  <2>1. root \notin Id BY IdentityShape, Zenon DEF Init
  <2>2. pc = "idle" /\ rows = {} /\ found = <<>> /\ answer = NoId BY DEF Init
  <2>3. KinInv /\ MakerInv BY <2>1, <2>2, Zenon DEF KinInv, MakerInv
  <2>4. RowInv /\ RootRowInv BY <2>2, Zenon DEF RowInv, RootRowInv
  <2>5. FoundIsGenuine BY <2>2 DEF FoundIsGenuine
  <2> QED BY <2>3, <2>4, <2>5, Zenon
<1> QED
  BY <1>1, WalkIsWellFormed, LinesFit, KinStep, MakerStep, RowStep, RootRowStep, GenuineStep, PTL DEF Spec

-----------------------------------------------------------------------------
(* A kill reported complete: what was resolved                             *)

(* Who is still to be struck, as long as no refusal is on record. *)
IsTarget(id) == id = root \/ \E i \in DOMAIN found : found[i].id = id
Awaits(id) == \E i \in DOMAIN queue : queue[i] = id
DownInv ==
  op = "hard_kill" =>
    /\ pc \in Killing /\ complete => \A id \in Id : IsTarget(id) /\ Lives(id) => Awaits(id)
    /\ result = "ok" => \A id \in Id : IsTarget(id) => ~Lives(id)

\* A process that was seen and is not running any more will not run again.
LEMMA DeadStays ==
  ASSUME Base, [Next]_vars, NEW id \in Id, Once(id), Lives(id)'
  PROVE  Lives(id)
<1>0. TypeInv /\ Shape /\ TokenInv BY Zenon DEF Base, Shape
<1>1. id.pid \in Numbers /\ id.token \in Nat BY IdentityShape, Zenon
<1>2. table[id.pid].token \in Int /\ id.token <= table[id.pid].token BY <1>0, <1>1, SlotShape, Zenon DEF Once
<1>3. table'[id.pid].state = "running" /\ table'[id.pid].token = id.token BY Zenon DEF Lives, IsAt, Running
<1>4. table[id.pid].state = "running" /\ table[id.pid].token = id.token
  <2>1. CASE table' = table BY <1>3, <2>1, Zenon
  <2>2. CASE Trims BY <1>1, <1>3, <2>2, Zenon DEF Trims
  <2>3. ASSUME NEW n \in Numbers, NEW by \in Numbers \cup {Outside}, Forks(by, n)
        PROVE  table[id.pid].state = "running" /\ table[id.pid].token = id.token
    <3>1. id.pid # n
      <4>1. clock \in Nat BY <1>0 DEF TypeInv
      <4>2. table[n].token < clock /\ table'[n].token = clock BY <2>3, Zenon DEF Forks
      <4>3. ASSUME id.pid = n PROVE FALSE
        <5>1. table[n].token \in Int /\ clock <= table[n].token BY <1>2, <1>3, <4>2, <4>3, Zenon
        <5> QED BY ONLY <4>1, <4>2, <5>1, SMT
      <4> QED BY <4>3, Zenon
    <3> QED BY <1>1, <1>3, <2>3, <3>1, Zenon DEF Forks
  <2>4. ASSUME NEW n \in Numbers, Ends(n)
        PROVE  table[id.pid].state = "running" /\ table[id.pid].token = id.token
    BY <1>1, <1>3, <2>4, Zenon DEF Ends
  <2>5. ASSUME NEW n \in Numbers, Frees(n)
        PROVE  table[id.pid].state = "running" /\ table[id.pid].token = id.token
    BY <1>1, <1>3, <2>5, Zenon DEF Frees
  <2> QED BY <1>0, <2>1, <2>2, <2>3, <2>4, <2>5, TableView, Zenon
<1> QED BY <1>4, Zenon DEF Lives, IsAt, Holds, Running

\* Whoever is a target was seen.
LEMMA TargetSeen ==
  ASSUME TokenInv, NEW id \in Id, IsTarget(id)
  PROVE  Once(id)
  BY DEF TokenInv, IsTarget

\* A target still running still has its turn to come, unless a refusal is on record.
LEMMA DownStep == Base /\ Base' /\ DownInv /\ [Next]_vars => DownInv'
<1> SUFFICES ASSUME Base, Base', DownInv, [Next]_vars, op' = "hard_kill" PROVE DownInv'
  BY Zenon DEF DownInv
<1>0. TypeInv /\ PhaseInv /\ PhaseInv' /\ Shape /\ TokenInv BY Zenon DEF Base, Shape
<1>1. ASSUME pc' \notin Killing, result' # "ok" PROVE DownInv' BY <1>1, Zenon DEF DownInv
<1>2. ASSUME pc' \notin Killing, pc' # "done" PROVE DownInv' BY <1>0, <1>1, <1>2, Zenon DEF PhaseInv
<1>3. ASSUME NEW id \in Id, IsTarget(id), Lives(id)' PROVE Lives(id) BY <1>0, <1>3, TargetSeen, DeadStays, Zenon
<1>4. ASSUME UNCHANGED <<root, found>>, NEW id \in Id, IsTarget(id)' PROVE IsTarget(id)
  BY <1>4, Zenon DEF IsTarget
<1>5. ASSUME NEW n \in Numbers, Know(n) PROVE DownInv' BY <1>2, <1>5, Zenon DEF Know, Killing
<1>6. ASSUME NEW o \in Ops, Begin(o) PROVE DownInv' BY <1>2, <1>6, Zenon DEF Begin, Killing
<1>7. CASE ReadRow \/ Snapshot \/ Examine BY <1>2, <1>7, Zenon DEF ReadRow, Snapshot, Examine, Killing
<1>8. CASE ScanFails BY <1>1, <1>8, Zenon DEF ScanFails, Return, Killing
<1>9. CASE Anchor
  <2>1. pc' \notin Killing BY <1>9, Zenon DEF Anchor, Return, Killing
  <2>2. CASE result' = "ok"
    <3>1. RootExists = "gone" /\ pc' = "done" /\ UNCHANGED <<root, found, table>>
      <4>1. result = "none" BY <1>0, <1>9, Zenon DEF Anchor, PhaseInv
      <4> QED BY <1>9, <2>2, <4>1, Zenon DEF Anchor, Return, tableVars
    <3>2. root \in Id /\ found = <<>> BY <1>0, <1>9, Zenon DEF Anchor, PhaseInv
    <3>3. ~IsAt(root) BY <1>0, <3>1, <3>2, AnchorView, Zenon
    <3>4. ASSUME NEW id \in Id, IsTarget(id)' PROVE ~Lives(id)'
      <4>1. id = root BY <3>1, <3>2, <3>4 DEF IsTarget
      <4>2. ~Lives(root) BY <3>3, Zenon DEF Lives
      <4> QED BY <3>1, <4>1, <4>2, Zenon DEF Lives, IsAt, Holds, Running
    <3> QED BY <2>1, <3>4, Zenon DEF DownInv
  <2> QED BY <1>1, <2>1, <2>2, Zenon
<1>10. CASE AbsentFromSnapshot \/ ParentOf
  <2>1. op' = op /\ pc \in {"absent", "of"} BY <1>10, Zenon DEF AbsentFromSnapshot, ParentOf
  <2> QED BY <1>0, <2>1, Zenon DEF PhaseInv, Kills
<1>11. CASE EndLevel
  <2>0. op = "hard_kill" /\ UNCHANGED <<root, found>> /\ pc = "walk" BY <1>11, Zenon DEF EndLevel
  <2>1. CASE pc' = pc BY <1>2, <2>0, <2>1, Zenon DEF Killing
  <2>2. CASE pc' # pc
    <3>1. queue' = Targets /\ pc' = "verify" BY <1>11, <2>0, <2>2, Zenon DEF EndLevel, Kills
    <3>2. result' # "ok" BY <1>0, <3>1, Zenon DEF PhaseInv
    <3>3. root \in Id BY <1>0, <2>0, Zenon DEF PhaseInv
    <3>4. ASSUME NEW id \in Id, IsTarget(id)' PROVE Awaits(id)'
      <4>1. IsTarget(id) BY <1>4, <2>0, <3>4, Zenon
      <4> QED BY <1>0, <3>1, <3>3, <4>1, TargetsView, Zenon DEF IsTarget, Awaits
    <3> QED BY <3>2, <3>4, Zenon DEF DownInv
  <2> QED BY <2>1, <2>2, Zenon
<1>12. CASE Verify
  <2>0. /\ op = "hard_kill" /\ pc = "verify" /\ queue # <<>> /\ UNCHANGED <<root, found, table>>
        /\ result' = "none"
    BY <1>0, <1>12, Zenon DEF Verify, tableVars, bfs, PhaseInv
  <2>1. Target \in Id BY <1>0, <2>0, QueueView, Zenon
  <2>2. SUFFICES ASSUME complete', NEW id \in Id, IsTarget(id)', Lives(id)' PROVE Awaits(id)'
    BY <2>0, Zenon DEF DownInv
  <2>3. IsTarget(id) /\ Lives(id) BY <1>3, <1>4, <2>0, <2>2, Zenon
  <2>4. complete /\ (queue' = queue \/ (queue' = Tail(queue) /\ Resolve(Target.pid) # [is |-> "found", id |-> Target]
                                        /\ Resolve(Target.pid).is # "unknown"))
    BY <1>12, <2>2, Zenon DEF Verify, Skip
  <2>5. PICK i \in DOMAIN queue : queue[i] = id BY <2>0, <2>3, <2>4, Zenon DEF DownInv, Awaits, Killing
  <2>6. CASE queue' = queue BY <2>5, <2>6 DEF Awaits
  <2>7. CASE queue' # queue
    <3>1. id # Target
      <4>1. /\ Target.pid \in Numbers
            /\ Target = IdAt(Target.pid) <=> table[Target.pid].token = Target.token
        BY <2>1, IdentityShape, Zenon
      <4> SUFFICES ASSUME Lives(Target) PROVE FALSE BY <2>3, Zenon
      <4>2. Holds(Target.pid) /\ Target = IdAt(Target.pid) BY <4>1 DEF Lives, IsAt
      <4> HIDE DEF Target
      <4>3. Resolve(Target.pid).is = "found" BY <1>0, <2>4, <2>7, <4>1, <4>2, ReadView, Zenon
      <4>4. Resolve(Target.pid) = [is |-> "found", id |-> IdAt(Target.pid)] BY <1>0, <4>1, <4>3, ReadView, Zenon
      <4> QED BY <2>4, <2>7, <4>2, <4>4, Zenon
    <3>2. i # 1 BY <1>0, <2>0, <2>5, <3>1, QueueView, Zenon
    <3>3. i - 1 \in DOMAIN Tail(queue) /\ Tail(queue)[i - 1] = id BY <1>0, <2>0, <2>5, <3>2, QueueView, Zenon
    <3> QED BY <2>4, <2>7, <3>3, Zenon DEF Awaits
  <2> QED BY <2>6, <2>7, Zenon
<1>13. CASE Strike
  <2>0. /\ op = "hard_kill" /\ pc = "strike" /\ queue' = Tail(queue) /\ UNCHANGED <<root, found>>
        /\ pc' = "verify" /\ complete' = (complete /\ ~(Holds(Target.pid) /\ table[Target.pid].access # "open"))
    BY <1>13, Zenon DEF Strike, Skip, bfs
  <2>1. queue # <<>> /\ result' = "none" BY <1>0, <2>0, Zenon DEF PhaseInv
  <2>2. Target \in Id /\ Target.pid \in Numbers BY <1>0, <2>1, QueueView, IdentityShape, Zenon
  <2>3. SUFFICES ASSUME complete', NEW id \in Id, IsTarget(id)', Lives(id)' PROVE Awaits(id)'
    BY <2>1, Zenon DEF DownInv
  <2>4. IsTarget(id) /\ Lives(id) BY <1>3, <1>4, <2>0, <2>3, Zenon
  <2>5. complete /\ ~(Holds(Target.pid) /\ table[Target.pid].access # "open") BY <2>0, <2>3, Zenon
  <2>6. PICK i \in DOMAIN queue : queue[i] = id BY <2>0, <2>4, <2>5, Zenon DEF DownInv, Awaits, Killing
  <2>7. id # Target
    <3> SUFFICES ASSUME id = Target PROVE FALSE BY Zenon
    <3>1. Holds(id.pid) /\ Running(id.pid) /\ table[id.pid].access = "open" BY <2>4, <2>5, Zenon DEF Lives, IsAt
    <3>2. Lands(Target.pid) /\ Running(Target.pid) BY <3>1, Zenon DEF Lands
    <3>3. Ends(Target.pid) BY <1>0, <1>13, <2>0, <2>2, <3>2, StrikeView, Zenon
    <3>4. table'[id.pid].state = "exited" BY <3>3, Zenon DEF Ends
    <3> QED BY <2>3, <3>4, Zenon DEF Lives, Running
  <2>8. i # 1 BY <1>0, <2>1, <2>6, <2>7, QueueView, Zenon
  <2>9. i - 1 \in DOMAIN Tail(queue) /\ Tail(queue)[i - 1] = id BY <1>0, <2>1, <2>6, <2>8, QueueView, Zenon
  <2> QED BY <2>0, <2>9, Zenon DEF Awaits
<1>14. CASE AllStruck
  <2>0. /\ op = "hard_kill" /\ pc = "verify" /\ pc' = "done" /\ queue = <<>> /\ UNCHANGED <<root, found>>
        /\ result' = IF complete THEN "ok" ELSE "incomplete"
    BY <1>14, Zenon DEF AllStruck, Return
  <2>1. CASE ~complete BY <1>1, <2>0, <2>1, Zenon DEF Killing
  <2>2. CASE complete
    <3>1. ASSUME NEW id \in Id, IsTarget(id)', Lives(id)' PROVE FALSE
      <4>1. IsTarget(id) /\ Lives(id) BY <1>3, <1>4, <2>0, <3>1, Zenon
      <4>2. Awaits(id) BY <2>0, <2>2, <4>1, Zenon DEF DownInv, Killing
      <4> QED BY <2>0, <4>2 DEF Awaits
    <3> QED BY <2>0, <3>1, Zenon DEF DownInv, Killing
  <2> QED BY <2>1, <2>2, Zenon
<1>15. CASE World \/ UNCHANGED vars
  <2>1. UNCHANGED <<op, pc, root, found, queue, complete, result>>
    <3>1. CASE World BY <1>0, <3>1, HostView, Zenon DEF HostKeeps
    <3>2. CASE UNCHANGED vars BY <3>2, Zenon DEF vars, bfs, kills
    <3> QED BY <1>15, <3>1, <3>2, Zenon
  <2>2. ASSUME NEW id \in Id, IsTarget(id)', Lives(id)' PROVE IsTarget(id) /\ Lives(id)
    BY <1>3, <1>4, <2>1, <2>2, Zenon
  <2>3. \A id \in Id : Awaits(id)' = Awaits(id) BY <2>1 DEF Awaits
  <2> QED BY <2>1, <2>2, <2>3, Zenon DEF DownInv
<1> QED
  BY <1>5, <1>6, <1>7, <1>8, <1>9, <1>10, <1>11, <1>12, <1>13, <1>14, <1>15, Zenon DEF Next

-----------------------------------------------------------------------------
(* A kill reported complete: what was there to be found                    *)

(* Whom a call in a still table must find: they are below root, by the numbers *)
(* the table shows (the last conjunct, as an induction over levels), and the   *)
(* walk has no reason to drop them.                                            *)
Owed(m) == Holds(m) /\ IdAt(m) \in owed
Closed(S) == \A m \in Numbers : Owed(m) /\ table[m].ppid \in S \cup {root.pid} => m \in S
OwedInv ==
  calm = "still" /\ pc \notin Killing \cup {"done"} =>
    /\ \A id \in owed : id \in Id /\ IsAt(id)
    /\ \A m \in Numbers : Owed(m) =>
         /\ Running(m) /\ table[m].access # "hidden" /\ KeepsToken(table[m].token, root.token)
         /\ IsAt(root) /\ table[root.pid].access # "hidden"
    /\ \A S \in SUBSET Numbers : Closed(S) => \A m \in Numbers : Owed(m) => m \in S

(* The walk over a still table: what is not found yet has a row, and a number  *)
(* whose level is over has no row below it.                                     *)
Found(m) == \E i \in DOMAIN found : found[i].id = IdAt(m)
WalkInv ==
  calm = "still" /\ op = "hard_kill" =>
    /\ pc \in {"scan"} \cup Scanned => \A r \in rows : Holds(r[1]) /\ r = Row(r[1])
    /\ pc = "scan" /\ os = "linux" =>
         \A m \in Numbers : Owed(m) => m \in listed \/ Row(m) \in rows
    /\ pc \in Scanned => \A m \in Numbers : Owed(m) => Found(m) \/ Row(m) \in rows
    /\ pc = "walk" =>
         \A r \in rows : r[2] = root.pid \/ (r[2] \in Numbers /\ Found(r[2])) => r[2] \in frontier \cup next
    /\ pc \in Killing \/ result = "ok" => \A id \in owed : IsTarget(id)

\* In a table that stands still, only the kill's own signals change anything.
LEMMA StillView ==
  ASSUME Shape, [Next]_vars, calm' = "still", pc # "idle", pc # "strike"
  PROVE  UNCHANGED <<os, table, calm, root, owed, op>> /\ pc' # "idle"
<1>0. TypeInv /\ PhaseInv BY DEF Shape
<1>1. ASSUME NEW n \in Numbers, Know(n) PROVE FALSE BY <1>1, Zenon DEF Know
<1>2. ASSUME NEW o \in Ops, Begin(o) PROVE FALSE BY <1>2 DEF Begin
<1>3. Strike => FALSE BY Zenon DEF Strike
<1>4. ReadRow \/ Snapshot \/ ScanFails =>
        UNCHANGED <<os, table, calm, root, owed, op>> /\ pc' # "idle"
  BY Zenon DEF ReadRow, Snapshot, ScanFails, Return, ghosts, tableVars
<1>5. Anchor \/ AbsentFromSnapshot \/ ParentOf =>
        UNCHANGED <<os, table, calm, root, owed, op>> /\ pc' # "idle"
  BY DEF Anchor, AbsentFromSnapshot, ParentOf, Return, ghosts, tableVars
<1>6. Examine \/ EndLevel \/ AllStruck =>
        UNCHANGED <<os, table, calm, root, owed, op>> /\ pc' # "idle"
  BY Zenon DEF Examine, EndLevel, AllStruck, Return, ghosts, tableVars
<1>7. Verify => UNCHANGED <<os, table, calm, root, owed, op>> /\ pc' # "idle"
  BY Zenon DEF Verify, Skip, ghosts, tableVars
<1>8. World => UNCHANGED <<os, table, calm, root, owed, op>> /\ pc' # "idle"
  BY <1>0, HostView, Zenon DEF HostKeeps, Moved
<1>9. UNCHANGED vars => UNCHANGED <<os, table, calm, root, owed, op>> /\ pc' # "idle"
  BY DEF vars, tableVars, ghosts
<1> QED BY <1>1, <1>2, <1>3, <1>4, <1>5, <1>6, <1>7, <1>8, <1>9, Zenon DEF Next

\* When the last level is over in a still table, everyone owed was found: what was
\* found is closed under "shows a number that root or something found has".
LEMMA AllOwedFound ==
  ASSUME Shape, OwedInv, WalkInv, calm = "still", op = "hard_kill", pc = "walk", Candidates = {}, next = {}
  PROVE  \A id \in owed : IsTarget(id)
<1>0. TypeInv BY Zenon DEF Shape
<1> DEFINE S == {m \in Numbers : Found(m)}
<1>1. \A m \in Numbers : Owed(m) => Found(m) \/ Row(m) \in rows BY Zenon DEF WalkInv, Scanned
<1>2. \A r \in rows : r[2] = root.pid \/ (r[2] \in Numbers /\ Found(r[2])) => r[2] \in frontier BY Zenon DEF WalkInv
<1>3. \A r \in rows : r[2] \notin frontier BY Zenon DEF Candidates
<1>4. Closed(S)
  <2> SUFFICES ASSUME NEW m \in Numbers, Owed(m), table[m].ppid \in S \cup {root.pid} PROVE Found(m)
    BY Zenon DEF Closed
  <2> SUFFICES ASSUME Row(m) \in rows PROVE FALSE BY <1>1, Zenon
  <2>1. Row(m)[2] = table[m].ppid BY Zenon DEF Row
  <2> QED BY <1>2, <1>3, <2>1, Zenon
<1>5. \A m \in Numbers : Owed(m) => Found(m)
  <2>1. S \in SUBSET Numbers BY Zenon
  <2>2. \A m \in S : Found(m) OBVIOUS
  <2> HIDE DEF S
  <2>3. \A m \in Numbers : Owed(m) => m \in S BY <1>4, <2>1, Zenon DEF OwedInv, Killing
  <2> QED BY <2>2, <2>3, Zenon
<1> SUFFICES ASSUME NEW id \in owed PROVE IsTarget(id) OBVIOUS
<1>6. id \in Id /\ IsAt(id) BY Zenon DEF OwedInv, Killing
<1>7. id.pid \in Numbers /\ id = IdAt(id.pid) /\ Holds(id.pid) BY <1>6, IdentityShape, Zenon DEF IsAt
<1>8. Found(id.pid) BY <1>5, <1>7, Zenon DEF Owed
<1> QED BY <1>7, <1>8, Zenon DEF Found, IsTarget

\* The walk over a still table loses no one it is owed.
LEMMA WalkStep == Base /\ Base' /\ OwedInv /\ OwedInv' /\ WalkInv /\ [Next]_vars => WalkInv'
<1> SUFFICES ASSUME Base, Base', OwedInv, OwedInv', WalkInv, [Next]_vars, calm' = "still", op' = "hard_kill"
             PROVE  WalkInv'
  BY Zenon DEF WalkInv
<1>0. TypeInv /\ Shape /\ PhaseInv /\ PhaseInv' /\ ParentInv BY DEF Base, Shape
<1> USE DEF Scanned, Killing
<1>1. ASSUME NEW n \in Numbers, Know(n) PROVE FALSE
  BY <1>0, <1>1, Zenon DEF Know, PhaseInv
<1>2. ASSUME NEW o \in Ops, Begin(o) PROVE WalkInv'
  <2>1. rows' = {} /\ found' = <<>> /\ result' = "none" /\ os' = os /\ pc' \in {"scan", "anchor"}
    BY <1>0, <1>2, Zenon DEF Begin, PhaseInv, bfs
  <2>2. root \in Id BY <1>0, <1>2, Zenon DEF Begin, TypeInv
  <2>3. Trims BY <1>0, <1>2, <2>2, TrimView, Zenon DEF Begin
  <2>4. \A m \in Numbers : Owed(m)' => Holds(m) BY <2>3, Zenon DEF Owed, Holds, Trims
  <2>5. os = "linux" => \A m \in Numbers : Holds(m) => m \in listed' BY <1>2, Zenon DEF Begin
  <2>6. pc' = "anchor" => os = "linux" /\ listed' = {} BY <1>2, Zenon DEF Begin
  <2> QED BY <2>1, <2>4, <2>5, <2>6, Zenon DEF WalkInv
<1>3. CASE pc = "idle"
  <2>1. pc' # "idle" BY <1>0 DEF PhaseInv
  <2> QED BY <1>0, <1>2, <1>3, <2>1, BeginView, Zenon
<1>4. ASSUME pc \in Killing, pc' \in Killing, UNCHANGED <<calm, op, owed, root, found>> PROVE WalkInv'
  <2>1. \A id \in owed' : IsTarget(id)' BY <1>4, Zenon DEF WalkInv, IsTarget
  <2> QED BY <1>4, <2>1, Zenon DEF WalkInv
<1>5. CASE pc = "strike"
  <2>1. UNCHANGED <<calm, op, owed, root, found>> /\ pc' \in Killing
    <3>1. CASE Strike BY <3>1, Zenon DEF Strike, Skip, bfs, ghosts
    <3>2. CASE World BY <1>0, <1>5, <3>2, HostView, Zenon DEF HostKeeps, Moved
    <3>3. CASE UNCHANGED vars BY <1>5, <3>3, Zenon DEF vars, bfs, ghosts
    <3>4. ~(ReadRow \/ Snapshot \/ ScanFails \/ Anchor \/ AbsentFromSnapshot \/ ParentOf)
      BY <1>5 DEF ReadRow, Snapshot, ScanFails, Anchor, AbsentFromSnapshot, ParentOf
    <3>5. ~(Examine \/ EndLevel \/ Verify \/ AllStruck) BY <1>5, Zenon DEF Examine, EndLevel, Verify, AllStruck
    <3>6. \A o \in Ops : ~Begin(o) BY <1>5, Zenon DEF Begin
    <3> QED BY <1>1, <3>1, <3>2, <3>3, <3>4, <3>5, <3>6, Zenon DEF Next
  <2> QED BY <1>4, <1>5, <2>1, Zenon
<1>6. CASE pc # "idle" /\ pc # "strike"
  <2>0. UNCHANGED <<os, table, calm, root, owed, op>> /\ calm = "still" /\ op = "hard_kill" BY <1>0, <1>6, StillView, Zenon
  <2>1. \A m \in Numbers : /\ Owed(m)' = Owed(m) /\ Row(m)' = Row(m) /\ Holds(m)' = Holds(m)
                           /\ IdAt(m)' = IdAt(m)
    BY <2>0, Zenon DEF Owed, Row, Holds, IdAt
  <2>2. /\ \A r \in rows : r[1] \in Numbers
        /\ \A m \in Numbers : Row(m)[1] = m
    BY <1>0 DEF TypeInv, Row
  <2>3. \A m \in Numbers : Owed(m) /\ pc \notin Killing \cup {"done"} =>
          /\ Running(m) /\ table[m].access # "hidden" /\ KeepsToken(table[m].token, root.token)
          /\ IsAt(root) /\ table[root.pid].access # "hidden"
    BY <2>0, Zenon DEF OwedInv
  <2>4. CASE ReadRow
    <3>0. pc = "scan" /\ os = "linux" /\ found' = found /\ pc' \in {"scan", "anchor"} /\ result' # "ok"
      BY <1>0, <2>4, Zenon DEF ReadRow, bfs, PhaseInv
    <3>1. PICK n \in Numbers :
             /\ n \in listed /\ listed' = listed \ {n}
             /\ Resolve(n).is = "found" => Holds(n) /\ rows' = rows \cup {Row(n)}
             /\ Resolve(n).is # "found" => rows' = rows
             /\ pc' = IF listed' = {} THEN "anchor" ELSE "scan"
      BY <1>0, <2>4, ReadRowView, Zenon DEF Row
    <3>2. /\ \A r \in rows : Holds(r[1]) /\ r = Row(r[1])
          /\ \A m \in Numbers : Owed(m) => m \in listed \/ Row(m) \in rows
      BY <2>0, <3>0, Zenon DEF WalkInv
    <3>3. Owed(n) => Row(n) \in rows'
      <4> HAVE Owed(n)
      <4>1. Resolve(n).is = "found" BY <1>0, <2>3, <3>0, ReadView, Zenon DEF Owed
      <4> QED BY <3>1, <4>1, Zenon
    <3>4. \A r \in rows' : r \in rows \/ (r = Row(n) /\ Holds(n)) BY <3>1, Zenon
    <3>5. \A r \in rows : r \in rows' BY <3>1, Zenon
    <3>6. \A r \in rows' : Holds(r[1])' /\ r = Row(r[1])'
      <4> TAKE r \in rows'
      <4>1. r[1] \in Numbers /\ Holds(r[1]) /\ r = Row(r[1]) BY <2>2, <3>2, <3>4, Zenon
      <4> QED BY <2>1, <4>1, Zenon
    <3>7. \A m \in Numbers : Owed(m) => m \in listed' \/ Row(m) \in rows'
      BY <3>1, <3>2, <3>3, <3>5, Zenon
    <3>8. listed' = {} => \A m \in Numbers : Owed(m) => Row(m) \in rows' BY <3>7
    <3> QED BY <2>1, <3>0, <3>1, <3>6, <3>7, <3>8, Zenon DEF WalkInv
  <2>5. CASE Snapshot
    <3>0. pc' = "anchor" /\ result' # "ok" BY <1>0, <2>5, Zenon DEF Snapshot, PhaseInv
    <3>1. /\ \A r \in rows' : \E m \in Numbers : Holds(m) /\ r = Row(m)
          /\ \A m \in Numbers : Running(m) => Row(m) \in rows'
      BY <2>5, Zenon DEF Snapshot, Row, Holds, Running
    <3>2. \A r \in rows' : Holds(r[1])' /\ r = Row(r[1])'
      <4> TAKE r \in rows'
      <4>1. r[1] \in Numbers /\ Holds(r[1]) /\ r = Row(r[1]) BY <2>2, <3>1, Zenon
      <4> QED BY <2>1, <4>1, Zenon
    <3>3. \A m \in Numbers : Owed(m) => Row(m) \in rows' BY <2>3, <2>5, <3>1, Zenon DEF Snapshot
    <3> QED BY <2>1, <3>0, <3>2, <3>3, Zenon DEF WalkInv
  <2>6. CASE ScanFails BY <2>6, Zenon DEF ScanFails, Return, WalkInv
  <2>7. CASE Anchor
    <3>1. CASE RootExists = "present"
      <4>1. /\ pc = "anchor" /\ pc' = "walk" /\ frontier' = {root.pid} /\ UNCHANGED <<rows, next, found>>
            /\ result' # "ok"
        <5>1. Kills /\ op # "parent" BY <2>0, Zenon DEF Kills
        <5> QED BY <1>0, <2>7, <3>1, <5>1, Zenon DEF Anchor, Return, scan, PhaseInv
      <4>2. found' = <<>> BY <1>0, <4>1, Zenon DEF PhaseInv
      <4>3. /\ \A r \in rows : Holds(r[1]) /\ r = Row(r[1])
            /\ \A m \in Numbers : Owed(m) => Found(m) \/ Row(m) \in rows
        BY <2>0, <4>1, Zenon DEF WalkInv
      <4>4. \A m \in Numbers : ~Found(m) /\ ~Found(m)' BY <4>1, <4>2 DEF Found
      <4>5. \A r \in rows' : Holds(r[1])' /\ r = Row(r[1])' BY <2>1, <2>2, <4>1, <4>3, Zenon
      <4>6. \A m \in Numbers : Owed(m)' => Row(m)' \in rows' BY <2>1, <4>1, <4>3, <4>4, Zenon
      <4>7. \A r \in rows' : r[2] = root'.pid \/ (r[2] \in Numbers /\ Found(r[2])') => r[2] \in frontier'
        BY <2>0, <4>1, <4>4, Zenon
      <4> QED BY <4>1, <4>5, <4>6, <4>7, Zenon DEF WalkInv
    <3>2. CASE RootExists # "present"
      <4>1. pc' = "done" /\ pc = "anchor" BY <2>7, <3>2, Zenon DEF Anchor, Return
      <4>2. root \in Id BY <1>0, <4>1, Zenon DEF PhaseInv
      <4>3. ~(IsAt(root) /\ table[root.pid].access # "hidden") BY <1>0, <3>2, <4>2, AnchorView, Zenon
      <4>4. \A m \in Numbers : ~Owed(m) BY <2>3, <4>1, <4>3, Zenon
      <4>5. \A id \in owed' : FALSE
        <5> SUFFICES ASSUME NEW id \in owed PROVE FALSE BY <2>0
        <5>1. id \in Id /\ IsAt(id) BY <2>0, <4>1, Zenon DEF OwedInv
        <5>2. id.pid \in Numbers /\ id = IdAt(id.pid) /\ Holds(id.pid) BY <5>1, IdentityShape, Zenon DEF IsAt
        <5> QED BY <4>4, <5>2, Zenon DEF Owed
      <4> QED BY <4>1, <4>5, Zenon DEF WalkInv
    <3> QED BY <3>1, <3>2, Zenon
  <2>8. CASE AbsentFromSnapshot \/ ParentOf
    <3>1. pc \in {"absent", "of"} BY <2>8, Zenon DEF AbsentFromSnapshot, ParentOf
    <3> QED BY <1>0, <2>0, <3>1, Zenon DEF PhaseInv, Kills
  <2>9. CASE Examine
    <3>0. pc = "walk" /\ pc' = "walk" /\ frontier' = frontier /\ result' # "ok"
      BY <1>0, <2>9, Zenon DEF Examine, PhaseInv
    <3>1. PICK row \in rows :
             /\ row[2] \in frontier /\ rows' = rows \ {row} /\ row[1] \in Numbers
             /\ Keeps(row) =>
                  /\ found' = Append(found, [id |-> IdAt(row[1]), kin |-> Kin(row[1]),
                                             first |-> row[2] = root.pid])
                  /\ next' = next \cup {row[1]}
             /\ ~Keeps(row) => found' = found /\ next' = next
      BY <1>0, <2>9, ExamineView, Zenon
    <3>2. /\ \A r \in rows : Holds(r[1]) /\ r = Row(r[1])
          /\ \A m \in Numbers : Owed(m) => Found(m) \/ Row(m) \in rows
          /\ \A r \in rows : r[2] = root.pid \/ (r[2] \in Numbers /\ Found(r[2])) => r[2] \in frontier \cup next
      BY <2>0, <3>0, Zenon DEF WalkInv
    <3>3. \A m \in Numbers : /\ Found(m) => Found(m)'
                             /\ Found(m)' => Found(m) \/ (Keeps(row) /\ m = row[1])
                             /\ Keeps(row) /\ m = row[1] => Found(m)'
      <4>0. found \in Seq(Kept) BY <1>0 DEF TypeInv
      <4>1. CASE ~Keeps(row) BY <2>1, <3>1, <4>1, Zenon DEF Found
      <4>2. CASE Keeps(row)
        <5>1. PICK e : found' = Append(found, e) /\ e.id = IdAt(row[1]) BY <3>1, <4>2
        <5>2. /\ \A i \in DOMAIN found : i \in DOMAIN found' /\ found'[i] = found[i]
              /\ \A i \in DOMAIN found' : (i \in DOMAIN found /\ found'[i] = found[i]) \/ found'[i] = e
              /\ \E i \in DOMAIN found' : found'[i] = e
          BY <4>0, <5>1, OneMoreFound, Zenon
        <5>3. \A m \in Numbers : IdAt(m) = IdAt(row[1]) <=> m = row[1] BY DEF IdAt
        <5>4. \A i \in DOMAIN found' : (i \in DOMAIN found /\ found'[i] = found[i]) \/ found'[i].id = IdAt(row[1])
          BY <5>1, <5>2, Zenon
        <5>5. \A m \in Numbers : Found(m) => Found(m)' BY <2>1, <5>2, Zenon DEF Found
        <5>6. \E i \in DOMAIN found' : found'[i].id = IdAt(row[1])'
          <6>1. IdAt(row[1])' = IdAt(row[1]) BY <2>1, <3>1, Zenon
          <6> QED BY <5>1, <5>2, <6>1, Zenon
        <5>7. Found(row[1])' BY <5>6 DEF Found
        <5>8. \A m \in Numbers : Found(m)' => Found(m) \/ m = row[1]
          BY <2>1, <5>2, <5>3, <5>4, Zenon DEF Found
        <5> QED BY <4>2, <5>5, <5>7, <5>8, Zenon
      <4> QED BY <4>1, <4>2, Zenon
    <3>4. Owed(row[1]) => Keeps(row)
      <4> HAVE Owed(row[1])
      <4>1. row[2] = table[row[1]].ppid BY <3>2 DEF Row
      <4>2. row[1] # row[2] BY <1>0, <3>1, <4>1, Zenon DEF ParentInv, Owed
      <4> QED BY <2>3, <3>0, <3>1, <4>2, Zenon DEF Keeps, Owed
    <3>5. \A r \in rows' : Holds(r[1])' /\ r = Row(r[1])' BY <2>1, <2>2, <3>1, <3>2, Zenon
    <3>6. \A m \in Numbers : Owed(m)' => Found(m)' \/ Row(m)' \in rows'
      <4> TAKE m \in Numbers
      <4> HAVE Owed(m)'
      <4>1. Found(m) \/ Row(m) \in rows BY <2>1, <3>2, Zenon
      <4>2. CASE Found(m) BY <3>3, <4>2, Zenon
      <4>3. CASE Row(m) \in rows /\ Row(m) # row BY <2>1, <3>1, <4>3, Zenon
      <4>4. CASE Row(m) = row BY <2>1, <2>2, <3>3, <3>4, <4>4, Zenon
      <4> QED BY <4>1, <4>2, <4>3, <4>4
    <3>7. \A r \in rows' : r[2] = root'.pid \/ (r[2] \in Numbers /\ Found(r[2])') => r[2] \in frontier' \cup next'
      BY <2>0, <3>0, <3>1, <3>2, <3>3, Zenon
    <3> QED BY <3>0, <3>5, <3>6, <3>7, Zenon DEF WalkInv
  <2>10. CASE EndLevel
    <3>0. pc = "walk" /\ Candidates = {} /\ found' = found BY <2>10 DEF EndLevel
    <3>1. /\ \A r \in rows : Holds(r[1]) /\ r = Row(r[1])
          /\ \A m \in Numbers : Owed(m) => Found(m) \/ Row(m) \in rows
          /\ \A r \in rows : r[2] = root.pid \/ (r[2] \in Numbers /\ Found(r[2])) => r[2] \in frontier \cup next
      BY <2>0, <3>0, Zenon DEF WalkInv
    <3>2. \A m \in Numbers : Found(m)' = Found(m) BY <2>1, <3>0, Zenon DEF Found
    <3>3. CASE next # {}
      <4>1. pc' = "walk" /\ rows' = rows /\ frontier' = next /\ result' # "ok"
        BY <1>0, <2>0, <2>10, <3>3, Zenon DEF EndLevel, Kills, scan, PhaseInv
      <4>2. \A r \in rows : r[2] \notin frontier BY <3>0 DEF Candidates
      <4>3. \A r \in rows' : Holds(r[1])' /\ r = Row(r[1])' BY <2>1, <2>2, <3>1, <4>1, Zenon
      <4>4. \A m \in Numbers : Owed(m)' => Found(m)' \/ Row(m)' \in rows' BY <2>1, <3>1, <3>2, <4>1, Zenon
      <4>5. \A r \in rows' : r[2] = root'.pid \/ (r[2] \in Numbers /\ Found(r[2])') => r[2] \in frontier'
        BY <2>0, <3>1, <3>2, <4>1, <4>2, Zenon
      <4> QED BY <4>1, <4>3, <4>4, <4>5, Zenon DEF WalkInv
    <3>4. CASE next = {}
      <4>1. pc' = "verify" /\ result' # "ok" BY <1>0, <2>0, <2>10, <3>4, Zenon DEF EndLevel, Kills, PhaseInv
      <4>2. \A id \in owed : IsTarget(id) BY <1>0, <2>0, <3>0, <3>4, AllOwedFound, Zenon
      <4>3. \A id \in owed' : IsTarget(id)' BY <2>0, <3>0, <4>2, Zenon DEF IsTarget
      <4> QED BY <4>1, <4>3, Zenon DEF WalkInv
    <3> QED BY <3>3, <3>4, Zenon
  <2>11. CASE Verify
    <3>1. found' = found /\ pc' \in Killing /\ pc \in Killing BY <2>11 DEF Verify, Skip, bfs
    <3> QED BY <1>4, <2>0, <3>1, Zenon
  <2>12. CASE AllStruck
    <3>1. pc = "verify" /\ pc' = "done" /\ found' = found BY <2>12 DEF AllStruck, Return
    <3>2. \A id \in owed' : IsTarget(id)' BY <2>0, <3>1, Zenon DEF WalkInv, IsTarget
    <3> QED BY <3>1, <3>2, Zenon DEF WalkInv
  <2>13. CASE World \/ UNCHANGED vars
    <3>1. UNCHANGED <<pc, rows, listed, frontier, next, found, result>>
      <4>1. CASE World BY <1>0, <4>1, HostView, Zenon DEF HostKeeps
      <4>2. CASE UNCHANGED vars BY <4>2 DEF vars, scan, bfs
      <4> QED BY <2>13, <4>1, <4>2, Zenon
    <3> QED BY <2>0, <3>1, Zenon DEF WalkInv, Owed, Row, Holds, IdAt, Found, IsTarget
  <2> QED
    BY <1>1, <1>2, <1>6, <2>4, <2>5, <2>6, <2>7, <2>8, <2>9, <2>10, <2>11, <2>12, <2>13, Zenon
    DEF Next, Strike
<1> QED BY <1>3, <1>5, <1>6, Zenon

\* As a call begins: whoever is below root in a line of the living is below root
\* by the numbers the table shows.
Reached ==
  \A S \in SUBSET Numbers :
    (\A m \in Numbers : Within(m) /\ table[m].ppid \in S \cup {root.pid} => m \in S)
      => \A n \in Numbers : Within(n) => n \in S
ReachInv == pc = "idle" /\ root \in Id => Reached

\* The beginning of a call settles who is owed.
LEMMA OwedBegin ==
  ASSUME Base, LineInv, ReachInv, NEW o \in Ops, Begin(o)
  PROVE  OwedInv'
<1>0. TypeInv /\ PhaseInv BY Zenon DEF Base, Shape
<1>1. root \in Id /\ pc = "idle" BY <1>0, Zenon DEF Begin, TypeInv
<1>2. Trims /\ os' = os /\ root' = root /\ pc' \notin Killing \cup {"done"}
  <2>1. Trims BY <1>0, <1>1, TrimView, Zenon DEF Begin
  <2>2. os' = os /\ root' = root /\ pc' \notin Killing \cup {"done"} BY Zenon DEF Begin, Killing
  <2> QED BY <2>1, <2>2, Zenon
<1>3. \A id \in owed' : \E m \in Numbers : id = IdAt(m) /\ Holds(m) /\ Within(m)
  BY DEF Begin
<1>4. \A m \in Numbers : /\ IdAt(m)' = IdAt(m) /\ (Holds(m)' <=> Holds(m)) /\ (Running(m)' <=> Running(m))
                         /\ Holds(m) => table'[m].access = table[m].access /\ table'[m].ppid = table[m].ppid
  BY <1>2, Zenon DEF Trims, IdAt, Holds, Running
<1>5. \A m \in Numbers : Owed(m)' => Within(m) /\ Holds(m)
  <2> TAKE m \in Numbers
  <2> HAVE Owed(m)'
  <2>1. IdAt(m) \in owed' BY <1>4, Zenon DEF Owed
  <2>2. PICK k \in Numbers : IdAt(m) = IdAt(k) /\ Holds(k) /\ Within(k) BY <1>3, <2>1, Zenon
  <2>3. m = k BY <2>2 DEF IdAt
  <2> QED BY <2>2, <2>3, Zenon
<1>6. \A m \in Numbers : Within(m) /\ o = "hard_kill" => Owed(m)'
  <2> TAKE m \in Numbers
  <2> HAVE Within(m) /\ o = "hard_kill"
  <2>1. Holds(m) BY Zenon DEF Within, Holds, Running
  <2>2. IdAt(m) \in owed' BY <2>1 DEF Begin
  <2> QED BY <1>4, <2>1, <2>2, Zenon DEF Owed
<1>7. \A id \in owed' : id \in Id /\ IsAt(id)'
  <2> TAKE id \in owed'
  <2>1. PICK m \in Numbers : id = IdAt(m) /\ Holds(m) BY <1>3
  <2>2. id \in Id BY <1>0, <2>1, SlotShape, Zenon
  <2>3. id.pid = m /\ id.token = table[m].token BY <2>1 DEF IdAt
  <2> QED BY <1>2, <2>1, <2>2, <2>3, Zenon DEF IsAt, Holds, Trims
<1>8. ASSUME NEW m \in Numbers, Owed(m)'
      PROVE  (/\ Running(m) /\ table[m].access # "hidden" /\ KeepsToken(table[m].token, root.token)
              /\ IsAt(root) /\ table[root.pid].access # "hidden")'
  <2>1. Within(m) /\ Holds(m) BY <1>5, <1>8, Zenon
  <2>2. root.pid \in Numbers /\ root.token \in Nat BY <1>1, IdentityShape, Zenon
  <2>3. KeepsToken(table[m].token, root.token)
    <3>1. PICK i \in DOMAIN table[m].line : table[m].line[i] = root BY <2>1, Zenon DEF Within
    <3>2. OlderLine(m) BY <1>1, <2>1, Zenon DEF LineInv
    <3>3. root.token <= table[m].token /\ (os = "windows" => root.token < table[m].token)
      BY <3>1, <3>2, Zenon DEF OlderLine
    <3>4. table[m].token \in Int /\ os \in {"linux", "windows"} BY <1>0, SlotShape, Zenon DEF TypeInv
    <3> QED BY <2>2, <3>3, <3>4 DEF KeepsToken, AllowEqualToken
  <2>4. KeepsToken(table[m].token, root.token)' BY <1>2, <2>3, Zenon DEF KeepsToken, AllowEqualToken, Trims
  <2>5. IsAt(root)' /\ table'[root.pid].access # "hidden"
    BY <1>2, <1>4, <2>1, <2>2, ZenonT(60) DEF Within, IsAt, Holds, Trims
  <2> QED BY <1>2, <1>4, <2>1, <2>4, <2>5, Zenon DEF Within
<1>9. ASSUME NEW S \in SUBSET Numbers, Closed(S)', NEW m \in Numbers, Owed(m)'
      PROVE  m \in S
  <2>1. o = "hard_kill" BY <1>9, Zenon DEF Owed, Begin
  <2>2. Within(m) BY <1>5, <1>9
  <2>3. ASSUME NEW k \in Numbers, Within(k), table[k].ppid \in S \cup {root.pid} PROVE k \in S
    <3>1. Owed(k)' /\ Holds(k) BY <1>6, <2>1, <2>3, Zenon DEF Within, Holds, Running
    <3>2. table'[k].ppid \in S \cup {root'.pid} BY <1>2, <1>4, <2>3, <3>1, Zenon
    <3> QED BY <1>9, <3>1, <3>2, Zenon DEF Closed
  <2> QED BY <1>1, <2>2, <2>3, Zenon DEF ReachInv, Reached, Zenon
<1> QED BY <1>7, <1>8, <1>9, Zenon DEF OwedInv

\* Who is owed stays so until the first signal, as long as the table stands still.
LEMMA OwedStep == Base /\ Base' /\ LineInv /\ ReachInv /\ OwedInv /\ [Next]_vars => OwedInv'
<1> SUFFICES ASSUME Base, Base', LineInv, ReachInv, OwedInv, [Next]_vars, calm' = "still",
                    pc' \notin Killing \cup {"done"}
             PROVE  OwedInv'
  BY Zenon DEF OwedInv
<1>0. Shape /\ PhaseInv /\ PhaseInv' BY DEF Base, Shape
<1>1. CASE pc' = "idle"
  <2>1. owed' = {} BY <1>0, <1>1, Zenon DEF PhaseInv
  <2> QED BY <2>1, Zenon DEF OwedInv, Owed
<1>2. CASE pc' # "idle" /\ pc = "idle"
  <2>1. \E o \in Ops : Begin(o) BY <1>0, <1>2, BeginView, Zenon
  <2> QED BY <2>1, OwedBegin, Zenon
<1>3. CASE pc' # "idle" /\ pc # "idle"
  <2>1. pc \notin Killing \cup {"done"}
    <3>1. Verify \/ Strike \/ AllStruck => pc' \in Killing \cup {"done"}
      BY Zenon DEF Verify, Strike, AllStruck, Skip, Return, Killing
    <3>2. \A n \in Numbers : Know(n) => pc = "idle" BY Zenon DEF Know
    <3>3. \A o \in Ops : Begin(o) => pc = "idle" BY DEF Begin
    <3>4. ReadRow \/ Snapshot \/ ScanFails \/ Anchor => pc \notin Killing \cup {"done"}
      BY DEF ReadRow, Snapshot, ScanFails, Anchor, Killing
    <3>5. AbsentFromSnapshot \/ ParentOf \/ Examine \/ EndLevel => pc \notin Killing \cup {"done"}
      BY Zenon DEF AbsentFromSnapshot, ParentOf, Examine, EndLevel, Killing
    <3>6. World \/ UNCHANGED vars => pc' = pc BY Zenon DEF World, vars
    <3> QED BY <1>3, <3>1, <3>2, <3>3, <3>4, <3>5, <3>6, Zenon DEF Next
  <2>2. UNCHANGED <<os, table, calm, root, owed, op>> BY <1>0, <1>3, <2>1, StillView, Zenon DEF Killing
  <2>3. /\ \A m \in Numbers : Owed(m)' = Owed(m) /\ Running(m)' = Running(m)
        /\ \A S \in SUBSET Numbers : Closed(S)' = Closed(S)
        /\ \A id : IsAt(id)' = IsAt(id)
        /\ \A m \in Numbers : KeepsToken(table[m].token, root.token)' = KeepsToken(table[m].token, root.token)
    BY <2>2, Zenon DEF Owed, Running, Closed, IsAt, Holds, IdAt, KeepsToken, AllowEqualToken
  <2>4. calm = "still" BY <2>2
  <2>5. /\ \A id \in owed' : id \in Id /\ IsAt(id)'
        /\ \A m \in Numbers : Owed(m)' =>
             /\ Running(m)' /\ table'[m].access # "hidden" /\ KeepsToken(table[m].token, root.token)'
             /\ IsAt(root)' /\ table'[root'.pid].access # "hidden"
        /\ \A S \in SUBSET Numbers : Closed(S)' => \A m \in Numbers : Owed(m)' => m \in S
    BY <2>1, <2>2, <2>3, <2>4, Zenon DEF OwedInv
  <2> QED BY <2>5, Zenon DEF OwedInv
<1> QED BY <1>1, <1>2, <1>3, Zenon

\* The three together are what a complete kill claims.
LEMMA DownMeansComplete == Base /\ DownInv /\ WalkInv => CompleteMeansDown
<1> SUFFICES ASSUME Base, DownInv, WalkInv, op = "hard_kill", result = "ok"
             PROVE  /\ \A i \in DOMAIN found : ~Lives(found[i].id)
                    /\ ~Lives(root)
                    /\ calm = "still" => \A id \in owed : ~Lives(id)
  BY DEF CompleteMeansDown
<1>0. TypeInv /\ PhaseInv BY Zenon DEF Base, Shape
<1>1. pc = "done" /\ root \in Id BY <1>0, Zenon DEF PhaseInv
<1>2. \A id \in Id : IsTarget(id) => ~Lives(id) BY Zenon DEF DownInv
<1>3. \A i \in DOMAIN found : found[i].id \in Id
  <2> TAKE i \in DOMAIN found
  <2>1. found[i] \in Kept BY <1>0 DEF TypeInv
  <2> QED BY <2>1, Zenon DEF Kept
<1>4. \A i \in DOMAIN found : ~Lives(found[i].id) BY <1>2, <1>3, Zenon DEF IsTarget
<1>5. ~Lives(root) BY <1>1, <1>2, Zenon DEF IsTarget
<1>6. calm = "still" => \A id \in owed : IsTarget(id) BY Zenon DEF WalkInv
<1>7. ASSUME calm = "still", NEW id \in owed PROVE ~Lives(id)
  <2>1. IsTarget(id) BY <1>6, <1>7, Zenon
  <2>2. id \in Id BY <1>1, <1>3, <2>1, Zenon DEF IsTarget
  <2> QED BY <1>2, <2>1, <2>2, Zenon
<1> QED BY <1>4, <1>5, <1>7, Zenon

INSTANCE WellFoundedInduction

\* The natural numbers are well ordered.
LEMMA LeastExists ==
  ASSUME NEW S, S \subseteq Nat, S # {}
  PROVE  \E x \in S : \A y \in S : ~(y < x)
<1>1. IsWellFoundedOn(OpToRel(<, Nat), Nat) BY NatLessThanWellFounded, Zenon
<1>2. PICK x \in S : \A y \in S : ~(<<y, x>> \in OpToRel(<, Nat)) BY <1>1, WFMin, Zenon
<1>3. \A y \in S : ~(y < x)
  <2> TAKE y \in S
  <2>1. x \in Nat /\ y \in Nat BY Zenon
  <2>2. y < x => <<y, x>> \in OpToRel(<, Nat) BY <2>1, Zenon DEF OpToRel
  <2> QED BY <1>2, <2>2, Zenon
<1> QED BY <1>3, Zenon

\* So an induction over the length of the lines gives it: of those that would be
\* missing, one with the shortest line has a parent that is not.
LEMMA LinesReach == TypeInv /\ LineInv => ReachInv
<1> SUFFICES ASSUME TypeInv, LineInv, pc = "idle", root \in Id, NEW S \in SUBSET Numbers,
                    \A m \in Numbers : Within(m) /\ table[m].ppid \in S \cup {root.pid} => m \in S,
                    NEW n \in Numbers, Within(n), n \notin S
             PROVE  FALSE
  BY Zenon DEF ReachInv, Reached
<1> DEFINE Left == {m \in Numbers : Within(m) /\ m \notin S}
           Lens == {Len(table[m].line) : m \in Left}
<1>1. \A m \in Left : Len(table[m].line) \in Nat
  <2> TAKE m \in Left
  <2>1. Holds(m) BY Zenon DEF Within, Holds, Running
  <2> QED BY <2>1, LineShape, Zenon
<1>2. Lens \subseteq Nat BY <1>1, Zenon
<1>3. Lens # {} BY Zenon
<1>4. PICK x \in Lens : \A y \in Lens : ~(y < x)
  <2> HIDE DEF Lens
  <2> QED BY <1>2, <1>3, LeastExists, Zenon
<1>5. PICK m \in Left : x = Len(table[m].line) BY <1>4, Zenon
<1>6. \A k \in Numbers : Within(k) /\ k \notin S => ~(Len(table[k].line) < Len(table[m].line))
  BY <1>4, <1>5, Zenon
<1>7. m \in Numbers /\ Within(m) /\ m \notin S BY <1>5, Zenon
<1> HIDE DEF Left, Lens
<1> QED BY <1>6, <1>7, ParentWithin, Zenon

\* Kill::walk: a hard_kill that reports a complete walk leaves neither root nor
\* anything it resolved running; and if the table stood still meanwhile, nothing
\* below root that could be read, at any depth.
THEOREM WalkCompleteMeansDown == Spec => []CompleteMeansDown
<1>1. Init => DownInv /\ OwedInv /\ WalkInv
  BY Zenon DEF Init, DownInv, OwedInv, WalkInv, Owed
<1>2. Base => TypeInv BY DEF Base, Shape
<1> QED
  BY <1>1, <1>2, WalkIsWellFormed, LinesFit, LinesReach, DownStep, OwedStep, WalkStep, DownMeansComplete, PTL DEF Spec

=============================================================================
