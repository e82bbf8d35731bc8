--------------------------- MODULE TreeCallProofs ---------------------------
(***************************************************************************)
(* For any tree, any hosts and any number of calls: the inductive          *)
(* invariant of the tree calls; that the environment, whatever dies,       *)
(* forks, is reaped or has its number taken, keeps it; that signal_group   *)
(* does, its sends by number following their checks and its listing        *)
(* settled to the last member; and the calls over it. So nobody outside    *)
(* the tree is signalled (StrangersSpared, HoldPinsNumber), an Ok is true  *)
(* (OkMeansDown) and no call sends SIGTERM twice (TermOnce).               *)
(***************************************************************************)
EXTENDS TreeCall, TLAPS

(* Where a call is in converge, and where it holds the reap off. *)
Settling == {"member", "pin", "pinned", "pidfd_send", "root", "identity", "number", "reconfirm"}
Holding == Settling \cup {"look", "probe", "decided", "send", "check", "killpg", "direct", "list", "sent"}

KernelShape ==
  /\ host \in Hosts
  /\ life \in [Procs -> {"unborn", "alive", "doomed", "zombie", "reaped"}]
  /\ terms \in [Procs -> Nat]
  /\ reaper \in {"nobody", "own", "elsewhere"}
  /\ taker \in Procs \cup {Nobody}
  /\ missed \subseteq Members

CallShape ==
  /\ sig \in {"kill", "term"}
  /\ todo \subseteq Procs \cup {Stranger}
  /\ cur \in Procs \cup {Stranger, Nobody}
  /\ calls \in Nat
  /\ call \in {"kill_tree", "drop"} => sig = "kill"
  /\ pc = "root_term" => sig = "term"
  /\ pc \in {"dropped", "last_look"} => call = "drop"

(* A number that was taken was free: its process is reaped, and the root's   *)
(* group has no member.                                                      *)
NumberInv ==
  /\ life[Root] # "unborn"
  /\ reaper = "nobody" <=> life[Root] # "reaped"
  /\ taker # Nobody => life[taker] = "reaped"
  /\ taker = Root => InGroup = {}
  /\ leads => taker = Root
  /\ struck # "no" => taker # Nobody
  /\ Stranger \in todo \cup {cur} => taker = Root

(* A send by a number has its check right before it. *)
SendInv ==
  /\ pc \in {"check", "killpg"} => ~Flag
  /\ pc = "killpg" /\ taker = Root => fresh
  /\ pc \in {"pidfd_send", "identity", "number"} => cur # Stranger /\ cur # Nobody
  /\ pc \in {"pin", "pinned", "pidfd_send"} => sig = "kill"
  /\ sig = "kill" /\ pc \in {"root", "identity", "number"} => ~PidfdOpens
  /\ pc = "number" /\ taker = cur => fresh
  /\ StrangersSpared

(* The hold is in force from the look to the last send. *)
HoldInv ==
  /\ pc \in Holding => held
  /\ pc \in Holding \ {"look"} \/ (struck # "no" /\ taker = Root) => (reaper = "own" => looked = "own")
  /\ calls = 0 => pc = "idle" /\ (reaper = "own" => other_waited) /\ struck = "no"
  /\ calls = 1 /\ reaper = "own" /\ ~other_waited => pc = "idle" /\ ~(struck # "no" /\ taker = Root)

(* Up to the one send of a call's SIGTERM nobody has got it. *)
TermInv ==
  /\ TermOnce
  /\ sig = "term" /\ pc \in {"look", "probe", "decided", "send", "check", "killpg", "direct", "root_term"} =>
       \A p \in Procs : terms[p] = 0

(* No descendant that was there at the listing is alive. *)
MembersDown == \A p \in Members \ missed : life[p] # "alive"

-----------------------------------------------------------------------------
(* What the steps leave alone *)

(* A step that changes nothing of the tree or of the numbers. *)
Still == UNCHANGED <<host, life, reaper, away, taker, leads, missed, terms, struck>>

(* After a step there is no more of the tree than before it. *)
Ebbs ==
  /\ \A p \in Members \ missed' : life'[p] = "alive" => p \notin missed /\ life[p] = "alive"
  /\ life'[Root] = "alive" => life[Root] = "alive"
  /\ RootReaped => RootReaped'
  /\ InGroup = {} => InGroup' = {}

(* What a call has come to know of the tree, wherever it is. *)
Known ==
  /\ tree_killed => MembersDown
  /\ result = "ok" /\ call \in {"kill_tree", "graceful_shutdown_tree"} => tree_killed /\ life[Root] # "alive"

(* What IInv says of the pass over the listing, and of the call around it. *)
PassDown ==
  /\ sig = "kill" /\ pc \in Settling =>
       \A p \in Members \ missed : life[p] = "alive" => p \in todo \cup refused \cup unassessable
  /\ pc \in Settling \ {"member"} => cur \in todo
  /\ pc = "sent" /\ sig = "kill" /\ outcome = "ok" => MembersDown

CallDown ==
  /\ pc = "probe" => number = "MayNameAnother" /\ (~exact => RootReaped)
  /\ pc = "decided" /\ number \in {"Empty", "GroupGone"} => InGroup = {} /\ RootReaped
  /\ pc = "backstop" /\ outcome = "ok" => tree_killed
  /\ pc = "swept" => tree_killed /\ life[Root] # "alive"
  /\ pc = "wait" => call = "drop" \/ tree_killed

DownInv == PassDown /\ CallDown /\ Known

IInv == KernelShape /\ CallShape /\ NumberInv /\ SendInv /\ HoldInv /\ TermInv /\ DownInv

-----------------------------------------------------------------------------
(* Lemmas *)

(* A step that leaves the tree alone leaves its group alone. *)
LEMMA StillGroup ==
  ASSUME Still PROVE InGroup' = InGroup /\ Ebbs /\ GroupOfNumber' = GroupOfNumber
<1>1. InGroup' = InGroup
  BY DEF Still, InGroup
<1> QED
  BY <1>1 DEF Still, Ebbs, RootReaped, GroupOfNumber

(* Such a step keeps what is known of the numbers, if it lists nobody new. *)
LEMMA StillNumbers ==
  ASSUME KernelShape, NumberInv, Still, Stranger \in todo' \cup {cur'} => Stranger \in todo \cup {cur}
  PROVE  KernelShape' /\ NumberInv'
<1>1. InGroup' = InGroup
  BY StillGroup
<1>2. KernelShape'
  BY DEF KernelShape, Still
<1> QED
  BY <1>1, <1>2 DEF NumberInv, Still

(* A signal to S changes life and the histories, never who is reaped. *)
LEMMA Taking ==
  ASSUME KernelShape, NEW S, NEW s, Take(S, s), host' = host
  PROVE  /\ UNCHANGED <<reaper, away, taker, leads, held, missed, fresh>>
         /\ life' \in [Procs -> {"unborn", "alive", "doomed", "zombie", "reaped"}]
         /\ terms' \in [Procs -> Nat]
         /\ \A p \in Procs : /\ life'[p] = "alive" => life[p] = "alive" /\ ~(s = "kill" /\ p \in S \ Refusers)
                             /\ life'[p] = "unborn" <=> life[p] = "unborn"
                             /\ life'[p] = "reaped" <=> life[p] = "reaped"
                             /\ life'[p] \in Unreaped <=> life[p] \in Unreaped
                             /\ s # "term" => terms'[p] = terms[p]
                             /\ p \notin S \ Refusers => terms'[p] = terms[p]
                             /\ terms'[p] <= terms[p] + 1
         /\ Stranger \notin S => struck' = struck
         /\ Stranger \in S => struck' = IF fresh THEN "window" ELSE "stale"
<1>1. \A p \in Procs : life'[p] = (IF p \in S \ Refusers /\ s = "kill" /\ life[p] = "alive" THEN "doomed" ELSE life[p])
  BY DEF Take
<1>2. \A p \in Procs : terms'[p] = (IF p \in S \ Refusers /\ s = "term" THEN terms[p] + 1 ELSE terms[p])
  BY DEF Take
<1>3. \A p \in Procs : terms[p] \in Nat
  BY DEF KernelShape
<1>4. life' = [p \in Procs |-> life'[p]] /\ terms' = [p \in Procs |-> terms'[p]]
  BY <1>1, <1>2 DEF Take
<1>5. \A p \in Procs : life'[p] \in {"unborn", "alive", "doomed", "zombie", "reaped"}
  BY <1>1 DEF KernelShape
<1>6. \A p \in Procs : terms'[p] \in Nat
  BY <1>2, <1>3
<1>7. \A p \in Procs : /\ life'[p] = "alive" => life[p] = "alive" /\ ~(s = "kill" /\ p \in S \ Refusers)
                       /\ life'[p] = "unborn" <=> life[p] = "unborn"
                       /\ life'[p] = "reaped" <=> life[p] = "reaped"
                       /\ life'[p] \in Unreaped <=> life[p] \in Unreaped
  BY <1>1 DEF Unreaped
<1>8. \A p \in Procs : /\ s # "term" => terms'[p] = terms[p]
                       /\ p \notin S \ Refusers => terms'[p] = terms[p]
                       /\ terms'[p] <= terms[p] + 1
  BY <1>2, <1>3
<1>9. UNCHANGED <<reaper, away, taker, leads, held, missed, fresh>>
  BY DEF Take
<1>10. /\ Stranger \notin S => struck' = struck
       /\ Stranger \in S => struck' = IF fresh THEN "window" ELSE "stale"
  BY DEF Take
<1>11. life' \in [Procs -> {"unborn", "alive", "doomed", "zombie", "reaped"}] /\ terms' \in [Procs -> Nat]
  BY <1>4, <1>5, <1>6
<1> QED
  BY <1>7, <1>8, <1>9, <1>10, <1>11

(* A signal leaves the group as it is, and reaches the stranger only where a  *)
(* number was taken.                                                          *)
LEMMA TakingNumbers ==
  ASSUME KernelShape, NumberInv, NEW S, NEW s, Take(S, s), host' = host,
         Stranger \in S => taker # Nobody,
         Stranger \in todo' \cup {cur'} => Stranger \in todo \cup {cur}
  PROVE  KernelShape' /\ NumberInv' /\ Ebbs /\ InGroup' = InGroup
<1>1. /\ UNCHANGED <<reaper, away, taker, leads, held, missed, fresh>>
      /\ life' \in [Procs -> {"unborn", "alive", "doomed", "zombie", "reaped"}]
      /\ terms' \in [Procs -> Nat]
      /\ Stranger \notin S => struck' = struck
  BY Taking
<1>2. \A p \in Procs : /\ life'[p] = "alive" => life[p] = "alive"
                       /\ life'[p] = "unborn" <=> life[p] = "unborn"
                       /\ life'[p] = "reaped" <=> life[p] = "reaped"
                       /\ life'[p] \in Unreaped <=> life[p] \in Unreaped
  BY Taking
<1>3. InGroup' = InGroup
  BY <1>1, <1>2 DEF InGroup
<1>4. KernelShape'
  BY <1>1 DEF KernelShape
<1>5. Root \in Procs /\ Members \subseteq Procs
  BY DEF Procs
<1>6. NumberInv'
  BY <1>1, <1>2, <1>3, <1>5 DEF NumberInv, KernelShape
<1>7. Ebbs
  BY <1>1, <1>2, <1>3, <1>5 DEF Ebbs, RootReaped
<1> QED
  BY <1>3, <1>4, <1>6, <1>7

(* Nobody in the group: no member is alive. *)
LEMMA EmptyDown ==
  ASSUME InGroup = {} PROVE MembersDown /\ (RootReaped => \A p \in Procs : life[p] \notin Unreaped)
<1>1. \A p \in Members : p \in Procs /\ p # Root
  BY ProcsAssumption DEF Procs
<1>2. \A p \in Members : life[p] \notin Unreaped
  BY <1>1 DEF InGroup
<1> QED
  BY <1>2 DEF MembersDown, Unreaped, RootReaped, Procs

(* With the root's number taken, its check never allows a send. *)
LEMMA TakenNeverOk ==
  ASSUME KernelShape, NumberInv, taker = Root PROVE "ok" \notin RootChecks
<1>1. life[Root] = "reaped" /\ InGroup = {} /\ reaper # "nobody" /\ Root # Nobody
  BY ProcsAssumption DEF NumberInv, Procs
<1>2. pidfd_group_has_member # "true"
  BY <1>1 DEF pidfd_group_has_member
<1>3. Holder(Root) # Nobody
  BY <1>1, ProcsAssumption DEF Holder, Unreaped
<1>4. "Gone" \notin RootReads
  BY <1>3 DEF RootReads
<1>5. "unreaped" \notin RootStates
  BY <1>1 DEF RootStates, KernelShape
<1>6. "ok" \notin group_number_holds
  BY <1>4, <1>5 DEF group_number_holds
<1> QED
  BY <1>2, <1>6 DEF RootChecks

(* An empty answer of the check is the pidfd's: the group has no member. *)
LEMMA EmptyIsEmpty ==
  ASSUME "Empty" \in RootChecks PROVE InGroup = {}
<1>1. "Empty" \notin group_number_holds
  BY DEF group_number_holds
<1>2. pidfd_group_has_member = "false"
  BY <1>1 DEF RootChecks
<1> QED
  BY <1>2 DEF pidfd_group_has_member

-----------------------------------------------------------------------------
(* The environment *)

(* A call that stands still still knows what it knew. *)
LEMMA DownKept ==
  ASSUME DownInv, Ebbs, UNCHANGED <<pc, pass, call, number, exact, tree_killed, result>>
  PROVE  DownInv'
<1>1. PassDown'
  BY DEF DownInv, PassDown, Ebbs, MembersDown, pass
<1>2. CallDown'
  BY DEF DownInv, CallDown, Ebbs, pass
<1>3. Known'
  BY DEF DownInv, Known, Ebbs, MembersDown
<1> QED
  BY <1>1, <1>2, <1>3 DEF DownInv

(* Nothing of a call depends on how its tree's processes live. *)
LEMMA BetweenSteps ==
  ASSUME CallShape, SendInv, TermInv, UNCHANGED <<host, taker, terms, fresh, struck, pc, pass, call, calls>>
  PROVE  CallShape' /\ SendInv' /\ TermInv'
<1>1. CallShape'
  BY DEF CallShape, pass
<1>2. SendInv'
  BY DEF SendInv, StrangersSpared, Flag, PidfdOpens, pass
<1>3. TermInv'
  BY DEF TermInv, TermOnce, pass
<1> QED
  BY <1>1, <1>2, <1>3

(* One process goes from one stage to the next. *)
LEMMA Stage ==
  ASSUME KernelShape, NEW p \in Procs, NEW stage \in {"alive", "zombie", "reaped"}, Becomes(p, stage)
  PROVE  /\ life' \in [Procs -> {"unborn", "alive", "doomed", "zombie", "reaped"}]
         /\ life'[p] = stage
         /\ \A q \in Procs \ {p} : life'[q] = life[q]
  BY DEF KernelShape, Becomes

(* Forks, deaths, reaps elsewhere and pid reuse keep the invariant. *)
LEMMA EnvironmentKeeps ==
  ASSUME IInv, Environment, host' = host PROVE IInv'
<1> USE DEF IInv
<1>0. Root \in Procs /\ Members \subseteq Procs /\ Nobody \notin Procs /\ Procs = Members \cup {Root}
  BY ProcsAssumption DEF Procs
<1>1. CASE OtherWait
  <2>1. /\ ~held /\ life[Root] = "zombie" /\ Becomes(Root, "reaped")
        /\ reaper' = "own" /\ other_waited' = TRUE
        /\ UNCHANGED <<away, taker, leads, held, missed, terms, fresh, struck, pc, pass, call, number, exact,
                       tree_killed, result, calls, looked>>
    BY <1>1 DEF OtherWait, ReapsRoot
  <2>2. /\ life' \in [Procs -> {"unborn", "alive", "doomed", "zombie", "reaped"}]
        /\ life'[Root] = "reaped" /\ \A q \in Procs \ {Root} : life'[q] = life[q]
    BY <2>1, <1>0, Stage
  <2>3. InGroup = {} => InGroup' = {}
    BY <2>1, <2>2 DEF InGroup, Unreaped
  <2>4. taker # Root
    BY <2>1, <1>0 DEF NumberInv
  <2>5. KernelShape' /\ NumberInv'
    BY <2>1, <2>2, <2>3, <2>4, <1>0 DEF KernelShape, NumberInv, pass
  <2>6. Ebbs
    BY <2>1, <2>2, <2>3, <1>0 DEF Ebbs, RootReaped
  <2>7. DownInv'
    BY <2>1, <2>6, DownKept
  <2>8. CallShape' /\ SendInv' /\ TermInv'
    BY <2>1, BetweenSteps
  <2>9. HoldInv'
    BY <2>1, <2>4 DEF HoldInv
  <2> QED
    BY <2>5, <2>7, <2>8, <2>9
<1> DEFINE Same == UNCHANGED <<pc, pass, ctl>>
<1>2. ASSUME NEW p \in Procs, NEW q \in Procs, Fork(p, q), Same PROVE IInv'
  <2>1. /\ InGroup # {} /\ life[q] = "unborn" /\ Becomes(q, "alive") /\ missed' = missed \cup {q}
        /\ UNCHANGED <<reaper, away, taker, leads, held, terms, fresh, struck, pc, pass, call, number, exact,
                       tree_killed, result, calls, looked, other_waited>>
    BY <1>2 DEF Fork, ctl, history
  <2>2. /\ life' \in [Procs -> {"unborn", "alive", "doomed", "zombie", "reaped"}]
        /\ life'[q] = "alive" /\ \A r \in Procs \ {q} : life'[r] = life[r]
    BY <2>1, Stage
  <2>3. q # Root /\ q # taker /\ taker # Root
    BY <2>1, <1>0 DEF NumberInv
  <2>4. KernelShape' /\ NumberInv'
    BY <2>1, <2>2, <2>3, <1>0 DEF KernelShape, NumberInv, pass
  <2>5. Ebbs
    BY <2>1, <2>2, <2>3, <1>0 DEF Ebbs, RootReaped
  <2>6. DownInv'
    BY <2>1, <2>5, DownKept
  <2>7. CallShape' /\ SendInv' /\ TermInv'
    BY <2>1, BetweenSteps
  <2>8. HoldInv'
    BY <2>1 DEF HoldInv
  <2> QED
    BY <2>4, <2>6, <2>7, <2>8
<1>3. ASSUME NEW p \in Procs, Dies(p) \/ Reaped(p), Same PROVE IInv'
  <2>1. PICK stage \in {"zombie", "reaped"} : Becomes(p, stage) /\ (stage = "reaped" => p # Root)
    BY <1>3 DEF Dies, Reaped
  <2>2. /\ life[p] \in {"alive", "doomed", "zombie"}
        /\ UNCHANGED <<reaper, away, taker, leads, held, missed, terms, fresh, struck, pc, pass, call, number, exact,
                       tree_killed, result, calls, looked, other_waited>>
    BY <1>3 DEF Dies, Reaped, ctl, history
  <2>3. /\ life' \in [Procs -> {"unborn", "alive", "doomed", "zombie", "reaped"}]
        /\ life'[p] = stage /\ \A q \in Procs \ {p} : life'[q] = life[q]
    BY <2>1, Stage
  <2>4. InGroup = {} => InGroup' = {}
    BY <2>2, <2>3 DEF InGroup, Unreaped
  <2>5. p # taker
    BY <2>2, <1>0 DEF NumberInv
  <2>6. KernelShape' /\ NumberInv'
    BY <2>1, <2>2, <2>3, <2>4, <2>5, <1>0 DEF KernelShape, NumberInv, pass
  <2>7. Ebbs
    BY <2>1, <2>2, <2>3, <2>4, <1>0 DEF Ebbs, RootReaped
  <2>8. DownInv'
    BY <2>2, <2>7, DownKept
  <2>9. CallShape' /\ SendInv' /\ TermInv'
    BY <2>2, BetweenSteps
  <2>10. HoldInv'
    BY <2>2 DEF HoldInv
  <2> QED
    BY <2>6, <2>8, <2>9, <2>10
<1>4. ASSUME RootLeavesGroup, Same PROVE IInv'
  <2>1. /\ away' = TRUE
        /\ UNCHANGED <<life, reaper, taker, leads, held, missed, terms, fresh, struck, pc, pass, call, number, exact,
                       tree_killed, result, calls, looked, other_waited>>
    BY <1>4 DEF RootLeavesGroup, ctl, history
  <2>2. InGroup = {} => InGroup' = {}
    BY <2>1 DEF InGroup
  <2>3. KernelShape' /\ NumberInv'
    BY <2>1, <2>2 DEF KernelShape, NumberInv, pass
  <2>4. Ebbs
    BY <2>1, <2>2 DEF Ebbs, RootReaped
  <2>5. DownInv'
    BY <2>1, <2>4, DownKept
  <2>6. CallShape' /\ SendInv' /\ TermInv'
    BY <2>1, BetweenSteps
  <2>7. HoldInv'
    BY <2>1 DEF HoldInv
  <2> QED
    BY <2>3, <2>5, <2>6, <2>7, Zenon
<1>5. ASSUME ForeignReap, Same PROVE IInv'
  <2>1. /\ life[Root] = "zombie" /\ Becomes(Root, "reaped") /\ reaper' = "elsewhere"
        /\ UNCHANGED <<away, taker, leads, held, missed, terms, fresh, struck, pc, pass, call, number, exact,
                       tree_killed, result, calls, looked, other_waited>>
    BY <1>5 DEF ForeignReap, ReapsRoot, ctl, history
  <2>2. /\ life' \in [Procs -> {"unborn", "alive", "doomed", "zombie", "reaped"}]
        /\ life'[Root] = "reaped" /\ \A q \in Procs \ {Root} : life'[q] = life[q]
    BY <2>1, <1>0, Stage
  <2>3. InGroup = {} => InGroup' = {}
    BY <2>1, <2>2, Zenon DEF InGroup, Unreaped
  <2>4. KernelShape' /\ NumberInv'
    BY <2>1, <2>2, <2>3, <1>0 DEF KernelShape, NumberInv, pass
  <2>5. Ebbs
    BY <2>1, <2>2, <2>3, <1>0 DEF Ebbs, RootReaped
  <2>6. DownInv'
    BY <2>1, <2>5, DownKept
  <2>7. CallShape' /\ SendInv' /\ TermInv'
    BY <2>1, BetweenSteps
  <2>8. HoldInv'
    BY <2>1 DEF HoldInv
  <2> QED
    BY <2>4, <2>6, <2>7, <2>8
<1>6. ASSUME NEW p \in Procs, TakeNumber(p), Same PROVE IInv'
  <2>1. /\ taker = Nobody /\ life[p] = "reaped" /\ (p = Root => InGroup = {})
        /\ taker' = p /\ (leads' => p = Root) /\ fresh' = TRUE
        /\ UNCHANGED <<life, reaper, away, held, missed, terms, struck, pc, pass, call, number, exact,
                       tree_killed, result, calls, looked, other_waited>>
    BY <1>6 DEF TakeNumber, ctl, history
  <2>2. struck = "no" /\ Stranger \notin todo \cup {cur}
    BY <2>1, <1>0 DEF NumberInv
  <2>3. InGroup' = InGroup
    BY <2>1, Zenon DEF InGroup
  <2>4. KernelShape' /\ NumberInv'
    BY <2>1, <2>2, <2>3, <1>0 DEF KernelShape, NumberInv, pass
  <2>5. Ebbs
    BY <2>1, <2>3 DEF Ebbs, RootReaped
  <2>6. DownInv'
    BY <2>1, <2>5, DownKept, Zenon
  <2>7. CallShape' /\ TermInv'
    BY <2>1, Zenon DEF CallShape, TermInv, TermOnce, pass
  <2>8. SendInv'
    BY <2>1, <2>2 DEF SendInv, StrangersSpared, Flag, PidfdOpens, pass
  <2>9. HoldInv'
    BY <2>1, <2>2 DEF HoldInv
  <2> QED
    BY <2>4, <2>6, <2>7, <2>8, <2>9
<1> QED
  BY <1>1, <1>2, <1>3, <1>4, <1>5, <1>6 DEF Environment

(* A step that changes nothing. *)
LEMMA StandsStill ==
  ASSUME IInv, UNCHANGED <<vars, host>> PROVE IInv'
<1> USE DEF IInv
<1>1. /\ Still /\ UNCHANGED <<held, fresh, life, missed, terms, struck, taker, reaper>>
      /\ UNCHANGED <<pc, todo, cur, sig, refused, unassessable, outcome>>
      /\ UNCHANGED <<call, number, exact, tree_killed, result, calls, looked, other_waited>>
  BY DEF vars, kernel, pass, ctl, history, Still
<1>2. KernelShape' /\ NumberInv' /\ Ebbs
  BY <1>1, StillNumbers, StillGroup
<1>3. CallShape' /\ SendInv' /\ TermInv'
  BY <1>1, BetweenSteps DEF pass, Still
<1>4. HoldInv'
  BY <1>1 DEF HoldInv
<1>5. DownInv'
  BY <1>1, <1>2, DownKept DEF pass
<1> QED
  BY <1>2, <1>3, <1>4, <1>5

(* The invariant holds before the first call. *)
LEMMA Initially ==
  Init => IInv
<1> SUFFICES ASSUME Init PROVE IInv
  OBVIOUS
<1>1. Root \in Procs /\ Nobody \notin Procs \cup {Stranger}
  BY ProcsAssumption DEF Procs
<1>2. KernelShape /\ CallShape /\ NumberInv
  BY <1>1 DEF Init, KernelInit, KernelShape, CallShape, NumberInv
<1>3. SendInv /\ HoldInv /\ TermInv
  BY DEF Init, KernelInit, SendInv, StrangersSpared, HoldInv, TermInv, TermOnce, Holding, Settling
<1>4. DownInv
  BY DEF Init, DownInv, PassDown, CallDown, Known, Settling
<1> QED
  BY <1>2, <1>3, <1>4 DEF IInv

-----------------------------------------------------------------------------
(* signal_group                                                             *)

(* From its look to its answer a call keeps the hold, and with it what the    *)
(* look said of the root.                                                     *)
LEMMA InHold ==
  ASSUME HoldInv, UNCHANGED <<ctl, reaper, taker, held>>,
         pc \in Holding \ {"look"}, pc' \in Holding \ {"look"}
  PROVE  HoldInv'
<1>1. held /\ (reaper = "own" => looked = "own") /\ pc # "idle" /\ calls # 0
  BY DEF HoldInv, Holding, Settling
<1> QED
  BY <1>1 DEF HoldInv, ctl, history

(* What the call knows outlasts every step that adds nobody to the tree. *)
LEMMA KnownKept ==
  ASSUME Known, Ebbs, UNCHANGED <<tree_killed, result, call>> PROVE Known'
  BY DEF Known, Ebbs, MembersDown

(* A step of the call that only goes on, with the checks the next step needs. *)
LEMMA GotoKeeps ==
  ASSUME IInv, NEW next, Goto(next), UNCHANGED <<ctl, host>>,
         pc \in {"send", "check"} \/ pc \in Settling \ {"member"},
         next \in {"check", "killpg", "pinned", "pidfd_send", "root", "identity", "number", "reconfirm"},
         next \in {"check", "killpg"} => pc \in {"send", "check"} /\ ~Flag,
         next \notin {"check", "killpg"} => pc \in Settling \ {"member"},
         next = "killpg" => taker # Root,
         next \in {"pidfd_send", "identity", "number"} => cur # Stranger,
         next \in {"root", "identity", "number"} /\ sig = "kill" => ~PidfdOpens,
         next \in {"pinned", "pidfd_send"} => sig = "kill",
         next = "number" => taker # cur
  PROVE  IInv'
<1> USE DEF IInv
<1>1. Still /\ pc' = next /\ UNCHANGED <<pass, held>>
  BY DEF Goto, Quietly, Still
<1>2. Ebbs
  BY <1>1, StillGroup
<1>3. KernelShape' /\ NumberInv'
  <2>1. todo' = todo /\ cur' = cur
    BY <1>1 DEF pass
  <2> QED
    BY <2>1, <1>1, StillNumbers
<1>4. CallShape'
  BY <1>1 DEF CallShape, pass, ctl
<1>5. cur \in Procs \cup {Stranger} \/ next \in {"check", "killpg"}
  BY ProcsAssumption, Zenon DEF DownInv, PassDown, CallShape
<1>6. SendInv'
  BY <1>1, <1>5, ProcsAssumption DEF SendInv, StrangersSpared, Flag, PidfdOpens, pass, Still
<1>7. HoldInv'
  <2>1. pc \in Holding \ {"look"} /\ pc' \in Holding \ {"look"}
    BY <1>1 DEF Holding, Settling
  <2> QED
    BY <2>1, <1>1, InHold DEF Still
<1>8. TermInv'
  BY <1>1, Zenon DEF TermInv, TermOnce, Still, pass
<1>9. PassDown'
  BY <1>1, <1>2 DEF DownInv, PassDown, Still, pass, Settling
<1>10. CallDown' /\ Known'
  <2>1. Known'
    BY <1>2, KnownKept, Zenon DEF DownInv, ctl
  <2> QED
    BY <2>1, <1>1 DEF CallDown
<1> QED
  BY <1>3, <1>4, <1>6, <1>7, <1>8, <1>9, <1>10 DEF DownInv

(* A member is settled: whoever is said to be reached is not alive. *)
LEMMA SettledKeeps ==
  ASSUME IInv, NEW v \in {"Yes", "No", "Unknown"}, Settled(v), UNCHANGED <<ctl, host, reaper, taker, held, missed>>,
         pc \in Settling \ {"member"}, KernelShape', NumberInv', Ebbs, StrangersSpared', TermOnce',
         sig = "kill" /\ v = "Yes" /\ cur \in Members \ missed => life'[cur] # "alive"
  PROVE  IInv'
<1> USE DEF IInv
<1>1. /\ pc' = "member" /\ todo' = todo \ {cur} /\ cur' = Nobody /\ UNCHANGED <<sig, outcome>>
      /\ refused' = IF v = "No" THEN refused \cup {cur} ELSE refused
      /\ unassessable' = IF v = "Unknown" THEN unassessable \cup {cur} ELSE unassessable
  BY Zenon DEF Settled
<1>2. CallShape'
  BY <1>1, Zenon DEF CallShape, ctl
<1>3. SendInv'
  BY <1>1, Zenon DEF SendInv
<1>4. HoldInv'
  <2>1. pc \in Holding \ {"look"} /\ pc' \in Holding \ {"look"}
    BY <1>1, Zenon DEF Holding, Settling
  <2> QED
    BY <2>1, InHold, Zenon
<1>5. TermInv'
  BY <1>1, Zenon DEF TermInv
<1>6. PassDown'
  <2> SUFFICES ASSUME sig = "kill", NEW p \in Members \ missed, life'[p] = "alive"
               PROVE  p \in todo' \cup refused' \cup unassessable'
    BY <1>1, Zenon DEF PassDown, Settling
  <2>1. life[p] = "alive"
    BY Zenon DEF Ebbs
  <2>2. p \in todo \cup refused \cup unassessable
    BY <2>1 DEF DownInv, PassDown
  <2>3. CASE p = cur
    BY <2>3, <1>1, Zenon
  <2>4. CASE p # cur
    BY <2>2, <2>4, <1>1
  <2> QED
    BY <2>3, <2>4, Zenon
<1>7. Known'
  BY KnownKept, Zenon DEF DownInv, ctl
<1> QED
  BY <1>1, <1>2, <1>3, <1>4, <1>5, <1>6, <1>7, Zenon DEF DownInv, CallDown

(* The same for a step that sends nothing. *)
LEMMA SettledQuietly ==
  ASSUME IInv, NEW v \in {"Yes", "No", "Unknown"}, Settled(v), Quietly, UNCHANGED <<ctl, host>>,
         pc \in Settling \ {"member"},
         sig = "kill" /\ v = "Yes" /\ cur \in Members \ missed => life[cur] # "alive"
  PROVE  IInv'
<1> USE DEF IInv
<1>1. Still /\ UNCHANGED <<reaper, taker, held, missed, life, terms, struck>>
  BY DEF Quietly, Still
<1>2. todo' = todo \ {cur} /\ cur' = Nobody
  BY DEF Settled
<1>3. KernelShape' /\ NumberInv'
  <2>1. Stranger \in todo' \cup {cur'} => Stranger \in todo \cup {cur}
    BY <1>2, ProcsAssumption
  <2> QED
    BY <2>1, <1>1, StillNumbers
<1>4. Ebbs
  BY <1>1, StillGroup, Zenon
<1>5. StrangersSpared' /\ TermOnce'
  BY <1>1 DEF SendInv, TermInv, StrangersSpared, TermOnce, Flag, PidfdOpens
<1> QED
  BY <1>1, <1>3, <1>4, <1>5, SettledKeeps

(* signal_group answers. *)
LEMMA SentKeeps ==
  ASSUME IInv, NEW answer, Sent(answer), UNCHANGED <<ctl, host>>, pc \in Holding \ {"look"},
         answer = "ok" /\ sig = "kill" => MembersDown
  PROVE  IInv'
<1> USE DEF IInv
<1>1. /\ Still /\ outcome' = answer /\ pc' = "sent" /\ todo' = {} /\ UNCHANGED <<sig, cur, held>>
      /\ UNCHANGED <<reaper, taker, life, missed, terms, struck>>
  BY DEF Sent, Quietly, Still
<1>2. Ebbs
  BY <1>1, StillGroup, Zenon
<1>3. KernelShape' /\ NumberInv'
  BY <1>1, StillNumbers, Zenon
<1>4. CallShape'
  BY <1>1, Zenon DEF CallShape, ctl
<1>5. SendInv' /\ TermInv'
  BY <1>1, Zenon DEF SendInv, StrangersSpared, TermInv, TermOnce, Flag, PidfdOpens
<1>6. HoldInv'
  BY <1>1, InHold, Zenon DEF Holding
<1>7. PassDown' /\ CallDown'
  BY <1>1 DEF PassDown, CallDown, MembersDown, Settling
<1>8. Known'
  BY <1>2, KnownKept, Zenon DEF DownInv, ctl
<1> QED
  BY <1>3, <1>4, <1>5, <1>6, <1>7, <1>8 DEF DownInv

(* The group's own signal, and the leader's: the first SIGTERM of the call. *)
LEMMA GroupSent ==
  ASSUME IInv, NEW S, Take(S, sig), pc \in {"send", "killpg", "direct"}, UNCHANGED <<ctl, host, pass>>,
         pc' \in {"direct", "list"}, Stranger \in S => fresh /\ ~Flag /\ taker # Nobody,
         pc' = "direct" => S \ Refusers = {}
  PROVE  IInv'
<1> USE DEF IInv
<1>1. UNCHANGED <<todo, cur, sig, refused, unassessable, outcome>>
  BY DEF pass
<1>2. KernelShape' /\ NumberInv' /\ Ebbs
  BY <1>1, TakingNumbers, Zenon
<1>3. /\ UNCHANGED <<reaper, taker, held, missed, fresh>>
      /\ Stranger \notin S => struck' = struck
      /\ Stranger \in S => struck' = IF fresh THEN "window" ELSE "stale"
  BY Taking, Zenon
<1>4. CallShape'
  BY <1>1, Zenon DEF CallShape, ctl
<1>5. SendInv'
  BY <1>1, <1>3, Zenon DEF SendInv, StrangersSpared, Flag, PidfdOpens
<1>6. HoldInv'
  BY <1>3, InHold, Zenon DEF Holding
<1>7. TermInv'
  <2>1. \A p \in Procs : terms[p] \in Nat /\ terms[p] <= 1 /\ (sig = "term" => terms[p] = 0)
    BY Zenon DEF TermInv, TermOnce, KernelShape
  <2>2. \A p \in Procs : /\ sig # "term" => terms'[p] = terms[p]
                         /\ p \notin S \ Refusers => terms'[p] = terms[p]
                         /\ terms'[p] <= terms[p] + 1
    BY Taking
  <2>3. sig = "kill" \/ sig = "term"
    BY Zenon DEF CallShape
  <2>4. \A p \in Procs : terms'[p] <= 1 /\ (sig = "term" /\ pc' = "direct" => terms'[p] = 0)
    BY <2>1, <2>2, <2>3
  <2> QED
    BY <2>4, <1>1, Zenon DEF TermInv, TermOnce
<1>8. PassDown' /\ CallDown'
  BY <1>1 DEF PassDown, CallDown, Settling
<1>9. Known'
  BY <1>2, KnownKept, Zenon DEF DownInv, ctl
<1> QED
  BY <1>2, <1>4, <1>5, <1>6, <1>7, <1>8, <1>9 DEF DownInv

(* root_check_before_send: an ok is of a number nobody has taken. *)
LEMMA RootCheckKeeps ==
  ASSUME IInv, NEW next, RootCheckBeforeSend(next), UNCHANGED <<ctl, host>>,
         (pc = "pinned" /\ next = "pidfd_send") \/ (pc = "root" /\ next = "identity")
  PROVE  IInv'
<1> USE DEF IInv
<1>1. pc \in Settling \ {"member"}
  BY Zenon DEF Settling
<1>2. CASE "ok" \in RootChecks /\ Goto(next)
  <2>1. cur # Stranger
    BY <1>2, TakenNeverOk DEF NumberInv
  <2>2. (next = "identity" /\ sig = "kill" => ~PidfdOpens) /\ (pc = "pinned" => sig = "kill")
    BY Zenon DEF SendInv
  <2> QED
    BY <1>1, <1>2, <2>1, <2>2, GotoKeeps, Zenon
<1>3. CASE "Empty" \in RootChecks /\ Settled("Yes") /\ Quietly
  <2>1. cur \in Members \ missed => life[cur] # "alive"
    BY <1>3, EmptyIsEmpty, EmptyDown, Zenon DEF MembersDown
  <2> QED
    BY <1>1, <1>3, <2>1, SettledQuietly
<1>4. CASE "Unproven" \in RootChecks /\ Settled("Unknown") /\ Quietly
  BY <1>1, <1>4, SettledQuietly, Zenon
<1> QED
  BY <1>2, <1>3, <1>4 DEF RootCheckBeforeSend

(* A resend to a member: it is settled as reached only if the signal took it. *)
LEMMA ResendKeeps ==
  ASSUME IInv, NEW S, Take(S, "kill"), AfterAnswer(S), UNCHANGED <<ctl, host>>,
         pc \in {"pidfd_send", "number"}, sig = "kill",
         S \subseteq {cur, Stranger},
         Stranger \in S => fresh /\ ~PidfdOpens /\ taker # Nobody,
         cur \in Members /\ life[cur] = "alive" => S = {cur}
  PROVE  IInv'
<1> USE DEF IInv
<1>1. Stranger \in todo' \cup {cur'} => Stranger \in todo \cup {cur}
  BY ProcsAssumption, Zenon DEF AfterAnswer, Settled, pass
<1>2. KernelShape' /\ NumberInv' /\ Ebbs
  BY <1>1, TakingNumbers, Zenon
<1>3. /\ UNCHANGED <<reaper, taker, held, missed, fresh>>
      /\ Stranger \notin S => struck' = struck
      /\ Stranger \in S => struck' = IF fresh THEN "window" ELSE "stale"
  BY Taking, Zenon
<1>4. \A p \in Procs : terms'[p] = terms[p] /\ (life'[p] = "alive" => life[p] = "alive" /\ p \notin S \ Refusers)
  BY Taking
<1>5. StrangersSpared'
  BY <1>3, Zenon DEF SendInv, StrangersSpared, Flag, PidfdOpens
<1>6. TermOnce'
  BY <1>4 DEF TermInv, TermOnce
<1>7. CASE Verdict(S) = "No"
  <2>1. pc' = "reconfirm" /\ UNCHANGED <<todo, cur, sig, refused, unassessable, outcome>>
    BY <1>7, Zenon DEF AfterAnswer, pass
  <2>2. CallShape'
    BY <2>1, Zenon DEF CallShape, ctl
  <2>3. SendInv'
    BY <2>1, <1>5, Zenon DEF SendInv
  <2>4. HoldInv'
    BY <2>1, <1>3, InHold, Zenon DEF Holding, Settling
  <2>5. TermInv'
    BY <2>1, <1>6, Zenon DEF TermInv
  <2>6. PassDown'
    BY <2>1, <1>2, <1>3, Zenon DEF DownInv, PassDown, Ebbs, Settling
  <2>7. CallDown'
    BY <2>1, Zenon DEF CallDown
  <2>8. Known'
    BY <1>2, KnownKept, Zenon DEF DownInv, ctl
  <2> QED
    BY <1>2, <2>2, <2>3, <2>4, <2>5, <2>6, <2>7, <2>8, Zenon DEF DownInv
<1>8. CASE Verdict(S) # "No"
  <2>1. Verdict(S) = "Yes" /\ Settled("Yes")
    BY <1>8, Zenon DEF AfterAnswer, Verdict
  <2>2. cur \in Members \ missed => life'[cur] # "alive"
    <3> SUFFICES ASSUME cur \in Members, life'[cur] = "alive" PROVE FALSE
      BY Zenon
    <3>1. cur \in Procs /\ life[cur] = "alive" /\ cur \notin S \ Refusers
      BY <1>4, Zenon DEF Procs
    <3>2. S = {cur}
      BY <3>1, Zenon
    <3> QED
      BY <2>1, <3>1, <3>2, Zenon DEF Verdict
  <2>3. pc \in Settling \ {"member"}
    BY DEF Settling
  <2> QED
    BY <1>2, <1>3, <1>5, <1>6, <2>1, <2>2, <2>3, SettledKeeps, Zenon
<1> QED
  BY <1>7, <1>8, Zenon

(* A member asked by its number: its own, or one that changed hands since. *)
LEMMA NumberReaches ==
  ASSUME IInv, pc = "number"
  PROVE  /\ NumberTarget \subseteq {cur, Stranger}
         /\ Stranger \in NumberTarget => taker = cur /\ fresh
         /\ cur \in Procs /\ cur # Stranger
         /\ life[cur] = "alive" => NumberTarget = {cur}
<1>1. cur # Stranger /\ cur # Nobody /\ (taker = cur => fresh)
  BY DEF IInv, SendInv
<1>2. cur \in Procs
  BY <1>1 DEF IInv, CallShape
<1>3. NumberTarget = {Holder(cur)} \ {Nobody}
  BY <1>1 DEF NumberTarget
<1>4. /\ life[cur] \in Unreaped => Holder(cur) = cur
      /\ life[cur] \notin Unreaped => Holder(cur) = IF taker = cur THEN Stranger ELSE Nobody
  BY Zenon DEF Holder
<1>5. CASE life[cur] \in Unreaped
  BY <1>1, <1>2, <1>3, <1>4, <1>5, ProcsAssumption, Zenon
<1>6. CASE life[cur] \notin Unreaped
  <2>1. life[cur] # "alive"
    BY <1>6 DEF Unreaped
  <2> QED
    BY <1>1, <1>2, <1>3, <1>4, <1>6, <2>1, ProcsAssumption
<1> QED
  BY <1>5, <1>6

(* Every step of the group send keeps the invariant. *)
LEMMA SignalGroupKeeps ==
  ASSUME IInv, SignalGroup, UNCHANGED <<ctl, host>> PROVE IInv'
<1> USE DEF IInv
<1>1. CASE SendThroughPidfd
  <2>1. pc = "send" /\ Take(InGroup, sig) /\ UNCHANGED pass
    BY <1>1 DEF SendThroughPidfd
  <2>2. PICK a \in Answers(InGroup) : pc' = AfterSend(a)
    BY <1>1 DEF SendThroughPidfd
  <2>3. pc' \in {"direct", "list"} /\ (pc' = "direct" => InGroup \ Refusers = {})
    BY <2>2 DEF AfterSend, Answers
  <2>4. Stranger \notin InGroup
    BY ProcsAssumption, Zenon DEF InGroup
  <2> QED
    BY <2>1, <2>3, <2>4, GroupSent
<1>2. CASE FlagRefused
  BY <1>2, GotoKeeps, Zenon DEF FlagRefused
<1>3. CASE CheckBeforeKillpg
  <2>1. CASE "ok" \in RootChecks /\ Goto("killpg")
    <3>1. taker # Root /\ ~Flag /\ pc = "check"
      BY <2>1, <1>3, TakenNeverOk, Zenon DEF CheckBeforeKillpg, SendInv
    <3> QED
      BY <2>1, <3>1, GotoKeeps
  <2>2. CASE Sent("unassessable")
    BY <2>2, <1>3, SentKeeps, Zenon DEF CheckBeforeKillpg, Holding
  <2> QED
    BY <1>3, <2>1, <2>2, Zenon DEF CheckBeforeKillpg
<1>4. CASE Killpg
  <2>1. pc = "killpg" /\ Take(GroupOfNumber, sig) /\ UNCHANGED pass /\ ~Flag
    BY <1>4 DEF Killpg, SendInv
  <2>2. PICK a \in Answers(GroupOfNumber) : pc' = AfterSend(a)
    BY <1>4 DEF Killpg
  <2>3. pc' \in {"direct", "list"} /\ (pc' = "direct" => GroupOfNumber \ Refusers = {})
    BY <2>2, Zenon DEF AfterSend, Answers
  <2>4. Stranger \in GroupOfNumber => taker = Root
    BY ProcsAssumption DEF GroupOfNumber, InGroup
  <2>5. Stranger \in GroupOfNumber => fresh /\ taker # Nobody
    BY <2>1, <2>4, ProcsAssumption, Zenon DEF SendInv, Procs
  <2> QED
    BY <2>1, <2>3, <2>5, GroupSent, Zenon
<1>5. CASE SignalDirect
  <2> DEFINE S == IF life[Root] \in Unreaped THEN {Root} ELSE {}
  <2>1. pc = "direct" /\ Take(S, sig) /\ UNCHANGED pass /\ pc' = "list"
    BY <1>5 DEF SignalDirect
  <2>2. Stranger \notin S
    BY ProcsAssumption DEF Procs
  <2> HIDE DEF S
  <2> QED
    BY <2>1, <2>2, GroupSent
<1>6. CASE List
  <2> PICK skipped \in SUBSET Hidden : Listed(GroupOfNumber, skipped)
    BY <1>6 DEF List
  <2>1. /\ pc = "list" /\ todo' = GroupOfNumber \ skipped /\ pc' = "member"
        /\ missed' = (IF tree_killed THEN missed ELSE skipped \cap Members)
        /\ UNCHANGED <<life, reaper, away, taker, leads, held, terms, fresh, struck, sig, cur, outcome>>
    BY DEF Listed
  <2>2. InGroup' = InGroup
    BY <2>1, Zenon DEF InGroup
  <2>3. GroupOfNumber \subseteq Procs \cup {Stranger} /\ (Stranger \in GroupOfNumber => taker = Root)
    BY ProcsAssumption, Zenon DEF GroupOfNumber, InGroup
  <2>4. KernelShape'
    BY <2>1, Zenon DEF KernelShape
  <2>5. NumberInv'
    BY <2>1, <2>2, <2>3, Zenon DEF NumberInv
  <2>6. CallShape'
    BY <2>1, <2>3, Zenon DEF CallShape, ctl
  <2>7. SendInv' /\ TermInv'
    BY <2>1, Zenon DEF SendInv, StrangersSpared, TermInv, TermOnce, Flag, PidfdOpens
  <2>8. HoldInv'
    BY <2>1, InHold DEF Holding, Settling
  <2>9. \A p \in Members : life[p] = "alive" => p \in GroupOfNumber
    <3>1. \A p \in Members : life[p] = "alive" => p \in InGroup
      BY ProcsAssumption DEF InGroup, Unreaped, Procs
    <3>2. taker = Root => InGroup = {}
      BY Zenon DEF NumberInv
    <3> QED
      BY <3>1, <3>2, Zenon DEF GroupOfNumber
  <2>10. PassDown' /\ CallDown'
    <3>1. \A p \in Members \ missed' : life[p] = "alive" => p \in todo'
      <4>1. CASE tree_killed
        BY <4>1, <2>1, Zenon DEF DownInv, Known, MembersDown
      <4>2. CASE ~tree_killed
        BY <4>2, <2>1, <2>9
      <4> QED
        BY <4>1, <4>2
    <3> QED
      BY <2>1, <3>1, Zenon DEF PassDown, CallDown, Settling
  <2>11. Known'
    BY <2>1, Zenon DEF DownInv, Known, MembersDown, ctl
  <2> QED
    BY <2>4, <2>5, <2>6, <2>7, <2>8, <2>10, <2>11, Zenon DEF DownInv
<1>7. CASE ListFails
  BY <1>7, SentKeeps, Zenon DEF ListFails, Holding
<1>8. ASSUME NEW p \in Procs \cup {Stranger}, NextMember(p) PROVE IInv'
  <2>1. /\ Still /\ fresh' = FALSE /\ pc = "member" /\ p \in todo
        /\ UNCHANGED <<held, sig, refused, unassessable, outcome, reaper, taker, life, missed, terms, struck>>
    BY <1>8, Zenon DEF NextMember, Quietly, Still
  <2>2. \/ IsDead(p) /\ todo' = todo \ {p} /\ pc' = "member" /\ cur' = cur
        \/ cur' = p /\ pc' = (IF sig = "kill" THEN "pin" ELSE "root") /\ todo' = todo
    BY <1>8, <2>1, Zenon DEF NextMember
  <2>3. KernelShape' /\ NumberInv'
    BY <2>1, <2>2, StillNumbers
  <2>4. Ebbs
    BY <2>1, StillGroup, Zenon
  <2>5. CallShape'
    BY <2>1, <2>2, Zenon DEF CallShape, ctl
  <2>6. SendInv'
    BY <2>1, <2>2, Zenon DEF SendInv, StrangersSpared, Flag, PidfdOpens
  <2>7. TermInv'
    BY <2>1, <2>2, Zenon DEF TermInv, TermOnce
  <2>8. HoldInv'
    <3>1. pc \in Holding \ {"look"} /\ pc' \in Holding \ {"look"}
      BY <2>1, <2>2, Zenon DEF Holding, Settling
    <3> QED
      BY <3>1, <2>1, InHold, Zenon
  <2>9. PassDown'
    BY <2>1, <2>2, Zenon DEF DownInv, PassDown, Settling, IsDead
  <2>10. CallDown'
    BY <2>2 DEF CallDown
  <2>11. Known'
    BY <2>4, KnownKept, Zenon DEF DownInv, ctl
  <2> QED
    BY <2>3, <2>5, <2>6, <2>7, <2>8, <2>9, <2>10, <2>11, Zenon DEF DownInv
<1>9. CASE Pin
  <2>1. pc = "pin" /\ pc \in Settling \ {"member"}
    BY <1>9, Zenon DEF Pin, Settling
  <2>2. CASE IsDead(cur) /\ Settled("Yes") /\ Quietly
    BY <2>1, <2>2, SettledQuietly, Zenon DEF IsDead
  <2>3. CASE PidfdOpens /\ Goto("pinned")
    BY <2>1, <2>3, GotoKeeps, Zenon DEF SendInv
  <2>4. CASE ~PidfdOpens /\ Goto("root")
    BY <2>1, <2>4, GotoKeeps, Zenon
  <2>5. CASE Settled("Unknown") /\ Quietly
    BY <2>1, <2>5, SettledQuietly, Zenon
  <2> QED
    BY <1>9, <2>2, <2>3, <2>4, <2>5, Zenon DEF Pin
<1>10. CASE CheckPinned
  BY <1>10, RootCheckKeeps, Zenon DEF CheckPinned
<1>11. CASE SendMemberPidfd
  <2>1. pc = "pidfd_send" /\ Take(PinnedTarget, "kill") /\ AfterAnswer(PinnedTarget)
    BY <1>11 DEF SendMemberPidfd
  <2>2. cur # Stranger /\ sig = "kill"
    BY <2>1 DEF SendInv
  <2>3. PinnedTarget \subseteq {cur} /\ (life[cur] = "alive" => PinnedTarget = {cur})
    BY DEF PinnedTarget, Unreaped
  <2> QED
    BY <2>1, <2>2, <2>3, ResendKeeps
<1>12. CASE CheckRoot
  BY <1>12, RootCheckKeeps, Zenon DEF CheckRoot
<1>13. CASE CheckIdentity
  <2>1. pc = "identity" /\ pc \in Settling \ {"member"} /\ cur # Stranger /\ cur # Nobody
    BY <1>13, Zenon DEF CheckIdentity, Settling, SendInv
  <2>2. NumberTarget = {Holder(cur)} \ {Nobody} /\ cur \in Procs
    BY <2>1, Zenon DEF NumberTarget, CallShape
  <2>3. CASE NumberTarget = {cur} /\ Goto("number")
    <3>1. Holder(cur) = cur
      BY <2>2, <2>3
    <3>2. life[cur] # "reaped"
      BY <3>1, <2>1, Zenon DEF Holder, Unreaped
    <3>3. taker # cur
      BY <3>2, <2>1 DEF NumberInv
    <3>4. sig = "kill" => ~PidfdOpens
      BY <2>1, Zenon DEF SendInv
    <3> QED
      BY <2>1, <2>3, <3>3, <3>4, GotoKeeps
  <2>4. CASE NumberTarget # {cur} /\ Settled("Yes") /\ Quietly
    <3>1. life[cur] # "alive"
      BY <2>1, <2>2, <2>4, Zenon DEF Holder, Unreaped
    <3> QED
      BY <2>1, <2>4, <3>1, SettledQuietly, Zenon
  <2>5. CASE Settled("Unknown") /\ Quietly
    BY <2>1, <2>5, SettledQuietly, Zenon
  <2> QED
    BY <1>13, <2>3, <2>4, <2>5, Zenon DEF CheckIdentity
<1>14. CASE SendByNumber
  <2>1. pc = "number" /\ AfterAnswer(NumberTarget)
    BY <1>14, Zenon DEF SendByNumber
  <2>2. /\ NumberTarget \subseteq {cur, Stranger}
        /\ Stranger \in NumberTarget => taker = cur /\ fresh
        /\ cur \in Procs /\ cur # Stranger
        /\ life[cur] = "alive" => NumberTarget = {cur}
    BY <2>1, NumberReaches, Zenon
  <2>3. CASE sig = "kill"
    <3>1. Take(NumberTarget, "kill") /\ ~PidfdOpens
      BY <1>14, <2>1, <2>3, Zenon DEF SendByNumber, SendInv
    <3>2. Stranger \in NumberTarget => fresh /\ ~PidfdOpens /\ taker # Nobody
      BY <2>2, <3>1, ProcsAssumption, Zenon
    <3> QED
      BY <2>1, <2>2, <2>3, <3>1, <3>2, ResendKeeps, Zenon
  <2>4. CASE sig # "kill"
    <3>1. Quietly
      BY <1>14, <2>4, Zenon DEF SendByNumber
    <3>2. CASE Verdict(NumberTarget) = "No"
      <4>1. Goto("reconfirm")
        BY <2>1, <3>1, <3>2, Zenon DEF AfterAnswer, Goto
      <4> QED
        BY <2>1, <4>1, GotoKeeps DEF Settling
    <3>3. CASE Verdict(NumberTarget) # "No"
      <4>1. Settled("Yes")
        BY <2>1, <3>3, Zenon DEF AfterAnswer, Verdict
      <4> QED
        BY <2>1, <2>4, <3>1, <4>1, SettledQuietly, Zenon DEF Settling
    <3> QED
      BY <3>2, <3>3
  <2> QED
    BY <2>3, <2>4
<1>15. CASE Reconfirm
  <2>1. pc \in Settling \ {"member"} /\ Quietly
    BY <1>15, Zenon DEF Reconfirm, Settling
  <2>2. CASE IsDead(cur) /\ Settled("Yes")
    BY <2>1, <2>2, SettledQuietly, Zenon DEF IsDead
  <2>3. CASE Settled("No")
    BY <2>1, <2>3, SettledQuietly, Zenon
  <2> QED
    BY <1>15, <2>2, <2>3 DEF Reconfirm
<1>16. CASE Decide
  <2> DEFINE answer == IF refused # {} THEN "containment" ELSE IF unassessable # {} THEN "unassessable" ELSE "ok"
  <2>1. pc = "member" /\ todo = {} /\ Sent(answer)
    BY <1>16, Zenon DEF Decide
  <2>2. answer = "ok" /\ sig = "kill" => MembersDown
    BY <2>1 DEF DownInv, PassDown, MembersDown, Settling
  <2> HIDE DEF answer
  <2>3. pc \in Holding \ {"look"}
    BY <2>1, Zenon DEF Holding, Settling
  <2> QED
    BY <2>1, <2>2, <2>3, SentKeeps
<1> QED
  BY <1>1, <1>2, <1>3, <1>4, <1>5, <1>6, <1>7, <1>8, <1>9, <1>10, <1>11, <1>12, <1>13, <1>14, <1>15, <1>16, Zenon
     DEF SignalGroup

-----------------------------------------------------------------------------
(* The calls                                                               *)

(* Where a call is after its looks and its group signal. *)
Outside == {"idle", "send", "grace", "wait", "dropped", "best_effort", "root_term", "failed", "root_kill", "backstop",
            "skipped", "swept", "sweep_failed", "root_grace", "last_look"}

(* A step there that leaves the tree alone. *)
LEMMA OutsideKeeps ==
  ASSUME IInv, Still, UNCHANGED <<pass, call, calls, history>>, pc # "idle", pc' \in Outside,
         pc' = "send" => held' /\ pc = "decided",
         pc' = "root_term" => pc = "decided" /\ sig = "term",
         pc' \in {"dropped", "last_look"} => call = "drop",
         CallDown', Known'
  PROVE  IInv'
<1> USE DEF IInv
<1>1. UNCHANGED <<todo, cur, sig, refused, unassessable, outcome, looked, other_waited>>
  BY Zenon DEF pass, history
<1>2. KernelShape' /\ NumberInv'
  BY <1>1, StillNumbers, Zenon
<1>3. CallShape'
  BY <1>1, Zenon DEF CallShape
<1>4. SendInv'
  BY <1>1, Zenon DEF SendInv, StrangersSpared, Flag, PidfdOpens, Still, Outside
<1>5. HoldInv'
  BY <1>1, Zenon DEF HoldInv, Still, Outside, Holding, Settling
<1>6. TermInv'
  BY <1>1, Zenon DEF TermInv, TermOnce, Still, Outside
<1>7. PassDown'
  BY Zenon DEF PassDown, Outside, Settling
<1> QED
  BY <1>2, <1>3, <1>4, <1>5, <1>6, <1>7, Zenon DEF DownInv

(* A step that only moves the call on, and its hold with it, keeps the invariant. *)
LEMMA StepKeeps ==
  ASSUME IInv, NEW next, NEW on, Step(next, on), host' = host, pc # "idle",
         next \in {"send", "grace", "wait", "dropped", "best_effort", "root_term", "failed", "root_kill"},
         next = "send" => on /\ pc = "decided",
         next = "root_term" => pc = "decided" /\ sig = "term",
         next = "dropped" => call = "drop",
         next = "wait" => tree_killed
  PROVE  IInv'
<1>1. Still /\ pc' = next /\ held' = on /\ UNCHANGED <<pass, call, calls, history, tree_killed, result>>
  BY Zenon DEF Step, WithHold, Still, ctl
<1>2. Known'
  BY <1>1, StillGroup, KnownKept, Zenon DEF IInv, DownInv
<1>3. CallDown'
  BY <1>1, Zenon DEF CallDown
<1>4. pc' \in Outside
  BY <1>1, Zenon DEF Outside
<1> QED
  BY <1>1, <1>2, <1>3, <1>4, OutsideKeeps, Zenon

(* The end of a call keeps the invariant. *)
LEMMA FinishKeeps ==
  ASSUME IInv, NEW answer, Finish(answer), host' = host, pc # "idle",
         answer = "ok" /\ call \in {"kill_tree", "graceful_shutdown_tree"} => tree_killed /\ life[Root] # "alive"
  PROVE  IInv'
<1>1. /\ Still /\ pc' = "idle" /\ result' = answer /\ tree_killed' = (tree_killed \/ FALSE)
      /\ UNCHANGED <<pass, call, calls, history, life, missed>>
  BY DEF Finish, Return, WithHold, Still
<1>2. Known'
  BY <1>1, Zenon DEF IInv, DownInv, Known, MembersDown
<1>3. CallDown'
  BY <1>1, Zenon DEF CallDown
<1>4. pc' \in Outside
  BY <1>1, Zenon DEF Outside
<1> QED
  BY <1>1, <1>2, <1>3, <1>4, OutsideKeeps, Zenon

(* The root's own signal, through its handle. *)
LEMMA RootSignalKeeps ==
  ASSUME IInv, NEW s \in {"kill", "term"}, Take(RootTarget, s), UNCHANGED <<pass, ctl, host>>, pc # "idle",
         pc' \in {"skipped", "swept", "sweep_failed", "root_grace", "failed", "wait", "last_look"},
         s = "term" => \A p \in Procs : terms[p] = 0,
         pc' = "swept" => tree_killed /\ RootTarget \cap Refusers = {} /\ s = "kill",
         pc' \in {"wait", "last_look"} => call = "drop"
  PROVE  IInv'
<1> USE DEF IInv
<1>1. UNCHANGED <<todo, cur, sig, refused, unassessable, outcome, call, calls, looked, other_waited, tree_killed, result>>
  BY Zenon DEF pass, ctl, history
<1>2. Stranger \notin RootTarget /\ Root \in Procs
  BY ProcsAssumption, Zenon DEF RootTarget, Procs
<1>3. KernelShape' /\ NumberInv' /\ Ebbs
  BY <1>1, <1>2, TakingNumbers, Zenon
<1>4. UNCHANGED <<reaper, taker, held, missed, fresh, struck>>
  BY <1>2, Taking, Zenon
<1>5. CallShape'
  BY <1>1, Zenon DEF CallShape
<1>6. SendInv'
  BY <1>1, <1>4, Zenon DEF SendInv, StrangersSpared, Flag, PidfdOpens
<1>7. HoldInv'
  BY <1>1, <1>4, Zenon DEF HoldInv, Holding, Settling
<1>8. TermInv'
  <2>1. \A p \in Procs : terms[p] \in Nat /\ terms[p] <= 1
    BY DEF TermInv, TermOnce, KernelShape
  <2>2. \A p \in Procs : (s # "term" => terms'[p] = terms[p]) /\ terms'[p] <= terms[p] + 1
    BY Taking, Zenon
  <2>3. \A p \in Procs : terms'[p] <= 1
    BY <2>1, <2>2
  <2> QED
    BY <2>3, Zenon DEF TermInv, TermOnce
<1>9. PassDown'
  BY Zenon DEF PassDown, Settling
<1>10. Known'
  BY <1>1, <1>3, KnownKept, Zenon DEF DownInv
<1>11. pc' = "swept" => life'[Root] # "alive"
  <2> SUFFICES ASSUME pc' = "swept", life'[Root] = "alive" PROVE FALSE
    BY Zenon
  <2>1. life[Root] = "alive" /\ Root \notin RootTarget \ Refusers
    BY <1>2, Taking, Zenon
  <2>2. Root \in RootTarget
    BY <2>1, Zenon DEF RootTarget, Unreaped
  <2> QED
    BY <2>1, <2>2, Zenon
<1>12. CallDown'
  BY <1>1, <1>11, Zenon DEF CallDown
<1> QED
  BY <1>3, <1>5, <1>6, <1>7, <1>8, <1>9, <1>10, <1>12, Zenon DEF DownInv

(* wait: the root is reaped, and the call is over. *)
LEMMA WaitEndsKeeps ==
  ASSUME IInv, NEW answer, WaitEnds(answer), host' = host, pc \in {"wait", "best_effort", "last_look"},
         answer = "ok" /\ call \in {"kill_tree", "graceful_shutdown_tree"} => tree_killed
  PROVE  IInv'
<1> USE DEF IInv
<1>0. Root \in Procs /\ Members \subseteq Procs /\ Nobody \notin Procs
  BY ProcsAssumption, Zenon DEF Procs
<1>1. /\ pc' = "idle" /\ (result' = answer \/ result' = "error") /\ tree_killed' = (tree_killed \/ FALSE)
      /\ UNCHANGED <<todo, cur, sig, refused, unassessable, outcome, call, calls, looked, other_waited>>
  BY Zenon DEF WaitEnds, Return, pass, history
<1>2. CallShape' /\ PassDown' /\ CallDown'
  BY <1>1 DEF CallShape, PassDown, CallDown, Settling
<1>3. calls # 0
  BY Zenon DEF HoldInv
<1>4. CASE ReapsRoot("own") /\ UNCHANGED <<away, taker, leads, held, missed, terms, fresh, struck>>
  <2>1. /\ life[Root] = "zombie" /\ Becomes(Root, "reaped") /\ reaper' = "own"
        /\ UNCHANGED <<away, taker, leads, held, missed, terms, fresh, struck>>
    BY <1>4, Zenon DEF ReapsRoot
  <2>2. /\ life' \in [Procs -> {"unborn", "alive", "doomed", "zombie", "reaped"}]
        /\ life'[Root] = "reaped" /\ \A q \in Procs \ {Root} : life'[q] = life[q]
    BY <2>1, <1>0, Stage, Zenon
  <2>3. InGroup = {} => InGroup' = {}
    BY <2>1, <2>2, Zenon DEF InGroup, Unreaped
  <2>4. taker # Root
    BY <2>1, <1>0, Zenon DEF NumberInv
  <2>5. KernelShape' /\ NumberInv'
    BY <1>1, <2>1, <2>2, <2>3, <2>4, <1>0, Zenon DEF KernelShape, NumberInv
  <2>6. SendInv' /\ TermInv'
    BY <1>1, <2>1, Zenon DEF SendInv, StrangersSpared, TermInv, TermOnce, Flag, PidfdOpens
  <2>7. HoldInv'
    BY <1>1, <1>3, <2>1, <2>4 DEF HoldInv, Holding, Settling
  <2>8. Known'
    BY <1>1, <2>1, <2>2, <1>0, Zenon DEF DownInv, Known, MembersDown
  <2> QED
    BY <1>2, <2>5, <2>6, <2>7, <2>8, Zenon DEF DownInv
<1>5. CASE RootReaped /\ UNCHANGED kernel
  <2>1. Still /\ UNCHANGED <<held, fresh, life, missed, terms, struck, taker, reaper>> /\ life[Root] = "reaped"
    BY <1>5, Zenon DEF kernel, Still, RootReaped
  <2>2. KernelShape' /\ NumberInv'
    BY <1>1, <2>1, StillNumbers, Zenon
  <2>3. SendInv' /\ TermInv'
    BY <1>1, <2>1, Zenon DEF SendInv, StrangersSpared, TermInv, TermOnce, Flag, PidfdOpens
  <2>4. HoldInv'
    BY <1>1, <1>3, <2>1 DEF HoldInv, Holding, Settling
  <2>5. Known'
    BY <1>1, <2>1, Zenon DEF DownInv, Known, MembersDown
  <2> QED
    BY <1>2, <2>2, <2>3, <2>4, <2>5 DEF DownInv
<1> QED
  BY <1>4, <1>5, Zenon DEF WaitEnds

(* The look: what it allows is true of the root, and the hold keeps it so. *)
LEMMA LookedKeeps ==
  ASSUME IInv, NEW num, NEW ex, NEW leave, Looked(num, ex, leave), host' = host, pc = "look",
         num = "MayNameAnother" /\ ~ex => RootReaped,
         num \in {"Empty", "GroupGone"} => InGroup = {} /\ RootReaped
  PROVE  IInv'
<1> USE DEF IInv
<1>1. /\ Still /\ number' = num /\ exact' = ex /\ looked' = reaper
      /\ pc' = (IF num = "MayNameAnother" THEN "probe" ELSE "decided")
      /\ UNCHANGED <<held, reaper, taker, life, missed, terms, struck, todo, cur, sig, refused, unassessable, outcome,
                     call, tree_killed, result, calls, other_waited>>
  BY Zenon DEF Looked, Quietly, Still, pass
<1>2. InGroup' = InGroup /\ Ebbs
  BY <1>1, StillGroup, Zenon
<1>3. KernelShape' /\ NumberInv'
  BY <1>1, StillNumbers, Zenon
<1>4. CallShape' /\ PassDown'
  BY <1>1, Zenon DEF CallShape, PassDown, Settling
<1>5. SendInv' /\ TermInv'
  BY <1>1, Zenon DEF SendInv, StrangersSpared, TermInv, TermOnce, Flag, PidfdOpens
<1>6. HoldInv'
  BY <1>1, Zenon DEF HoldInv, Holding, Settling
<1>7. CallDown'
  BY <1>1, <1>2, Zenon DEF CallDown, RootReaped
<1>8. Known'
  BY <1>1, <1>2, KnownKept, Zenon DEF DownInv
<1> QED
  BY <1>3, <1>4, <1>5, <1>6, <1>7, <1>8, Zenon DEF DownInv

(* Begin, and the grace that ends: a call takes the hold before its look. *)
LEMMA BeginKeeps ==
  ASSUME IInv, NEW kind \in KindsOfCall, Begin(kind), host' = host PROVE IInv'
<1> USE DEF IInv
<1>1. /\ pc = "idle" /\ call' = kind /\ calls' = calls + 1 /\ pc' = "look" /\ result' = "none" /\ held' = TRUE
      /\ sig' = (IF kind \in {"kill_tree", "drop"} THEN "kill" ELSE "term")
      /\ terms' = [p \in Procs |-> 0]
      /\ UNCHANGED <<life, reaper, away, taker, leads, missed, fresh, struck, todo, cur, refused, unassessable, outcome,
                     tree_killed, looked, other_waited>>
  BY Zenon DEF Begin, BeginWith, history
<1>2. InGroup' = InGroup
  BY <1>1, Zenon DEF InGroup
<1>3. KernelShape' /\ NumberInv'
  BY <1>1, <1>2, Zenon DEF KernelShape, NumberInv
<1>4. CallShape' /\ PassDown' /\ CallDown'
  BY <1>1 DEF CallShape, PassDown, CallDown, Settling
<1>5. SendInv'
  BY <1>1, Zenon DEF SendInv, StrangersSpared, Flag, PidfdOpens
<1>6. TermInv'
  BY <1>1 DEF TermInv, TermOnce
<1>7. HoldInv'
  BY <1>1 DEF HoldInv, Holding, Settling, CallShape
<1>8. Known'
  BY <1>1, Zenon DEF DownInv, Known, MembersDown
<1> QED
  BY <1>3, <1>4, <1>5, <1>6, <1>7, <1>8, Zenon DEF DownInv

(* The grace period of graceful_shutdown_tree keeps the invariant. *)
LEMMA GraceKeeps ==
  ASSUME IInv, Grace, host' = host PROVE IInv'
<1> USE DEF IInv
<1>1. /\ pc = "grace" /\ sig' = "kill" /\ pc' = "look" /\ held' = TRUE /\ Still
      /\ UNCHANGED <<life, reaper, taker, missed, terms, struck, todo, cur, refused, unassessable, outcome, call, calls,
                     tree_killed, result, looked, other_waited>>
  BY Zenon DEF Grace, Sweeps, WithHold, Still, history
<1>2. KernelShape' /\ NumberInv'
  BY <1>1, StillNumbers, Zenon
<1>3. CallShape' /\ PassDown' /\ CallDown'
  BY <1>1, Zenon DEF CallShape, PassDown, CallDown, Settling
<1>4. SendInv' /\ TermInv'
  BY <1>1, Zenon DEF SendInv, StrangersSpared, TermInv, TermOnce, Flag, PidfdOpens
<1>5. HoldInv'
  BY <1>1, Zenon DEF HoldInv, Holding, Settling
<1>6. Known'
  BY <1>1, Zenon DEF DownInv, Known, MembersDown
<1> QED
  BY <1>2, <1>3, <1>4, <1>5, <1>6, Zenon DEF DownInv

(* Each look, and what follows from it. *)
LEMMA LooksKeep ==
  ASSUME IInv, Look \/ DropLook \/ ThroughThePidfd, host' = host PROVE IInv'
<1> USE DEF IInv
<1>0. life[Root] # "unborn" /\ (reaper = "nobody" <=> life[Root] # "reaped") /\ reaper \in {"nobody", "own", "elsewhere"}
  BY Zenon DEF NumberInv, KernelShape
<1>1. life[Root] \in {"alive", "doomed", "zombie", "reaped"}
  BY <1>0 DEF KernelShape, Procs
<1>2. CASE Look
  <2>1. PICK s \in RootStates :
          \/ s = "unreaped" /\ Looked("Trusted", FALSE, FALSE)
          \/ s = "own" /\ \E r \in RootReads :
               Looked(IF r = "Gone" THEN "Trusted" ELSE IF r = "Found" THEN "Empty" ELSE "MayNameAnother", FALSE, FALSE)
          \/ s \in {"elsewhere", "unknown"} /\ Looked("MayNameAnother", s = "unknown", FALSE)
    BY <1>2, Zenon DEF Look
  <2>2. pc = "look" /\ (s \in {"own", "elsewhere"} => RootReaped)
    BY <1>2, <1>0 DEF Look, RootStates, RootReaped
  <2>3. CASE s = "unreaped" /\ Looked("Trusted", FALSE, FALSE)
    BY <2>2, <2>3, LookedKeeps, Zenon
  <2>4. ASSUME s = "own", NEW r \in RootReads,
               Looked(IF r = "Gone" THEN "Trusted" ELSE IF r = "Found" THEN "Empty" ELSE "MayNameAnother", FALSE, FALSE)
        PROVE  IInv'
    <3> DEFINE num == IF r = "Gone" THEN "Trusted" ELSE IF r = "Found" THEN "Empty" ELSE "MayNameAnother"
    <3>1. r = "Found" => Holder(Root) # Nobody
      BY Zenon DEF RootReads
    <3>2. r = "Found" => taker = Root
      BY <3>1, <2>2, <2>4, Zenon DEF Holder, Unreaped, RootReaped
    <3>3. num = "Empty" => InGroup = {} /\ RootReaped
      BY <3>2, <2>2, <2>4 DEF NumberInv
    <3>4. num # "GroupGone" /\ Looked(num, FALSE, FALSE)
      BY <2>4, Zenon
    <3> HIDE DEF num
    <3> QED
      BY <2>2, <2>4, <3>3, <3>4, LookedKeeps, Zenon
  <2>5. CASE s \in {"elsewhere", "unknown"} /\ Looked("MayNameAnother", s = "unknown", FALSE)
    BY <2>2, <2>5, LookedKeeps, Zenon
  <2> QED
    BY <2>1, <2>3, <2>4, <2>5, Zenon
<1>3. CASE DropLook
  <2>1. PICK r \in RootReads, s \in RootStates :
          LET reaped == s \in {"own", "elsewhere"} \/ r = "Gone" \/ (r = "Found" /\ Holder(Root) # Root)
          IN  IF ~reaped /\ s = "unreaped" THEN Looked("Trusted", FALSE, FALSE)
              ELSE Looked("MayNameAnother", ~reaped, reaped)
    BY <1>3, Zenon DEF DropLook
  <2> DEFINE reaped == s \in {"own", "elsewhere"} \/ r = "Gone" \/ (r = "Found" /\ Holder(Root) # Root)
  <2>2. Looked("Trusted", FALSE, FALSE) \/ Looked("MayNameAnother", ~reaped, reaped)
    BY <2>1, Zenon
  <2>3. s \in {"own", "elsewhere"} => RootReaped
    BY <1>0 DEF RootStates, RootReaped
  <2>4. r = "Gone" => Holder(Root) = Nobody
    BY Zenon DEF RootReads
  <2>5. Holder(Root) # Root => RootReaped
    BY <1>1, Zenon DEF Holder, Unreaped, RootReaped
  <2>6. reaped => RootReaped
    BY <2>3, <2>4, <2>5, ProcsAssumption, Zenon DEF Procs
  <2>7. pc = "look"
    BY <1>3, Zenon DEF DropLook
  <2> HIDE DEF reaped
  <2> QED
    BY <2>2, <2>6, <2>7, LookedKeeps, Zenon
<1>4. CASE ThroughThePidfd
  <2>1. /\ pc = "probe" /\ pc' = "decided" /\ Still
        /\ number' = (IF pidfd_group_has_member = "true" THEN "Trusted"
                      ELSE IF pidfd_group_has_member = "false" /\ ~exact THEN "GroupGone" ELSE number)
        /\ UNCHANGED <<held, reaper, taker, life, missed, terms, struck, todo, cur, sig, refused, unassessable, outcome,
                       call, tree_killed, result, calls, looked, other_waited>>
    BY <1>4, Zenon DEF ThroughThePidfd, Quietly, Still, pass, history
  <2>2. InGroup' = InGroup /\ Ebbs
    BY <2>1, StillGroup, Zenon
  <2>3. KernelShape' /\ NumberInv'
    BY <2>1, StillNumbers, Zenon
  <2>4. CallShape' /\ PassDown'
    BY <2>1, Zenon DEF CallShape, PassDown, Settling
  <2>5. SendInv' /\ TermInv'
    BY <2>1, Zenon DEF SendInv, StrangersSpared, TermInv, TermOnce, Flag, PidfdOpens
  <2>6. HoldInv'
    BY <2>1, Zenon DEF HoldInv, Holding, Settling
  <2>7. number' \in {"Empty", "GroupGone"} => InGroup = {} /\ RootReaped
    BY <2>1, Zenon DEF DownInv, CallDown, pidfd_group_has_member
  <2>8. CallDown'
    BY <2>1, <2>2, <2>7, Zenon DEF CallDown, RootReaped
  <2>9. Known'
    BY <2>1, <2>2, KnownKept DEF DownInv
  <2> QED
    BY <2>3, <2>4, <2>5, <2>6, <2>8, <2>9, Zenon DEF DownInv
<1> QED
  BY <1>2, <1>3, <1>4, Zenon

(* Every step of a tree call keeps the invariant. *)
LEMMA CallStepKeeps ==
  ASSUME IInv, CallStep, host' = host PROVE IInv'
<1> USE DEF IInv
<1>1. CASE SignalGroup /\ UNCHANGED ctl
  BY <1>1, SignalGroupKeeps, Zenon
<1>2. CASE Look \/ DropLook \/ ThroughThePidfd
  BY <1>2, LooksKeep
<1>3. CASE SignalsTree
  <2>1. pc = "decided" /\ Step("send", held)
    BY <1>3, Zenon DEF SignalsTree
  <2>2. held
    BY <2>1 DEF HoldInv, Holding
  <2> QED
    BY <2>1, <2>2, StepKeeps, Zenon
<1>4. CASE NothingLeft
  <2>1. pc = "decided" /\ InGroup = {} /\ RootReaped
    BY <1>4, Zenon DEF NothingLeft, DownInv, CallDown
  <2>2. MembersDown /\ life[Root] # "alive"
    BY <2>1, EmptyDown, Zenon DEF RootReaped
  <2>3. CASE call \in {"kill_tree", "terminate_tree"} /\ Return("ok", sig = "kill") /\ WithHold(FALSE)
    <3>1. /\ Still /\ pc' = "idle" /\ result' = "ok" /\ tree_killed' = (tree_killed \/ sig = "kill")
          /\ UNCHANGED <<pass, call, calls, history, life, missed>>
      BY <2>3, Zenon DEF Return, WithHold, Still
    <3>2. call = "kill_tree" => sig = "kill"
      BY DEF CallShape
    <3>3. Known'
      BY <2>2, <2>3, <3>1, <3>2, Zenon DEF Known, MembersDown
    <3>4. CallDown' /\ pc' \in Outside
      BY <3>1 DEF CallDown, Outside
    <3> QED
      BY <2>1, <3>1, <3>3, <3>4, OutsideKeeps, Zenon
  <2>4. CASE InTerm /\ Step("grace", FALSE)
    BY <2>1, <2>4, StepKeeps, Zenon
  <2>5. CASE pc' = "wait" /\ tree_killed' = TRUE /\ WithHold(FALSE)
             /\ UNCHANGED <<pass, call, number, exact, alone, root_exited, watch_err, result, calls, history>>
    <3>1. Still /\ UNCHANGED <<life, missed>>
      BY <2>5, Zenon DEF WithHold, Still
    <3>2. Known'
      BY <2>2, <2>5, <3>1, Zenon DEF DownInv, Known, MembersDown
    <3>3. CallDown' /\ pc' \in Outside
      BY <2>5 DEF CallDown, Outside
    <3> QED
      BY <2>1, <2>5, <3>1, <3>2, <3>3, OutsideKeeps, Zenon
  <2>6. CASE call = "drop" /\ Step("dropped", FALSE)
    BY <2>1, <2>6, StepKeeps, Zenon
  <2> QED
    BY <1>4, <2>3, <2>4, <2>5, <2>6, Zenon DEF NothingLeft
<1>5. ASSUME pc # "idle", SweepFailed PROVE IInv'
  BY <1>5, StepKeeps, FinishKeeps, Zenon DEF SweepFailed
<1>6. CASE NumberSkipped
  <2>1. pc = "decided"
    BY <1>6, Zenon DEF NumberSkipped
  <2>2. CASE SweepFailed
    BY <1>5, <2>1, <2>2, Zenon
  <2>3. CASE Finish("error")
    BY <2>1, <2>3, FinishKeeps, Zenon
  <2>4. CASE Take(RootTarget, sig) /\ pc' = "skipped" /\ UNCHANGED <<pass, ctl>>
    <3>1. sig \in {"kill", "term"} /\ (sig = "term" => \A p \in Procs : terms[p] = 0)
      BY <2>1 DEF CallShape, TermInv
    <3> QED
      BY <2>1, <2>4, <3>1, RootSignalKeeps, Zenon
  <2>5. CASE InTerm /\ Step("root_term", FALSE)
    BY <2>1, <2>5, StepKeeps, Zenon DEF InTerm
  <2>6. CASE call = "drop" /\ Step("dropped", FALSE)
    BY <2>1, <2>6, StepKeeps, Zenon
  <2> QED
    BY <1>6, <2>2, <2>3, <2>4, <2>5, <2>6, Zenon DEF NumberSkipped
<1>7. CASE Skipped
  BY <1>5, <1>7, FinishKeeps, Zenon DEF Skipped
<1>8. CASE KillAnswered
  <2>1. /\ Still /\ pc = "sent" /\ sig = "kill" /\ pc' = "backstop" /\ tree_killed' = (tree_killed \/ outcome = "ok")
        /\ UNCHANGED <<pass, outcome, call, calls, history, life, missed, result>>
    BY <1>8, Zenon DEF KillAnswered, WithHold, Still, pass
  <2>2. outcome = "ok" => MembersDown
    BY <2>1 DEF DownInv, PassDown
  <2>3. Known'
    BY <2>1, <2>2, Zenon DEF DownInv, Known, MembersDown
  <2>4. CallDown' /\ pc' \in Outside
    BY <2>1, Zenon DEF CallDown, Outside
  <2> QED
    BY <2>1, <2>3, <2>4, OutsideKeeps, Zenon
<1>9. CASE TermAnswered
  <2>1. pc = "sent"
    BY <1>9, Zenon DEF TermAnswered
  <2>2. CASE call = "terminate_tree" /\ Finish(IF outcome = "ok" THEN "ok" ELSE "error")
    BY <2>1, <2>2, FinishKeeps, Zenon
  <2>3. CASE Finish("error")
    BY <2>1, <2>3, FinishKeeps
  <2>4. CASE Step("grace", FALSE)
    BY <2>1, <2>4, StepKeeps, Zenon
  <2> QED
    BY <1>9, <2>2, <2>3, <2>4, Zenon DEF TermAnswered
<1>10. CASE DropAnswered
  BY <1>10, StepKeeps, Zenon DEF DropAnswered
<1>11. CASE Backstop
  <2>1. /\ pc = "backstop" /\ Take(RootTarget, "kill") /\ UNCHANGED <<pass, ctl>>
        /\ pc' = IF outcome = "ok" /\ RootTarget \cap Refusers = {} THEN "swept" ELSE "sweep_failed"
    BY <1>11, Zenon DEF Backstop
  <2>2. outcome = "ok" => tree_killed
    BY <2>1 DEF DownInv, CallDown
  <2> QED
    BY <2>1, <2>2, RootSignalKeeps, Zenon
<1>12. CASE KillEnds
  <2>1. pc = "swept" => tree_killed /\ life[Root] # "alive"
    BY Zenon DEF DownInv, CallDown
  <2>2. CASE pc = "swept" /\ Finish("ok")
    BY <2>1, <2>2, FinishKeeps
  <2>3. CASE pc = "swept" /\ Step("wait", FALSE)
    BY <2>1, <2>3, StepKeeps, Zenon
  <2>4. CASE pc = "sweep_failed" /\ Finish("error")
    BY <2>4, FinishKeeps, Zenon
  <2>5. CASE pc = "sweep_failed" /\ SweepFailed
    BY <2>5, <1>5, Zenon
  <2> QED
    BY <1>12, <2>2, <2>3, <2>4, <2>5, Zenon DEF KillEnds
<1>13. CASE Grace
  BY <1>13, GraceKeeps, Zenon
<1>14. CASE Wait
  <2>1. pc = "wait" /\ WaitEnds(IF watch_err THEN "error" ELSE "ok")
    BY <1>14, Zenon DEF Wait
  <2>2. call \in {"kill_tree", "graceful_shutdown_tree"} => tree_killed
    BY <2>1, Zenon DEF DownInv, CallDown
  <2> QED
    BY <2>1, <2>2, WaitEndsKeeps
<1>15. CASE BestEffortReap
  BY <1>15, WaitEndsKeeps, Zenon DEF BestEffortReap
<1>16. CASE RootTerm
  <2>1. /\ pc = "root_term" /\ Take(RootTarget, "term") /\ UNCHANGED <<pass, ctl>>
        /\ pc' \in {"root_grace", "failed"}
    BY <1>16, Zenon DEF RootTerm
  <2>2. \A p \in Procs : terms[p] = 0
    BY <2>1 DEF CallShape, TermInv
  <2> QED
    BY <2>1, <2>2, RootSignalKeeps, Zenon
<1>17. CASE RootGrace
  BY <1>17, StepKeeps, Zenon DEF RootGrace
<1>18. CASE RootKill
  BY <1>18, RootSignalKeeps, Zenon DEF RootKill
<1>19. CASE Failed
  BY <1>19, FinishKeeps, Zenon DEF Failed
<1>20. CASE DropRoot
  <2>1. pc = "dropped" /\ call = "drop"
    BY <1>20, Zenon DEF DropRoot, CallShape
  <2>2. CASE Finish("left")
    BY <2>1, <2>2, FinishKeeps, Zenon
  <2>3. CASE Take(RootTarget, "kill") /\ UNCHANGED <<pass, ctl>> /\ pc' \in {"wait", "last_look"}
    BY <2>1, <2>3, RootSignalKeeps, Zenon
  <2> QED
    BY <1>20, <2>2, <2>3, Zenon DEF DropRoot
<1>21. CASE LastLook
  <2>1. pc = "last_look" /\ call = "drop"
    BY <1>21, Zenon DEF LastLook, CallShape
  <2>2. CASE WaitEnds("ok")
    BY <2>1, <2>2, WaitEndsKeeps, Zenon
  <2>3. CASE Finish("left")
    BY <2>1, <2>3, FinishKeeps
  <2> QED
    BY <1>21, <2>2, <2>3, Zenon DEF LastLook
<1> QED
  BY <1>1, <1>2, <1>3, <1>4, <1>6, <1>7, <1>8, <1>9, <1>10, <1>11, <1>12, <1>13, <1>14, <1>15, <1>16, <1>17, <1>18,
     <1>19, <1>20, <1>21, Zenon DEF CallStep

-----------------------------------------------------------------------------
(* Theorems *)

(* IInv is inductive: it holds initially and every step of a call, of the     *)
(* tree or of the kernel keeps it.                                            *)
THEOREM Invariance == Spec => []IInv
<1>1. IInv /\ [Next]_<<vars, host>> => IInv'
  <2> SUFFICES ASSUME IInv, [Next]_<<vars, host>> PROVE IInv'
    BY Zenon
  <2>1. CASE Next
    <3>1. host' = host
      BY <2>1 DEF Next
    <3>2. CASE Environment
      BY <3>1, <3>2, EnvironmentKeeps, Zenon
    <3>3. ASSUME NEW kind \in KindsOfCall, Begin(kind) PROVE IInv'
      BY <3>1, <3>3, BeginKeeps, Zenon
    <3>4. CASE CallStep
      BY <3>1, <3>4, CallStepKeeps
    <3>5. CASE AllReturned
      BY <3>1, <3>5, StandsStill DEF AllReturned
    <3> QED
      BY <2>1, <3>2, <3>3, <3>4, <3>5, Zenon DEF Next
  <2>2. CASE UNCHANGED <<vars, host>>
    BY <2>2, StandsStill
  <2> QED
    BY <2>1, <2>2
<1> QED
  BY <1>1, Initially, PTL DEF Spec

(* Child::kill_tree and its siblings signal nobody outside the tree where the *)
(* pidfds name its processes; elsewhere only in the window between a check    *)
(* and its send.  Of any tree, on any hosts.                                  *)
THEOREM NoStranger == Spec => []StrangersSpared
<1>1. IInv => StrangersSpared
  BY Zenon DEF IInv, SendInv
<1> QED
  BY <1>1, Invariance, PTL

(* ReapHold keeps the root's number from the look to the last send, however   *)
(* many processes die, wait and call.                                         *)
THEOREM HoldKeepsNumber == Spec => []HoldPinsNumber
<1>1. IInv => HoldPinsNumber
  <2> SUFFICES ASSUME IInv, struck # "no", taker = Root
               PROVE  /\ reaper = "elsewhere" \/ looked = "own"
                      /\ calls = 1 => reaper = "elsewhere" \/ other_waited
    BY Zenon DEF HoldPinsNumber
  <2>1. reaper \in {"own", "elsewhere"}
    BY ProcsAssumption, Zenon DEF IInv, NumberInv, KernelShape, Procs
  <2> QED
    BY <2>1 DEF IInv, HoldInv
<1> QED
  BY <1>1, Invariance, PTL

(* A complete kill is complete: whoever the listing showed in the group is    *)
(* dead or doomed once Child.tree_killed is set or a kill answers Ok, and     *)
(* with the Ok the root is; whom it did not show (forked since, or hidden     *)
(* from /proc) is exempt.                                                     *)
THEOREM OkIsDown == Spec => []OkMeansDown
<1>1. IInv => OkMeansDown
  <2> SUFFICES ASSUME IInv PROVE OkMeansDown
    OBVIOUS
  <2>1. tree_killed => MembersDown
    BY DEF IInv, DownInv, Known
  <2>2. result = "ok" /\ call \in {"kill_tree", "graceful_shutdown_tree"} => MembersDown /\ life[Root] # "alive"
    BY <2>1 DEF IInv, DownInv, Known
  <2> QED
    BY <2>1, <2>2 DEF OkMeansDown, MembersDown, Procs
<1> QED
  BY <1>1, Invariance, PTL

(* No process gets SIGTERM twice from a call, whichever of send_to_group,     *)
(* signal_direct and the root's own signal it takes.                          *)
THEOREM OneTerm == Spec => []TermOnce
<1>1. IInv => TermOnce
  BY DEF IInv, TermInv
<1> QED
  BY <1>1, Invariance, PTL
=============================================================================
