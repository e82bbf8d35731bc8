# cosca, verified: TLA+ models, model checking and proofs

cosca starts subprocesses, waits for them, signals them, contains their descendants and
elevates them, on Linux, macOS and Windows, through a synchronous `Child` and a tokio mirror.
This directory models the parts of it where several threads, processes and the kernel step on
one another's toes, checks them with TLC on small instances, and proves the safety of eight of
them with TLAPS for every size: the reaping core, the tree calls over a process group, the elevation
shim's session, the cgroup leaf, the Linux spawn, the async child, `communicate` and the tree walk.

Paths are relative to `src/src/` unless they say otherwise. `PROJECT.json` maps every definition
to the lines it translates.

## 1. The system

### Parts and how they interact

| part | state | operations | where |
|---|---|---|---|
| `OwnedChild` | N / W(token) / E under a mutex and a condvar; the kernel's zombie | `wait`, `try_wait`, `watch`, `signal`, `hold` | `child/owned.rs`, `child/owned/*.rs`, `os_process/drive.rs` |
| tree calls | the root's state, the group's number, the pidfd | `kill_tree`, `terminate_tree`, `graceful_shutdown_tree`, drop | `child.rs`, `child/tree_call.rs`, `child/graceful.rs` |
| process-group containment | who is in the group, who was listed, who refused | `signal_group`, `converge` | `containment/unix.rs`, `containment/unix/group.rs` |
| cgroup leaf | directory, inotify queue, pump thread, listeners, kill record | wait for the drain, `hard_kill`, `disarm`, `tear_down`, release | `containment/cgroup/*` |
| elevation shim | socket, start state, one outcome, settled pipe; the shim's loop, its child | bind, accept, answer, wait, `kill`, teardown; handshake, clone, supervise, report | `elevation/shim/*` |
| `communicate` | three pipes, the input left, the output read | poll loop, joined threads, `try_join` | `child/pump/*`, `tokio/pump.rs` |
| tree walk, fd marker, jobs | snapshots of the process table, marker pipe, job object | kill or list the descendants | `containment/treewalk.rs`, `fdmarker.rs`, `windows.rs` |
| spawn | forked child before exec, handshake's socket pair, placement exchange, ChildFate | the builder's `spawn`, from the fork to the attach or the failure | `child/spawn*`, `containment/cgroup/channel.rs`, `tokio/spawn.rs` |
| identity | number, start token, boot | `ProcessId`, `Process`, persistence | `identity/*`, `process.rs` |
| tokio mirror | reap source, reactor registration, drop guard | async `wait`, kills, drop | `tokio/*` |
| text and paths | none | quoting, resolution, `cosca-path` | `quote/*`, `resolve/*`, `src/cosca-path` |

A `Child` owns an `OwnedChild` and at most one attached containment. A tree call takes a *hold* of
the `OwnedChild`, so that nobody reaps the root and frees its number, and then signals through
the containment; the reap comes after. The cgroup leaf lives beside the group and is
torn down by the `Child`'s drop. On Linux both come out of a spawn that holds the forked child before its exec until
its pidfd has been sent over a socket pair, and then until it has put itself in its leaf. The async `Child` has tokio's own `Child` behind
a pidfd instead of an `OwnedChild`. An elevated `Child` has a `ShimLink` instead of an OS child.

### What makes it hard

- A pid is a number the kernel reuses once the process is reaped. Nothing may be signalled by number
  after that (principle 4 of the crate), and other code in the same process may reap (principle 5).
- Waits on one child come from several threads; one waits on the OS for all, and may leave early.
- Notifications are postponed, merged, cancelled or lost (inotify), bytes come in pieces (sockets,
  pipes), and either process of the shim may die between any two steps.
- Fork copies of the host program keep descriptors open that cosca believes closed.
- Members refuse signals, fork while they are being listed, and leave the group.
- Drop must not block for what it did not kill (principle 3).
- tokio reaps by number, in its own drop too: a child cosca cannot vouch for must be kept from it.
- A spawn can fail after its fork, with the child still running, and has to say what became of it.

The hazards of `PROJECT.json` list these by line, with the properties that would catch each.

### What has to be true

At most one reap, together with its record, and no send after it; no thread stranded; deadlines that
bind and do not lie; no stranger signalled, except in the windows the code documents; Ok from a kill
only when what was listed is down; every call and every teardown ends; at most one program behind
a link, and reports about it that are true; nothing left running that should have ended; no byte lost.

## 2. Modules

| module | models | state and actions |
|---|---|---|
| `OwnedChild` | `child/owned.rs` and below, `os_process/drive.rs` | `state`, `token` are the mutex's `Inner`; `lock` is who owns it; `pc` each thread's place. One action per critical section, OS call or wake-up; `Leave` and `GuardDrops` are `HolderGuard`'s Drop |
| `ReapOnce` | the promise of an `OwnedChild` to `child.rs` | abstract: the child is reaped once, by one call, never under a hold |
| `OwnedChildRefinement` | the mapping between them | the child counts as reaped from its record on |
| `ProcessGroup` | the kernel (external): lives, numbers, the group, forks, a foreign reaper | `life`, `taker` (who has the root's number), `missed` (whom the last listing did not show), `host` (which kernel and users, whom `/proc` hides) |
| `GroupSignal` | `signal_group`, the one listing, each member's check, send, probe and reconfirmation | `pass`: what is listed, tried, refused |
| `TreeCall` | the four tree calls over `GroupSignal` | `ctl`: the call, its look at the root, its result |
| `ShimChannel` | what both ends share: sockets, fork copies, cosca's own process | `end`, `down`, `up`, `kept`, `scene` |
| `ShimLink` | cosca's end: acceptor thread, callers, teardown | `start`, `outcome`, `live`, `settled`, `acceptor`, `call`, `drop` |
| `ShimRun` | the shim's process and its child | `shim`, `watch`, `st`/`ev`/`fin` (LoopState, Events, Finished), `child` |
| `ShimSession` | both ends together, either process dying | |
| `ShimFrame` | `Frame::encode`, `decode_frame`, `classify`, a frame read in pieces | bytes of a small alphabet |
| `CgroupLeaf` | kernel directory and notifications, `DrainWatch`, `Watcher`'s pump, the waits, the kill, `tear_down`, release | `queue`, `postponed`, `pump`, `listening`, `woken`, `owner` |
| `PipedChild` | the child behind the pipes (external): a script of reads and writes, perhaps an heir of its stdout | `buf`, `ours`, `script` |
| `CommunicatePoll` | `child/pump/poll.rs`, with its SIGPIPE guard | `pc`, `ready`, the thread's and the process's pending SIGPIPE |
| `CommunicateJoin` | `child/pump/threads.rs`, `tokio/pump.rs`, whose write has no SIGPIPE guard | `task` |
| `Communicate` | the three drivers, their common promises | |
| `ProcTable` | the host's processes (external): numbers, start tokens, parent numbers, on Linux and on Windows; `ProcessId::of` | `table`, `clock`; `Fork`, `Exit`, `Release` |
| `TreeWalk` | `containment/treewalk.rs`, its snapshots, `identity/tree.rs` | `rows` the snapshot, `frontier`/`next`/`found` the walk, `queue` who is still to be signalled |
| `HeldChild` | the forked child from fork to exec (`hold_child`, `placement_hook`) and the kernel's side of its two channels; foreign kills, reaps, forks and pid reuse | `kid`, `doomed`, `reaper`, `num`, `copy` (the ends a stray fork holds: the handshake's, std's status channel), `report`, `go`, `exchange`, `said`, `inLeaf` |
| `PidfdHandshake` | the helper thread and the spawning thread up to the join (`Handshake::run`) | `at`, `helper`, `outcome`, `watch`, `answer` |
| `SpawnTeardown` | `conclude` and the failed spawn's teardown, std's and tokio's | `fate`, `told`, `bg`, `left` |
| `LeafPlacement` | the parent's side of the placement: `take_placement`, `abandon_before_verdict` | `ending` |
| `LinuxSpawn` | the whole spawn, with the identity check and the attach | `idOf` |
| `ProcSource` | the async child's Linux backend: tokio's reaps by number gated by looks through a pidfd, the reactor, tokio's orphan queue | `backend`, `shown`, `reaper` (who has the status), `edge`/`ready`/`guard` |
| `TokioChild` | the async `Child` over it: its calls, its teardown by Drop and the awaited one, and the panics that unwind either | `armed`, `teardown` |
| `OwnedChildProofs`, `TreeCallProofs`, `ShimSessionProofs`, `CgroupLeafProofs`, `LinuxSpawnProofs`, `TokioChildProofs`, `CommunicateProofs`, `TreeWalkProofs` | theorems | see section 5 |

The grain is: a critical section of a mutex is one step, a system call is one step, and what a
thread reads before a call and uses after it stays in a variable between the two. `MC*` modules only give
constants values.

Four modules choose, in their initial state, what surrounds them, and never change it: `host` (ProcessGroup),
`scene` (ShimChannel, and HeldChild: which front door, which containment, an elevation front or not) and the driver (Communicate). A run then covers several surroundings, and each scene stays small.

Data is abstracted to what the properties tell apart. Processes, threads and shims are model values; a
deadline is none, open or passed; bytes are counted, not named, except in `ShimFrame`, which is about them.

## 3. Runs

| run | instance | what it shows |
|---|---|---|
| `owned_child` | 2 threads, one call each, fair | the safety of the reap, the refinement of `ReapOnce`, no stranded waiter, deadlines that bind |
| `tree_call` | root and two members, one refusing, on the old kernel perhaps hidden; a new and an old kernel | who may be signalled, by what number, when Ok is said |
| `tree_call_live` | root and a member; a refusing member, a refusing root | every tree call returns |
| `tree_call_ok_is_proof` | two refusing members | a violation: see section 6 |
| `shim_session` | three scenes: two shims racing; cosca dying with copies; one shim with every fault | one start, one outcome, true reports, the right owner watched, D holds |
| `shim_session_live` | three scenes: cosca dying; two waiters over a stopped shim, with reads that fail; a killed shim and a peer of another user | nothing outlives what should end it; waits and teardown return |
| `shim_frame` | every string of up to six bytes over five values, every chunking | the outcome is the frame that was written; the reader gives up exactly when no frame can follow |
| `cgroup_leaf` | two processes, one wait with a deadline, one fault, fair | no lost wake-up and no false drain; who is killed, who reads the watch, what is reported; waits return, teardown ends |
| `communicate` | every script of three steps, pipes of one byte, input of 0 or 2, one fault, three drivers, a host that handles SIGPIPE or left it at its default, fair | Ok is whole, no byte lost, the poll loop's SIGPIPE contained, the call returns |
| `tree_walk` | three numbers, four processes, one that refuses or hides, three moves during the kill | what a walk keeps, whom a signal reaches, what a complete kill leaves |
| `linux_spawn` | both front doors, with and without std's early return, plain children and elevation fronts, no containment, a group or a leaf, fair | "not started" is so for good, the ChildFate is true, a front is spared, a placement is final, the adopted identity is the child's, the spawn answers |
| `tokio_child` | one child, a tracer, a foreign reaper, a sibling that takes its number, two faults, cancellations and panics, fair | no blind reap by number, a true fate, nothing killed and left unreaped but by a panic, waits end |

Each pass run takes between five seconds and two and a half minutes with two workers.

### Bounds, and why they are enough

- Threads: two. The hand-off of a wait needs a holder and one behind it. The safety of `OwnedChild` is proved for any number.
- `MaxCalls`: one call a thread for `OwnedChild`, one for a tree, two for a link. A second tree call starts from a
  state the first one's environment (another wait, a foreign reaper) already produces.
- Members: two, so that one can refuse, die or fork while the other is tried.
- `MaxFaults`: one or two failing system calls. Each error path is met, and met after each other step.
- `SocketCap`: two bytes, so that a full socket happens.
- Pipes of one byte with an input of two make every write partial and every pipe full.
- `tree_walk`: a number changes hands in three moves (exit, release, fork), so `MaxMoves` is three for `hard_kill` and for `parent` on Windows,
  whose claims hold even then; `terminate`, `children`, `subtree` and `parent` on Linux, which share their code with these, get one move. Two ticks are
  enough for equal and for later tokens, and allow a number two holders. A process that refuses or hides uses up a birth and two of the moves.
- A `wake` pipe holds at most two bytes; a stray wake beyond them changes nothing.
- `cgroup_leaf`: one wait; `NoLostWakeUp`, which speaks of each wait alone, is proved for any number of them.
- `linux_spawn` has no bound: a spawn happens once, and every combination of its surroundings is a scene.
- `tokio_child`: two failing looks or watches, so that a retry of a failure fails too. Calls are unbounded, in any order.

Symmetry is not used: the runs with liveness must not use it, and the others do without.

Deadlock is checked except for `CgroupLeaf`, where a leaf nobody uses any more may rest in any state (a torn-down leaf has no next step), and
for `TreeWalk`, `LinuxSpawn` and `TokioChild`, which end: with the call, with the spawn's answer, with the teardown.

### Fairness

Fairness is assumed only of what is scheduled, and it is weak but for the mutex of `OwnedChild`: a thread that wants it again and again gets it in the end, which
is strong fairness of the step that takes it, for others take it in between. Weakly fair are the threads of a call once it has begun, the acceptor, the pump, the kernel's
postponed notifications, and the death of a process SIGKILL has reached. A child's own exit, a foreign reap, a tracer letting go, a
fork copy's exit, a caller's next call and a front's start of a shim are never assumed. In `shim_session_live` the
scene with "stalls" gives shims no fairness at all: the waiters and the teardown must not need it. `communicate` assumes that the
child works through its script and that the grandchild lets go of stdout in the end; without the latter the call rightly waits.
`CallsReturn` of `OwnedChild` assumes that no tracer keeps the zombie for ever. In `linux_spawn` the forked child, the helper and
the spawning thread run; in `tokio_child` the task, the reactor. Neither assumes anything of a tracer, of the child's own exit, of tokio's queue
or of another reaper.

Most liveness properties have the form "again and again, P", where P is "the call is over, or what it waits for is not there". Calls are
finitely many in a behaviour, so this is the same as "each call that has what it waits for returns", and TLC needs no tableau for it.

## 4. Properties

Their comments say what they state and which code they are about. The less obvious ones:

- `HoldPinsNumber` (TreeCall): why a tree call may use the group's number at all. The hold keeps the root
  unreaped from the look to the last send; graceful shutdown keeps it a zombie until the sweep is done.
- `StrangersSpared`: every send by number comes right after its check; a stranger is met only if the number changed hands in between,
  which the code documents as irreducible without pidfds. With them, never.
- `OkMeansDown`: Ok speaks of whom the one listing showed. Not shown are those forked after it, and those that hidepid hides or whose row does not parse
  (`missed`); `Child::kill_tree` documents the second kind.
- `OwnerWatchIsCosca` (ShimSession): the shim opens a pidfd on a number from its argv. The answer, which only cosca can have
  written, and only after the hello, proves the number was still cosca's when the pidfd was opened.
- `DisarmHolds`: the loop's poll may see cosca's exit without the D that preceded it; the control bytes are therefore drained before deciding.
- `NoLostWakeUp` (CgroupLeaf): the kernel postpones the notification of the drain and cancels it when the directory is removed. The
  parent's watch covers the removal, and an overflow counts as news.
- `SigpipeContained` (Communicate), of the poll loop: a SIGPIPE of the host's own, arriving between the look at what is pending and the
  `sigwait`, stays the host's. tokio's write has no such guard: a host that left SIGPIPE at its default dies of it, and `CommunicateReturns` exempts it.
- `FoundIsGenuine` (TreeWalk): what the start-token rule and the anchor together give. While no number changes hands under the walk, everything
  kept on Linux descends from the root, because Linux keeps parent numbers current. On Windows that is so at the first level only:
  below it a candidate's token is compared with the root's and not with its parent's, so an orphan younger than the root whose
  parent's number now belongs to a descendant of the root is kept. A number that changes hands between its row and
  its resolution defeats the rule on either system. `treewalk.rs` calls the mechanism best-effort.
- `HitsTheIdentity`: on Windows the handle pins the number from the check to the kill; on Linux a gap of two system calls remains.
- `NotStartedIsTrue` (LinuxSpawn): the child is held before exec, and the go-ahead is withdrawn before "not started" is answered. A failure
  std reports proves it; tokio's error does not, because tokio can fail after std's spawn succeeded.
- `FateIsTrue` (LinuxSpawn) relates the answer to who collected the child and which kill reached it. It names its exemptions: `OthersReap`, two `Reaped` answers
  of a child another reaper has (tokio's `try_wait` of a number taken since, and `end_front`'s ECHILD after the leaf's kill), and `KilledBefore`, `Gone`
  answers that overlook the group's or the leaf's kill. Without either, TLC finds a counterexample: `error.rs` says more than the code keeps (section 6).
- `FrontSpared` excludes a panic in std's spawn: unwinding, the leaf's Drop does not know of the front and ends the child as its own.
- `SpawnAnswers` excludes four waits on a stranger. Three are on one that took the child's number while it runs: the watch's poll, std's wait for a failed
  child, and the abandonment's for a child named by its `/proc` directory. The fourth is std's read of its status channel, which a fork of another thread that
  never execs keeps open.
- `NeverReapsBlindly` (TokioChild): a reap by number right after a look can still hit a sibling, when somebody else reaps between the
  two (`tokio/child/proc_source.rs` says so); one without a look before it never happens.
- `DropFateIsTrue` (TokioChild) does the same for the async teardown. A `Reaped` may be over a sibling's status if both somebody else's reap and the reuse of the
  number fell in the gap after a look; after a delivered kill `Gone` or `Running` is said only if another reaper came between the visible exit and the
  `try_wait` that collects it. Here too TLC refutes the property without its exemptions.
- `TornDownIsReaped`: a cancelled or failing teardown still reaps what it killed. A panic is different: a logger that panics between the kill and the reap
  (in the warning of a failed watch or of a late exit), or a future dropped by a panicking thread, leaves the killed child to `ProcSource`'s drop, and so to
  tokio's orphan queue. The property exempts that and nothing else (`Unwound`).

## 5. Proofs

Each proof is the same argument: an inductive invariant `IInv`, checked by TLC on a small instance, holds initially, and every action keeps it (one
step per action, below it one per conjunct the action can disturb, or one per branch of its handler). The properties follow from it.

### OwnedChild (`OwnedChildProofs`)

For any set of threads and any number of calls each (`NoThread` is no thread, `MaxCalls` is a natural number): `TypeOK`,
`HolderOwnsW`, `NoSendAfterReap`, `RecordIsTheReap`, `HoldFreezesReap`, `DeadlineLooksOnce`, `RecordIsFinal` and `KeepsPromise`, that is, all
the safety the run `owned_child` checks on two threads, and the refinement of `ReapOnce`. `TypeOK`, `HolderOwnsW` and `RecordIsFinal` are left to the proof.

- `LockInv`: where a thread is decides whether it owns the mutex, and conversely. Without it two threads could be past the lock.
- `ReapInv`: the record implies the reap, and a reap without a record has a thread in "finish", which owns the mutex: that is
  why nobody else can see the moment in between.
- `HoldInv`: what a hold has read stays true of the record.

`DeadlineLooksOnce` needs an invariant of its own over `ripe`, what a look could have found when the deadline
passed. `RecordIsFinal` and the refinement are consequences of `IInv` and one step: the mapping sends the consuming wait to a stutter and
the write of the record to the abstract reap, so that "reap and record are one event" is part of what is proved.

### Tree calls (`TreeCallProofs`)

For any members, any hosts and any number of calls (`ProcsAssumption`, `HostsAssumption`, `MaxCallsAssumption`): `StrangersSpared`,
`HoldPinsNumber`, `OkMeansDown`, `TermOnce`.

- `NumberInv`: a number that was taken belonged to a process that is reaped, and the root's is taken only when its group is empty.
- `HoldInv`: from the look at the root to the last send the hold is in force, so nobody of cosca reaps.
- `SendInv`: a send by number has its check right before it, and a number that changed hands since is marked (`fresh`).
- `TermInv`: up to the one send of a call's SIGTERM nobody has got it.
- `DownInv`: whoever was listed (is not `missed`) and is alive is still to be settled or is on record as a refusal. This is what makes Ok true, and
  it has to speak of every place of the convergence, not only of its end.

### Shim session (`ShimSessionProofs`)

For any shims, threads and scenes (`ChannelAssumption`, `ScenesAssumption`): `OneStart`, `OwnerWatchIsCosca`, `OutcomeIsTrue`,
`DisarmHolds`.

- `AnswerInv`: an answer on its way, and every step that follows from one, belongs to the one shim the link's start state names.
- `OwnerInv`: the answer comes after the hello, the hello after the pidfd, and a pidfd opened on a stranger only once cosca is gone.
- `ProgramInv`: how far the shim is and how far its child is fit together (a shim past its clone has a child, one that has
  reported has seen it end).
- `FrameInv`: a frame on its way is true of the program's process; `OutcomeInv` says the same of what the link made of it.

The actions of the shim are many and alike. They are grouped by what they may change (a step that only moves along, one that reports, one
that puts a frame on the socket), and the invariant is shown once for each group.

`DisarmHolds` has a layer of its own above `IInv`:

- `ConnectionInv`: cosca's end of the started shim's connection is closed only by cosca's end or by the teardown.
- `LoopInv`: what the loop holds of cosca's side is so: an exit it polled, a connection it saw end.
- `DisarmInv`: a D that was sent is on its way on a connection the shim still reads, or the shim has it, or there is no program to kill.

A round of the loop serves all the bytes it drained, one after the other, and the exit after the last. What a round finds (`RoundFits`) is therefore shown by
induction over its bytes: after n of them, the shim is armed only if none was a D, and the owner's end counts only if it came before any D. The induction
is over a set of numbers (`SetInduction`), which the provers can instantiate, and the fold that the model defines is shown to be the function it steps through.

### cgroup leaf (`CgroupLeafProofs`)

For any processes, waits, bounded waits and number of faults (`LeafConstants`): `TypeOK`, `NoLostWakeUp`, `OneReader`, `KillsOnlyWhenMeant`,
`LeftBehindIsReported`, and `DrainedIsTrue` as a property of every step. `IInv` adds `WaitInv` (a wait past its registration is a listener and has a pump),
`PumpInv` (only a stopped pump ends, and no sleeping wait has missed a failure's broadcast), `RemovalInv` (every sign of a removal is true), `ReaderInv` (a
teardown past the stop has joined its pump), `KillInv` (every kill was asked for) and `LeftInv` (what the owner leaves is settled before it is done).

### Linux spawn (`LinuxSpawnProofs`)

For any set of scenes (`ScenesAssumption`): `NotStartedIsTrue`, `FateIsTrue`, `FrontSpared`, `PlacementIsFinal`, `AdoptedIdentityIsOurs`.
The scenes are finitely many and the run covers them, so TLC's check of the five is complete by itself; the proof gives the reasons.

- `ChildInv`: nothing past the hold happens without GO, GO is the helper's last act and only a helper that has ended can be joined. An answer that denies the
  start is given after the join, and from then on `Unrunnable` cannot be undone.
- `LeafInv`, `ExchangeInv`: while the exchange is open a child past its report has reported; once it is abandoned, a child that has not reported ends at its
  next message. So what the parent read when it closed the exchange is all there will ever be. This is why the verdict is final and why the
  abandonment may signal a front that has not reported (`Silent`).
- `ReturnInv`, `AnswerInv`: where each teardown goes on and what had been answered by then, for the teardown is shared by three callers.
- `FateInv`: a fate is true from the moment it is recorded, and every way to the end passes a place where the child is reaped, handed to a reaper or warned
  of (`Accounted`).
- `FrontInv`: wherever a front could be signalled it is dead or `Silent`.
- `IdentityInv`: a number that is not free is the child's, or the child is reaped and the peek says so.

`FateIsTrue` needs a second invariant on top, `CInv`: `CourseInv` says by where the spawn is who can have collected the child and which kill can have reached it
(before a fate is made, nobody of this spawn and no kill but the overlooked ones), and `CollectorInv` what a fate, once made, says of the two.

### Async child (`TokioChildProofs`)

For any number of failing looks and watches: `NeverReapsBlindly`, `DropFateIsTrue`, `TornDownIsReaped`.

- `StatusInv`: who has the child's status. What this `Child` collected is its own or a sibling's from the gap; a child reaped and not collected here is with
  another reaper.
- `LookInv`: a look that showed the child ours is behind every place that reaps by number, the release to tokio's orphan queue included.
- `ProcessInv`, `BackendInv`: a backend that names another reaper is right, one that could prove nothing is a failed teardown's, and
  a reap on events holds a child tokio has not collected.
- `TeardownInv`, `FateInv`: the record a teardown carries from step to step is true of the child, whoever reaps it meanwhile. A child whose status the handle
  had before is `Gone` to the kill, and the report makes it `Reaped`.
- `KillInv`: a delivered kill is settled by a reap, so a teardown past the settling has a reaped child or a backend that was forgotten, unless a panic
  took it out of its course, which leaves it without a fate.

### Communicate (`CommunicateProofs`)

From `PipesAssumption`, for pipes of any capacity, any input, any scripts of the child and any number of failing calls, under all three drivers:
`OkResultsAreWhole` (`OkIsWhole`) and, of the poll loop, `SigpipesAreContained` (`SigpipeContained`). `OkIsWhole` says nothing of a call still under way, so it is
not inductive. The invariant accounts for every byte (`FlowInv`: taken, in the pipe or not yet written make up the input; read or in the pipe
make up what was written) and says why a stream was let go: it had ended, or a failure was noted (`PollInv`, `JoinInv`). An ended stream stays
ended, because only a living holder of its other end could add to it; so a call that noted no failure has it all. For SIGPIPE, `SignalInv`
says that a broken write leaves one pending for the thread until the mask is restored, and that a host which does not block SIGPIPE has none
pending otherwise: the `sigwait` then takes the thread's, never the process's, and nothing is delivered at the restore.

### Tree walk (`TreeWalkProofs`)

From `TableAssumption`, for any process numbers, any clock, any number of processes and any changes of the table under the call: `HitsTheIdentity`,
`FoundIsGenuine`, `CompleteMeansDown`, and that every reachable state is well formed (`WalkIsWellFormed`), on which the three rest.

- `TypeInv`, `PhaseInv`: what each variable holds, and where the call is by what it has.
- `TokenInv`: a number's tokens only grow, so a token that was somebody's is at most the one its number has now. `ParentInv`: on Linux a
  parent number is a running process, for an exit hands the children to pid 1.
- `StrikeInv` (for `HitsTheIdentity`): a kill about to be sent has just been re-verified, and on Windows the handle keeps that true.
- `LineInv`, up to the call: what `line`, the ghost that records true descent, has to do with parent numbers. On Linux the line of a process is its
  parent's and the parent. On Windows the last of a line has the parent number the row shows, and if that number has changed hands, its
  holder is not older than the child: that is why a strict token rule tells the two apart at the first level.
- `KinInv`, `RowInv`, `RootRowInv`, `MakerInv` (for `FoundIsGenuine`): the same during the call, of the table and of the rows read from it. A row
  stays true of its numbers while none of them changes hands, even when the processes it speaks of end.
- `DownInv` (for `CompleteMeansDown`): whoever the walk resolved and is still alive waits in the queue.
- `OwedInv`, `WalkInv`: for the part about a table that stands still. `owed` is everybody readable below the root when the call begins, defined by
  lines; the walk goes by parent numbers. `OwedInv` ties the two: every set of numbers closed under "child of the root or of a member" holds all that is owed.
  At the end of the walk the numbers it found are such a set. That a line is reached by parent numbers step by step (`ReachInv`) is
  shown by the least counterexample in the length of lines.

All of these were first checked by TLC on the run's instance (4.1 million states; the last group with more changes of the table, 7 million).

### Only model-checked

Liveness: fairness and `ENABLED` are outside the prover's reach.

`OutcomeIsTheFrame`: it is about the bytes of a frame, and the provers do not compute with the powers, quotients and remainders that the encoding is
made of. It is also a fact of the instance's `Payload`: over {0} alone the reference has no `NotExecuted` frame (its value is never 0), and an F that is read would begin none.

## 6. Where documentation and code differ

- `tree_call_ok_is_proof`: `child.rs:499` calls Ok from `kill_tree` "positive proof the group cleared". The code lists the group once. A
  member that refuses signals can fork after the listing and exit before it is tried; its child is alive in the group and Ok is returned.
- `tokio/pump.rs:3` calls a child that closes its stdin early "a normal EOF, not an error". The async write does not guard against
  SIGPIPE as `child/pump/poll.rs` does, so a host that left the signal at its default dies (`hostDead` in `CommunicateJoin`; `SigpipeContained` speaks of the poll loop only).
- `error.rs:266` says of `Reaped` that "cosca collected the child's exit". A reap by number whose number changed hands since the look takes a sibling's
  record for the child's (`tokio/spawn.rs:982`, `tokio/child/proc_source.rs:1703`, whose comment at 926-927 owns up to the reap); and `end_front` says `Reaped` for a front that
  another reaper collected (`containment/cgroup/leaf.rs:1640-1645`). Exempt in `FateIsTrue` (`OthersReap`) and in `DropFateIsTrue` (`stolen = "gap"`).
- `error.rs:289-290` says of `Gone` that "cosca delivered no kill", and "One cosca killed and found collected is Killed". A spawn's teardown
  knows its own kill only, not the group's or the leaf's before it (`child/spawn.rs:2517-2525, 2870`); and an async teardown whose child is reaped elsewhere between
  the visible exit and the `try_wait` answers what that look found (`tokio/child.rs:1862`). Exempt in `FateIsTrue` (`KilledBefore`) and in the last clause of `DropFateIsTrue`.
- `containment/cgroup/leaf.rs:237-238` says that a kill of a leaf already gone "sets `killed` above instead". `hard_kill` only logs and answers Ok there. Nothing
  depends on it: the flag is read only after an rmdir found the leaf still there.
- `tokio/child.rs:97` says of the backend that a collecting wait hands back: "it holds no unreaped child by now, so tokio's drop queues nothing". When the wait
  ended in ECHILD without a record, tokio's drop queues a number that is no longer the child's.

The first is a run of its own. The others are met by the models; where one touches a property, the property names the exemption.

## 7. Not modelled

Of the modelled parts: peers' credentials are what they say they are, except for a peer of another user; a fork copy's
refused calls change nothing and are left out; signal dispositions are "caught" or "default"; `send_control` (T and D) exists
only in tests today and is modelled all the same; send errors other than EPERM and ESRCH; the macOS and Windows halves of the group and of the
waits; a leaf's members' SIGTERM; a thread that cannot be created.

Of the Linux spawn: errors of `waitid` and of the peek that the code asserts impossible; the drain and the
removal of an abandoned leaf, which are `CgroupLeaf`'s; a failing attach, which Linux does not have. `Outcome::Unwatched` and a missing report
lead to the same steps and are one value.

Of the async child: a second panic while unwinding, which aborts the process; the gates of elevation fronts, containment and `graceful_shutdown_tree` (the tree's kill and drain are `TreeCall`'s and
`CgroupLeaf`'s), the macOS and Windows backends, spurious readiness of the reactor. The branch of a refused kill
that asks for a forgotten backend's fate is not reached: a backend whose look fails is forgotten only once the child is reaped.

Whole parts: listed in `PROJECT.json` with the reason. Wording, logging, FFI set-up and test seams are out of scope for good. They, the macOS and Windows halves
and the text parts (quoting, paths, resolution, elevation planning) are most of the crate's lines: the models cover about a tenth of them, the part
that is concurrent on Linux.

## 8. Plan

1. `FdMarker` and `MarkerEof`: the sweep until nothing new is found, the drain read off an end of file.
2. `UniqueReport`: the macOS counterpart of the handshake; `MacWait`: NOTE_EXIT against tracers.
3. `ProcessIdentity`: attach, verify, persist across a reboot.
4. The async tree calls over `ProcSource`, composed with `CgroupLeaf`.
5. Operators for quoting (split after join), resolution and path arithmetic against reference definitions.
6. Proofs: the frames, with lemmas for the encoding's arithmetic.
