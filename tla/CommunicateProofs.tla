-------------------------- MODULE CommunicateProofs --------------------------
(***************************************************************************)
(* What `communicate` promises, proved of its three drivers for pipes of   *)
(* any capacity, any input, any scripts of the child and any number of     *)
(* failing system calls.                                                   *)
(*                                                                         *)
(* The argument: no byte is lost (FlowInv); a stream a driver has let go   *)
(* of was at its end unless the driver noted a failure (PollInv, JoinInv), *)
(* and the end of a stream is for good; so a call that noted none has all. *)
(***************************************************************************)
EXTENDS Communicate, TLAPS

-----------------------------------------------------------------------------
(* The inductive invariant                                                 *)

(* Stream s has ended: nothing is left in the pipe and nobody can add to it. *)
Drained(s) == buf[s] = 0 /\ ~Written(s)

(* The input is written out, or nobody reads it any more. *)
Fed == rest = 0 \/ ~StdinRead

TypeInv ==
  /\ input \in Nat /\ rest \in Nat /\ taken \in Nat
  /\ buf \in [Streams -> Nat] /\ wrote \in [Outs -> Nat] /\ got \in [Outs -> Nat]
  /\ task \in [Tasks -> {"runs", "ok", "failed", "off"}]

(* Our ends, and what the poll loop notes, are streams or the poll. *)
FailInv ==
  /\ \A s \in ours : s \in Streams
  /\ \A f \in failed : f \in Streams \/ f = "poll"

(* Every byte of the input, and every byte the child wrote, is in one place. *)
FlowInv ==
  /\ taken + buf["stdin"] + rest = input
  /\ \A s \in Outs : got[s] + buf[s] = wrote[s]

(* One driver runs: the poll loop, or the tasks. *)
DriverInv == pc = "off" \/ \A t \in Tasks : task[t] = "off"

(* The poll loop lets go of a stream at its end, or with a failure it notes; *)
(* it waits for the child only when it has let go of them all.               *)
PollInv ==
  pc # "off" =>
    /\ \A s \in Outs \cap piped : s \in ours \/ s \in failed \/ "poll" \in failed \/ Drained(s)
    /\ "stdin" \in ours \/ "stdin" \in failed \/ "poll" \in failed \/ Fed
    /\ broken => ~StdinRead
    /\ pc = "new" => \A f \in Streams \cup {"poll"} : f \notin failed
    /\ pc = "wait" => \A s \in Streams : s \notin ours
    /\ pc # "done" => result = "none"

(* A task that ended well met the end of its stream, or of the child. *)
JoinInv ==
  pc = "off" =>
    /\ \A s \in Outs \cap piped : task[s] = "ok" => Drained(s)
    /\ task["stdin"] = "ok" => Fed
    /\ task["wait"] = "ok" => child = "exited"

ResultInv ==
  result = "ok" =>
    /\ pc \in {"off", "done"} /\ child = "exited" /\ Fed
    /\ \A s \in Outs \cap piped : Drained(s)

(* A write that met a broken pipe leaves a SIGPIPE pending for the thread    *)
(* until the mask is restored; a host that does not block SIGPIPE has none   *)
(* of its own pending, so that one is never mistaken for an older one. The   *)
(* tasks write without a guard, and nothing is said of them.                 *)
SignalInv ==
  pc # "off" =>
    /\ ~hostDead /\ (hostSignal => inProcess)
    /\ pc = "restore" /\ broken => inThread
    /\ ~hostBlocks => ~inProcess /\ ~wasPending /\ (inThread => pc = "restore" /\ broken)

BytesInv == TypeInv /\ FailInv /\ FlowInv
EndsInv == DriverInv /\ PollInv /\ JoinInv /\ ResultInv
IInv == BytesInv /\ EndsInv /\ SignalInv

-----------------------------------------------------------------------------
(* The steps                                                               *)

(* Returns names one of the failures there are, whichever they are. *)
LEMMA FirstFailure ==
  ASSUME FailInv, failed # {}
  PROVE  (CHOOSE f \in failed :
            \A g \in failed : \/ f = "poll" \/ g = "stdin" \/ f = g
                              \/ f = "stdout" /\ g # "poll") \in failed
<1>1. \E f \in failed :
        \A g \in failed : \/ f = "poll" \/ g = "stdin" \/ f = g
                          \/ f = "stdout" /\ g # "poll"
  BY SMT DEF FailInv, Streams, Outs
<1> QED BY <1>1, Zenon

(* Init: all three drivers begin with every pipe open and empty. *)
LEMMA InitInv == Init => IInv
<1> SUFFICES ASSUME Init PROVE IInv
  OBVIOUS
<1>1. PICK driver \in {"poll", "threads", "tokio"} :
        PollInit(driver = "poll") /\ JoinInit(driver # "poll", driver = "tokio")
  BY DEF Init
<1>2. BytesInv
  BY <1>1, PipesAssumption, SMT
     DEF Init, PipesInit, PollInit, JoinInit, TypeInv, FailInv, FlowInv, BytesInv, Streams, Outs, Tasks
<1>3. EndsInv
  BY <1>1, SMT
     DEF Init, PipesInit, PollInit, JoinInit, EndsInv, DriverInv, PollInv, JoinInv, ResultInv,
         Drained, Fed, Written, StdinRead, Streams, Outs, Tasks
<1>4. SignalInv
  BY <1>1, Zenon DEF Init, PipesInit, PollInit, SignalInv
<1> QED BY <1>2, <1>3, <1>4 DEF IInv

(* What the child and its heir do: the end of a stream is for good. *)
LEMMA WorldStep ==
  ASSUME IInv,
         World, UNCHANGED <<common, host, local, signals, task>>
  PROVE  IInv'
<1> USE DEF IInv, BytesInv, EndsInv, common, host, local, signals, Streams, Outs, Tasks
<1>1. CASE ChildReads
  <2>1. BytesInv'
    <3>1. TypeInv'
      BY <1>1, SMTT(20) DEF ChildReads, TypeInv
    <3>2. FailInv'
      BY <1>1, SMTT(20) DEF ChildReads, FailInv
    <3>3. FlowInv'
      <4>1. taken' + buf'["stdin"] = taken + buf["stdin"]
        BY <1>1, SMTT(20) DEF ChildReads, TypeInv
      <4>2. \A s \in Outs : buf'[s] = buf[s]
        BY <1>1, SMTT(20) DEF ChildReads, TypeInv
      <4> QED BY <1>1, <3>1, <4>1, <4>2, SMTT(20) DEF ChildReads, TypeInv, FlowInv
    <3> QED BY <3>1, <3>2, <3>3
  <2>2. EndsInv'
    BY <1>1, <2>1, SMTT(20)
       DEF ChildReads,
           TypeInv, FlowInv, DriverInv, PollInv, JoinInv, ResultInv, Drained, Fed, Written, StdinRead
  <2>3. SignalInv'
    BY <1>1, SMTT(20) DEF ChildReads, SignalInv
  <2> QED BY <2>1, <2>2, <2>3
<1>2. CASE ChildStopsReading
  <2>1. BytesInv'
    BY <1>2, SMTT(20) DEF ChildStopsReading, TypeInv, FailInv, FlowInv
  <2>2. EndsInv'
    BY <1>2, <2>1, SMTT(20)
       DEF ChildStopsReading,
           TypeInv, FlowInv, DriverInv, PollInv, JoinInv, ResultInv, Drained, Fed, Written, StdinRead
  <2>3. SignalInv'
    BY <1>2, SMTT(20) DEF ChildStopsReading, SignalInv
  <2> QED BY <2>1, <2>2, <2>3
<1>3. ASSUME NEW s \in Outs, s = Head(script), ChildWrites PROVE IInv'
  <2>1. BytesInv'
    <3>1. TypeInv'
      BY <1>3, SMTT(20) DEF ChildWrites, TypeInv
    <3>2. FailInv'
      BY <1>3, SMTT(20) DEF ChildWrites, FailInv
    <3>3. FlowInv'
      <4>1. wrote'[s] - buf'[s] = wrote[s] - buf[s]
        BY <1>3, SMTT(20) DEF ChildWrites, TypeInv
      <4>2. \A r \in Streams : r # s => buf'[r] = buf[r] /\ (r \in Outs => wrote'[r] = wrote[r])
        BY <1>3, SMTT(20) DEF ChildWrites, TypeInv
      <4>3. UNCHANGED <<taken, input, rest, got>>
        BY <1>3 DEF ChildWrites
      <4> QED BY <3>1, <4>1, <4>2, <4>3, SMTT(20) DEF TypeInv, FlowInv
    <3> QED BY <3>1, <3>2, <3>3
  <2>2. EndsInv'
    <3>1. /\ child = "runs" /\ child' \in {"runs", "exited"} /\ buf'["stdin"] = buf["stdin"]
          /\ UNCHANGED <<piped, reads, heir, ours>>
      BY <1>3, SMTT(20) DEF ChildWrites, TypeInv
    <3>2. \A r \in Outs : ~Drained(r)
      BY <3>1 DEF Drained, Written
    <3>3. Fed => Fed'
      BY <3>1 DEF Fed, StdinRead
    <3>4. DriverInv' /\ JoinInv'
      BY <3>1, <3>2, <3>3, SMT DEF DriverInv, JoinInv
    <3>5. PollInv' /\ ResultInv'
      BY <3>1, <3>2, <3>3, SMT DEF PollInv, ResultInv, StdinRead
    <3> QED BY <3>4, <3>5
  <2>3. SignalInv'
    BY <1>3, SMTT(20) DEF ChildWrites, SignalInv
  <2> QED BY <2>1, <2>2, <2>3
<1>4. CASE ChildExits
  <2>1. BytesInv'
    BY <1>4, SMTT(20) DEF ChildExits, TypeInv, FailInv, FlowInv
  <2>2. EndsInv'
    BY <1>4, <2>1, SMTT(20)
       DEF ChildExits,
           TypeInv, FlowInv, DriverInv, PollInv, JoinInv, ResultInv, Drained, Fed, Written, StdinRead
  <2>3. SignalInv'
    BY <1>4, SMTT(20) DEF ChildExits, SignalInv
  <2> QED BY <2>1, <2>2, <2>3
<1>5. CASE ChildKilled
  <2>1. BytesInv'
    BY <1>5, SMTT(20) DEF ChildKilled, TypeInv, FailInv, FlowInv
  <2>2. EndsInv'
    BY <1>5, <2>1, SMTT(20)
       DEF ChildKilled,
           TypeInv, FlowInv, DriverInv, PollInv, JoinInv, ResultInv, Drained, Fed, Written, StdinRead
  <2>3. SignalInv'
    BY <1>5, SMTT(20) DEF ChildKilled, SignalInv
  <2> QED BY <2>1, <2>2, <2>3
<1>6. CASE HeirCloses
  <2>1. BytesInv'
    BY <1>6, SMTT(20) DEF HeirCloses, TypeInv, FailInv, FlowInv
  <2>2. EndsInv'
    BY <1>6, <2>1, SMTT(20)
       DEF HeirCloses,
           TypeInv, FlowInv, DriverInv, PollInv, JoinInv, ResultInv, Drained, Fed, Written, StdinRead
  <2>3. SignalInv'
    BY <1>6, SMTT(20) DEF HeirCloses, SignalInv
  <2> QED BY <2>1, <2>2, <2>3
<1> QED BY <1>1, <1>2, <1>3, <1>4, <1>5, <1>6 DEF World, ChildSteps, ChildWrites

(* The poll loop, and the host's own SIGPIPE beside it. *)
LEMMA PollLoopStep ==
  ASSUME IInv,
         PollStep \/ HostSignals, UNCHANGED task
  PROVE  IInv'
<1> USE DEF IInv, BytesInv, EndsInv, pipes, common, host, local, signals, Streams, Outs, Tasks
<1>1. CASE New
  <2>1. BytesInv'
    <3>1. TypeInv'
      BY <1>1, PipesAssumption, SMTT(20) DEF New, Closes, Idle, Fault, TypeInv
    <3>2. FailInv'
      BY <1>1, SMTT(20) DEF New, Closes, Idle, Fault, FailInv
    <3>3. FlowInv'
      BY <1>1, PipesAssumption, SMTT(20) DEF New, Closes, Idle, Fault, TypeInv, FlowInv
    <3> QED BY <3>1, <3>2, <3>3
  <2>2. EndsInv'
    BY <1>1, <2>1, SMTT(20)
       DEF New, Closes, Idle, Fault,
           TypeInv, FlowInv, DriverInv, PollInv, JoinInv, ResultInv, Drained, Fed, Written, StdinRead
  <2>3. SignalInv'
    BY <1>1, SMTT(20) DEF New, Closes, Idle, Fault, SignalInv
  <2> QED BY <2>1, <2>2, <2>3
<1>2. CASE Poll
  <2>1. BytesInv'
    <3>1. TypeInv'
      BY <1>2, PipesAssumption, SMTT(20) DEF Poll, Closes, Idle, Fault, TypeInv
    <3>2. FailInv'
      BY <1>2, SMTT(20) DEF Poll, Closes, Idle, Fault, FailInv
    <3>3. FlowInv'
      BY <1>2, PipesAssumption, SMTT(20) DEF Poll, Closes, Idle, Fault, TypeInv, FlowInv
    <3> QED BY <3>1, <3>2, <3>3
  <2>2. EndsInv'
    BY <1>2, <2>1, SMTT(20)
       DEF Poll, Closes, Idle, Fault,
           TypeInv, FlowInv, DriverInv, PollInv, JoinInv, ResultInv, Drained, Fed, Written, StdinRead
  <2>3. SignalInv'
    BY <1>2, SMTT(20) DEF Poll, Closes, Idle, Fault, SignalInv
  <2> QED BY <2>1, <2>2, <2>3
<1>3. CASE Served
  <2>1. BytesInv'
    BY <1>3, SMTT(20) DEF Served, TypeInv, FailInv, FlowInv
  <2>2. EndsInv'
    BY <1>3, <2>1, SMTT(20)
       DEF Served,
           TypeInv, FlowInv, DriverInv, PollInv, JoinInv, ResultInv, Drained, Fed, Written, StdinRead
  <2>3. SignalInv'
    BY <1>3, SMTT(20) DEF Served, SignalInv
  <2> QED BY <2>1, <2>2, <2>3
<1>4. CASE BeginWrite
  <2>1. BytesInv'
    BY <1>4, SMTT(20) DEF BeginWrite, TypeInv, FailInv, FlowInv
  <2>2. EndsInv'
    BY <1>4, <2>1, SMTT(20)
       DEF BeginWrite,
           TypeInv, FlowInv, DriverInv, PollInv, JoinInv, ResultInv, Drained, Fed, Written, StdinRead
  <2>3. SignalInv'
    <3>1. wasPending' => inThread \/ inProcess
      BY <1>4, Zenon DEF BeginWrite
    <3> QED BY <1>4, <3>1, SMT DEF BeginWrite, SignalInv
  <2> QED BY <2>1, <2>2, <2>3
<1>5. CASE Write
  <2>1. BytesInv'
    <3>1. TypeInv'
      BY <1>5, PipesAssumption, SMTT(20) DEF Write, Min2, Idle, Fault, TypeInv
    <3>2. FailInv'
      BY <1>5, SMTT(20) DEF Write, Min2, Idle, Fault, FailInv
    <3>3. FlowInv'
      BY <1>5, PipesAssumption, SMTT(20) DEF Write, Min2, Idle, Fault, TypeInv, FlowInv
    <3> QED BY <3>1, <3>2, <3>3
  <2>2. EndsInv'
    BY <1>5, <2>1, SMTT(20)
       DEF Write, Min2, Idle, Fault,
           TypeInv, FlowInv, DriverInv, PollInv, JoinInv, ResultInv, Drained, Fed, Written, StdinRead
  <2>3. SignalInv'
    BY <1>5, SMTT(20) DEF Write, Min2, Idle, Fault, SignalInv
  <2> QED BY <2>1, <2>2, <2>3
<1>6. CASE Restore
  <2>1. BytesInv'
    BY <1>6, SMTT(20) DEF Restore, Takes, Closes, Idle, TypeInv, FailInv, FlowInv
  <2>2. EndsInv'
    BY <1>6, <2>1, SMTT(20)
       DEF Restore, Takes, Closes, Idle,
           TypeInv, FlowInv, DriverInv, PollInv, JoinInv, ResultInv, Drained, Fed, Written, StdinRead
  <2>3. SignalInv'
    <3>1. PICK takes \in {"none", "thread", "process"} :
            /\ Takes(takes)
            /\ inThread' = (inThread /\ takes # "thread" /\ hostBlocks)
            /\ inProcess' = (inProcess /\ takes # "process")
            /\ hostDead' = (hostDead \/ (inThread /\ takes # "thread" /\ ~hostBlocks))
      BY <1>6 DEF Restore
    <3>2. takes # "process"
      BY <1>6, <3>1, SMT DEF Restore, Takes, SignalInv
    <3>3. inThread /\ ~hostBlocks => takes = "thread"
      BY <1>6, <3>1, SMT DEF Restore, Takes, SignalInv
    <3>4. /\ pc = "restore" /\ pc' # "restore" /\ hostBlocks' = hostBlocks
          /\ hostSignal' = hostSignal /\ wasPending' = wasPending
      BY <1>6, SMT DEF Restore
    <3>5. ~hostDead
      BY <3>4, SMT DEF SignalInv
    <3>6. ~hostDead' /\ (inThread' => hostBlocks)
      BY <3>1, <3>3, <3>5, Zenon
    <3>7. (inProcess => inProcess') /\ (inProcess' => inProcess)
      BY <3>1, <3>2, Zenon
    <3> QED BY <3>4, <3>6, <3>7, SMT DEF SignalInv
  <2> QED BY <2>1, <2>2, <2>3
<1>7. ASSUME NEW s \in Outs, ReadSome(s) PROVE IInv'
  <2>1. BytesInv'
    <3>1. TypeInv'
      BY <1>7, PipesAssumption, SMTT(20) DEF ReadSome, Idle, Fault, TypeInv
    <3>2. FailInv'
      BY <1>7, SMTT(20) DEF ReadSome, Idle, Fault, FailInv
    <3>3. FlowInv'
      BY <1>7, PipesAssumption, SMTT(20) DEF ReadSome, Idle, Fault, TypeInv, FlowInv
    <3> QED BY <3>1, <3>2, <3>3
  <2>2. EndsInv'
    BY <1>7, <2>1, SMTT(20)
       DEF ReadSome, Idle, Fault,
           TypeInv, FlowInv, DriverInv, PollInv, JoinInv, ResultInv, Drained, Fed, Written, StdinRead
  <2>3. SignalInv'
    BY <1>7, SMTT(20) DEF ReadSome, Idle, Fault, SignalInv
  <2> QED BY <2>1, <2>2, <2>3
<1>8. CASE Returns
  <2>1. BytesInv'
    BY <1>8, SMTT(20) DEF Returns, Fault, TypeInv, FailInv, FlowInv
  <2>2. EndsInv'
    <3>1. result' = "ok" => child = "exited" /\ failed = {}
      BY <1>8, FirstFailure, SMT DEF Returns, Fault, FailInv
    <3> QED BY <1>8, <3>1, SMTT(20)
       DEF Returns, Fault,
           TypeInv, FlowInv, DriverInv, PollInv, JoinInv, ResultInv, Drained, Fed, Written, StdinRead
  <2>3. SignalInv'
    BY <1>8, SMTT(20) DEF Returns, Fault, SignalInv
  <2> QED BY <2>1, <2>2, <2>3
<1>9. CASE HostSignals
  <2>1. BytesInv'
    BY <1>9, SMTT(20) DEF HostSignals, TypeInv, FailInv, FlowInv
  <2>2. EndsInv'
    BY <1>9, <2>1, SMTT(20)
       DEF HostSignals,
           TypeInv, FlowInv, DriverInv, PollInv, JoinInv, ResultInv, Drained, Fed, Written, StdinRead
  <2>3. SignalInv'
    BY <1>9, SMTT(20) DEF HostSignals, SignalInv
  <2> QED BY <2>1, <2>2, <2>3
<1> QED BY <1>1, <1>2, <1>3, <1>4, <1>5, <1>6, <1>7, <1>8, <1>9 DEF PollStep

(* The tasks of the joining drivers. *)
LEMMA TasksStep ==
  ASSUME IInv,
         (\E t \in Tasks : JoinStep(t) \/ TaskFails(t)) \/ Joined, UNCHANGED <<local, signals>>
  PROVE  IInv'
<1> USE DEF IInv, BytesInv, EndsInv, pipes, common, host, local, signals, Streams, Outs, Tasks
<1>1. CASE WriteAll
  <2>1. BytesInv'
    <3>1. TypeInv'
      BY <1>1, PipesAssumption, SMTT(20) DEF WriteAll, BrokenPipe, Running, End, Min2, Idle, TypeInv
    <3>2. FailInv'
      BY <1>1, SMTT(20) DEF WriteAll, BrokenPipe, Running, End, Min2, Idle, FailInv
    <3>3. FlowInv'
      BY <1>1, PipesAssumption, SMTT(20) DEF WriteAll, BrokenPipe, Running, End, Min2, Idle, TypeInv, FlowInv
    <3> QED BY <3>1, <3>2, <3>3
  <2>2. EndsInv'
    BY <1>1, <2>1, SMTT(20)
       DEF WriteAll, BrokenPipe, Running, End, Min2, Idle,
           TypeInv, FlowInv, DriverInv, PollInv, JoinInv, ResultInv, Drained, Fed, Written, StdinRead
  <2>3. SignalInv'
    BY <1>1, SMTT(20) DEF WriteAll, Running, DriverInv, SignalInv
  <2> QED BY <2>1, <2>2, <2>3
<1>2. ASSUME NEW s \in Outs, ReadToEnd(s) PROVE IInv'
  <2>1. BytesInv'
    <3>1. TypeInv'
      BY <1>2, PipesAssumption, SMTT(20) DEF ReadToEnd, Running, End, Idle, TypeInv
    <3>2. FailInv'
      BY <1>2, SMTT(20) DEF ReadToEnd, Running, End, Idle, FailInv
    <3>3. FlowInv'
      BY <1>2, PipesAssumption, SMTT(20) DEF ReadToEnd, Running, End, Idle, TypeInv, FlowInv
    <3> QED BY <3>1, <3>2, <3>3
  <2>2. EndsInv'
    BY <1>2, <2>1, SMTT(20)
       DEF ReadToEnd, Running, End, Idle,
           TypeInv, FlowInv, DriverInv, PollInv, JoinInv, ResultInv, Drained, Fed, Written, StdinRead
  <2>3. SignalInv'
    BY <1>2, SMTT(20) DEF ReadToEnd, Running, DriverInv, SignalInv
  <2> QED BY <2>1, <2>2, <2>3
<1>3. CASE WaitEnds
  <2>1. BytesInv'
    <3>1. TypeInv'
      BY <1>3, PipesAssumption, SMTT(20) DEF WaitEnds, Running, End, Idle, TypeInv
    <3>2. FailInv'
      BY <1>3, SMTT(20) DEF WaitEnds, Running, End, Idle, FailInv
    <3>3. FlowInv'
      BY <1>3, PipesAssumption, SMTT(20) DEF WaitEnds, Running, End, Idle, TypeInv, FlowInv
    <3> QED BY <3>1, <3>2, <3>3
  <2>2. EndsInv'
    BY <1>3, <2>1, SMTT(20)
       DEF WaitEnds, Running, End, Idle,
           TypeInv, FlowInv, DriverInv, PollInv, JoinInv, ResultInv, Drained, Fed, Written, StdinRead
  <2>3. SignalInv'
    BY <1>3, SMTT(20) DEF WaitEnds, Running, DriverInv, SignalInv
  <2> QED BY <2>1, <2>2, <2>3
<1>4. ASSUME NEW t \in Tasks, TaskFails(t) PROVE IInv'
  <2>1. BytesInv'
    <3>1. TypeInv'
      BY <1>4, PipesAssumption, SMTT(20) DEF TaskFails, Running, End, Fault, Idle, TypeInv
    <3>2. FailInv'
      BY <1>4, SMTT(20) DEF TaskFails, Running, End, Fault, Idle, FailInv
    <3>3. FlowInv'
      BY <1>4, PipesAssumption, SMTT(20) DEF TaskFails, Running, End, Fault, Idle, TypeInv, FlowInv
    <3> QED BY <3>1, <3>2, <3>3
  <2>2. EndsInv'
    BY <1>4, <2>1, SMTT(20)
       DEF TaskFails, Running, End, Fault, Idle,
           TypeInv, FlowInv, DriverInv, PollInv, JoinInv, ResultInv, Drained, Fed, Written, StdinRead
  <2>3. SignalInv'
    BY <1>4, SMTT(20) DEF TaskFails, Running, DriverInv, SignalInv
  <2> QED BY <2>1, <2>2, <2>3
<1>5. CASE Joined
  <2>1. BytesInv'
    BY <1>5, SMTT(20) DEF Joined, TypeInv, FailInv, FlowInv
  <2>2. EndsInv'
    BY <1>5, <2>1, SMTT(20)
       DEF Joined,
           TypeInv, FlowInv, DriverInv, PollInv, JoinInv, ResultInv, Drained, Fed, Written, StdinRead
  <2>3. SignalInv'
    BY <1>5, SMTT(20) DEF Joined, DriverInv, SignalInv
  <2> QED BY <2>1, <2>2, <2>3
<1> QED BY <1>1, <1>2, <1>3, <1>4, <1>5 DEF JoinStep

(* Every step of communicate, the child and the host keeps the invariant. *)
LEMMA InductiveStep == IInv /\ [Next]_<<vars, TryJoin>> => IInv'
<1> SUFFICES ASSUME IInv, [Next]_<<vars, TryJoin>> PROVE IInv'
  OBVIOUS
<1>1. CASE (PollStep \/ HostSignals) /\ UNCHANGED task
  BY <1>1, PollLoopStep
<1>2. CASE ((\E t \in Tasks : JoinStep(t) \/ TaskFails(t)) \/ Joined) /\ UNCHANGED <<local, signals>>
  BY <1>2, TasksStep
<1>3. CASE World /\ UNCHANGED <<common, host, local, signals, task>>
  BY <1>3, WorldStep
<1>4. CASE UNCHANGED vars
  BY <1>4
     DEF vars, pipes, common, host, local, signals, IInv, BytesInv, EndsInv, SignalInv, TypeInv, FailInv, FlowInv,
         DriverInv, PollInv, JoinInv, ResultInv, Drained, Fed, Written, StdinRead
<1> QED BY <1>1, <1>2, <1>3, <1>4 DEF Next

(* The invariant holds of communicate under each of its drivers. *)
THEOREM Invariance == Spec => []IInv
BY InitInv, InductiveStep, PTL DEF Spec

(* communicate's contract, for pipes of any capacity, any input and any child: *)
(* an Ok result holds every byte the child and its heirs wrote, and no byte of *)
(* the input is lost or sent twice.                                            *)
THEOREM OkResultsAreWhole == Spec => []OkIsWhole
<1>1. IInv => OkIsWhole
  BY SMT DEF IInv, OkIsWhole, BytesInv, EndsInv, TypeInv, FlowInv, ResultInv, Drained, Fed, Streams, Outs
<1> QED BY <1>1, Invariance, PTL

(* write_without_sigpipe, of the blocking communicate of Unix: the SIGPIPE of a *)
(* write of the poll loop never kills the host, and one of the host's own stays *)
(* pending for it, whenever it arrives. tokio's communicate has no such guard.  *)
THEOREM SigpipesAreContained == Spec => []SigpipeContained
<1>1. IInv => SigpipeContained
  BY Zenon DEF IInv, SignalInv, SigpipeContained
<1> QED BY <1>1, Invariance, PTL

=============================================================================
