------------------------- MODULE BackendIpc_proofs -------------------------
(***************************************************************************)
(* OneBackend, AnswerIsOwn and the refinement of BackendCall for any       *)
(* number of callers, commands and sessions.  There is one backend because *)
(* a thread that starts one holds the mutex, and whatever runs is the      *)
(* current session or one that is being dropped by the holder.  A response *)
(* is its caller's own because the worker sends the next line only when it *)
(* has read the answer to the last one: no more than one request is ever   *)
(* in the pipes.                                                           *)
(***************************************************************************)
EXTENDS BackendIpc, TLAPS, SequenceTheorems

Working  == {"check", "send", "wait"}
Dropping == {"drop", "drop_wait", "drop_end", "drop_reap"}

\* A thread inside backend_ipc, or dropping a session, holds the mutex.
MutexIsHeld ==
    /\ \A t \in Threads : pc[t] \in Working \cup Dropping => lock = {t}
    /\ \A t \in Threads : dropping[t] # 0 => pc[t] \in Dropping \cup {"dead"}
    /\ \A t \in Threads : pc[t] = "dead" <=> app = "exited"

\* A process that runs is the current session's or that of one being dropped,
\* unless it survived its kill.
AliveIsHeld ==
    \A s \in Sessions :
        Alive(s) => s = current \/ s \in Survivors \/ \E t \in Threads : dropping[t] = s

\* What the pipes hold while the worker waits for a request ...
Quiet(s) == stdin[s] = <<>> /\ stdout[s] = <<>> /\ child[s] # "busy"

\* ... and while it exchanges one.
InFlight(s) ==
    \/ stdin[s] = <<wreq[s]>> /\ stdout[s] = <<>> /\ child[s] # "busy"
    \/ stdin[s] = <<>> /\ stdout[s] = <<>> /\ (child[s] = "busy" => work[s] = wreq[s])
    \/ stdin[s] = <<>> /\ stdout[s] = <<wreq[s]>> /\ child[s] # "busy"

Pipes(s) ==
    /\ s > spawned => worker[s] = "none"
    /\ worker[s] \in {"none", "recv"} => Quiet(s)
    /\ worker[s] = "exchange" => InFlight(s)

OneInPipes == \A s \in Sessions : Pipes(s)

IInv == TypeOK /\ MutexIsHeld /\ AliveIsHeld /\ OneBackend /\ OneInPipes /\ AnswerIsOwn

\* The invariant holds when the Tauri process starts.
LEMMA InitInvariant == Init => IInv
<1>. SUFFICES ASSUME Init PROVE IInv
  OBVIOUS
<1>. USE DEF Init
<1>1. TypeOK
  <2>1. <<>> \in Seq(MaybePayloads)
    BY EmptySeq
  <2>2. 0 \in MaybePayloads /\ Open \in Replies
    BY BoundsAssumption DEF MaybePayloads, Replies, Open
  <2>. QED BY <2>1, <2>2, BoundsAssumption DEF TypeOK
<1>2. MutexIsHeld
  BY DEF MutexIsHeld, Working, Dropping
<1>3. AliveIsHeld /\ OneBackend
  BY DEF AliveIsHeld, OneBackend, Alive
<1>4. OneInPipes
  BY DEF OneInPipes, Pipes, Quiet
<1>5. AnswerIsOwn
  BY DEF AnswerIsOwn, Open
<1>. QED BY <1>1, <1>2, <1>3, <1>4, <1>5 DEF IInv

\* The steps of the I/O worker.
LEMMA WorkerKeepsTypes ==
    ASSUME TypeOK, NEW s \in Sessions, WorkerStep(s) PROVE TypeOK'
<1>. USE DEF TypeOK, rust, channels, io, process, history
<1>0. /\ <<>> \in Seq(MaybePayloads) /\ 0 \in MaybePayloads
      /\ Broken \in Replies /\ Failed \in Replies
      /\ \A q \in MaybePayloads : Answer(q) \in Replies
  BY EmptySeq, BoundsAssumption DEF MaybePayloads, Replies, Broken, Failed, Answer
<1>1. ASSUME NEW replies \in [Payloads -> Replies], WorkerStops(s, replies)
      PROVE  /\ worker' \in [Sessions -> {"none", "recv", "exchange", "done"}]
             /\ wreq' \in [Sessions -> MaybePayloads]
             /\ queue' \in [Sessions -> Seq(MaybePayloads)]
             /\ reply' \in [Payloads -> Replies]
  BY <1>0, <1>1 DEF WorkerStops
<1>2. ASSUME NEW response \in Replies PROVE Deliver(s, response) \in [Payloads -> Replies]
  BY DEF Deliver
<1>3. CASE WorkerRecv(s)
  <2>1. Head(queue[s]) \in MaybePayloads /\ Tail(queue[s]) \in Seq(MaybePayloads)
    BY <1>3, HeadTailProperties DEF WorkerRecv
  <2>2. Append(stdin[s], Head(queue[s])) \in Seq(MaybePayloads)
    BY <2>1, AppendProperties
  <2>. QED BY <1>3, <2>1, <2>2 DEF WorkerRecv
<1>4. CASE WorkerRead(s)
  <2>1. Head(stdout[s]) \in MaybePayloads /\ Tail(stdout[s]) \in Seq(MaybePayloads)
    BY <1>4, HeadTailProperties DEF WorkerRead
  <2>2. Deliver(s, Answer(Head(stdout[s]))) \in [Payloads -> Replies]
    BY <1>0, <1>2, <2>1
  <2>. QED BY ZenonT(40), <1>0, <1>1, <1>4, <2>1, <2>2 DEF WorkerRead
<1>5. CASE WorkerFails(s)
  BY <1>0, <1>1, <1>2, <1>5 DEF WorkerFails
<1>6. CASE WorkerEnds(s)
  BY <1>1, <1>6 DEF WorkerEnds
<1>. QED BY <1>3, <1>4, <1>5, <1>6 DEF WorkerStep

\* The steps of the backend process.
LEMMA ChildKeepsTypes ==
    ASSUME TypeOK, NEW s \in Sessions, ChildStep(s) PROVE TypeOK'
<1>. USE DEF TypeOK, rust, channels, io, process, history
<1>1. CASE ReadLine(s)
  <2>1. Head(stdin[s]) \in MaybePayloads /\ Tail(stdin[s]) \in Seq(MaybePayloads)
    BY <1>1, HeadTailProperties DEF ReadLine
  <2>. QED BY <1>1, <2>1 DEF ReadLine
<1>2. CASE RunCommand(s)
  <2>1. Append(stdout[s], work[s]) \in Seq(MaybePayloads) /\ 0 \in MaybePayloads
    BY AppendProperties, BoundsAssumption DEF MaybePayloads
  <2>2. runs' \in [Requests -> Nat]
    BY <1>2 DEF RunCommand
  <2>3. /\ child' \in [Sessions -> {"none", "ready", "busy", "closing", "gone"}]
        /\ stdout' \in [Sessions -> Seq(MaybePayloads)]
        /\ work' \in [Sessions -> MaybePayloads]
    BY <1>2, <2>1 DEF RunCommand
  <2>. QED BY <1>2, <2>2, <2>3 DEF RunCommand
<1>3. CASE EndOfInput(s) \/ Exits(s)
  BY <1>3 DEF EndOfInput, Exits
<1>4. CASE Crashes(s)
  <2>1. crashes' \in 0..MaxCrashes
    BY <1>4, BoundsAssumption DEF Crashes
  <2>. QED BY <1>4, <2>1 DEF Crashes
<1>. QED BY <1>1, <1>2, <1>3, <1>4 DEF ChildStep, ChildRuns

\* The steps of the threads of the Tauri process.
LEMMA ThreadKeepsTypes ==
    ASSUME TypeOK, NEW t \in Threads, Call(t) \/ RustStep(t) PROVE TypeOK'
<1>. USE DEF TypeOK, Put, rust, channels, io, process, history
<1>0. 0 \in 0..MaxSessions /\ 0 \in 0..MaxRequests
  BY BoundsAssumption
<1>1. CASE Call(t)
  <2>1. issued' \in 0..MaxRequests
    BY <1>1, BoundsAssumption DEF Call
  <2>. QED BY <1>1, <2>1 DEF Call
<1>2. CASE Reuse(t)
  BY <1>2 DEF Reuse
<1>3. CASE Restart(t)
  <2>1. spawned' \in 0..MaxSessions /\ current' \in 0..MaxSessions
    BY <1>3, BoundsAssumption DEF Restart, NeedsRestart
  <2>2. /\ child' \in [Sessions -> {"none", "ready", "busy", "closing", "gone"}]
        /\ worker' \in [Sessions -> {"none", "recv", "exchange", "done"}]
        /\ sender' \in [Sessions -> BOOLEAN]
        /\ dropping' \in [Threads -> 0..MaxSessions]
        /\ pc' \in [Threads -> {"idle", "check", "send", "wait", "drop", "drop_wait",
                               "drop_end", "drop_reap", "exit", "dead"}]
    BY <1>3 DEF Restart
  <2>. QED BY <1>3, <2>1, <2>2 DEF Restart
<1>4. ASSUME NEW result \in {"ok", "error"}, Return(t, result)
      PROVE  /\ lock' \in SUBSET Threads /\ req' \in [Threads -> 0..MaxRequests]
             /\ outcome' \in [Requests -> {"none", "pending", "ok", "error"}]
             /\ pc' \in [Threads -> {"idle", "check", "send", "wait", "drop", "drop_wait",
                                    "drop_end", "drop_reap", "exit", "dead"}]
  BY <1>0, <1>4 DEF Return
<1>5. CASE RestartFails(t)
  BY <1>4, <1>5 DEF RestartFails
<1>6. ASSUME GiveUp(t)
      PROVE  /\ current' \in 0..MaxSessions /\ dropping' \in [Threads -> 0..MaxSessions]
             /\ UNCHANGED <<lock, req, outcome>>
             /\ pc' \in [Threads -> {"idle", "check", "send", "wait", "drop", "drop_wait",
                                    "drop_end", "drop_reap", "exit", "dead"}]
  BY <1>0, <1>6 DEF GiveUp
<1>7. CASE Send(t)
  <2>1. CASE Accepts(current)
    <3>1. req[t] \in MaybePayloads
      BY BoundsAssumption DEF MaybePayloads
    <3>2. current \in Sessions => Append(queue[current], req[t]) \in Seq(MaybePayloads)
      BY <3>1, AppendProperties
    <3>3. queue' \in [Sessions -> Seq(MaybePayloads)]
      BY <1>7, <2>1, <3>2 DEF Send
    <3>. QED BY <1>7, <2>1, <3>3 DEF Send
  <2>2. CASE ~Accepts(current)
    BY <1>6, <1>7, <2>2 DEF Send
  <2>. QED BY <2>1, <2>2
<1>8. CASE Receive(t)
  BY <1>4, <1>6, <1>8 DEF Receive
<1>9. CASE Timeout(t)
  <2>1. Dropped \in Replies
    BY BoundsAssumption DEF Dropped, Replies, MaybePayloads
  <2>2. reply' \in [Payloads -> Replies]
    BY <1>9, <2>1 DEF Timeout
  <2>. QED BY <1>6, <1>9, <2>2 DEF Timeout
<1>10. CASE DropAsks(t)
  <2>1. CloseOf(dropping[t]) \in MaybePayloads
    BY BoundsAssumption DEF MaybePayloads, CloseOf
  <2>2. dropping[t] \in Sessions =>
            Append(queue[dropping[t]], CloseOf(dropping[t])) \in Seq(MaybePayloads)
    BY <2>1, AppendProperties
  <2>3. queue' \in [Sessions -> Seq(MaybePayloads)]
    BY <1>10, <2>2 DEF DropAsks
  <2>. QED BY <1>10, <2>3 DEF DropAsks
<1>11. CASE DropWaited(t)
  <2>1. Dropped \in Replies
    BY BoundsAssumption DEF Dropped, Replies, MaybePayloads
  <2>2. reply' \in [Payloads -> Replies]
    BY <1>11, <2>1 DEF DropWaited
  <2>. QED BY <1>11, <2>2 DEF DropWaited
<1>12. CASE DropCloses(t)
  BY <1>12 DEF DropCloses
<1>13. CASE DropReaps(t)
  <2>1. child' \in [Sessions -> {"none", "ready", "busy", "closing", "gone"}]
    BY <1>13 DEF DropReaps, Kill
  <2>2. dropping' \in [Threads -> 0..MaxSessions]
    BY <1>0, <1>13 DEF DropReaps
  <2>. QED BY <1>4, <1>13, <2>1, <2>2 DEF DropReaps
<1>. QED BY <1>1, <1>2, <1>3, <1>5, <1>7, <1>8, <1>9, <1>10, <1>11, <1>12, <1>13 DEF RustStep

\* The exit event, and the end of the process.
LEMMA ExitKeepsTypes == TypeOK /\ (ExitEvent \/ ProcessEnds) => TypeOK'
<1>. SUFFICES ASSUME TypeOK, ExitEvent \/ ProcessEnds PROVE TypeOK'
  OBVIOUS
<1>. USE DEF TypeOK, Put, rust, channels, io, process, history
<1>0. 0 \in 0..MaxSessions /\ Main \in Threads
  BY BoundsAssumption DEF Threads
<1>1. CASE ExitEvent
  BY <1>0, <1>1 DEF ExitEvent
<1>2. CASE ProcessEnds
  BY <1>2 DEF ProcessEnds
<1>. QED BY <1>1, <1>2

-----------------------------------------------------------------------------
\* A thread that goes on with the mutex keeps the discipline if it drops a
\* session only in the steps of a drop ...
LEMMA MutexIsKept ==
    ASSUME TypeOK, MutexIsHeld, NEW t \in Threads, pc[t] \in Working \cup Dropping,
           NEW label \in Working \cup Dropping, Put(t, label), UNCHANGED <<lock, app>>,
           NEW d \in Nat, dropping' = [dropping EXCEPT ![t] = d],
           d # 0 => label \in Dropping
    PROVE  MutexIsHeld'
<1>1. /\ DOMAIN pc = Threads /\ DOMAIN dropping = Threads
      /\ pc' = [pc EXCEPT ![t] = label] /\ label # "dead" /\ pc[t] # "dead"
  BY DEF TypeOK, Put, Working, Dropping
<1>2. \A u \in Threads : /\ pc'[u] = IF u = t THEN label ELSE pc[u]
                         /\ dropping'[u] = IF u = t THEN d ELSE dropping[u]
  BY <1>1
<1>3. \A u \in Threads : pc'[u] \in Working \cup Dropping => lock' = {u}
  BY <1>2 DEF MutexIsHeld
<1>4. \A u \in Threads : dropping'[u] # 0 => pc'[u] \in Dropping \cup {"dead"}
  BY <1>2 DEF MutexIsHeld
<1>5. \A u \in Threads : pc'[u] = "dead" <=> app' = "exited"
  BY <1>1, <1>2 DEF MutexIsHeld
<1>. QED BY <1>3, <1>4, <1>5 DEF MutexIsHeld

\* ... and so does one that gives it back with nothing left to drop.
LEMMA MutexIsGivenBack ==
    ASSUME TypeOK, MutexIsHeld, NEW t \in Threads, pc[t] \in Working \cup Dropping,
           NEW label \in {"idle", "exit"}, Put(t, label), UNCHANGED app,
           lock' = {} \/ UNCHANGED lock,
           dropping' = [dropping EXCEPT ![t] = 0]
    PROVE  MutexIsHeld'
<1>1. /\ DOMAIN pc = Threads /\ DOMAIN dropping = Threads
      /\ pc' = [pc EXCEPT ![t] = label] /\ label \notin Working \cup Dropping
      /\ label # "dead" /\ pc[t] # "dead" /\ lock = {t}
  BY DEF TypeOK, Put, Working, Dropping, MutexIsHeld
<1>2. \A u \in Threads : /\ pc'[u] = IF u = t THEN label ELSE pc[u]
                         /\ dropping'[u] = IF u = t THEN 0 ELSE dropping[u]
  BY <1>1
<1>3. \A u \in Threads : pc'[u] \notin Working \cup Dropping
  BY <1>1, <1>2 DEF MutexIsHeld
<1>4. \A u \in Threads : dropping'[u] # 0 => pc'[u] \in Dropping \cup {"dead"}
  BY <1>2 DEF MutexIsHeld
<1>5. \A u \in Threads : pc'[u] = "dead" <=> app' = "exited"
  BY <1>1, <1>2 DEF MutexIsHeld
<1>. QED BY <1>3, <1>4, <1>5 DEF MutexIsHeld

\* A thread takes the mutex only when it is free, and gives it back only when
\* it has nothing left to drop.
LEMMA MutexStep ==
    ASSUME TypeOK, MutexIsHeld, NEW t \in Threads, Call(t) \/ RustStep(t)
    PROVE  MutexIsHeld'
<1>0. /\ current \in Nat /\ dropping[t] \in Nat
      /\ dropping = [dropping EXCEPT ![t] = dropping[t]]
      /\ pc[t] \in Working => dropping[t] = 0
  <2>1. current \in Nat /\ dropping[t] \in Nat
    BY BoundsAssumption DEF TypeOK
  <2>2. dropping = [dropping EXCEPT ![t] = dropping[t]]
    BY DEF TypeOK
  <2>3. pc[t] \in Working => dropping[t] = 0
    BY DEF MutexIsHeld, Working, Dropping
  <2>. QED BY <2>1, <2>2, <2>3
<1>1. CASE Call(t)
  <2>1. /\ lock = {} /\ lock' = {t} /\ UNCHANGED <<dropping, app>>
        /\ pc[t] = "idle" /\ pc' = [pc EXCEPT ![t] = "check"] /\ DOMAIN pc = Threads
    BY <1>1 DEF Call, Put, TypeOK
  <2>2. \A u \in Threads : u # t => pc'[u] = pc[u] /\ pc[u] \notin Working \cup Dropping
    BY <2>1 DEF MutexIsHeld
  <2>3. pc'[t] = "check"
    BY <2>1
  <2>. QED BY <2>1, <2>2, <2>3 DEF MutexIsHeld, Dropping
<1>2. CASE Reuse(t)
  BY <1>0, <1>2, MutexIsKept DEF Reuse, Working
<1>3. CASE Restart(t)
  BY <1>0, <1>3, MutexIsKept DEF Restart, NeedsRestart, Working, Dropping
<1>4. CASE RestartFails(t)
  BY <1>0, <1>4, MutexIsGivenBack DEF RestartFails, Return, Working
<1>5. ASSUME pc[t] \in Working, GiveUp(t), UNCHANGED app PROVE MutexIsHeld'
  BY <1>0, <1>5, MutexIsKept DEF GiveUp, Dropping
<1>6. CASE Send(t)
  <2>1. CASE Accepts(current)
    BY <1>0, <1>6, <2>1, MutexIsKept DEF Send, Working
  <2>2. CASE ~Accepts(current)
    BY <1>5, <1>6, <2>2 DEF Send, Working
  <2>. QED BY <2>1, <2>2
<1>7. CASE Receive(t)
  <2>1. CASE reply[req[t]].state = "answered"
    BY <1>0, <1>7, <2>1, MutexIsGivenBack DEF Receive, Return, Working
  <2>2. CASE reply[req[t]].state # "answered"
    BY <1>5, <1>7, <2>2 DEF Receive, Working
  <2>. QED BY <2>1, <2>2
<1>8. CASE Timeout(t)
  BY <1>5, <1>8 DEF Timeout, Working
<1>9. CASE DropAsks(t) \/ DropWaited(t) \/ DropCloses(t)
  <2>1. PICK label \in Dropping : Put(t, label)
    BY <1>9 DEF DropAsks, DropWaited, DropCloses, Dropping
  <2>2. pc[t] \in Dropping /\ UNCHANGED <<lock, app, dropping>>
    BY <1>9 DEF DropAsks, DropWaited, DropCloses, Dropping
  <2>. QED BY <1>0, <2>1, <2>2, MutexIsKept
<1>10. CASE DropReaps(t)
  <2>1. /\ pc[t] \in Dropping /\ UNCHANGED app
        /\ dropping' = [dropping EXCEPT ![t] = 0]
    BY <1>10 DEF DropReaps, Dropping
  <2>2. CASE t \in Callers /\ current # 0
    BY <1>10, <2>1, <2>2, MutexIsKept, ThreadsAssumption DEF DropReaps, Working
  <2>3. CASE ~(t \in Callers /\ current # 0)
    BY <1>10, <2>1, <2>3, MutexIsGivenBack DEF DropReaps, Return
  <2>. QED BY <2>2, <2>3
<1>. QED BY <1>1, <1>2, <1>3, <1>4, <1>6, <1>7, <1>8, <1>9, <1>10 DEF RustStep

\* The exit event drops a session only when the mutex is free, and a process
\* that has ended has no threads.
LEMMA MutexExits ==
    ASSUME TypeOK, MutexIsHeld, ExitEvent \/ ProcessEnds
    PROVE  MutexIsHeld'
<1>. USE DEF TypeOK, MutexIsHeld, Working, Dropping, Put
<1>0. Main \in Threads
  BY DEF Threads
<1>1. CASE ExitEvent
  <2>1. /\ UNCHANGED app /\ pc[Main] = "idle" /\ dropping[Main] = 0
        /\ \A u \in Threads \ {Main} : pc'[u] = pc[u] /\ dropping'[u] = dropping[u]
    BY ZenonT(40), <1>0, <1>1 DEF ExitEvent
  <2>2. CASE lock = {} /\ current # 0
    BY <1>0, <1>1, <2>1, <2>2 DEF ExitEvent
  <2>3. CASE ~(lock = {} /\ current # 0)
    <3>1. /\ UNCHANGED <<lock, dropping>> /\ pc'[Main] = "exit" /\ app' # "exited"
      BY <1>0, <1>1, <2>3 DEF ExitEvent
    <3>2. \A u \in Threads : u # Main => pc'[u] = pc[u]
      BY <2>1
    <3>3. \A u \in Threads : pc'[u] = pc[u] \/ (u = Main /\ pc'[u] = "exit")
      BY <3>1, <3>2
    <3>4. \A u \in Threads : pc'[u] \in Working \cup Dropping => lock' = {u}
      BY <3>1, <3>3
    <3>5. \A u \in Threads : dropping'[u] # 0 => pc'[u] \in Dropping \cup {"dead"}
      BY <2>1, <3>1, <3>3
    <3>6. \A u \in Threads : pc'[u] = "dead" <=> app' = "exited"
      BY <2>1, <3>1, <3>3
    <3>. QED BY <3>4, <3>5, <3>6
  <2>. QED BY <2>2, <2>3
<1>2. CASE ProcessEnds
  BY <1>2 DEF ProcessEnds
<1>. QED BY <1>1, <1>2

\* A backend is started when none runs, and forgotten when it has ended.
LEMMA SessionStep ==
    ASSUME TypeOK, MutexIsHeld, AliveIsHeld, OneBackend,
           NEW t \in Threads, Call(t) \/ RustStep(t)
    PROVE  AliveIsHeld' /\ OneBackend'
<1>. USE DEF TypeOK, AliveIsHeld, OneBackend, Alive
<1>1. CASE Call(t) \/ Reuse(t) \/ RestartFails(t) \/ DropAsks(t) \/ DropWaited(t)
           \/ DropCloses(t)
  BY <1>1 DEF Call, Reuse, RestartFails, Return, DropAsks, DropWaited, DropCloses, process,
              LeftBehind
<1>2. CASE Restart(t)
  <2>1. \A s \in Sessions : Alive(s) => LeftBehind(s)
    <3>1. SUFFICES ASSUME NEW s \in Sessions, Alive(s), ~LeftBehind(s) PROVE FALSE
      OBVIOUS
    <3>2. pc[t] = "check" /\ lock = {t} /\ app # "exited"
      BY <1>2 DEF Restart, NeedsRestart, MutexIsHeld, Working, Dropping
    <3>3. s # current
      BY <1>2, <3>1 DEF Restart, NeedsRestart, Sessions
    <3>4. PICK u \in Threads : dropping[u] = s
      BY <3>1, <3>3 DEF LeftBehind
    <3>5. pc[u] \in Dropping \cup {"dead"}
      BY <3>4 DEF MutexIsHeld, Sessions
    <3>6. pc[u] \in Dropping => u = t
      <4>1. pc[u] \in Dropping => u \in lock
        BY DEF MutexIsHeld
      <4>. QED BY <3>2, <4>1
    <3>7. pc[t] \notin Dropping /\ pc[u] # "dead"
      BY <3>2 DEF MutexIsHeld, Dropping
    <3>. QED BY <3>5, <3>6, <3>7
  <2>2. /\ current' = spawned + 1
        /\ \A s \in Sessions : Alive(s)' => s = spawned + 1 \/ (Alive(s) /\ LeftBehind(s))
    BY <1>2, <2>1 DEF Restart
  <2>3. \A s \in Sessions : Alive(s) => s # current
    BY <2>1 DEF LeftBehind
  <2>4. \A s \in Sessions : Alive(s)' => s = spawned + 1 \/ LeftBehind(s)'
    BY <1>2, <2>2, <2>3 DEF Restart, LeftBehind
  <2>. QED BY <2>2, <2>4 DEF LeftBehind
<1>3. ASSUME pc[t] \in Working, GiveUp(t), UNCHANGED child
      PROVE  AliveIsHeld' /\ OneBackend'
  <2>1. dropping[t] = 0
    BY <1>3 DEF MutexIsHeld, Working, Dropping
  <2>2. \A s \in Sessions : Alive(s) /\ LeftBehind(s) => LeftBehind(s)'
    BY <1>3, <2>1 DEF GiveUp, LeftBehind, Sessions
  <2>. QED BY <1>3, <2>1, <2>2 DEF GiveUp, Sessions
<1>4. CASE Send(t)
  <2>1. CASE Accepts(current)
    BY <1>4, <2>1 DEF Send, process, LeftBehind
  <2>2. CASE ~Accepts(current)
    BY <1>3, <1>4, <2>2 DEF Send, process, Working
  <2>. QED BY <2>1, <2>2
<1>5. CASE Receive(t)
  <2>1. CASE reply[req[t]].state = "answered"
    BY <1>5, <2>1 DEF Receive, process, LeftBehind
  <2>2. CASE reply[req[t]].state # "answered"
    BY <1>3, <1>5, <2>2 DEF Receive, process, Working
  <2>. QED BY <2>1, <2>2
<1>6. CASE Timeout(t)
  BY <1>3, <1>6 DEF Timeout, process, Working
<1>7. CASE DropReaps(t)
  <2>1. /\ current' = current /\ dropping' = [dropping EXCEPT ![t] = 0]
        /\ \A s \in Sessions : Alive(s)' => Alive(s) /\ (s # dropping[t] \/ s \in Survivors)
    BY <1>7 DEF DropReaps, Kill
  <2>2. \A s \in Sessions : LeftBehind(s) => LeftBehind(s)'
    BY <2>1 DEF LeftBehind, Sessions
  <2>. QED BY <2>1, <2>2
<1>. QED BY <1>1, <1>2, <1>4, <1>5, <1>6, <1>7 DEF RustStep

\* The other steps start no backend; the exit event drops the current one.
LEMMA SessionOthers ==
    ASSUME TypeOK, MutexIsHeld, AliveIsHeld, OneBackend,
           \/ \E s \in Sessions : WorkerStep(s) \/ ChildStep(s)
           \/ ExitEvent \/ ProcessEnds
    PROVE  AliveIsHeld' /\ OneBackend'
<1>. USE DEF TypeOK, AliveIsHeld, OneBackend, LeftBehind
<1>1. ASSUME NEW s \in Sessions, WorkerStep(s) \/ ChildStep(s)
      PROVE  AliveIsHeld' /\ OneBackend'
  <2>1. current' = current /\ dropping' = dropping
    BY <1>1
    DEF WorkerStep, WorkerRecv, WorkerRead, WorkerFails, WorkerEnds, ChildStep, ChildRuns,
        ReadLine, RunCommand, EndOfInput, Exits, Crashes, rust
  <2>2. \A u \in Sessions : Alive(u)' => Alive(u)
    BY <1>1
    DEF WorkerStep, WorkerRecv, WorkerRead, WorkerFails, WorkerEnds, ChildStep, ChildRuns,
        ReadLine, RunCommand, EndOfInput, Exits, Crashes, process, Alive
  <2>. QED BY <2>1, <2>2
<1>2. CASE ExitEvent
  <2>1. Main \in Threads /\ dropping[Main] = 0
    BY <1>2 DEF ExitEvent, MutexIsHeld, Threads, Dropping
  <2>. QED BY <1>2, <2>1 DEF ExitEvent, process, Alive, Sessions
<1>3. CASE ProcessEnds
  BY <1>3 DEF ProcessEnds, process, Alive
<1>. QED BY <1>1, <1>2, <1>3

-----------------------------------------------------------------------------
\* A step that leaves the other sessions' pipes alone disturbs only its own.
LEMMA PipesOfOne ==
    ASSUME OneInPipes, NEW s \in Sessions, Pipes(s)', UNCHANGED spawned,
           \A u \in Sessions \ {s} :
               /\ worker'[u] = worker[u] /\ wreq'[u] = wreq[u]
               /\ stdin'[u] = stdin[u] /\ stdout'[u] = stdout[u]
               /\ child'[u] = child[u] /\ work'[u] = work[u]
    PROVE  OneInPipes'
<1>1. ASSUME NEW u \in Sessions, u # s PROVE Pipes(u)'
  <2>1. Pipes(u)
    BY DEF OneInPipes
  <2>. QED BY <1>1, <2>1 DEF Pipes, Quiet, InFlight
<1>. QED BY <1>1 DEF OneInPipes

\* The worker writes a line into empty pipes, and goes back to its queue when it
\* has read the answer.
LEMMA WorkerKeepsPipes ==
    ASSUME TypeOK, OneInPipes, NEW s \in Sessions, WorkerStep(s)
    PROVE  OneInPipes'
<1>. USE DEF TypeOK
<1>0. Pipes(s)
  BY DEF OneInPipes
<1>1. CASE WorkerRecv(s)
  <2>1. /\ worker[s] = "recv" /\ worker' = [worker EXCEPT ![s] = "exchange"]
        /\ wreq' = [wreq EXCEPT ![s] = Head(queue[s])]
        /\ stdin' = IF Alive(s) THEN [stdin EXCEPT ![s] = Append(@, Head(queue[s]))] ELSE stdin
        /\ UNCHANGED <<stdout, child, work, spawned>>
        /\ Head(queue[s]) \in MaybePayloads
    BY <1>1, HeadTailProperties DEF WorkerRecv, history
  <2>2. Quiet(s)
    BY <1>0, <2>1 DEF Pipes
  <2>3. Append(<<>>, Head(queue[s])) = <<Head(queue[s])>>
    BY <2>1
  <2>4. stdin'[s] = <<wreq'[s]>> \/ stdin'[s] = <<>>
    BY <2>1, <2>2, <2>3 DEF Quiet
  <2>5. InFlight(s)'
    BY <2>1, <2>2, <2>4 DEF InFlight, Quiet
  <2>6. Pipes(s)'
    BY <1>0, <2>1, <2>5 DEF Pipes
  <2>. QED BY <2>1, <2>6, PipesOfOne
<1>2. ASSUME NEW replies, WorkerStops(s, replies), worker[s] \in {"recv", "exchange"},
             UNCHANGED <<stdin, child, work, spawned>>,
             \A u \in Sessions \ {s} : stdout'[u] = stdout[u]
      PROVE  OneInPipes'
  <2>1. Pipes(s)'
    BY <1>0, <1>2 DEF Pipes, WorkerStops
  <2>. QED BY <1>2, <2>1, PipesOfOne DEF WorkerStops
<1>3. CASE WorkerRead(s)
  <2>1. /\ worker[s] = "exchange" /\ stdout[s] # <<>>
        /\ stdout' = [stdout EXCEPT ![s] = Tail(stdout[s])]
        /\ UNCHANGED <<stdin, child, work, spawned>>
    BY <1>3 DEF WorkerRead, history
  <2>2. stdin[s] = <<>> /\ stdout[s] = <<wreq[s]>> /\ child[s] # "busy"
    BY <1>0, <2>1 DEF Pipes, InFlight
  <2>3. CASE reply[wreq[s]] = Open
    <3>1. worker' = [worker EXCEPT ![s] = "recv"] /\ wreq' = [wreq EXCEPT ![s] = 0]
      BY <1>3, <2>3 DEF WorkerRead
    <3>2. Quiet(s)'
      BY <2>1, <2>2 DEF Quiet
    <3>3. Pipes(s)'
      BY <1>0, <2>1, <3>1, <3>2 DEF Pipes
    <3>. QED BY <2>1, <3>1, <3>3, PipesOfOne
  <2>4. CASE reply[wreq[s]] # Open
    BY <1>2, <1>3, <2>1, <2>4 DEF WorkerRead
  <2>. QED BY <2>3, <2>4
<1>4. CASE WorkerFails(s)
  BY <1>2, <1>4 DEF WorkerFails, process, history
<1>5. CASE WorkerEnds(s)
  BY <1>2, <1>5 DEF WorkerEnds, process, history
<1>. QED BY <1>1, <1>3, <1>4, <1>5 DEF WorkerStep

\* The backend answers the line that it has read.
LEMMA ChildKeepsPipes ==
    ASSUME TypeOK, OneInPipes, NEW s \in Sessions, ChildStep(s)
    PROVE  OneInPipes'
<1>. USE DEF TypeOK
<1>0. Pipes(s)
  BY DEF OneInPipes
<1>1. CASE ReadLine(s)
  <2>1. /\ child[s] = "ready" /\ stdin[s] # <<>>
        /\ child' = [child EXCEPT ![s] = "busy"]
        /\ work' = [work EXCEPT ![s] = Head(stdin[s])]
        /\ stdin' = [stdin EXCEPT ![s] = Tail(stdin[s])]
        /\ UNCHANGED <<worker, wreq, stdout, spawned>>
    BY <1>1 DEF ReadLine, io, history
  <2>2. worker[s] \notin {"none", "recv"}
    BY <1>0, <2>1 DEF Pipes, Quiet
  <2>3. worker[s] = "exchange" => stdin[s] = <<wreq[s]>> /\ stdout[s] = <<>>
    BY <1>0, <2>1 DEF Pipes, InFlight
  <2>4. worker[s] = "exchange" => InFlight(s)'
    <3>1. SUFFICES ASSUME worker[s] = "exchange" PROVE InFlight(s)'
      OBVIOUS
    <3>2. Head(stdin[s]) = wreq[s] /\ Tail(stdin[s]) = <<>>
      <4>1. stdin[s] = <<wreq[s]>> /\ wreq[s] \in MaybePayloads
        BY <2>3, <3>1
      <4>2. Head(<<wreq[s]>>) = wreq[s] /\ Tail(<<wreq[s]>>) = <<>>
        BY <4>1
      <4>. QED BY <4>1, <4>2
    <3>3. stdin'[s] = <<>> /\ work'[s] = wreq'[s] /\ stdout'[s] = <<>>
      BY <2>1, <2>3, <3>1, <3>2
    <3>. QED BY <3>3 DEF InFlight
  <2>5. Pipes(s)'
    BY <1>0, <2>1, <2>2, <2>4 DEF Pipes
  <2>. QED BY <2>1, <2>5, PipesOfOne
<1>2. CASE RunCommand(s)
  <2>1. /\ child[s] = "busy" /\ work' = [work EXCEPT ![s] = 0]
        /\ UNCHANGED <<worker, wreq, stdin, spawned>>
    BY <1>2 DEF RunCommand, io
  <2>2. worker[s] \notin {"none", "recv"}
    BY <1>0, <2>1 DEF Pipes, Quiet
  <2>3. CASE worker[s] = "done"
    <3>1. child' = [child EXCEPT ![s] = "closing"] /\ UNCHANGED stdout
      BY <1>2, <2>3 DEF RunCommand
    <3>2. Pipes(s)'
      BY <1>0, <2>1, <2>3 DEF Pipes
    <3>. QED BY <2>1, <3>1, <3>2, PipesOfOne
  <2>4. CASE worker[s] # "done"
    <3>1. /\ child' = [child EXCEPT ![s] = "ready"]
          /\ stdout' = [stdout EXCEPT ![s] = Append(@, work[s])]
      BY <1>2, <2>4 DEF RunCommand
    <3>2. worker[s] = "exchange"
      BY <2>2, <2>4
    <3>3. stdin[s] = <<>> /\ stdout[s] = <<>> /\ work[s] = wreq[s]
      BY <1>0, <2>1, <3>2 DEF Pipes, InFlight
    <3>4. stdout'[s] = <<wreq[s]>>
      BY <3>1, <3>3
    <3>5. InFlight(s)'
      BY <2>1, <3>1, <3>3, <3>4 DEF InFlight
    <3>6. Pipes(s)'
      BY <1>0, <2>1, <3>2, <3>5 DEF Pipes
    <3>. QED BY <2>1, <3>1, <3>6, PipesOfOne
  <2>. QED BY <2>3, <2>4
<1>3. CASE EndOfInput(s) \/ Exits(s) \/ Crashes(s)
  <2>1. PICK new \in {"closing", "gone"} : child' = [child EXCEPT ![s] = new]
    BY <1>3 DEF EndOfInput, Exits, Crashes
  <2>2. UNCHANGED <<worker, wreq, stdin, stdout, work, spawned>>
    BY <1>3 DEF EndOfInput, Exits, Crashes, io, history
  <2>3. Pipes(s)'
    BY <1>0, <2>1, <2>2 DEF Pipes, Quiet, InFlight
  <2>. QED BY <2>1, <2>2, <2>3, PipesOfOne
<1>. QED BY <1>1, <1>2, <1>3 DEF ChildStep, ChildRuns

\* A thread writes into no pipe; a session starts with empty ones.
LEMMA ThreadKeepsPipes ==
    ASSUME TypeOK, OneInPipes,
           \/ \E t \in Threads : Call(t) \/ RustStep(t)
           \/ ExitEvent \/ ProcessEnds
    PROVE  OneInPipes'
<1>. USE DEF TypeOK
<1>1. ASSUME NEW t \in Threads, Restart(t) PROVE OneInPipes'
  <2>1. PICK new \in Sessions :
        /\ new = spawned + 1 /\ spawned' = new
        /\ child' = [child EXCEPT ![new] = "ready"]
        /\ worker' = [worker EXCEPT ![new] = "recv"]
        /\ UNCHANGED <<wreq, stdin, stdout, work>>
    <3>1. PICK new \in Sessions : new = spawned + 1
      BY <1>1, BoundsAssumption DEF Restart, NeedsRestart, Sessions
    <3>. QED BY <1>1, <3>1 DEF Restart
  <2>2. Pipes(new) /\ new > spawned
    BY <2>1 DEF OneInPipes
  <2>3. Quiet(new)'
    BY <2>1, <2>2 DEF Pipes, Quiet
  <2>4. Pipes(new)'
    BY <2>1, <2>3 DEF Pipes
  <2>5. ASSUME NEW u \in Sessions, u # new PROVE Pipes(u)'
    <3>1. Pipes(u) /\ (u > spawned' => u > spawned)
      BY <2>1 DEF OneInPipes, Sessions
    <3>2. worker'[u] = worker[u] /\ child'[u] = child[u]
      BY <2>1, <2>5
    <3>. QED BY <2>1, <3>1, <3>2 DEF Pipes, Quiet, InFlight
  <2>. QED BY <2>4, <2>5 DEF OneInPipes
<1>2. ASSUME NEW t \in Threads, DropReaps(t) PROVE OneInPipes'
  <2>1. /\ UNCHANGED <<worker, wreq, stdin, stdout, work, spawned>>
        /\ \A u \in Sessions : child'[u] = child[u] \/ child'[u] = "gone"
    BY <1>2 DEF DropReaps, Kill, io
  <2>. QED BY <2>1 DEF OneInPipes, Pipes, Quiet, InFlight
<1>3. ASSUME NEW t \in Threads, Call(t) \/ RustStep(t), ~Restart(t), ~DropReaps(t)
      PROVE  OneInPipes'
  <2>1. UNCHANGED <<worker, wreq, stdin, stdout, child, work, spawned>>
    BY <1>3
    DEF RustStep, Call, Reuse, RestartFails, Send, Receive, Timeout, DropAsks, DropWaited,
        DropCloses, io, process, history
  <2>. QED BY <2>1 DEF OneInPipes, Pipes, Quiet, InFlight
<1>4. CASE ExitEvent
  BY <1>4 DEF ExitEvent, io, process, history, OneInPipes, Pipes, Quiet, InFlight
<1>5. CASE ProcessEnds
  <2>1. /\ UNCHANGED <<wreq, stdin, stdout, child, work, spawned>>
        /\ \A u \in Sessions : worker'[u] = IF worker[u] = "none" THEN "none" ELSE "done"
    BY <1>5 DEF ProcessEnds, process, history
  <2>. QED BY <2>1 DEF OneInPipes, Pipes, Quiet
<1>. QED BY <1>1, <1>2, <1>3, <1>4, <1>5

\* The worker delivers an answer, and nobody else does.
LEMMA AnswerStep ==
    ASSUME TypeOK, OneInPipes, AnswerIsOwn, Next
    PROVE  AnswerIsOwn'
<1>. USE DEF TypeOK, AnswerIsOwn
<1>1. ASSUME NEW s \in Sessions, NEW response \in Replies, NEW replies,
             replies = Deliver(s, response),
             response.state = "answered" => response.of = wreq[s]
      PROVE  \A p \in Payloads : replies[p].state = "answered" => replies[p].of = p
  BY <1>1 DEF Deliver
<1>2. ASSUME NEW s \in Sessions, NEW replies, WorkerStops(s, replies),
             \A p \in Payloads : replies[p].state = "answered" => replies[p].of = p
      PROVE  AnswerIsOwn'
  BY <1>2 DEF WorkerStops, Broken
<1>3. ASSUME NEW s \in Sessions, WorkerRead(s) PROVE AnswerIsOwn'
  <2>1. Pipes(s) /\ worker[s] = "exchange" /\ stdout[s] # <<>>
    BY <1>3 DEF OneInPipes, WorkerRead
  <2>2. stdout[s] = <<wreq[s]>>
    BY <2>1 DEF Pipes, InFlight
  <2>3. Head(stdout[s]) = wreq[s] /\ wreq[s] \in MaybePayloads
    BY <2>2
  <2>. DEFINE response == Answer(Head(stdout[s]))
  <2>4. response \in Replies /\ response.of = wreq[s]
    BY <2>3 DEF Answer, Replies
  <2>5. \A p \in Payloads :
            Deliver(s, response)[p].state = "answered" => Deliver(s, response)[p].of = p
    BY <1>1, <2>4
  <2>6. reply' = Deliver(s, response) \/ WorkerStops(s, Deliver(s, response))
    BY <1>3 DEF WorkerRead
  <2>. QED BY <1>2, <2>5, <2>6
<1>4. ASSUME NEW s \in Sessions, WorkerFails(s) PROVE AnswerIsOwn'
  <2>1. Failed \in Replies /\ Failed.state # "answered"
    BY BoundsAssumption DEF Failed, Replies, MaybePayloads
  <2>2. \A p \in Payloads :
            Deliver(s, Failed)[p].state = "answered" => Deliver(s, Failed)[p].of = p
    BY <1>1, <2>1
  <2>. QED BY <1>2, <1>4, <2>2 DEF WorkerFails
<1>5. ASSUME NEW s \in Sessions, WorkerEnds(s) PROVE AnswerIsOwn'
  BY <1>2, <1>5 DEF WorkerEnds
<1>6. ASSUME NEW s \in Sessions, WorkerRecv(s) \/ ChildStep(s) PROVE AnswerIsOwn'
  BY <1>6
  DEF WorkerRecv, ChildStep, ChildRuns, ReadLine, RunCommand, EndOfInput, Exits, Crashes, channels
<1>7. ASSUME NEW t \in Threads, Timeout(t) \/ DropWaited(t) PROVE AnswerIsOwn'
  <2>1. \A p \in Payloads : reply'[p] = reply[p] \/ reply'[p] = Dropped
    BY <1>7 DEF Timeout, DropWaited
  <2>2. Dropped.state # "answered"
    BY DEF Dropped
  <2>. QED BY <2>1, <2>2
<1>8. ASSUME NEW t \in Threads, Call(t) \/ RustStep(t), ~Timeout(t), ~DropWaited(t)
      PROVE  AnswerIsOwn'
  BY <1>8
  DEF RustStep, Call, Reuse, Restart, RestartFails, Send, Receive, DropAsks, DropCloses,
      DropReaps, channels
<1>9. CASE ExitEvent \/ ProcessEnds
  BY <1>9 DEF ExitEvent, ProcessEnds, channels
<1>. QED BY <1>3, <1>4, <1>5, <1>6, <1>7, <1>8, <1>9 DEF Next, WorkerStep

\* The invariant is inductive.
LEMMA InductiveStep == IInv /\ [Next]_vars => IInv'
<1>. SUFFICES ASSUME IInv, [Next]_vars PROVE IInv'
  OBVIOUS
<1>. USE DEF IInv
<1>1. CASE UNCHANGED vars
  <2>. USE <1>1 DEF vars, rust, channels, io, process, history
  <2>1. TypeOK' /\ MutexIsHeld'
    BY DEF TypeOK, MutexIsHeld
  <2>2. AliveIsHeld' /\ OneBackend'
    BY DEF AliveIsHeld, OneBackend, Alive, LeftBehind
  <2>3. OneInPipes' /\ AnswerIsOwn'
    BY DEF OneInPipes, Pipes, Quiet, InFlight, AnswerIsOwn
  <2>. QED BY <2>1, <2>2, <2>3
<1>2. CASE Next
  <2>1. TypeOK'
    BY <1>2, WorkerKeepsTypes, ChildKeepsTypes, ThreadKeepsTypes, ExitKeepsTypes DEF Next
  <2>2. MutexIsHeld'
    <3>1. ASSUME NEW s \in Sessions, WorkerStep(s) \/ ChildStep(s) PROVE MutexIsHeld'
      BY <3>1
      DEF WorkerStep, WorkerRecv, WorkerRead, WorkerFails, WorkerEnds, ChildStep, ChildRuns,
          ReadLine, RunCommand, EndOfInput, Exits, Crashes, rust, MutexIsHeld
    <3>. QED BY <1>2, <3>1, MutexStep, MutexExits DEF Next
  <2>3. AliveIsHeld' /\ OneBackend'
    BY <1>2, SessionStep, SessionOthers DEF Next
  <2>4. OneInPipes'
    BY <1>2, WorkerKeepsPipes, ChildKeepsPipes, ThreadKeepsPipes DEF Next
  <2>5. AnswerIsOwn'
    BY <1>2, AnswerStep
  <2>. QED BY <2>1, <2>2, <2>3, <2>4, <2>5
<1>. QED BY <1>1, <1>2

\* The session mutex, the order of a restart and the kill of a drop together:
\* however many threads, commands and sessions there are, and whenever
\* backends hang or end, no two backends run at a time.
THEOREM OneBackendOnly == Spec => []OneBackend
<1>1. IInv => OneBackend
  BY DEF IInv
<1>. QED BY <1>1, InitInvariant, InductiveStep, PTL DEF Spec

\* However many commands time out and however late their responses come, what
\* a caller is answered with is the response to its own request.
THEOREM AnswersAreOwn == Spec => []AnswerIsOwn
<1>1. IInv => AnswerIsOwn
  BY DEF IInv
<1>. QED BY <1>1, InitInvariant, InductiveStep, PTL DEF Spec

-----------------------------------------------------------------------------
(***************************************************************************)
(* BackendIpc implements BackendCall.  A command is in one place at a      *)
(* time, on its way from its caller to the one backend that runs, and its  *)
(* caller is told of a failure only when no backend runs any more.         *)
(***************************************************************************)

\* Where a request can be in session s.
Queued(s, q)  == queue[s] = <<q>>
Written(s, q) == stdin[s] = <<q>>
Runs(s, q)    == child[s] = "busy" /\ work[s] = q
InPipe(s, q)  == Written(s, q) \/ Runs(s, q)
At(s, q)      == Queued(s, q) \/ wreq[s] = q \/ InPipe(s, q)
Held(s, q)    == Queued(s, q) \/ InPipe(s, q)

\* No backend knows the request, and none has run it.
Fresh(q) ==
    /\ runs[q] = 0 /\ reply[q].state # "answered"
    /\ \A s \in Sessions : ~At(s, q)

\* The request that a thread still has to send.
Unsent(t) == pc[t] \in {"check", "send"} \/ (pc[t] \in Dropping /\ current # 0)

\* The channel to the worker and the standard input hold one request at most,
\* and a session that is not started holds none.
ChannelsAreShort ==
    /\ current <= spawned /\ \A t \in Threads : dropping[t] <= spawned
    /\ \A s \in Sessions :
        /\ queue[s] = <<>> \/ \E q \in MaybePayloads : Queued(s, q)
        /\ stdin[s] = <<>> \/ (child[s] # "busy" /\ \E q \in MaybePayloads : Written(s, q))
        /\ s > spawned => queue[s] = <<>>

\* A command is pending as long as its thread holds the mutex.
PendingIsHeld ==
    /\ \A t \in Threads : pc[t] \in Working => t \in Callers
    /\ \A t \in Callers : pc[t] \in Working \cup Dropping =>
            req[t] \in Requests /\ outcome[req[t]] = "pending"
    /\ \A q \in Requests : q > issued => outcome[q] = "none"
    /\ \A q \in Requests : outcome[q] = "pending" /\ app = "running" =>
            \E t \in Callers : req[t] = q /\ pc[t] \in Working \cup Dropping

\* A command that is not sent is fresh.
UnsentIsFresh ==
    /\ \A q \in Requests : q > issued => Fresh(q)
    /\ \A t \in Callers : Unsent(t) => Fresh(req[t])

\* No two sessions hold a command.
OnePlace ==
    \A s, u \in Sessions, q \in Requests : Held(s, q) /\ Held(u, q) => s = u

\* A command has not run while it may still run, and is pending then unless its
\* process is one that survived its kill; it has run when it is answered.
RunsOnce ==
    /\ \A s \in Sessions, q \in Requests :
        /\ Queued(s, q) => wreq[s] # q /\ ~InPipe(s, q)
        /\ Alive(s) /\ Held(s, q) => runs[q] = 0 /\ (outcome[q] = "pending" \/ LeftBehind(s))
        /\ worker[s] = "exchange" /\ wreq[s] = q /\ stdout[s] # <<>> => runs[q] = 1
    /\ \A q \in Requests : reply[q].state = "answered" => runs[q] = 1

CallInv == ChannelsAreShort /\ PendingIsHeld /\ UnsentIsFresh /\ OnePlace /\ RunsOnce

-----------------------------------------------------------------------------
\* Commands that come to no session stay in one place.
LEMMA OnePlaceStays ==
    ASSUME OnePlace, \A s \in Sessions, q \in Requests : Held(s, q)' => Held(s, q)
    PROVE  OnePlace'
BY DEF OnePlace

\* When the Tauri process starts, no command has been sent.
LEMMA InitCalls == Init => CallInv
<1>. SUFFICES ASSUME Init PROVE CallInv
  OBVIOUS
<1>. USE DEF Init
<1>1. ChannelsAreShort
  BY DEF ChannelsAreShort
<1>2. PendingIsHeld
  BY DEF PendingIsHeld, Working, Dropping, Threads
<1>3. ASSUME NEW q \in Requests, NEW s \in Sessions PROVE ~At(s, q)
  BY BoundsAssumption DEF At, Queued, InPipe, Written, Runs, Requests
<1>4. \A q \in Requests : reply[q].state = "open"
  BY BoundsAssumption DEF Open, Requests, Payloads
<1>5. UnsentIsFresh
  BY <1>3, <1>4 DEF UnsentIsFresh, Fresh, Unsent, Dropping, Threads
<1>6. OnePlace /\ RunsOnce
  BY <1>3, <1>4 DEF OnePlace, RunsOnce, Held, At, Alive
<1>. QED BY <1>1, <1>2, <1>5, <1>6 DEF CallInv

-----------------------------------------------------------------------------
\* What the worker does to one session, as far as calls are concerned: the
\* request it holds is the one it took from the channel.
LEMMA WorkerMoves ==
    ASSUME TypeOK, OneInPipes, ChannelsAreShort, NEW s \in Sessions, WorkerStep(s)
    PROVE  /\ UNCHANGED <<rust, child, work, history>>
           /\ \A u \in Sessions \ {s} :
                /\ queue'[u] = queue[u] /\ wreq'[u] = wreq[u] /\ worker'[u] = worker[u]
                /\ stdin'[u] = stdin[u] /\ stdout'[u] = stdout[u]
           /\ \/ /\ queue'[s] = <<>> /\ stdin'[s] = stdin[s]
                 /\ wreq'[s] = 0 /\ worker'[s] # "exchange"
              \/ /\ queue'[s] = queue[s] /\ stdin'[s] = stdin[s]
                 /\ wreq'[s] = 0 /\ worker'[s] # "exchange"
              \/ \E q \in MaybePayloads :
                 /\ queue[s] = <<q>> /\ queue'[s] = <<>> /\ wreq'[s] = q
                 /\ stdin[s] = <<>> /\ stdin'[s] \in {<<>>, <<q>>}
                 /\ child[s] # "busy" /\ stdout'[s] = <<>>
<1>. USE DEF TypeOK
<1>0. Pipes(s)
  BY DEF OneInPipes
<1>1. CASE WorkerRecv(s)
  <2>1. PICK q \in MaybePayloads : queue[s] = <<q>>
    BY <1>1 DEF WorkerRecv, ChannelsAreShort, Queued
  <2>2. Head(queue[s]) = q /\ Tail(queue[s]) = <<>>
    <3>1. Head(<<q>>) = q /\ Tail(<<q>>) = <<>>
      OBVIOUS
    <3>. QED BY <2>1, <3>1
  <2>3. /\ queue' = [queue EXCEPT ![s] = <<>>] /\ wreq' = [wreq EXCEPT ![s] = q]
        /\ worker' = [worker EXCEPT ![s] = "exchange"]
        /\ stdin' = IF Alive(s) THEN [stdin EXCEPT ![s] = Append(@, q)] ELSE stdin
        /\ worker[s] = "recv" /\ UNCHANGED <<rust, stdout, child, work, history>>
    BY <1>1, <2>2 DEF WorkerRecv
  <2>4. Quiet(s)
    BY <1>0, <2>3 DEF Pipes
  <2>5. Append(<<>>, q) = <<q>>
    OBVIOUS
  <2>6. stdin'[s] \in {<<>>, <<q>>} /\ \A u \in Sessions \ {s} : stdin'[u] = stdin[u]
    BY <2>3, <2>4, <2>5 DEF Quiet
  <2>. QED BY <2>1, <2>3, <2>4, <2>6 DEF Quiet
<1>2. ASSUME NEW replies, WorkerStops(s, replies)
      PROVE  /\ \A u \in Sessions \ {s} :
                  queue'[u] = queue[u] /\ wreq'[u] = wreq[u] /\ worker'[u] = worker[u]
             /\ queue'[s] = <<>> /\ wreq'[s] = 0 /\ worker'[s] = "done"
  BY <1>2 DEF WorkerStops
<1>3. CASE WorkerRead(s)
  <2>1. /\ UNCHANGED <<rust, stdin, child, work, history>>
        /\ \A u \in Sessions \ {s} : stdout'[u] = stdout[u]
    BY <1>3 DEF WorkerRead
  <2>2. CASE reply[wreq[s]] = Open
    <3>1. /\ worker' = [worker EXCEPT ![s] = "recv"] /\ wreq' = [wreq EXCEPT ![s] = 0]
          /\ UNCHANGED queue
      BY <1>3, <2>2 DEF WorkerRead
    <3>. QED BY <2>1, <3>1
  <2>3. CASE reply[wreq[s]] # Open
    BY <1>2, <1>3, <2>1, <2>3 DEF WorkerRead
  <2>. QED BY <2>2, <2>3
<1>4. CASE WorkerFails(s) \/ WorkerEnds(s)
  <2>1. UNCHANGED <<rust, stdin, stdout, child, work, history>>
    BY <1>4 DEF WorkerFails, WorkerEnds, process
  <2>2. \E replies : WorkerStops(s, replies)
    BY <1>4 DEF WorkerFails, WorkerEnds
  <2>. QED BY <1>2, <2>1, <2>2
<1>. QED BY <1>1, <1>3, <1>4 DEF WorkerStep

\* The worker answers only the request it holds, when it has been run.
LEMMA WorkerAnswers ==
    ASSUME TypeOK, NEW s \in Sessions, WorkerStep(s), NEW q \in Requests,
           reply'[q].state = "answered"
    PROVE  reply[q].state = "answered"
           \/ (worker[s] = "exchange" /\ stdout[s] # <<>> /\ wreq[s] = q)
<1>. USE DEF TypeOK
<1>0. q \in Payloads
  BY BoundsAssumption DEF Requests, Payloads
<1>1. ASSUME NEW replies, WorkerStops(s, replies) PROVE replies[q].state = "answered"
  BY <1>0, <1>1 DEF WorkerStops, Broken
<1>2. ASSUME NEW response PROVE Deliver(s, response)[q] = reply[q]
                                \/ (wreq[s] = q /\ Deliver(s, response)[q] = response)
  BY <1>0 DEF Deliver
<1>3. CASE WorkerRead(s)
  <2>. DEFINE replies == Deliver(s, Answer(Head(stdout[s])))
  <2>1. reply' = replies \/ WorkerStops(s, replies)
    BY <1>3 DEF WorkerRead
  <2>2. replies[q].state = "answered"
    BY <1>1, <2>1
  <2>3. replies[q] = reply[q] \/ wreq[s] = q
    BY <1>2
  <2>. QED BY <1>3, <2>2, <2>3 DEF WorkerRead
<1>4. CASE WorkerFails(s)
  <2>1. Deliver(s, Failed)[q].state = "answered"
    BY <1>1, <1>4 DEF WorkerFails
  <2>. QED BY <1>2, <2>1 DEF Failed
<1>5. CASE WorkerEnds(s)
  BY <1>1, <1>5 DEF WorkerEnds
<1>6. CASE WorkerRecv(s)
  BY <1>6 DEF WorkerRecv
<1>. QED BY <1>3, <1>4, <1>5, <1>6 DEF WorkerStep

\* The steps of the worker keep calls in order.
LEMMA WorkerKeepsCalls ==
    ASSUME IInv, CallInv, NEW s \in Sessions, WorkerStep(s)
    PROVE  CallInv'
<1>. USE DEF CallInv
<1>0. TypeOK /\ OneInPipes
  BY DEF IInv
<1>. DEFINE Stops == /\ queue'[s] = <<>> /\ stdin'[s] = stdin[s]
                     /\ wreq'[s] = 0 /\ worker'[s] # "exchange"
            Reads == /\ queue'[s] = queue[s] /\ stdin'[s] = stdin[s]
                     /\ wreq'[s] = 0 /\ worker'[s] # "exchange"
            Takes(q) == /\ queue[s] = <<q>> /\ queue'[s] = <<>> /\ wreq'[s] = q
                        /\ stdin[s] = <<>> /\ stdin'[s] \in {<<>>, <<q>>}
                        /\ child[s] # "busy" /\ stdout'[s] = <<>>
<1>1. /\ UNCHANGED <<rust, child, work, history>>
      /\ \A u \in Sessions \ {s} :
            /\ queue'[u] = queue[u] /\ wreq'[u] = wreq[u] /\ worker'[u] = worker[u]
            /\ stdin'[u] = stdin[u] /\ stdout'[u] = stdout[u]
      /\ Stops \/ Reads \/ \E q \in MaybePayloads : Takes(q)
  BY <1>0, WorkerMoves
<1>. HIDE DEF Stops, Reads, Takes
<1>2. ChannelsAreShort'
  <2>1. /\ queue'[s] = <<>> \/ queue'[s] = queue[s]
        /\ stdin'[s] = stdin[s]
           \/ (child[s] # "busy" /\ \E q \in MaybePayloads : stdin'[s] = <<q>>)
           \/ stdin'[s] = <<>>
    BY <1>1 DEF Stops, Reads, Takes
  <2>. QED BY <1>1, <2>1 DEF ChannelsAreShort, Queued, Written, rust, history
<1>3. PendingIsHeld'
  BY <1>1 DEF PendingIsHeld, rust, history
<1>4. \A u \in Sessions, q \in Requests : At(u, q)' => At(u, q)
  <2>1. SUFFICES ASSUME NEW q \in Requests, At(s, q)' PROVE At(s, q)
    BY <1>1 DEF At, Queued, InPipe, Written, Runs
  <2>2. q # 0
    BY DEF Requests
  <2>3. CASE Stops \/ Reads
    BY <1>1, <2>1, <2>2, <2>3 DEF At, Queued, InPipe, Written, Runs, Stops, Reads
  <2>4. ASSUME NEW p \in MaybePayloads, Takes(p) PROVE At(s, q)
    <3>1. p = q
      BY <1>1, <2>1, <2>2, <2>4 DEF At, Queued, InPipe, Written, Runs, Takes
    <3>. QED BY <2>4, <3>1 DEF At, Queued, Takes
  <2>. QED BY <1>1, <2>3, <2>4
<1>5. \A q \in Requests : reply'[q].state = "answered" =>
            reply[q].state = "answered" \/ (At(s, q) /\ runs[q] = 1)
  BY <1>0, WorkerAnswers DEF At, RunsOnce
<1>6. UnsentIsFresh'
  <2>1. \A q \in Requests : Fresh(q) => Fresh(q)'
    BY <1>1, <1>4, <1>5 DEF Fresh, history
  <2>2. ASSUME NEW t \in Callers, Unsent(t)' PROVE Fresh(req[t])'
    <3>1. Unsent(t) /\ req'[t] = req[t]
      BY <1>1, <2>2 DEF Unsent, rust
    <3>2. PICK q \in Requests : q = req[t]
      BY <3>1 DEF PendingIsHeld, Unsent, Working
    <3>3. Fresh(q)'
      BY <2>1, <3>1, <3>2 DEF UnsentIsFresh
    <3>. QED BY <3>1, <3>2, <3>3 DEF Fresh, At, Queued, InPipe, Written, Runs
  <2>. QED BY <1>1, <2>1, <2>2 DEF UnsentIsFresh, history
<1>7. OnePlace' /\ RunsOnce'
  <2>0. \A u \in Sessions : LeftBehind(u)' <=> LeftBehind(u)
    BY <1>1 DEF LeftBehind, rust
  <2>1. ASSUME NEW u \in Sessions, NEW q \in Requests, u # s
        PROVE  /\ Queued(u, q)' => wreq'[u] # q /\ ~InPipe(u, q)'
               /\ Alive(u)' /\ Held(u, q)' =>
                    runs'[q] = 0 /\ (outcome'[q] = "pending" \/ LeftBehind(u)')
               /\ worker'[u] = "exchange" /\ wreq'[u] = q /\ stdout'[u] # <<>> => runs'[q] = 1
    BY <1>1, <2>0, <2>1 DEF RunsOnce, Held, Queued, InPipe, Written, Runs, Alive, history
  <2>2. ASSUME NEW q \in Requests
        PROVE  /\ Queued(s, q)' => wreq'[s] # q /\ ~InPipe(s, q)'
               /\ Alive(s)' /\ Held(s, q)' =>
                    runs'[q] = 0 /\ (outcome'[q] = "pending" \/ LeftBehind(s)')
               /\ worker'[s] = "exchange" /\ wreq'[s] = q /\ stdout'[s] # <<>> => runs'[q] = 1
    <3>1. q # 0
      BY DEF Requests
    <3>2. CASE Stops \/ Reads
      BY <1>1, <2>0, <3>1, <3>2
      DEF RunsOnce, Held, Queued, InPipe, Written, Runs, Alive, history, Stops, Reads
    <3>3. ASSUME NEW p \in MaybePayloads, Takes(p)
          PROVE  /\ ~Queued(s, q)' /\ stdout'[s] = <<>>
                 /\ InPipe(s, q)' => Queued(s, q)
      BY <1>1, <3>3 DEF Queued, InPipe, Written, Runs, Takes
    <3>4. CASE \E p \in MaybePayloads : Takes(p)
      <4>1. ~Queued(s, q)' /\ stdout'[s] = <<>> /\ (InPipe(s, q)' => Queued(s, q))
        BY <3>3, <3>4
      <4>. QED BY <1>1, <2>0, <4>1 DEF RunsOnce, Held, Alive, history
    <3>. QED BY <1>1, <3>2, <3>4
  <2>3. \A q \in Requests : reply'[q].state = "answered" => runs'[q] = 1
    BY <1>1, <1>5 DEF RunsOnce, history
  <2>4. \A u \in Sessions, q \in Requests :
            /\ Queued(u, q)' => wreq'[u] # q /\ ~InPipe(u, q)'
            /\ Alive(u)' /\ Held(u, q)' =>
                 runs'[q] = 0 /\ (outcome'[q] = "pending" \/ LeftBehind(u)')
            /\ worker'[u] = "exchange" /\ wreq'[u] = q /\ stdout'[u] # <<>> => runs'[q] = 1
    BY <2>1, <2>2
  <2>5. RunsOnce'
    BY <2>3, <2>4 DEF RunsOnce
  <2>6. \A u \in Sessions, q \in Requests : Held(u, q)' => Held(u, q)
    <3>1. ASSUME NEW q \in Requests, Held(s, q)' PROVE Held(s, q)
      <4>1. CASE Stops \/ Reads
        BY <1>1, <3>1, <4>1 DEF Held, Queued, InPipe, Written, Runs, Stops, Reads
      <4>2. ASSUME NEW p \in MaybePayloads, Takes(p) PROVE Held(s, q)
        BY <1>1, <3>1, <4>2 DEF Held, Queued, InPipe, Written, Runs, Takes
      <4>. QED BY <1>1, <4>1, <4>2
    <3>. QED BY <1>1, <3>1 DEF Held, Queued, InPipe, Written, Runs
  <2>. QED BY <2>5, <2>6, OnePlaceStays
<1>. QED BY <1>2, <1>3, <1>6, <1>7

-----------------------------------------------------------------------------
\* A line goes from the standard input to the command that runs, and nowhere else.
LEMMA ChildMoves ==
    ASSUME TypeOK, ChannelsAreShort, NEW s \in Sessions, ChildStep(s)
    PROVE  /\ UNCHANGED <<rust, channels, io, outcome, spawned, issued>>
           /\ \A u \in Sessions \ {s} :
                /\ stdin'[u] = stdin[u] /\ stdout'[u] = stdout[u]
                /\ child'[u] = child[u] /\ work'[u] = work[u]
           /\ Alive(s)
           /\ \/ \E q \in MaybePayloads :
                    /\ stdin[s] = <<q>> /\ stdin'[s] = <<>> /\ work'[s] = q
                    /\ child'[s] = "busy" /\ stdout'[s] = stdout[s] /\ UNCHANGED runs
              \/ RunCommand(s) /\ child[s] = "busy" /\ child'[s] # "busy" /\ stdin'[s] = stdin[s]
              \/ /\ child'[s] # "busy" /\ stdin'[s] = stdin[s] /\ stdout'[s] = stdout[s]
                 /\ UNCHANGED runs
<1>. USE DEF TypeOK
<1>1. CASE ReadLine(s)
  <2>1. PICK q \in MaybePayloads : stdin[s] = <<q>>
    BY <1>1 DEF ReadLine, ChannelsAreShort, Written
  <2>2. Head(stdin[s]) = q /\ Tail(stdin[s]) = <<>>
    <3>1. Head(<<q>>) = q /\ Tail(<<q>>) = <<>>
      OBVIOUS
    <3>. QED BY <2>1, <3>1
  <2>. QED BY <1>1, <2>1, <2>2 DEF ReadLine, Alive, history
<1>2. CASE RunCommand(s)
  BY <1>2 DEF RunCommand, Alive
<1>3. CASE EndOfInput(s) \/ Exits(s) \/ Crashes(s)
  BY <1>3 DEF EndOfInput, Exits, Crashes, Alive, history
<1>. QED BY <1>1, <1>2, <1>3 DEF ChildStep, ChildRuns

\* The steps of the backend keep calls in order: it runs a command only that is
\* pending and has not run.
LEMMA ChildKeepsCalls ==
    ASSUME IInv, CallInv, NEW s \in Sessions, ChildStep(s)
    PROVE  CallInv'
<1>. USE DEF CallInv
<1>0. TypeOK /\ OneInPipes
  BY DEF IInv
<1>. DEFINE Reads(q) == /\ stdin[s] = <<q>> /\ stdin'[s] = <<>> /\ work'[s] = q
                        /\ child'[s] = "busy" /\ stdout'[s] = stdout[s] /\ UNCHANGED runs
            Answers == RunCommand(s) /\ child[s] = "busy" /\ child'[s] # "busy"
                       /\ stdin'[s] = stdin[s]
            Ends == /\ child'[s] # "busy" /\ stdin'[s] = stdin[s] /\ stdout'[s] = stdout[s]
                    /\ UNCHANGED runs
<1>1. /\ UNCHANGED <<rust, channels, io, outcome, spawned, issued>>
      /\ \A u \in Sessions \ {s} :
            /\ stdin'[u] = stdin[u] /\ stdout'[u] = stdout[u]
            /\ child'[u] = child[u] /\ work'[u] = work[u]
      /\ Alive(s)
      /\ (\E q \in MaybePayloads : Reads(q)) \/ Answers \/ Ends
  BY <1>0, ChildMoves
<1>. HIDE DEF Reads, Answers, Ends
<1>. USE DEF rust, channels, io
<1>2. ChannelsAreShort'
  <2>1. CASE \E q \in MaybePayloads : Reads(q)
    BY <1>1, <2>1 DEF ChannelsAreShort, Queued, Written, Reads
  <2>2. CASE Answers \/ Ends
    BY <1>1, <2>2 DEF ChannelsAreShort, Queued, Written, Answers, Ends
  <2>. QED BY <1>1, <2>1, <2>2
<1>3. PendingIsHeld'
  BY <1>1 DEF PendingIsHeld
<1>4. \A u \in Sessions, q \in Requests :
        /\ InPipe(u, q)' => InPipe(u, q)
        /\ Queued(u, q)' = Queued(u, q)
        /\ At(u, q)' => At(u, q)
  <2>1. \A q \in Requests : InPipe(s, q)' => InPipe(s, q)
    <3>1. CASE \E p \in MaybePayloads : Reads(p)
      <4>1. PICK p \in MaybePayloads : Reads(p)
        BY <3>1
      <4>. QED BY <4>1 DEF InPipe, Written, Runs, Reads
    <3>2. CASE Answers \/ Ends
      BY <3>2 DEF InPipe, Written, Runs, Answers, Ends
    <3>. QED BY <1>1, <3>1, <3>2
  <2>2. \A u \in Sessions, q \in Requests : InPipe(u, q)' => InPipe(u, q)
    BY <1>1, <2>1 DEF InPipe, Written, Runs
  <2>. QED BY <1>1, <2>2 DEF At, Queued
<1>5. \A q \in Requests : runs'[q] = runs[q] \/ (InPipe(s, q) /\ work[s] = q /\ Answers)
  <2>1. ASSUME Answers, NEW q \in Requests, q # work[s] PROVE runs'[q] = runs[q]
    BY <1>0, <2>1 DEF Answers, RunCommand, TypeOK
  <2>. QED BY <1>1, <2>1 DEF InPipe, Runs, Reads, Answers, Ends
<1>6. UnsentIsFresh'
  <2>1. \A q \in Requests : Fresh(q) => Fresh(q)'
    BY <1>1, <1>4, <1>5 DEF Fresh, At
  <2>2. ASSUME NEW t \in Callers, Unsent(t)' PROVE Fresh(req[t])'
    <3>1. Unsent(t) /\ req'[t] = req[t]
      BY <1>1, <2>2 DEF Unsent
    <3>2. PICK q \in Requests : q = req[t]
      BY <3>1 DEF PendingIsHeld, Unsent, Working
    <3>3. Fresh(q)'
      BY <2>1, <3>1, <3>2 DEF UnsentIsFresh
    <3>. QED BY <3>1, <3>2, <3>3 DEF Fresh, At, Queued, InPipe, Written, Runs
  <2>. QED BY <1>1, <2>1, <2>2 DEF UnsentIsFresh
<1>7. \A u \in Sessions : Alive(u)' => Alive(u)
  BY <1>1 DEF Alive
<1>11. \A u \in Sessions : LeftBehind(u)' <=> LeftBehind(u)
  BY <1>1 DEF LeftBehind
<1>12. OnePlace'
  BY <1>4, OnePlaceStays DEF Held
<1>8. ASSUME \A q \in Requests : runs'[q] = runs[q] PROVE RunsOnce'
  <2>1. \A q \in Requests : stdout'[s] # <<>> /\ worker[s] = "exchange" /\ wreq[s] = q =>
            stdout[s] # <<>>
    <3>1. SUFFICES ASSUME NEW q \in Requests, worker[s] = "exchange", wreq[s] = q, Answers
                   PROVE  FALSE
      BY <1>1 DEF Reads, Ends
    <3>2. work[s] = q /\ child[s] = "busy" /\ Pipes(s)
      BY <1>0, <3>1 DEF OneInPipes, Pipes, InFlight, Answers
    <3>3. runs[q] = 0
      BY <1>1, <3>2 DEF RunsOnce, Held, InPipe, Runs
    <3>4. runs'[q] = runs[q] + 1
      BY <1>0, <3>1, <3>2 DEF Answers, RunCommand, TypeOK
    <3>. QED BY <1>8, <3>3, <3>4
  <2>2. \A u \in Sessions, q \in Requests :
            stdout'[u] # <<>> /\ worker[u] = "exchange" /\ wreq[u] = q => stdout[u] # <<>>
    BY <1>1, <2>1
  <2>. QED BY <1>1, <1>4, <1>7, <1>8, <1>11, <2>2 DEF RunsOnce, Held
<1>9. ASSUME NEW q \in Requests, InPipe(s, q), work[s] = q, Answers PROVE RunsOnce'
  <2>1. runs[q] = 0 /\ ~Queued(s, q) /\ child[s] = "busy" /\ child'[s] # "busy"
    BY <1>1, <1>9 DEF RunsOnce, Held, Answers
  <2>2. runs' = [runs EXCEPT ![q] = @ + 1] /\ runs'[q] = 1
    BY <1>0, <1>9, <2>1 DEF Answers, RunCommand, TypeOK
  <2>3. \A p \in Requests : p # q => runs'[p] = runs[p]
    BY <1>0, <2>2 DEF TypeOK
  <2>5. ~Queued(s, q)' /\ ~InPipe(s, q)'
    <3>1. stdin[s] = <<>>
      BY <2>1 DEF ChannelsAreShort
    <3>. QED BY <1>4, <1>9, <2>1, <3>1 DEF InPipe, Written, Runs, Answers
  <2>6. ASSUME NEW u \in Sessions, NEW p \in Requests
        PROVE  /\ Queued(u, p)' => wreq'[u] # p /\ ~InPipe(u, p)'
               /\ Alive(u)' /\ Held(u, p)' =>
                    runs'[p] = 0 /\ (outcome'[p] = "pending" \/ LeftBehind(u)')
               /\ worker'[u] = "exchange" /\ wreq'[u] = p /\ stdout'[u] # <<>> => runs'[p] = 1
    <3>1. Queued(u, p)' => wreq'[u] # p /\ ~InPipe(u, p)'
      BY <1>1, <1>4 DEF RunsOnce
    <3>2. Alive(u)' /\ Held(u, p)' =>
              runs'[p] = 0 /\ (outcome'[p] = "pending" \/ LeftBehind(u)')
      <4>1. p # q \/ ~Held(u, p)'
        BY <1>4, <1>9, <2>5 DEF OnePlace, Held
      <4>. QED BY <1>1, <1>4, <1>7, <1>11, <2>3, <4>1 DEF RunsOnce, Held
    <3>3. worker'[u] = "exchange" /\ wreq'[u] = p /\ stdout'[u] # <<>> => runs'[p] = 1
      <4>1. CASE p = q
        BY <2>2, <4>1
      <4>2. CASE p # q /\ u # s
        BY <1>1, <2>3, <4>2 DEF RunsOnce
      <4>3. CASE p # q /\ u = s
        BY <1>0, <1>1, <1>9, <2>1, <4>3 DEF OneInPipes, Pipes, InFlight
      <4>. QED BY <4>1, <4>2, <4>3
    <3>. QED BY <3>1, <3>2, <3>3
  <2>7. \A p \in Requests : reply'[p].state = "answered" => runs'[p] = 1
    BY <1>1, <2>2, <2>3 DEF RunsOnce
  <2>. QED BY <2>6, <2>7 DEF RunsOnce
<1>10. RunsOnce'
  BY <1>5, <1>8, <1>9
<1>. QED BY <1>2, <1>3, <1>6, <1>10, <1>12

-----------------------------------------------------------------------------
\* Only one thread is inside backend_ipc or drops a session.
LEMMA AloneInside ==
    ASSUME MutexIsHeld, NEW t \in Threads, pc[t] \in Working \cup Dropping
    PROVE  \A u \in Threads \ {t} : pc[u] \notin Working \cup Dropping
<1>1. ASSUME NEW u \in Threads \ {t}, pc[u] \in Working \cup Dropping PROVE FALSE
  <2>1. lock = {t} /\ lock = {u}
    BY <1>1 DEF MutexIsHeld
  <2>. QED BY <2>1
<1>. QED BY <1>1

\* What a thread does to its mutex and its request leaves the calls of the backends
\* as they are, as long as an outcome that becomes known is that of a command
\* no backend will run.
LEMMA BackendsStay ==
    ASSUME TypeOK, OnePlace, RunsOnce,
           current' \in {current, 0},
           \A u \in Threads : dropping'[u] \in {dropping[u], current, 0},
           UNCHANGED <<wreq, worker, stdin, stdout, work, runs>>,
           \A s \in Sessions : child'[s] \in {child[s], "gone"},
           \A s \in Sessions, q \in Requests : Queued(s, q)' => Queued(s, q),
           \A q \in Requests : reply'[q].state = "answered" => reply[q].state = "answered",
           \A q \in Requests :
               \/ outcome'[q] \in {outcome[q], "pending"}
               \/ \A s \in Sessions : Alive(s)' => ~Held(s, q) \/ LeftBehind(s)'
    PROVE  OnePlace' /\ RunsOnce' /\ \A q \in Requests : Fresh(q) => Fresh(q)'
<1>1. \A s \in Sessions, q \in Requests : InPipe(s, q)' => InPipe(s, q)
  BY DEF InPipe, Written, Runs
<1>2. \A s \in Sessions : Alive(s)' => Alive(s)
  BY DEF Alive
<1>5. \A s \in Sessions : LeftBehind(s) => LeftBehind(s)'
  BY DEF LeftBehind, Sessions
<1>6. OnePlace'
  BY <1>1, OnePlaceStays DEF Held
<1>3. RunsOnce'
  <2>1. \A s \in Sessions, q \in Requests :
            /\ Queued(s, q)' => wreq'[s] # q /\ ~InPipe(s, q)'
            /\ Alive(s)' /\ Held(s, q)' =>
                 runs'[q] = 0 /\ (outcome'[q] = "pending" \/ LeftBehind(s)')
            /\ worker'[s] = "exchange" /\ wreq'[s] = q /\ stdout'[s] # <<>> => runs'[q] = 1
    BY <1>1, <1>2, <1>5 DEF RunsOnce, Held
  <2>2. \A q \in Requests : reply'[q].state = "answered" => runs'[q] = 1
    BY DEF RunsOnce
  <2>. QED BY <2>1, <2>2 DEF RunsOnce
<1>4. \A q \in Requests : Fresh(q) => Fresh(q)'
  BY <1>1 DEF Fresh, At
<1>. QED BY <1>3, <1>4, <1>6

\* A thread that goes on with the mutex goes on with its pending request.
LEMMA HolderGoesOn ==
    ASSUME MutexIsHeld, TypeOK, PendingIsHeld, UnsentIsFresh,
           NEW t \in Threads, pc[t] \in Working \cup Dropping,
           NEW label \in Working \cup Dropping, Put(t, label),
           label \in Working => t \in Callers,
           UNCHANGED <<req, outcome, issued, app>>,
           \A q \in Requests : (t \in Callers => q # req[t]) /\ Fresh(q) => Fresh(q)',
           t \in Callers /\ Unsent(t)' => Unsent(t) /\ Fresh(req[t])'
    PROVE  PendingIsHeld' /\ UnsentIsFresh'
<1>1. /\ pc'[t] = label
      /\ \A u \in Threads \ {t} : pc'[u] = pc[u] /\ pc[u] \notin Working \cup Dropping
  BY AloneInside DEF Put, TypeOK
<1>2. PendingIsHeld'
  <2>1. \A u \in Threads : pc'[u] \in Working => u \in Callers
    BY <1>1 DEF PendingIsHeld
  <2>2. \A u \in Callers : pc'[u] \in Working \cup Dropping =>
            req'[u] \in Requests /\ outcome'[req'[u]] = "pending"
    BY <1>1 DEF PendingIsHeld, Threads
  <2>3. \A q \in Requests : outcome'[q] = "pending" /\ app' = "running" =>
            \E u \in Callers : req'[u] = q /\ pc'[u] \in Working \cup Dropping
    BY <1>1 DEF PendingIsHeld, Threads
  <2>. QED BY <2>1, <2>2, <2>3 DEF PendingIsHeld
<1>3. UnsentIsFresh'
  <2>1. ASSUME NEW q \in Requests, q > issued' PROVE Fresh(q)'
    <3>1. t \in Callers => q # req[t]
      BY <2>1 DEF PendingIsHeld
    <3>. QED BY <2>1, <3>1 DEF UnsentIsFresh
  <2>2. ASSUME NEW u \in Callers, Unsent(u)' PROVE Fresh(req[u])'
    <3>1. u = t
      BY <1>1, <2>2 DEF Unsent, Threads, Working
    <3>. QED BY <2>2, <3>1
  <2>. QED BY <2>1, <2>2 DEF UnsentIsFresh
<1>. QED BY <1>2, <1>3

\* A thread that gives the mutex back leaves no command pending.
LEMMA HolderLeaves ==
    ASSUME MutexIsHeld, TypeOK, PendingIsHeld, UnsentIsFresh,
           NEW t \in Threads, pc[t] \in Working \cup Dropping,
           NEW label \in {"idle", "exit"}, Put(t, label), UNCHANGED <<issued, app>>,
           \/ /\ t \in Callers
              /\ \E result \in {"ok", "error"} : outcome' = [outcome EXCEPT ![req[t]] = result]
              /\ req' = [req EXCEPT ![t] = 0]
           \/ t \notin Callers /\ UNCHANGED <<outcome, req>>,
           \A q \in Requests : Fresh(q) => Fresh(q)'
    PROVE  PendingIsHeld' /\ UnsentIsFresh'
<1>1. \A u \in Threads : pc'[u] \notin Working \cup Dropping
  <2>1. pc'[t] = label
    BY DEF Put, TypeOK
  <2>2. \A u \in Threads \ {t} : pc'[u] = pc[u] /\ pc[u] \notin Working \cup Dropping
    BY AloneInside DEF Put, TypeOK
  <2>. QED BY <2>1, <2>2 DEF Working, Dropping
<1>2. \A q \in Requests : /\ outcome[q] = "none" => outcome'[q] = "none"
                          /\ outcome'[q] = "pending" => app # "running"
  <2>1. CASE t \in Callers
    <3>1. req[t] \in Requests /\ outcome[req[t]] = "pending"
      BY <2>1 DEF PendingIsHeld
    <3>2. ASSUME NEW q \in Requests, outcome[q] = "pending", app = "running" PROVE q = req[t]
      BY <3>2, AloneInside DEF PendingIsHeld, Threads
    <3>. QED BY <2>1, <3>1, <3>2 DEF TypeOK
  <2>2. CASE t \notin Callers
    <3>1. ASSUME NEW q \in Requests, outcome[q] = "pending" PROVE app # "running"
      BY <2>2, <3>1, AloneInside DEF PendingIsHeld, Threads
    <3>. QED BY <2>2, <3>1
  <2>. QED BY <2>1, <2>2
<1>3. PendingIsHeld'
  BY <1>1, <1>2 DEF PendingIsHeld, Threads
<1>4. UnsentIsFresh'
  BY <1>1 DEF UnsentIsFresh, Unsent, Threads, Working
<1>. QED BY <1>3, <1>4

\* A thread queues a request only in an empty channel, of a session that has
\* been started.
LEMMA ThreadKeepsChannels ==
    ASSUME TypeOK, MutexIsHeld, ChannelsAreShort, NEW t \in Threads, Call(t) \/ RustStep(t)
    PROVE  ChannelsAreShort'
<1>. USE DEF TypeOK, channels, io, process, history
<1>0. /\ current \in Nat /\ spawned \in Nat /\ \A u \in Threads : dropping[u] \in Nat
      /\ current <= spawned /\ \A u \in Threads : dropping[u] <= spawned
  BY BoundsAssumption DEF ChannelsAreShort
<1>1. ASSUME UNCHANGED <<queue, stdin, spawned>>,
             \A s \in Sessions : child'[s] \in {child[s], "gone"},
             current' \in {current, 0},
             \A u \in Threads : dropping'[u] \in {dropping[u], current, 0}
      PROVE  ChannelsAreShort'
  <2>1. current' <= spawned' /\ \A u \in Threads : dropping'[u] <= spawned'
    <3>1. current' <= spawned'
      BY <1>0, <1>1
    <3>2. ASSUME NEW u \in Threads PROVE dropping'[u] <= spawned'
      <4>1. dropping'[u] = dropping[u] \/ dropping'[u] = current \/ dropping'[u] = 0
        BY <1>1
      <4>. QED BY <1>0, <1>1, <4>1
    <3>. QED BY <3>1, <3>2
  <2>2. \A s \in Sessions :
            /\ queue'[s] = <<>> \/ \E q \in MaybePayloads : queue'[s] = <<q>>
            /\ stdin'[s] = <<>> \/ (child'[s] # "busy" /\ \E q \in MaybePayloads : stdin'[s] = <<q>>)
            /\ s > spawned' => queue'[s] = <<>>
    BY <1>1 DEF ChannelsAreShort, Queued, Written
  <2>. QED BY <2>1, <2>2 DEF ChannelsAreShort, Queued, Written
<1>2. ASSUME NEW s \in 0..MaxSessions, s <= spawned, Accepts(s),
             NEW q \in MaybePayloads,
             queue' = [queue EXCEPT ![s] = Append(@, q)],
             UNCHANGED <<stdin, spawned, child, current, dropping>>
      PROVE  ChannelsAreShort'
  <2>1. s \in Sessions => queue'[s] = <<q>>
    <3>1. SUFFICES ASSUME s \in Sessions PROVE queue'[s] = <<q>>
      OBVIOUS
    <3>2. queue[s] = <<>>
      BY <1>2, <3>1, EmptySeq DEF Accepts
    <3>3. Append(<<>>, q) = <<q>>
      OBVIOUS
    <3>. QED BY <1>2, <3>1, <3>2, <3>3
  <2>2. \A u \in Sessions : u # s => queue'[u] = queue[u]
    BY <1>2
  <2>3. ASSUME NEW u \in Sessions
        PROVE  /\ queue'[u] = <<>> \/ \E p \in MaybePayloads : queue'[u] = <<p>>
               /\ u > spawned => queue'[u] = <<>>
    <3>1. CASE u = s
      BY SMTT(30), <1>0, <1>2, <2>1, <3>1, BoundsAssumption DEF Sessions
    <3>2. CASE u # s
      BY <2>2, <3>2 DEF ChannelsAreShort, Queued
    <3>. QED BY <3>1, <3>2
  <2>. QED BY <1>2, <2>3 DEF ChannelsAreShort, Queued, Written
<1>3. CASE Call(t) \/ Reuse(t) \/ RestartFails(t) \/ DropWaited(t) \/ DropCloses(t)
  BY <1>1, <1>3 DEF Call, Reuse, RestartFails, DropWaited, DropCloses
<1>4. CASE Restart(t)
  <2>1. /\ spawned' = spawned + 1 /\ current' = spawned + 1
        /\ child' = [child EXCEPT ![spawned + 1] = "ready"]
        /\ dropping' = [dropping EXCEPT ![t] = current]
        /\ UNCHANGED <<queue, stdin>>
    BY <1>4 DEF Restart
  <2>2. \A u \in Threads : dropping'[u] <= spawned'
    BY <1>0, <2>1 DEF ChannelsAreShort
  <2>3. \A s \in Sessions : child'[s] # "busy" \/ child'[s] = child[s]
    BY <2>1
  <2>4. \A s \in Sessions : s > spawned' => s > spawned
    BY <1>0, <2>1, BoundsAssumption DEF Sessions
  <2>. QED BY <1>0, <2>1, <2>2, <2>3, <2>4 DEF ChannelsAreShort, Queued, Written
<1>5. ASSUME GiveUp(t)
      PROVE  /\ current' \in {current, 0}
             /\ \A u \in Threads : dropping'[u] \in {dropping[u], current, 0}
  BY <1>5 DEF GiveUp
<1>6. CASE Send(t)
  <2>1. CASE Accepts(current)
    <3>1. current <= spawned /\ req[t] \in MaybePayloads
      BY BoundsAssumption DEF ChannelsAreShort, MaybePayloads
    <3>. QED BY <1>2, <1>6, <2>1, <3>1 DEF Send
  <2>2. CASE ~Accepts(current)
    BY <1>1, <1>5, <1>6, <2>2 DEF Send
  <2>. QED BY <2>1, <2>2
<1>7. CASE Receive(t)
  <2>1. CASE reply[req[t]].state = "answered"
    BY <1>1, <1>7, <2>1 DEF Receive
  <2>2. CASE reply[req[t]].state # "answered"
    BY <1>1, <1>5, <1>7, <2>2 DEF Receive
  <2>. QED BY <2>1, <2>2
<1>8. CASE Timeout(t)
  BY <1>1, <1>5, <1>8 DEF Timeout
<1>9. CASE DropAsks(t)
  <2>1. CASE Accepts(dropping[t])
    <3>1. CloseOf(dropping[t]) \in MaybePayloads
      BY BoundsAssumption DEF MaybePayloads, CloseOf
    <3>. QED BY <1>0, <1>2, <1>9, <2>1, <3>1 DEF DropAsks
  <2>2. CASE ~Accepts(dropping[t])
    BY <1>1, <1>9, <2>2 DEF DropAsks
  <2>. QED BY <2>1, <2>2
<1>10. CASE DropReaps(t)
  <2>1. /\ \A s \in Sessions : child'[s] \in {child[s], "gone"}
        /\ \A u \in Threads : dropping'[u] \in {dropping[u], current, 0}
        /\ UNCHANGED <<queue, stdin, spawned, current>>
    BY <1>10 DEF DropReaps, Kill
  <2>. QED BY <1>1, <2>1
<1>. QED BY <1>3, <1>4, <1>6, <1>7, <1>8, <1>9, <1>10 DEF RustStep

\* The steps of backend_ipc keep calls in order: a command is sent once, and its
\* caller is told of a failure when no backend runs any more.
LEMMA ThreadKeepsCalls ==
    ASSUME IInv, IInv', CallInv, NEW t \in Threads, Call(t) \/ RustStep(t)
    PROVE  CallInv'
<1>. USE DEF CallInv, channels, io, process, history
<1>0. TypeOK /\ MutexIsHeld /\ OneInPipes
  BY DEF IInv
<1>1. ChannelsAreShort'
  BY <1>0, ThreadKeepsChannels
<1>2. Requests \subseteq Payloads /\ \A q \in Requests : q \in Nat
  BY BoundsAssumption DEF Requests, Payloads
<1>3. CASE Call(t)
  <2>0. PICK new \in Requests : new = issued + 1
    BY <1>0, <1>3, BoundsAssumption DEF Call, TypeOK, Requests
  <2>1. /\ t \in Callers /\ lock = {} /\ app = "running" /\ UNCHANGED <<app, current>>
        /\ issued' = new
        /\ pc' = [pc EXCEPT ![t] = "check"] /\ req' = [req EXCEPT ![t] = new]
        /\ outcome' = [outcome EXCEPT ![new] = "pending"]
    BY <1>3, <2>0 DEF Call, Put
  <2>2. \A u \in Threads : pc[u] \notin Working \cup Dropping
    BY <1>0, <2>1 DEF MutexIsHeld
  <2>3. pc'[t] = "check" /\ \A u \in Threads \ {t} : pc'[u] = pc[u]
    BY <1>0, <2>1 DEF TypeOK
  <2>4. \A q \in Requests : outcome'[q] = IF q = new THEN "pending" ELSE outcome[q]
    BY <1>0, <2>1 DEF TypeOK
  <2>5. OnePlace' /\ RunsOnce' /\ \A q \in Requests : Fresh(q) => Fresh(q)'
    BY <1>0, <1>3, <2>4, BackendsStay DEF Call, Queued
  <2>6. PendingIsHeld'
    <3>1. \A q \in Requests : q # new => outcome[q] # "pending"
      BY <2>1, <2>2 DEF PendingIsHeld, Threads
    <3>2. req'[t] = new
      BY <1>0, <2>1 DEF TypeOK
    <3>3. \A q \in Requests : q > new => outcome'[q] = "none"
      BY <1>0, <1>2, <2>0, <2>4 DEF PendingIsHeld, TypeOK
    <3>4. \A u \in Threads : pc'[u] \in Working \cup Dropping => u = t
      BY <2>2, <2>3
    <3>5. pc'[t] \in Working
      BY <2>3 DEF Working
    <3>. QED BY <2>1, <2>4, <3>1, <3>2, <3>3, <3>4, <3>5 DEF PendingIsHeld, Threads
  <2>7. UnsentIsFresh'
    <3>1. Fresh(new)' /\ req'[t] = new
      <4>1. new > issued
        BY <1>0, <2>0 DEF TypeOK
      <4>. QED BY <1>0, <2>1, <2>5, <4>1 DEF UnsentIsFresh, TypeOK
    <3>2. \A q \in Requests : q > new => Fresh(q)'
      BY <1>0, <1>2, <2>0, <2>5 DEF UnsentIsFresh, TypeOK
    <3>3. \A u \in Callers : Unsent(u)' => u = t
      BY <2>2, <2>3 DEF Unsent, Threads, Working
    <3>4. Fresh(req[t])'
      BY <3>1 DEF Fresh, At, Queued, InPipe, Written, Runs
    <3>. QED BY <2>1, <3>2, <3>3, <3>4 DEF UnsentIsFresh
  <2>. QED BY <1>1, <2>5, <2>6, <2>7
\* A thread that keeps the mutex and sends nothing.
<1>4. ASSUME pc[t] \in Working \cup Dropping,
             NEW label \in Working \cup Dropping, Put(t, label),
             label \in Working => t \in Callers,
             current' \in {current, 0},
             \A u \in Threads : dropping'[u] \in {dropping[u], current, 0},
             UNCHANGED <<req, outcome, issued, app, wreq, worker, stdin, stdout, work, runs>>,
             \A s \in Sessions : child'[s] \in {child[s], "gone"},
             \A s \in Sessions, q \in Requests : Queued(s, q)' => Queued(s, q),
             \A q \in Requests : reply'[q].state = "answered" => reply[q].state = "answered",
             Unsent(t)' => Unsent(t)
      PROVE  CallInv'
  <2>1. OnePlace' /\ RunsOnce' /\ \A q \in Requests : Fresh(q) => Fresh(q)'
    BY <1>0, <1>4, BackendsStay
  <2>2. t \in Callers /\ Unsent(t)' => Unsent(t) /\ Fresh(req[t])'
    <3>1. SUFFICES ASSUME t \in Callers, Unsent(t)' PROVE Fresh(req[t])'
      BY <1>4
    <3>2. PICK q \in Requests : q = req[t]
      BY <1>4, <3>1 DEF PendingIsHeld
    <3>3. Fresh(q)' /\ req'[t] = q
      BY <1>4, <2>1, <3>1, <3>2 DEF UnsentIsFresh
    <3>. QED BY <3>3 DEF Fresh, At, Queued, InPipe, Written, Runs
  <2>3. PendingIsHeld' /\ UnsentIsFresh'
    BY <1>0, <1>4, <2>1, <2>2, HolderGoesOn
  <2>. QED BY <1>1, <2>1, <2>3
\* A thread that gives the mutex back.
<1>5. ASSUME pc[t] \in Working \cup Dropping,
             NEW label \in {"idle", "exit"}, Put(t, label),
             UNCHANGED <<issued, app, current, queue, wreq, worker, stdin, stdout, work, reply,
                         runs>>,
             \A u \in Threads : dropping'[u] \in {dropping[u], 0},
             \A s \in Sessions : child'[s] \in {child[s], "gone"},
             \/ /\ t \in Callers
                /\ \E result \in {"ok", "error"} : outcome' = [outcome EXCEPT ![req[t]] = result]
                /\ req' = [req EXCEPT ![t] = 0]
                /\ \A s \in Sessions : Alive(s)' => ~Held(s, req[t]) \/ LeftBehind(s)'
             \/ t \notin Callers /\ UNCHANGED <<outcome, req>>
      PROVE  CallInv'
  <2>1. \A q \in Requests :
            \/ outcome'[q] \in {outcome[q], "pending"}
            \/ \A s \in Sessions : Alive(s)' => ~Held(s, q) \/ LeftBehind(s)'
    <3>1. ASSUME NEW q \in Requests, outcome'[q] # outcome[q]
          PROVE  t \in Callers /\ q = req[t]
      BY <1>0, <1>5, <3>1 DEF TypeOK
    <3>. QED BY <1>5, <3>1
  <2>2. OnePlace' /\ RunsOnce' /\ \A q \in Requests : Fresh(q) => Fresh(q)'
    BY <1>0, <1>5, <2>1, BackendsStay DEF Queued
  <2>3. PendingIsHeld' /\ UnsentIsFresh'
    BY <1>0, <1>5, <2>2, HolderLeaves
  <2>. QED BY <1>1, <2>2, <2>3
<1>6. CASE Reuse(t)
  BY <1>4, <1>6 DEF Reuse, Working, Unsent, PendingIsHeld, Queued
<1>7. CASE RestartFails(t)
  <2>1. pc[t] \in Working /\ t \in Callers /\ Unsent(t)
    BY <1>7 DEF RestartFails, Working, Unsent, PendingIsHeld
  <2>2. Fresh(req[t]) /\ req[t] \in Requests
    BY <2>1 DEF UnsentIsFresh, PendingIsHeld
  <2>3. \A s \in Sessions : ~Held(s, req[t])
    BY <2>2 DEF Fresh, At, Held
  <2>4. req[t] # 0
    BY <2>2 DEF Requests
  <2>. QED BY <1>5, <1>7, <2>1, <2>3, <2>4 DEF RestartFails, Return
\* A session that is given up.
<1>8. ASSUME pc[t] \in {"send", "wait"}, GiveUp(t),
             UNCHANGED <<issued, app, queue, io, process, runs>>,
             \A q \in Requests : reply'[q].state = "answered" => reply[q].state = "answered"
      PROVE  CallInv'
  <2>1. pc[t] \in Working /\ "drop" \in Dropping /\ "drop" \notin Working
    BY <1>8 DEF Working, Dropping
  <2>2. ~Unsent(t)'
    BY <1>0, <1>8 DEF GiveUp, Put, TypeOK, Unsent
  <2>. QED BY <1>4, <1>8, <2>1, <2>2 DEF GiveUp, Queued
<1>9. CASE Receive(t)
  <2>1. CASE reply[req[t]].state # "answered"
    BY <1>8, <1>9, <2>1 DEF Receive
  <2>2. CASE reply[req[t]].state = "answered"
    <3>1. pc[t] \in Working /\ t \in Callers
      BY <1>9 DEF Receive, Working, PendingIsHeld
    <3>2. req[t] \in Requests /\ req[t] # 0
      BY <3>1 DEF PendingIsHeld, Requests
    <3>3. runs[req[t]] = 1
      BY <2>2, <3>2 DEF RunsOnce
    <3>4. \A s \in Sessions : Alive(s) => ~Held(s, req[t])
      BY <3>2, <3>3 DEF RunsOnce
    <3>. QED BY <1>5, <1>9, <2>2, <3>1, <3>2, <3>4 DEF Receive, Return, Alive
  <2>. QED BY <2>1, <2>2
<1>10. CASE Timeout(t)
  <2>1. \A q \in Requests : reply'[q].state = "answered" => reply[q].state = "answered"
    BY <1>0, <1>2, <1>10 DEF Timeout, Dropped, TypeOK
  <2>. QED BY <1>8, <1>10, <2>1 DEF Timeout
<1>11. CASE DropAsks(t)
  <2>1. PICK label \in {"drop_wait", "drop_end"} : Put(t, label)
    BY <1>11 DEF DropAsks
  <2>2. \A s \in Sessions, q \in Requests : Queued(s, q)' => Queued(s, q)
    <3>1. CASE Accepts(dropping[t])
      <4>1. queue' = [queue EXCEPT ![dropping[t]] = Append(@, CloseOf(dropping[t]))]
        BY <1>11, <3>1 DEF DropAsks
      <4>2. ASSUME NEW s \in Sessions, NEW q \in Requests, s = dropping[t] PROVE ~Queued(s, q)'
        <5>1. queue[s] = <<>>
          BY <1>0, <3>1, <4>2, EmptySeq DEF Accepts, TypeOK
        <5>2. Append(<<>>, CloseOf(s)) = <<CloseOf(s)>>
          OBVIOUS
        <5>3. queue'[s] = <<CloseOf(s)>> /\ CloseOf(s) # q
          BY <1>0, <4>1, <4>2, <5>1, <5>2, BoundsAssumption
          DEF TypeOK, CloseOf, Requests, Sessions
        <5>. QED BY <5>3 DEF Queued
      <4>. QED BY <1>0, <4>1, <4>2 DEF Queued, TypeOK
    <3>2. CASE ~Accepts(dropping[t])
      BY <1>11, <3>2 DEF DropAsks, Queued
    <3>. QED BY <3>1, <3>2
  <2>3. Unsent(t)' => Unsent(t)
    BY <1>0, <1>11, <2>1 DEF DropAsks, Unsent, Put, TypeOK, Dropping
  <2>4. pc[t] \in Dropping /\ label \in Dropping /\ label \notin Working
    BY <1>11, <2>1 DEF DropAsks, Dropping, Working
  <2>. QED BY <1>4, <1>11, <2>1, <2>2, <2>3, <2>4 DEF DropAsks
<1>12. CASE DropWaited(t) \/ DropCloses(t)
  <2>1. PICK label \in {"drop_end", "drop_reap"} : Put(t, label)
    BY <1>12 DEF DropWaited, DropCloses
  <2>2. \A q \in Requests : reply'[q].state = "answered" => reply[q].state = "answered"
    <3>1. \A q \in Requests : reply'[q] = reply[q] \/ reply'[q] = Dropped
      BY <1>0, <1>2, <1>12 DEF DropWaited, DropCloses, TypeOK
    <3>2. Dropped.state # "answered"
      BY DEF Dropped
    <3>. QED BY <3>1, <3>2
  <2>3. Unsent(t)' => Unsent(t)
    BY <1>0, <1>12, <2>1 DEF DropWaited, DropCloses, Unsent, Put, TypeOK, Dropping
  <2>4. pc[t] \in Dropping /\ label \in Dropping /\ label \notin Working
    BY <1>12, <2>1 DEF DropWaited, DropCloses, Dropping, Working
  <2>. QED BY <1>4, <1>12, <2>1, <2>2, <2>3, <2>4 DEF DropWaited, DropCloses, Queued
<1>13. CASE DropReaps(t)
  <2>1. /\ pc[t] \in Dropping /\ \A s \in Sessions : child'[s] \in {child[s], "gone"}
        /\ \A u \in Threads : dropping'[u] \in {dropping[u], 0}
        /\ UNCHANGED <<issued, app, queue, wreq, worker, stdin, stdout, work, reply, runs, current>>
    BY <1>0, <1>13 DEF DropReaps, Kill, Dropping, TypeOK
  <2>2. CASE t \in Callers /\ current # 0
    <3>1. Put(t, "send") /\ UNCHANGED <<req, outcome>> /\ Unsent(t)
      BY <1>13, <2>1, <2>2, ThreadsAssumption DEF DropReaps, Unsent
    <3>. QED BY <1>4, <2>1, <2>2, <3>1 DEF Working, Queued
  <2>3. CASE t \in Callers /\ current = 0
    <3>1. Return(t, "error") /\ req[t] # 0
      BY <1>13, <2>1, <2>3, ThreadsAssumption DEF DropReaps, PendingIsHeld, Requests
    <3>2. \A s \in Sessions : Alive(s)' => LeftBehind(s)'
      <4>1. SUFFICES ASSUME NEW s \in Sessions, Alive(s)', ~LeftBehind(s)' PROVE FALSE
        OBVIOUS
      <4>2. PICK u \in Threads : dropping'[u] = s
        BY <2>1, <2>3, <4>1 DEF IInv, AliveIsHeld, LeftBehind, Sessions
      <4>3. pc'[u] \in Dropping \cup {"dead"}
        BY <4>2 DEF IInv, MutexIsHeld, Sessions
      <4>4. pc'[t] = "idle" /\ \A v \in Threads \ {t} : pc'[v] = pc[v]
        BY <1>0, <3>1 DEF Return, Put, TypeOK
      <4>5. u # t /\ pc[u] \notin Dropping
        BY <1>0, <2>1, <4>3, <4>4, AloneInside DEF Dropping
      <4>6. pc[u] = "dead" /\ pc[t] # "dead"
        BY <2>1, <4>3, <4>4, <4>5 DEF Dropping
      <4>. QED BY <1>0, <4>6 DEF MutexIsHeld
    <3>. QED BY <1>5, <2>1, <2>3, <3>1, <3>2 DEF Return
  <2>4. CASE t \notin Callers
    BY <1>5, <1>13, <2>1, <2>4 DEF DropReaps
  <2>. QED BY <2>2, <2>3, <2>4
<1>14. CASE Send(t)
  <2>1. CASE ~Accepts(current)
    BY <1>8, <1>14, <2>1 DEF Send
  <2>2. CASE Accepts(current)
    <3>1. /\ t \in Callers /\ pc[t] \in Working /\ Put(t, "wait")
          /\ queue' = [queue EXCEPT ![current] = Append(@, req[t])]
          /\ UNCHANGED <<app, req, outcome, issued, wreq, worker, stdin, stdout, child, work,
                         reply, runs>>
      BY <1>14, <2>2 DEF Send, Working, PendingIsHeld
    <3>2. PICK r \in Requests : r = req[t] /\ outcome[r] = "pending" /\ Fresh(r)
      BY <1>14, <3>1 DEF Send, PendingIsHeld, UnsentIsFresh, Unsent
    <3>3. \A s \in Sessions, q \in Requests : Queued(s, q)' => Queued(s, q) \/ q = r
      <4>1. ASSUME NEW s \in Sessions, NEW q \in Requests, s = current, Queued(s, q)' PROVE q = r
        <5>1. queue[s] = <<>>
          BY <1>0, <2>2, <4>1, EmptySeq DEF Accepts, TypeOK
        <5>2. Append(<<>>, r) = <<r>>
          OBVIOUS
        <5>3. queue'[s] = <<r>>
          BY <1>0, <3>1, <3>2, <4>1, <5>1, <5>2 DEF TypeOK
        <5>. QED BY <4>1, <5>3 DEF Queued
      <4>. QED BY <1>0, <3>1, <4>1 DEF Queued, TypeOK
    <3>4. \A s \in Sessions, q \in Requests : InPipe(s, q)' <=> InPipe(s, q)
      BY <3>1 DEF InPipe, Written, Runs
    <3>5. OnePlace' /\ RunsOnce'
      <4>0. \A s \in Sessions : LeftBehind(s)' <=> LeftBehind(s)
        BY <1>14, <2>2 DEF Send, LeftBehind
      <4>1. \A s \in Sessions, q \in Requests :
                /\ Queued(s, q)' => wreq'[s] # q /\ ~InPipe(s, q)'
                /\ Alive(s)' /\ Held(s, q)' =>
                     runs'[q] = 0 /\ (outcome'[q] = "pending" \/ LeftBehind(s)')
                /\ worker'[s] = "exchange" /\ wreq'[s] = q /\ stdout'[s] # <<>> => runs'[q] = 1
        BY <3>1, <3>2, <3>3, <3>4, <4>0 DEF RunsOnce, Held, Fresh, At, Alive
      <4>2. \A q \in Requests : reply'[q].state = "answered" => runs'[q] = 1
        BY <3>1 DEF RunsOnce
      <4>3. OnePlace'
        <5>1. \A s \in Sessions : Held(s, r)' => s = current
          BY <1>0, <3>1, <3>2, <3>4 DEF Held, Fresh, At, Queued, TypeOK
        <5>2. \A s \in Sessions, q \in Requests : q # r /\ Held(s, q)' => Held(s, q)
          BY <3>3, <3>4 DEF Held
        <5>. QED BY <5>1, <5>2 DEF OnePlace
      <4>. QED BY <4>1, <4>2, <4>3 DEF RunsOnce
    <3>6. \A q \in Requests : q # req[t] /\ Fresh(q) => Fresh(q)'
      BY <3>1, <3>2, <3>3, <3>4 DEF Fresh, At
    <3>7. ~Unsent(t)'
      BY <1>0, <3>1 DEF Unsent, Put, TypeOK, Dropping
    <3>8. PendingIsHeld' /\ UnsentIsFresh'
      BY <1>0, <3>1, <3>6, <3>7, HolderGoesOn DEF Working
    <3>. QED BY <1>1, <3>5, <3>8
  <2>. QED BY <2>1, <2>2
<1>15. CASE Restart(t)
  <2>1. PICK new \in Sessions : new = spawned + 1
    BY <1>0, <1>15, BoundsAssumption DEF Restart, NeedsRestart, Sessions, TypeOK
  <2>2. /\ t \in Callers /\ pc[t] = "check"
        /\ child' = [child EXCEPT ![new] = "ready"]
        /\ worker' = [worker EXCEPT ![new] = "recv"]
        /\ UNCHANGED <<app, req, outcome, issued, queue, wreq, stdin, stdout, work, reply, runs>>
    BY <1>15, <2>1 DEF Restart, NeedsRestart, PendingIsHeld, Working
  <2>3. PICK label \in {"send", "drop"} : Put(t, label)
    BY <1>15 DEF Restart
  <2>4. queue[new] = <<>> /\ stdin[new] = <<>> /\ stdout[new] = <<>>
    <3>1. new > spawned
      BY <1>0, <2>1 DEF TypeOK
    <3>. QED BY <1>0, <3>1 DEF ChannelsAreShort, OneInPipes, Pipes, Quiet
  <2>5. \A s \in Sessions, q \in Requests :
            /\ Queued(s, q)' <=> Queued(s, q)
            /\ InPipe(s, q)' => InPipe(s, q)
            /\ s # new => /\ Alive(s)' <=> Alive(s)
                          /\ worker'[s] = worker[s]
    BY <1>0, <2>2 DEF Queued, InPipe, Written, Runs, Alive, TypeOK
  <2>6. \A q \in Requests : ~Queued(new, q)' /\ ~InPipe(new, q)' /\ worker'[new] # "exchange"
    BY <1>0, <2>2, <2>4 DEF Queued, InPipe, Written, Runs, TypeOK
  <2>7. OnePlace' /\ RunsOnce'
    <3>0. \A s \in Sessions \ {new} : LeftBehind(s) => LeftBehind(s)'
      BY <1>15, <2>1 DEF Restart, LeftBehind
    <3>1. \A s \in Sessions, q \in Requests :
              /\ Queued(s, q)' => wreq'[s] # q /\ ~InPipe(s, q)'
              /\ Alive(s)' /\ Held(s, q)' =>
                   runs'[q] = 0 /\ (outcome'[q] = "pending" \/ LeftBehind(s)')
              /\ worker'[s] = "exchange" /\ wreq'[s] = q /\ stdout'[s] # <<>> => runs'[q] = 1
      BY <2>2, <2>5, <2>6, <3>0 DEF RunsOnce, Held
    <3>2. \A q \in Requests : reply'[q].state = "answered" => runs'[q] = 1
      BY <2>2 DEF RunsOnce
    <3>3. OnePlace'
      BY <2>5, OnePlaceStays DEF Held
    <3>. QED BY <3>1, <3>2, <3>3 DEF RunsOnce
  <2>8. \A q \in Requests : Fresh(q) => Fresh(q)'
    BY <2>2, <2>5 DEF Fresh, At
  <2>9. Unsent(t) /\ Fresh(req[t])'
    <3>1. PICK q \in Requests : q = req[t] /\ Fresh(q)
      BY <2>2 DEF Unsent, UnsentIsFresh, PendingIsHeld, Working
    <3>2. Fresh(q)' /\ req'[t] = q
      BY <2>2, <2>8, <3>1
    <3>. QED BY <2>2, <3>2 DEF Unsent, Fresh, At, Queued, InPipe, Written, Runs
  <2>10. PendingIsHeld' /\ UnsentIsFresh'
    BY <1>0, <2>2, <2>3, <2>8, <2>9, HolderGoesOn DEF Working, Dropping
  <2>. QED BY <1>1, <2>7, <2>10
<1>. QED BY <1>3, <1>6, <1>7, <1>9, <1>10, <1>11, <1>12, <1>13, <1>14, <1>15 DEF RustStep

\* The exit event takes the session only when no command is under way, and a
\* process that has ended tells nobody anything.
LEMMA ExitKeepsCalls ==
    ASSUME IInv, CallInv, ExitEvent \/ ProcessEnds
    PROVE  CallInv'
<1>. USE DEF CallInv, channels, process, history
<1>0. /\ TypeOK /\ MutexIsHeld /\ Main \in Threads /\ Main \notin Callers
      /\ current \in Nat /\ spawned \in Nat /\ \A u \in Threads : dropping[u] \in Nat
  BY ThreadsAssumption, BoundsAssumption DEF IInv, Threads, TypeOK
<1>1. CASE ExitEvent
  <2>1. /\ UNCHANGED <<app, req, channels, io, process, history>>
        /\ pc'[Main] \in {"drop", "exit"} /\ current' \in {current, 0}
        /\ \A u \in Threads \ {Main} : pc'[u] = pc[u]
        /\ \A u \in Threads : dropping'[u] \in {dropping[u], current}
        /\ current' # current => lock = {}
    BY <1>0, <1>1 DEF ExitEvent, Put, TypeOK
  <2>2. OnePlace' /\ RunsOnce' /\ \A q \in Requests : Fresh(q) => Fresh(q)'
    BY <1>0, <2>1, BackendsStay DEF io, Queued
  <2>3. ChannelsAreShort'
    BY <1>0, <2>1 DEF ChannelsAreShort, Queued, Written
  <2>4. PendingIsHeld'
    BY <1>0, <2>1 DEF PendingIsHeld, Threads, Working
  <2>5. UnsentIsFresh'
    <3>1. \A q \in Requests : q > issued' => Fresh(q)'
      BY <2>1, <2>2 DEF UnsentIsFresh
    <3>2. ASSUME NEW t \in Callers, Unsent(t)' PROVE Fresh(req[t])'
      <4>1. pc'[t] = pc[t] /\ req'[t] = req[t] /\ t \in Threads
        BY <1>0, <2>1 DEF Threads
      <4>2. pc[t] \in Working \cup Dropping
        BY <3>2, <4>1 DEF Unsent, Working
      <4>3. lock # {}
        BY <1>0, <4>1, <4>2 DEF MutexIsHeld
      <4>4. Unsent(t)
        BY <2>1, <3>2, <4>1, <4>3 DEF Unsent
      <4>5. PICK q \in Requests : q = req[t] /\ Fresh(q)
        BY <4>2, <4>4 DEF PendingIsHeld, UnsentIsFresh
      <4>6. Fresh(q)' /\ req'[t] = q
        BY <2>2, <4>1, <4>5
      <4>. QED BY <4>6 DEF Fresh, At, Queued, InPipe, Written, Runs
    <3>. QED BY <3>1, <3>2 DEF UnsentIsFresh
  <2>. QED BY <2>2, <2>3, <2>4, <2>5
<1>2. CASE ProcessEnds
  <2>1. /\ UNCHANGED <<current, req, dropping, queue, reply, wreq, process, history>>
        /\ app' = "exited" /\ \A u \in Threads : pc'[u] = "dead"
        /\ \A s \in Sessions : worker'[s] # "exchange"
    BY <1>2 DEF ProcessEnds
  <2>2. ChannelsAreShort'
    BY <2>1 DEF ChannelsAreShort, Queued, Written
  <2>3. PendingIsHeld'
    BY <2>1 DEF PendingIsHeld, Threads, Working, Dropping
  <2>4. UnsentIsFresh'
    BY <2>1 DEF UnsentIsFresh, Unsent, Threads, Dropping, Fresh, At, Queued, InPipe, Written, Runs
  <2>5. OnePlace' /\ RunsOnce'
    BY <2>1 DEF OnePlace, RunsOnce, Held, Queued, InPipe, Written, Runs, Alive, LeftBehind
  <2>. QED BY <2>2, <2>3, <2>4, <2>5
<1>. QED BY <1>1, <1>2

\* Every step keeps calls in order.
LEMMA CallsStep == IInv /\ IInv' /\ CallInv /\ [Next]_vars => CallInv'
<1>. SUFFICES ASSUME IInv, IInv', CallInv, [Next]_vars PROVE CallInv'
  OBVIOUS
<1>1. CASE UNCHANGED vars
  <2>. USE <1>1 DEF CallInv, vars, rust, channels, io, process, history
  <2>1. ChannelsAreShort' /\ PendingIsHeld'
    BY DEF ChannelsAreShort, Queued, Written, PendingIsHeld
  <2>2. UnsentIsFresh'
    BY DEF UnsentIsFresh, Unsent, Fresh, At, Queued, InPipe, Written, Runs
  <2>3. OnePlace' /\ RunsOnce'
    BY DEF OnePlace, RunsOnce, Held, Queued, InPipe, Written, Runs, Alive, LeftBehind
  <2>. QED BY <2>1, <2>2, <2>3
<1>2. CASE Next
  BY <1>2, WorkerKeepsCalls, ChildKeepsCalls, ThreadKeepsCalls, ExitKeepsCalls DEF Next
<1>. QED BY <1>1, <1>2

-----------------------------------------------------------------------------
\* Every step is one of BackendCall's or changes nothing that it speaks of,
\* but for a process that survived its kill.
LEMMA StepImplements ==
    ASSUME IInv, IInv', CallInv, [Next]_vars
    PROVE  [Promise!Next \/ RunsLeftBehind]_<<outcome, runs>>
<1>. USE DEF CallInv, Promise!Next, Promise!Pending, Promise!Become
<1>0. TypeOK /\ MutexIsHeld
  BY DEF IInv
<1>1. CASE UNCHANGED vars
  BY <1>1 DEF vars, history
<1>2. ASSUME NEW s \in Sessions, WorkerStep(s) PROVE UNCHANGED <<outcome, runs>>
  BY <1>2 DEF WorkerStep, WorkerRecv, WorkerRead, WorkerFails, WorkerEnds, history
<1>3. ASSUME NEW s \in Sessions, ChildStep(s)
      PROVE  [Promise!Next \/ RunsLeftBehind]_<<outcome, runs>>
  <2>0. CASE RunCommand(s) /\ LeftBehind(s)
    BY <2>0 DEF RunsLeftBehind
  <2>1. CASE RunCommand(s) /\ work[s] \in Requests /\ ~LeftBehind(s)
    <3>1. Alive(s) /\ InPipe(s, work[s])
      BY <2>1 DEF RunCommand, Alive, InPipe, Runs
    <3>2. outcome[work[s]] = "pending" /\ runs[work[s]] = 0
      BY <2>1, <3>1 DEF RunsOnce, Held
    <3>3. runs' = [runs EXCEPT ![work[s]] = 1] /\ UNCHANGED outcome
      BY <1>0, <2>1, <3>2 DEF RunCommand, TypeOK
    <3>4. Promise!Run(work[s])
      BY <3>2, <3>3 DEF Promise!Run
    <3>. QED BY <2>1, <3>4
  <2>2. CASE RunCommand(s) /\ work[s] \notin Requests
    BY <2>2 DEF RunCommand
  <2>3. CASE ReadLine(s) \/ EndOfInput(s) \/ Exits(s) \/ Crashes(s)
    BY <2>3 DEF ReadLine, EndOfInput, Exits, Crashes, history
  <2>. QED BY <1>3, <2>0, <2>1, <2>2, <2>3 DEF ChildStep, ChildRuns
<1>4. ASSUME NEW t \in Threads, Call(t) PROVE [Promise!Next]_<<outcome, runs>>
  <2>1. PICK new \in Requests : new = issued + 1
    BY <1>0, <1>4, BoundsAssumption DEF Call, TypeOK, Requests
  <2>2. outcome[new] = "none"
    BY <1>0, <2>1 DEF PendingIsHeld, TypeOK
  <2>3. \A q \in Requests : outcome[q] # "pending"
    BY <1>0, <1>4 DEF Call, MutexIsHeld, PendingIsHeld, Threads
  <2>4. outcome' = [outcome EXCEPT ![new] = "pending"] /\ UNCHANGED runs
    BY <1>4, <2>1 DEF Call
  <2>5. Promise!Call(new)
    BY <2>2, <2>3, <2>4 DEF Promise!Call
  <2>. QED BY <2>1, <2>5
<1>5. ASSUME NEW t \in Callers, pc[t] \in Working \cup Dropping, UNCHANGED runs,
             Return(t, "error") \/ (Return(t, "ok") /\ runs[req[t]] = 1)
      PROVE  [Promise!Next]_<<outcome, runs>>
  <2>1. req[t] \in Requests /\ req[t] # 0 /\ outcome[req[t]] = "pending"
    BY <1>5 DEF PendingIsHeld, Requests
  <2>2. Promise!Fail(req[t]) \/ Promise!Succeed(req[t])
    BY <1>5, <2>1 DEF Return, Promise!Fail, Promise!Succeed
  <2>. QED BY <2>1, <2>2
<1>6. ASSUME NEW t \in Threads, RestartFails(t) PROVE [Promise!Next]_<<outcome, runs>>
  BY <1>5, <1>6 DEF RestartFails, PendingIsHeld, Working
<1>7. ASSUME NEW t \in Threads, Receive(t) PROVE [Promise!Next]_<<outcome, runs>>
  <2>1. CASE reply[req[t]].state = "answered"
    <3>1. t \in Callers /\ pc[t] \in Working /\ req[t] \in Requests
      BY <1>7 DEF Receive, PendingIsHeld, Working
    <3>2. runs[req[t]] = 1
      BY <2>1, <3>1 DEF RunsOnce
    <3>. QED BY <1>5, <1>7, <2>1, <3>1, <3>2 DEF Receive
  <2>2. CASE reply[req[t]].state # "answered"
    BY <1>7, <2>2 DEF Receive, GiveUp
  <2>. QED BY <2>1, <2>2
<1>8. ASSUME NEW t \in Threads, DropReaps(t) PROVE [Promise!Next]_<<outcome, runs>>
  <2>1. CASE t \in Callers /\ current = 0
    BY <1>5, <1>8, <2>1, ThreadsAssumption DEF DropReaps, Dropping
  <2>2. CASE ~(t \in Callers /\ current = 0)
    BY <1>8, <2>2 DEF DropReaps
  <2>. QED BY <2>1, <2>2
<1>9. ASSUME NEW t \in Threads,
             \/ Reuse(t) \/ Restart(t) \/ Send(t) \/ Timeout(t)
             \/ DropAsks(t) \/ DropWaited(t) \/ DropCloses(t)
      PROVE  UNCHANGED <<outcome, runs>>
  BY <1>9 DEF Reuse, Restart, Send, Timeout, GiveUp, DropAsks, DropWaited, DropCloses, history
<1>10. CASE ExitEvent \/ ProcessEnds
  BY <1>10 DEF ExitEvent, ProcessEnds, history
<1>. QED BY <1>1, <1>2, <1>3, <1>4, <1>6, <1>7, <1>8, <1>9, <1>10 DEF Next, RustStep

\* What src-tauri/src/lib.rs promises of backend_ipc holds for any number of
\* threads, commands and sessions, whenever backends hang, end or answer late
\* and whenever the application exits: one command at a time, run at most once,
\* and never again once its caller has been told of a failure, except by a
\* process that survived its kill.
THEOREM CallsAreImplemented == Spec => ImplementsCall
<1>1. Init => Promise!Init
  BY DEF Init, Promise!Init
<1>2. IInv /\ IInv' /\ CallInv /\ [Next]_vars => CallInv'
  BY CallsStep
<1>. QED BY <1>1, <1>2, InitInvariant, InductiveStep, InitCalls, StepImplements, PTL
         DEF Spec, ImplementsCall

=============================================================================
