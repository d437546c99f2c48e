----------------------------- MODULE BackendIpc -----------------------------
(***************************************************************************)
(* The Tauri side of the backend (src-tauri/src/lib.rs): the mutex around  *)
(* the one BackendSession, its I/O worker thread, the pipes to the Python  *)
(* process, response deadlines, and how a session is dropped.              *)
(*                                                                         *)
(* A request is a number; the request for close_room that dropping session *)
(* s makes is CloseOf(s).  A response is named by the request it answers.  *)
(* Time is left out: a wait with a deadline may end without its answer at  *)
(* any moment.  Whether commands of the webview overlap is the framework's *)
(* affair; the code takes the mutex with try_lock, and so does the model.  *)
(***************************************************************************)
EXTENDS Naturals, Sequences

CONSTANTS
    Callers,      \* threads that run backend_ipc
    Main,         \* the thread that handles RunEvent::Exit
    MaxRequests,  \* bound: commands the frontend issues
    MaxSessions,  \* bound: backend processes that are spawned
    MaxCrashes,   \* bound: backends that end by themselves
    Survivors     \* sessions whose process the operating system may fail to kill

ASSUME ThreadsAssumption == Main \notin Callers
ASSUME BoundsAssumption ==
    MaxRequests \in Nat /\ MaxSessions \in Nat /\ MaxCrashes \in Nat

Threads    == Callers \cup {Main}
Sessions   == 1..MaxSessions
Requests   == 1..MaxRequests
CloseOf(s) == MaxRequests + s
Payloads   == 1..(MaxRequests + MaxSessions)

VARIABLES
    app,        \* "running" or "exited"
    lock,       \* who holds BACKEND_SESSION's mutex: a set of threads
    current,    \* the session it guards (0: None)
    pc, req,    \* per thread: where it is, and its request
    dropping,   \* per thread: the session it is dropping (0: none)
    queue,      \* per session: the sync_channel to the worker
    sender,     \* per session: is request_sender still there?
    worker, wreq,   \* per session: the worker, and the request it exchanges
    stdin, stdout,  \* per session: the lines in the two pipes
    child, work,    \* per session: the process, and the request it runs
    reply,      \* per payload: its response channel
    outcome, runs,  \* history, as in BackendCall
    spawned, crashes, issued

rust     == <<app, lock, current, pc, req, dropping>>
channels == <<queue, sender, reply>>
io       == <<worker, wreq>>
process  == <<stdin, stdout, child, work>>
history  == <<outcome, runs, spawned, crashes, issued>>
vars     == <<rust, channels, io, process, history>>

-----------------------------------------------------------------------------
Open     == [state |-> "open", of |-> 0]
Dropped  == [state |-> "dropped", of |-> 0]     \* the receiver is gone
Broken   == [state |-> "broken", of |-> 0]      \* the sender is gone
Failed   == [state |-> "failed", of |-> 0]
Answer(q) == [state |-> "answered", of |-> q]
Settled(p) == reply[p].state \in {"answered", "failed", "broken"}

Alive(s) == child[s] \notin {"none", "gone"}
Put(t, label) == pc' = [pc EXCEPT ![t] = label]

Init ==
    /\ app = "running" /\ lock = {} /\ current = 0
    /\ pc = [t \in Threads |-> "idle"] /\ req = [t \in Threads |-> 0]
    /\ dropping = [t \in Threads |-> 0]
    /\ queue = [s \in Sessions |-> <<>>] /\ sender = [s \in Sessions |-> FALSE]
    /\ worker = [s \in Sessions |-> "none"] /\ wreq = [s \in Sessions |-> 0]
    /\ stdin = [s \in Sessions |-> <<>>] /\ stdout = [s \in Sessions |-> <<>>]
    /\ child = [s \in Sessions |-> "none"] /\ work = [s \in Sessions |-> 0]
    /\ reply = [p \in Payloads |-> Open]
    /\ outcome = [q \in Requests |-> "none"] /\ runs = [q \in Requests |-> 0]
    /\ spawned = 0 /\ crashes = 0 /\ issued = 0

-----------------------------------------------------------------------------
(* The I/O worker, backend_worker and exchange_backend_command.             *)

\* The worker ends: what is still queued goes with it, and so do the pipes'
\* ends (the child reads what is in stdin, then the end of file).
WorkerStops(s, replies) ==
    /\ worker' = [worker EXCEPT ![s] = "done"]
    /\ wreq' = [wreq EXCEPT ![s] = 0]
    /\ queue' = [queue EXCEPT ![s] = <<>>]
    /\ reply' = [p \in Payloads |->
                    IF (\E i \in 1..Len(queue[s]) : queue[s][i] = p)
                       /\ replies[p] = Open
                    THEN Broken ELSE replies[p]]

\* (Seeded bug: the response goes to whoever waits for this session.)
DeliverToWaiting(s, response) ==
    [p \in Payloads |->
        IF reply[p] = Open /\ (p = CloseOf(s) \/ p = wreq[s]) THEN response ELSE reply[p]]

\* The response goes to the channel that came with the request.
Deliver(s, response) ==
    IF reply[wreq[s]] = Open THEN [reply EXCEPT ![wreq[s]] = response] ELSE reply

WorkerRecv(s) ==
    /\ worker[s] = "recv" /\ queue[s] # <<>>
    /\ queue' = [queue EXCEPT ![s] = Tail(queue[s])]
    /\ wreq' = [wreq EXCEPT ![s] = Head(queue[s])]
    /\ worker' = [worker EXCEPT ![s] = "exchange"]
    /\ stdin' = IF Alive(s) THEN [stdin EXCEPT ![s] = Append(@, Head(queue[s]))]
                ELSE stdin
    /\ UNCHANGED <<rust, sender, reply, stdout, child, work, history>>

\* A JSON object came back.  Its caller may have stopped waiting: then the
\* worker stops as well.
WorkerRead(s) ==
    /\ worker[s] = "exchange" /\ stdout[s] # <<>>
    /\ stdout' = [stdout EXCEPT ![s] = Tail(stdout[s])]
    /\ LET replies == Deliver(s, Answer(Head(stdout[s])))
       IN IF reply[wreq[s]] = Open
          THEN /\ reply' = replies
               /\ worker' = [worker EXCEPT ![s] = "recv"]
               /\ wreq' = [wreq EXCEPT ![s] = 0]
               /\ UNCHANGED queue
          ELSE WorkerStops(s, replies)
    /\ UNCHANGED <<rust, sender, stdin, child, work, history>>

\* The exchange fails: the process is gone, or it wrote an oversized line,
\* invalid UTF-8 or twenty lines that are no JSON object.
WorkerFails(s) ==
    /\ worker[s] = "exchange" /\ (~Alive(s) \/ stdout[s] # <<>>)
    /\ WorkerStops(s, Deliver(s, Failed))
    /\ UNCHANGED <<rust, sender, process, history>>

WorkerEnds(s) ==
    /\ worker[s] = "recv" /\ queue[s] = <<>> /\ ~sender[s]
    /\ WorkerStops(s, reply)
    /\ UNCHANGED <<rust, sender, process, history>>

WorkerStep(s) == WorkerRecv(s) \/ WorkerRead(s) \/ WorkerFails(s) \/ WorkerEnds(s)

-----------------------------------------------------------------------------
(* The backend process: run_stdio_json_loop in backend/main.py.             *)

ReadLine(s) ==
    /\ child[s] = "ready" /\ stdin[s] # <<>>
    /\ child' = [child EXCEPT ![s] = "busy"]
    /\ work' = [work EXCEPT ![s] = Head(stdin[s])]
    /\ stdin' = [stdin EXCEPT ![s] = Tail(stdin[s])]
    /\ UNCHANGED <<rust, channels, io, stdout, history>>

\* The command has run; print raises when nobody reads standard output.
RunCommand(s) ==
    /\ child[s] = "busy"
    /\ runs' = IF work[s] \in Requests THEN [runs EXCEPT ![work[s]] = @ + 1] ELSE runs
    /\ IF worker[s] = "done"
       THEN child' = [child EXCEPT ![s] = "closing"] /\ UNCHANGED stdout
       ELSE /\ child' = [child EXCEPT ![s] = "ready"]
            /\ stdout' = [stdout EXCEPT ![s] = Append(@, work[s])]
    /\ work' = [work EXCEPT ![s] = 0]
    /\ UNCHANGED <<rust, channels, io, stdin, outcome, spawned, crashes, issued>>

\* (Seeded bug: the end of the input is taken for an empty line.)
EndOfInputMissed(s) ==
    /\ child[s] = "ready" /\ stdin[s] = <<>> /\ worker[s] = "done"
    /\ UNCHANGED vars

\* End of input: the finally clause closes the room, then the process ends.
EndOfInput(s) ==
    /\ child[s] = "ready" /\ stdin[s] = <<>> /\ worker[s] = "done"
    /\ child' = [child EXCEPT ![s] = "closing"]
    /\ UNCHANGED <<rust, channels, io, stdin, stdout, work, history>>

Exits(s) ==
    /\ child[s] = "closing"
    /\ child' = [child EXCEPT ![s] = "gone"]
    /\ UNCHANGED <<rust, channels, io, stdin, stdout, work, history>>

Crashes(s) ==
    /\ Alive(s) /\ crashes < MaxCrashes
    /\ crashes' = crashes + 1
    /\ child' = [child EXCEPT ![s] = "gone"]
    /\ UNCHANGED <<rust, channels, io, stdin, stdout, work, outcome, runs, spawned, issued>>

ChildRuns(s) == ReadLine(s) \/ RunCommand(s) \/ EndOfInput(s) \/ Exits(s)
ChildStep(s) == ChildRuns(s) \/ Crashes(s)

-----------------------------------------------------------------------------
(* run_backend_command.  A thread that finds the mutex held answers "busy"  *)
(* and changes nothing.                                                     *)

Call(t) ==
    /\ app = "running" /\ t \in Callers /\ pc[t] = "idle" /\ lock = {}
    /\ issued < MaxRequests /\ issued' = issued + 1
    /\ lock' = {t}
    /\ req' = [req EXCEPT ![t] = issued + 1]
    /\ outcome' = [outcome EXCEPT ![issued + 1] = "pending"]
    /\ Put(t, "check")
    /\ UNCHANGED <<app, current, dropping, channels, io, process, runs, spawned, crashes>>

\* The mutex is released and the caller has its result.
Return(t, result) ==
    /\ lock' = {}
    /\ outcome' = IF req[t] = 0 THEN outcome ELSE [outcome EXCEPT ![req[t]] = result]
    /\ req' = [req EXCEPT ![t] = 0]
    /\ Put(t, "idle")

\* is_running: the session is used as it is ...
Reuse(t) ==
    /\ pc[t] = "check" /\ current # 0 /\ Alive(current)
    /\ Put(t, "send")
    /\ UNCHANGED <<app, lock, current, req, dropping, channels, io, process, history>>

\* (Seeded bug: a session that still runs is replaced.)
RestartsRunning(t) == pc[t] = "check" /\ spawned < MaxSessions

NeedsRestart(t) ==
    pc[t] = "check" /\ (current # 0 => ~Alive(current)) /\ spawned < MaxSessions

\* ... or a new one replaces it, and the dead one is dropped only after that.
Restart(t) ==
    /\ NeedsRestart(t)
    /\ spawned' = spawned + 1 /\ current' = spawned + 1
    /\ child' = [child EXCEPT ![spawned + 1] = "ready"]
    /\ worker' = [worker EXCEPT ![spawned + 1] = "recv"]
    /\ sender' = [sender EXCEPT ![spawned + 1] = TRUE]
    /\ dropping' = [dropping EXCEPT ![t] = current]
    /\ Put(t, IF current = 0 THEN "send" ELSE "drop")
    /\ UNCHANGED <<app, lock, req, queue, reply, wreq, stdin, stdout, work,
                   outcome, runs, crashes, issued>>

RestartFails(t) ==
    /\ pc[t] = "check" /\ (current # 0 => ~Alive(current))
    /\ Return(t, "error")
    /\ UNCHANGED <<app, current, dropping, channels, io, process, runs, spawned,
                   crashes, issued>>

\* (Seeded bug: the request is sent once more.)
GiveUpReplays(t) == Put(t, "check") /\ UNCHANGED <<current, dropping, lock, req, outcome>>

\* finish_backend_command with an error: the session is given up and dropped.
GiveUp(t) ==
    /\ current' = 0
    /\ dropping' = [dropping EXCEPT ![t] = current]
    /\ Put(t, "drop")
    /\ UNCHANGED <<lock, req, outcome>>

\* try_send on the channel of capacity one.
Accepts(s) == worker[s] # "done" /\ Len(queue[s]) < 1

Send(t) ==
    /\ pc[t] = "send"
    /\ IF Accepts(current)
       THEN /\ queue' = [queue EXCEPT ![current] = Append(@, req[t])]
            /\ Put(t, "wait")
            /\ UNCHANGED <<lock, current, req, dropping, outcome>>
       ELSE GiveUp(t) /\ UNCHANGED queue
    /\ UNCHANGED <<app, sender, reply, io, process, runs, spawned, crashes, issued>>

Receive(t) ==
    /\ pc[t] = "wait" /\ Settled(req[t])
    /\ IF reply[req[t]].state = "answered"
       THEN Return(t, "ok") /\ UNCHANGED <<current, dropping>>
       ELSE GiveUp(t)
    /\ UNCHANGED <<app, channels, io, process, runs, spawned, crashes, issued>>

\* (Seeded bug: a response is waited for without a deadline.)
TimeoutNever(t) == FALSE /\ UNCHANGED vars

\* recv_timeout gives up; a response that comes later finds no receiver.
Timeout(t) ==
    /\ pc[t] = "wait" /\ ~Settled(req[t])
    /\ reply' = [reply EXCEPT ![req[t]] = Dropped]
    /\ GiveUp(t)
    /\ UNCHANGED <<app, queue, sender, io, process, runs, spawned, crashes, issued>>

-----------------------------------------------------------------------------
(* Drop for BackendSession: ask for close_room, close the channel, wait for *)
(* the process to end, kill it.                                             *)

DropAsks(t) ==
    LET s == dropping[t]
    IN /\ pc[t] = "drop"
       /\ IF Accepts(s)
          THEN queue' = [queue EXCEPT ![s] = Append(@, CloseOf(s))] /\ Put(t, "drop_wait")
          ELSE Put(t, "drop_end") /\ UNCHANGED queue
       /\ UNCHANGED <<app, lock, current, req, dropping, sender, reply, io, process, history>>

\* The answer or the deadline of two seconds.
DropWaited(t) ==
    LET close == CloseOf(dropping[t])
    IN /\ pc[t] = "drop_wait"
       /\ reply' = IF Settled(close) THEN reply ELSE [reply EXCEPT ![close] = Dropped]
       /\ Put(t, "drop_end")
       /\ UNCHANGED <<app, lock, current, req, dropping, queue, sender, io, process, history>>

\* request_sender.take(), then try_wait.
DropCloses(t) ==
    /\ pc[t] = "drop_end"
    /\ sender' = [sender EXCEPT ![dropping[t]] = FALSE]
    /\ Put(t, "drop_reap")
    /\ UNCHANGED <<app, lock, current, req, dropping, queue, reply, io, process, history>>

\* kill, then two more seconds of try_wait: what comes of the kill is not
\* looked at, and when try_wait fails the process is left without one.
Kill(s) ==
    \/ child' = [child EXCEPT ![s] = "gone"]
    \/ s \in Survivors /\ UNCHANGED child

\* The process has ended, or is killed after two seconds.  A caller that
\* restarted the backend goes on, the others answer with the failure.
DropReaps(t) ==
    /\ pc[t] = "drop_reap"
    /\ IF Alive(dropping[t]) THEN Kill(dropping[t]) ELSE UNCHANGED child
    /\ dropping' = [dropping EXCEPT ![t] = 0]
    /\ \/ /\ t \in Callers /\ current # 0
          /\ Put(t, "send") /\ UNCHANGED <<lock, req, outcome>>
       \/ /\ t \in Callers /\ current = 0
          /\ Return(t, "error")
       \/ /\ t = Main
          /\ Put(t, "exit") /\ UNCHANGED <<lock, req, outcome>>
    /\ UNCHANGED <<app, current, channels, io, stdin, stdout, work, runs, spawned,
                   crashes, issued>>

-----------------------------------------------------------------------------
(* RunEvent::Exit: stop_backend_session, then the process is over.          *)

ExitEvent ==
    /\ app = "running" /\ pc[Main] = "idle"
    /\ IF lock = {} /\ current # 0
       THEN /\ lock' = {Main}
            /\ dropping' = [dropping EXCEPT ![Main] = current]
            /\ current' = 0
            /\ Put(Main, "drop")
       ELSE Put(Main, "exit") /\ UNCHANGED <<lock, current, dropping>>
    /\ UNCHANGED <<app, req, channels, io, process, history>>

\* Its threads are gone and its ends of the pipes are closed.
ProcessEnds ==
    /\ app = "running" /\ pc[Main] = "exit"
    /\ app' = "exited"
    /\ pc' = [t \in Threads |-> "dead"]
    /\ worker' = [s \in Sessions |-> IF worker[s] = "none" THEN "none" ELSE "done"]
    /\ UNCHANGED <<lock, current, req, dropping, channels, wreq, process, history>>

RustStep(t) ==
    \/ Reuse(t) \/ Restart(t) \/ RestartFails(t) \/ Send(t) \/ Receive(t) \/ Timeout(t)
    \/ DropAsks(t) \/ DropWaited(t) \/ DropCloses(t) \/ DropReaps(t)

Next ==
    \/ \E t \in Threads : Call(t) \/ RustStep(t)
    \/ \E s \in Sessions : WorkerStep(s) \/ ChildStep(s)
    \/ ExitEvent \/ ProcessEnds

Spec == Init /\ [][Next]_vars

(* The threads of the Tauri process keep running, and every wait of theirs  *)
(* has a deadline.  Nothing is assumed of the backend: Tor may hang.        *)
FairSpec ==
    /\ Spec /\ WF_vars(ProcessEnds)
    /\ \A t \in Threads : WF_vars(RustStep(t))
    /\ \A s \in Sessions : WF_vars(WorkerStep(s))

-----------------------------------------------------------------------------
(* Properties.                                                              *)

MaybePayloads == 0..(MaxRequests + MaxSessions)   \* 0: none
Replies == [state : {"open", "dropped", "broken", "failed", "answered"}, of : MaybePayloads]

TypeOK ==
    /\ app \in {"running", "exited"} /\ lock \in SUBSET Threads
    /\ current \in 0..MaxSessions /\ dropping \in [Threads -> 0..MaxSessions]
    /\ pc \in [Threads -> {"idle", "check", "send", "wait", "drop", "drop_wait",
                           "drop_end", "drop_reap", "exit", "dead"}]
    /\ req \in [Threads -> 0..MaxRequests]
    /\ queue \in [Sessions -> Seq(MaybePayloads)] /\ sender \in [Sessions -> BOOLEAN]
    /\ worker \in [Sessions -> {"none", "recv", "exchange", "done"}]
    /\ wreq \in [Sessions -> MaybePayloads]
    /\ stdin \in [Sessions -> Seq(MaybePayloads)] /\ stdout \in [Sessions -> Seq(MaybePayloads)]
    /\ child \in [Sessions -> {"none", "ready", "busy", "closing", "gone"}]
    /\ work \in [Sessions -> MaybePayloads] /\ reply \in [Payloads -> Replies]
    /\ runs \in [Requests -> Nat] /\ outcome \in [Requests -> {"none", "pending", "ok", "error"}]
    /\ spawned \in 0..MaxSessions /\ crashes \in 0..MaxCrashes /\ issued \in 0..MaxRequests

(* No response is taken for that of another command, however late it comes: *)
(* what a command, or the wait for close_room of a drop, is answered with   *)
(* is its own response (the response channel of each BackendRequest, and    *)
(* backend_worker stopping when its caller has gone).                       *)
AnswerIsOwn ==
    \A p \in Payloads : reply[p].state = "answered" => reply[p].of = p

\* Its kill failed, and nothing names it any more.
LeftBehind(s) ==
    s \in Survivors /\ s # current /\ \A t \in Threads : dropping[t] # s

(* There are never two backends, each with its Tor and its room: a session  *)
(* is replaced only when its process has ended or has been killed.  Only a  *)
(* process that survived its kill may run beside another.                   *)
OneBackend ==
    \A s1, s2 \in Sessions :
        Alive(s1) /\ Alive(s2) => s1 = s2 \/ LeftBehind(s1) \/ LeftBehind(s2)

(* backend_ipc is an at-most-once call with a definite end: BackendCall.    *)
(* Every step is one of that specification's or leaves its variables alone, *)
(* but for a process that survived its kill: it may still run the command   *)
(* whose caller was told of the failure.                                    *)
Promise == INSTANCE BackendCall
RunsLeftBehind == \E s \in Sessions : LeftBehind(s) /\ RunCommand(s)
ImplementsCall ==
    Promise!Init /\ [][Promise!Next \/ RunsLeftBehind]_<<outcome, runs>>

(* Every command is answered within its deadlines, however the backend      *)
(* hangs: the mutex is never held for ever.                                 *)
CallReturns == \A t \in Callers : pc[t] = "check" ~> pc[t] \in {"idle", "dead"}

(* The exit event does not stop a backend whose session a command holds,    *)
(* and a command may still start one behind it.  All the same no backend,   *)
(* with its Tor and its room, outlives the application, if only its own     *)
(* commands end: it finds its input closed.                                 *)
BackendEnds ==
    (\A s \in Sessions : WF_vars(ChildRuns(s)))
        => (app = "exited" ~> \A s \in Sessions : ~Alive(s))

=============================================================================
