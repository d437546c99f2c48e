------------------------------- MODULE TorRoom -------------------------------
(***************************************************************************)
(* The Tor runtime and the life of a room in the backend                   *)
(* (backend/main.py: start_tor, create_hidden_service, join_room,          *)
(* build_room_response, close_room, the route that poll_messages reports): *)
(* what the program's globals say, beside what really runs, listens, is    *)
(* published and lies on disk.                                             *)
(*                                                                         *)
(* Commands run one at a time on the main thread (run_stdio_json_loop),    *)
(* one step per call that may fail.  Between any two steps Tor may die,    *)
(* its control connection may break, and the listener or the peer session  *)
(* may end.  Peer sessions themselves are PeerSession's subject: here a    *)
(* guest's connection is only the Tor it runs through.                     *)
(*                                                                         *)
(* Stopping a Tor and removing its directory are attempts: the code        *)
(* swallows their failure and forgets the two.  What so survives is kept   *)
(* in unstopped and undeleted, which no step of the program reads.         *)
(*                                                                         *)
(* An attempt to start Tor is a number t: its ports, its data directory,   *)
(* its process and its controller.  An attempt to create a room is a       *)
(* number r: its server socket, port, service and listener thread.         *)
(***************************************************************************)
EXTENDS Naturals

CONSTANTS
    MaxTors,    \* bound: attempts to start Tor
    MaxRooms,   \* bound: attempts to create or join a room
    MaxFaults   \* bound: processes, connections, listeners and clean-ups
                \* that fail

ASSUME BoundsAssumption ==
    MaxTors \in Nat /\ MaxRooms \in Nat /\ MaxFaults \in Nat

Tors  == 1..MaxTors
Rooms == 1..MaxRooms
NoRoom == [mode |-> "none", id |-> 0, generation |-> 0]

VARIABLES
    controller, process, socksPort, dataDir,  \* the globals of the runtime
    generation,                               \* _tor_generation
    serviceId, localPort, listenerSocket, listenerThread,  \* of the host
    guestSocket,   \* the Tor a guest's connection runs through (0: none)
    room,          \* _active_room with _connection_mode
    stop,          \* stop_event
    running,       \* really: the Tor processes that run
    linked,        \* the Tors whose control connection is up
    dirs,          \* the data directories on disk
    published,     \* <<t, r>>: Tor t serves room r's onion service
    unstopped,     \* history: the Tors that survived _stop_process
    undeleted,     \* history: the directories that rmtree did not remove
    listening,     \* the server sockets that are open
    alive,         \* the listener threads that run
    cmd, want,     \* the main thread's step, and the command it runs
    reply,         \* how the last command ended
    tors, rooms, faults   \* what the bounds count

globals == <<controller, process, socksPort, dataDir, generation>>
hosting == <<serviceId, localPort, listenerSocket, listenerThread>>
joined  == <<guestSocket, room>>
residue == <<unstopped, undeleted>>
world   == <<running, linked, dirs, published, residue>>
threads == <<listening, alive>>
counts  == <<tors, rooms, faults>>
vars == <<globals, hosting, joined, stop, world, threads, cmd, want, reply,
          counts>>

-----------------------------------------------------------------------------
Ready == /\ controller # 0 /\ process \in running
         /\ controller \in linked

Status == IF controller = 0 /\ process = 0 THEN "stopped"
          ELSE IF Ready THEN "ready" ELSE "failed"

HostListenerActive ==
    /\ room.mode = "host"
    /\ listenerSocket = room.id /\ listenerThread = room.id
    /\ serviceId = room.id /\ localPort = room.id
    /\ listenerThread \in alive

\* Seeded bug: the route of whatever Tor runs now.
RouteOfAnyTor ==
    /\ Status = "ready"
    /\ room.mode = "guest" \/ HostListenerActive

\* poll_messages: tor_route_active.
RouteActive ==
    /\ Status = "ready"
    /\ room.generation = generation
    /\ room.mode = "guest" \/ HostListenerActive

RoomInactive ==
    /\ room = NoRoom /\ guestSocket = 0
    /\ serviceId = 0 /\ localPort = 0
    /\ listenerSocket = 0 /\ listenerThread = 0

\* A Tor that ends takes its control connection and its services with it;
\* so does a control connection that closes, for its ephemeral services.
UnlinkOnly(t) ==
    /\ linked' = linked \ {t}
    /\ published' = {s \in published : s[1] # t}
StopTor(t) == UnlinkOnly(t) /\ running' = running \ {t}

\* Seeded bug: the process is not told to end.
CleanUpKeepsTor(t, d) ==
    /\ UnlinkOnly(t) /\ dirs' = dirs \ {d}
    /\ UNCHANGED <<running, residue, faults>>

\* close(), _stop_process(t) and rmtree(d, ignore_errors): Tor t may survive
\* terminate and kill, with or without its connection and services, and
\* directory d its removal; the code goes on as if they were gone.
CleanUp(t, d) ==
    /\ running' \in {running, running \ {t}}
    /\ linked' \in {linked, linked \ {t}}
    /\ linked' \cap {t} \subseteq running'
    /\ published' \in {{s \in published : s[1] \in linked'},
                      {s \in published : s[1] # t}}
    /\ dirs' \in {dirs, dirs \ {d}}
    /\ unstopped' = unstopped \cup (running' \cap {t})
    /\ undeleted' = undeleted \cup (dirs' \cap {d})
    /\ IF t \in running' \/ d \in dirs'
       THEN faults < MaxFaults /\ faults' = faults + 1
       ELSE UNCHANGED faults

Init ==
    /\ controller = 0 /\ process = 0 /\ socksPort = 0 /\ dataDir = 0
    /\ generation = 0
    /\ serviceId = 0 /\ localPort = 0
    /\ listenerSocket = 0 /\ listenerThread = 0
    /\ guestSocket = 0 /\ room = NoRoom /\ stop = FALSE
    /\ running = {} /\ linked = {} /\ dirs = {} /\ published = {}
    /\ unstopped = {} /\ undeleted = {} /\ listening = {} /\ alive = {}
    /\ cmd = "idle" /\ want = "none" /\ reply = "none"
    /\ tors = 0 /\ rooms = 0 /\ faults = 0

-----------------------------------------------------------------------------
(* Commands arrive, and end. *)
Begin(command, first) ==
    /\ cmd = "idle" /\ cmd' = first /\ want' = command /\ reply' = "none"

Step(next) == cmd' = next /\ UNCHANGED <<want, reply>>

End(answer) == cmd' = "idle" /\ reply' = answer /\ UNCHANGED want

\* Seeded bug: the listener that was bound before stays open.
TorRaisesAlone == End("error")

\* The except clause of build_room_response closes what it had opened;
\* start_tor's own caller, and join_room, pass the error on.
TorRaises == IF want = "create" THEN Step("close_take") ELSE End("error")

StartTor ==
    /\ Begin("start_tor", "tor")
    /\ tors < MaxTors
    /\ UNCHANGED <<globals, hosting, joined, stop, world, threads, counts>>

Refused ==
    /\ cmd = "idle" /\ cmd' = "idle" /\ ~RoomInactive
    /\ want' \in {"create", "join"} /\ reply' = "refused"
    /\ UNCHANGED <<globals, hosting, joined, stop, world, threads, counts>>

\* Seeded bug: the room in being is not looked at.
CreateOver ==
    /\ Begin("create", "bind")
    /\ rooms < MaxRooms /\ tors < MaxTors
    /\ rooms' = rooms + 1
    /\ UNCHANGED <<globals, hosting, joined, stop, world, threads, tors,
                   faults>>

CreateRoom ==
    /\ Begin("create", "bind")
    /\ RoomInactive /\ rooms < MaxRooms /\ tors < MaxTors
    /\ rooms' = rooms + 1
    /\ UNCHANGED <<globals, hosting, joined, stop, world, threads, tors,
                   faults>>

JoinRoom ==
    /\ Begin("join", "tor")
    /\ RoomInactive /\ rooms < MaxRooms /\ tors < MaxTors
    /\ rooms' = rooms + 1
    /\ UNCHANGED <<globals, hosting, joined, stop, world, threads, tors,
                   faults>>

CloseRoom ==
    /\ Begin("close", "close_take")
    /\ UNCHANGED <<globals, hosting, joined, stop, world, threads, counts>>

\* run_stdio_json_loop, finally: the input ends.
EndOfInput ==
    /\ Begin("end", "close_take")
    /\ UNCHANGED <<globals, hosting, joined, stop, world, threads, counts>>

-----------------------------------------------------------------------------
(* start_tor. *)
TorIsReady ==
    /\ cmd = "tor" /\ Status = "ready"
    /\ CASE want = "start_tor" -> End("ready")
         [] want = "create"    -> Step("publish")
         [] want = "join"      -> Step("connect")
    /\ UNCHANGED <<globals, hosting, joined, stop, world, threads, counts>>

\* The stale runtime goes, and with it the record of its service.
DropStaleTor ==
    /\ cmd = "tor" /\ Status # "ready"
    /\ controller' = 0 /\ process' = 0 /\ socksPort' = 0 /\ dataDir' = 0
    /\ serviceId' = 0 /\ localPort' = 0
    /\ CleanUp(process, dataDir)
    /\ Step("tor_prepare")
    /\ UNCHANGED <<generation, listenerSocket, listenerThread, joined, stop,
                   threads, tors, rooms>>

\* Two ports are picked and the data directory made, or one of them raises.
PrepareTor ==
    /\ cmd = "tor_prepare" /\ tors < MaxTors /\ tors' = tors + 1
    /\ \/ /\ socksPort' = tors' /\ dataDir' = tors'
          /\ dirs' = dirs \cup {tors'} /\ Step("tor_resolve")
       \/ /\ socksPort' \in {socksPort, tors'}
          /\ UNCHANGED <<dataDir, dirs>> /\ TorRaises
    /\ UNCHANGED <<controller, process, generation, hosting, joined, stop,
                   running, linked, published, residue, threads, rooms,
                   faults>>

\* _resolve_tor_cmd finds a Tor, or raises outside the try block.
ResolveTor ==
    /\ cmd = "tor_resolve"
    /\ Step("tor_launch") \/ TorRaises
    /\ UNCHANGED <<globals, hosting, joined, stop, world, threads, counts>>

LaunchTor ==
    /\ cmd = "tor_launch"
    /\ process' = tors /\ running' = running \cup {tors}
    /\ Step("tor_login")
    /\ UNCHANGED <<controller, socksPort, dataDir, generation, hosting,
                   joined, stop, linked, dirs, published, residue, threads,
                   counts>>

LoginTor ==
    /\ cmd = "tor_login" /\ process \in running
    /\ controller' = process /\ linked' = linked \cup {process}
    /\ generation' = generation + 1
    /\ CASE want = "start_tor" -> End("ready")
         [] want = "create"    -> Step("publish")
         [] want = "join"      -> Step("connect")
    /\ UNCHANGED <<process, socksPort, dataDir, hosting, joined, stop,
                   running, dirs, published, residue, threads, counts>>

\* Seeded bug: the failure leaves the process that did start.
LaunchFailsKeepsTor ==
    /\ cmd \in {"tor_launch", "tor_login"}
    /\ process' = 0 /\ controller' = 0 /\ socksPort' = 0 /\ dataDir' = 0
    /\ CleanUpKeepsTor(process, dataDir) /\ TorRaises
    /\ UNCHANGED <<generation, hosting, joined, stop, threads, tors, rooms>>

\* Tor does not bootstrap, or its control port refuses: the except clause.
LaunchFails ==
    /\ cmd \in {"tor_launch", "tor_login"}
    /\ process' = 0 /\ controller' = 0 /\ socksPort' = 0 /\ dataDir' = 0
    /\ CleanUp(process, dataDir) /\ TorRaises
    /\ UNCHANGED <<generation, hosting, joined, stop, threads, tors, rooms>>

-----------------------------------------------------------------------------
(* build_room_response. *)
BindListener ==
    /\ cmd = "bind"
    /\ \/ /\ listening' = listening \cup {rooms} /\ listenerSocket' = rooms
          /\ Step("tor")
       \/ /\ UNCHANGED <<listening, listenerSocket>> /\ Step("close_take")
    /\ UNCHANGED <<globals, serviceId, localPort, listenerThread, joined,
                   stop, world, alive, counts>>

\* create_hidden_service may fail after Tor has taken the service.
Publish ==
    /\ cmd = "publish"
    /\ \/ /\ controller \in linked
          /\ published' = published \cup {<<controller, rooms>>}
          /\ \/ serviceId' = rooms /\ localPort' = rooms /\ Step("serve")
             \/ UNCHANGED <<serviceId, localPort>> /\ Step("close_take")
       \/ UNCHANGED <<published, serviceId, localPort>> /\ Step("close_take")
    /\ UNCHANGED <<globals, listenerSocket, listenerThread, joined, stop,
                   running, linked, dirs, residue, threads, counts>>

\* The room is recorded, then the listener starts and the invitation is
\* built, or one of the two raises.
Serve ==
    /\ cmd = "serve"
    /\ room' = [mode |-> "host", id |-> rooms, generation |-> generation]
    /\ listenerThread' = rooms /\ stop' = FALSE
    /\ \/ alive' = alive \cup {rooms} /\ End("ready")
       \/ alive' = alive \cup {rooms} /\ Step("close_take")
       \/ UNCHANGED alive /\ Step("close_take")
    /\ UNCHANGED <<globals, serviceId, localPort, listenerSocket, guestSocket,
                   world, listening, counts>>

-----------------------------------------------------------------------------
(* join_room. *)
Connect ==
    /\ cmd = "connect"
    /\ stop' = FALSE
    /\ \/ /\ process \in running
          /\ guestSocket' = process
          /\ room' = [mode |-> "guest", id |-> rooms,
                      generation |-> generation]
          /\ Step("join")
       \/ UNCHANGED joined /\ Step("close_take")
    /\ UNCHANGED <<globals, hosting, world, threads, counts>>

\* The handshake succeeds, or fails and the room is closed; or the answer is
\* an error alone, when the session's thread does not start, which leaves
\* the room, or when the connection is found to have lost the slot.
JoinEnds ==
    /\ cmd = "join"
    /\ End("ready") \/ Step("close_take") \/ End("error")
    /\ UNCHANGED <<globals, hosting, joined, stop, world, threads, counts>>

\* The guest's connection has ended: _peer_session, finally, or
\* _fail_active_channel, which a command's failing frame calls too.
GuestSessionEnds ==
    /\ guestSocket # 0
    /\ guestSocket' = 0 /\ room' = NoRoom
    /\ UNCHANGED <<globals, hosting, stop, world, threads, cmd, want, reply,
                   counts>>

-----------------------------------------------------------------------------
(* close_room. *)
CloseTake ==
    /\ cmd = "close_take"
    /\ stop' = TRUE /\ guestSocket' = 0
    /\ Step("close_listener")
    /\ UNCHANGED <<globals, hosting, room, world, threads, counts>>

\* Seeded bug: stop_event alone is to end the thread.
CloseListenerBySignal ==
    /\ cmd = "close_listener"
    /\ listenerSocket' = 0 /\ listenerThread' = 0
    /\ Step("close_tor")
    /\ UNCHANGED <<globals, serviceId, localPort, joined, stop, world, threads,
                   counts>>

\* The thread is joined for two seconds, whether or not it ends in them.
CloseListener ==
    /\ cmd = "close_listener"
    /\ listening' = listening \ {listenerSocket}
    /\ listenerSocket' = 0 /\ listenerThread' = 0
    /\ Step("close_tor")
    /\ UNCHANGED <<globals, serviceId, localPort, joined, stop, world, alive,
                   counts>>

\* Seeded bug: the service is withdrawn, the process left to Tor's owner.
CloseKeepsTor ==
    /\ cmd = "close_tor"
    /\ controller' = 0 /\ process' = 0 /\ socksPort' = 0 /\ dataDir' = 0
    /\ serviceId' = 0 /\ localPort' = 0 /\ room' = NoRoom
    /\ CleanUpKeepsTor(process, dataDir)
    /\ Step("close_done")
    /\ UNCHANGED <<generation, listenerSocket, listenerThread, guestSocket,
                   stop, threads, tors, rooms>>

\* Whatever the clean-up achieves, the room is closed.
CloseTor ==
    /\ cmd = "close_tor"
    /\ controller' = 0 /\ process' = 0 /\ socksPort' = 0 /\ dataDir' = 0
    /\ serviceId' = 0 /\ localPort' = 0 /\ room' = NoRoom
    /\ CleanUp(process, dataDir)
    /\ Step("close_done")
    /\ UNCHANGED <<generation, listenerSocket, listenerThread, guestSocket,
                   stop, threads, tors, rooms>>

CloseDone ==
    /\ cmd = "close_done"
    /\ CASE want = "close" -> End("closed")
         [] want = "end"   -> cmd' = "ended" /\ reply' = "closed"
                              /\ UNCHANGED want
         [] OTHER          -> End("error")
    /\ UNCHANGED <<globals, hosting, joined, stop, world, threads, counts>>

-----------------------------------------------------------------------------
(* What happens by itself. *)
TorDies(t) ==
    /\ t \in running /\ faults < MaxFaults
    /\ StopTor(t) /\ faults' = faults + 1
    /\ UNCHANGED <<globals, hosting, joined, stop, dirs, residue, threads,
                   cmd, want, reply, tors, rooms>>

ControlConnectionBreaks(t) ==
    /\ t \in linked /\ faults < MaxFaults
    /\ UnlinkOnly(t) /\ faults' = faults + 1
    /\ UNCHANGED <<globals, hosting, joined, stop, running, dirs, residue,
                   threads, cmd, want, reply, tors, rooms>>

\* _listener_loop: stop_event is set, or accept() finds its socket closed.
ListenerEnds(r) ==
    /\ r \in alive /\ (stop \/ r \notin listening)
    /\ alive' = alive \ {r}
    /\ UNCHANGED <<globals, hosting, joined, stop, world, listening, cmd,
                   want, reply, counts>>

\* _listener_loop: accept() raises another OSError, and the thread returns.
AcceptFails(r) ==
    /\ r \in alive /\ faults < MaxFaults
    /\ alive' = alive \ {r} /\ faults' = faults + 1
    /\ UNCHANGED <<globals, hosting, joined, stop, world, listening, cmd,
                   want, reply, tors, rooms>>

-----------------------------------------------------------------------------
StartTorStep ==
    TorIsReady \/ DropStaleTor \/ PrepareTor \/ ResolveTor \/ LaunchTor
    \/ LoginTor \/ LaunchFails
RoomStep  == BindListener \/ Publish \/ Serve \/ Connect \/ JoinEnds
CloseStep == CloseTake \/ CloseListener \/ CloseTor \/ CloseDone
CommandStep == StartTorStep \/ RoomStep \/ CloseStep
Request == StartTor \/ Refused \/ CreateRoom \/ JoinRoom \/ CloseRoom
           \/ EndOfInput

Next ==
    \/ Request \/ CommandStep \/ GuestSessionEnds
    \/ \E t \in Tors : TorDies(t) \/ ControlConnectionBreaks(t)
    \/ \E r \in Rooms : ListenerEnds(r) \/ AcceptFails(r)

Spec == Init /\ [][Next]_vars

\* The main thread runs on, and so does a listener that need not block:
\* accept() waits one second at most.
FairSpec ==
    /\ Spec
    /\ WF_vars(CommandStep)
    /\ \A r \in Rooms : WF_vars(ListenerEnds(r))

-----------------------------------------------------------------------------
\* Every variable has its type; what is really there was once attempted.
TypeOK ==
    /\ {controller, process, socksPort, dataDir, guestSocket}
         \subseteq Tors \cup {0}
    /\ {serviceId, localPort, listenerSocket, listenerThread}
         \subseteq Rooms \cup {0}
    /\ generation \in 0..tors /\ stop \in BOOLEAN
    /\ room \in [mode : {"none", "host", "guest"}, id : 0..rooms,
                generation : 0..generation]
    /\ running \cup linked \cup dirs \subseteq 1..tors
    /\ unstopped \cup undeleted \subseteq 1..tors
    /\ published \subseteq (1..tors) \X (1..rooms)
    /\ listening \cup alive \subseteq 1..rooms
    /\ cmd \in {"idle", "ended", "tor", "tor_prepare", "tor_resolve",
               "tor_launch", "tor_login", "bind", "publish", "serve",
               "connect", "join", "close_take", "close_listener",
               "close_tor", "close_done"}
    /\ want \in {"none", "start_tor", "create", "join", "close", "end"}
    /\ reply \in {"none", "ready", "error", "refused", "closed"}
    /\ tors \in 0..MaxTors /\ rooms \in 0..MaxRooms /\ faults \in 0..MaxFaults

\* poll_messages reports an active route only for a room that Tor serves
\* now: a host's service is published by the running Tor for the open
\* server socket, and a guest's connection runs through that Tor, however
\* often Tor died and was restarted under the room.
RouteIsTrue ==
    cmd = "idle" /\ RouteActive =>
        /\ process \in running
        /\ room.mode = "host" => /\ <<process, room.id>> \in published
                                 /\ room.id \in listening
        /\ room.mode = "guest" => guestSocket = process

\* Between commands nothing runs, lies on disk, listens or is published that
\* the globals have lost sight of, whichever step of start_tor,
\* build_room_response or join_room failed: close_room can still end it.
\* The exception is what was told to end and did not: the Tor that survived
\* _stop_process and the directory that rmtree did not remove.
NothingLeaks ==
    cmd = "idle" =>
        /\ running \subseteq {process} \cup unstopped
        /\ dirs \subseteq {dataDir} \cup undeleted
        /\ listening \subseteq {listenerSocket}
        /\ \A s \in published :
              s = <<controller, serviceId>> \/ s[1] \in unstopped

Nothing ==
    /\ running \subseteq unstopped /\ dirs \subseteq undeleted
    /\ \A s \in published : s[1] \in unstopped
    /\ listening = {} /\ RoomInactive
    /\ Status = "stopped" /\ socksPort = 0

\* After close_room, once the input has ended, and when create_room has failed,
\* there is no server socket or room, and no Tor process, data directory or
\* onion service but those whose end was tried and failed, at whatever step
\* Tor, its connection or the listener failed (PROJECT_RULES.md, "Atomic
\* Operations").
NothingIsLeft ==
    /\ cmd \in {"idle", "ended"} /\ reply = "closed" => Nothing
    /\ cmd = "idle" /\ want = "create" /\ reply = "error" => Nothing

\* A room only ends: through close_room, the end of the input, the failure
\* of the command that made it, or the end of the guest's session.  Nothing
\* ends it because another room was to be created or joined, or Tor
\* restarted, and nothing replaces it (PROJECT_RULES.md, "No Silent State
\* Replacement").
RoomIsNotReplaced ==
    [][room # NoRoom /\ room' # room =>
         /\ room' = NoRoom
         /\ \/ /\ cmd = "close_tor"
               /\ want \in {"close", "end"} \/ room.id = rooms
            \/ guestSocket # 0 /\ guestSocket' = 0]_vars

\* The listener thread of a room that was closed ends, even when the next
\* room clears stop_event before it looked.
OldListenersEnd ==
    \A r \in Rooms : r \in alive /\ listenerThread # r ~> r \notin alive

=============================================================================
