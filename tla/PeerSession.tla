---------------------------- MODULE PeerSession ----------------------------
(***************************************************************************)
(* The peer session of backend/main.py: which socket owns the one peer     *)
(* slot, the session cryptography that belongs to that owner, the room it  *)
(* is in, and the events queued for the frontend.                          *)
(*                                                                         *)
(* Three kinds of thread touch this state: the command thread (the stdio   *)
(* loop, one command at a time), one listener thread per hosted room, and  *)
(* one session thread per connection.  What is done under one acquisition  *)
(* of peer_lock is one action; so is each unlocked step whose order        *)
(* against the other threads matters (a test of stop_event, the close of a *)
(* socket, the queueing of an event).                                      *)
(*                                                                         *)
(* A connection is used once.  A Box, its transcript hash, role and safety *)
(* code are made in one handshake of one connection and are set and        *)
(* cleared together: `box' names that connection.  A private key is named  *)
(* by the room operation that generated it, and so is a room.              *)
(* handshake_event is set and cleared with _channel_status = "confirmed"   *)
(* and is not kept apart.  Tor is in TorRoom; here its failures are the    *)
(* choices of CreateFails, JoinTorFails and JoinConnectFails.              *)
(***************************************************************************)
EXTENDS Naturals, Sequences

CONSTANTS
    Conns,            \* the connections, accepted or opened, each used once
    NoConn,           \* Python's None for a socket or a Box
    MaxRooms,         \* bound: how many create_room / join_room commands run
    MaxGeneration,    \* bound: past this generation only an open room is closed
    MaxFrames,        \* bound: frames peers send after their handshakes
    InboxLimit,       \* MAX_FRONTEND_QUEUE_MESSAGES
    PollBatch,        \* MAX_POLL_MESSAGES
    Modes,            \* which room operations run: a subset of {"host","guest"}
    ListenerMayStall, \* may close_room's join(timeout=2) give up?
    FailingStarts     \* whose Thread.start() may raise

ASSUME ConnsAssumption == NoConn \notin Conns
ASSUME BoundsAssumption ==
    /\ MaxRooms \in Nat /\ MaxGeneration \in Nat /\ MaxFrames \in Nat
    /\ InboxLimit \in Nat \ {0} /\ PollBatch \in Nat \ {0}
ASSUME OptionsAssumption ==
    /\ Modes \subseteq {"host", "guest"} /\ ListenerMayStall \in BOOLEAN
    /\ FailingStarts \subseteq {"listener", "handler", "guest"}

Rooms == 1..MaxRooms

VARIABLES
    \* ownership of the peer slot, under peer_lock
    active, activeGen,  \* active_peer_socket, _active_peer_generation (0: None)
    peerGen,            \* _peer_generation
    guestSocket, stop,  \* guest_socket, stop_event
    \* session cryptography, under state_lock
    key,                \* _private_key (0: None)
    box, channel,       \* _box, _channel_status
    verification,       \* verification_event
    localConfirmed,     \* _verification_local_confirmed
    peerConfirmed,      \* _verification_peer_confirmed
    \* the room
    room, mode,         \* _active_room (0: None), _connection_mode
    peerCount, listenerSocket, listenerThread,
    inbox,              \* _inbox: a sequence of <<event, its connection>>
    \* the operating system's sockets
    sock,               \* per connection: "new", "open" or "closed"
    servers,            \* the listening sockets that are open
    origin,             \* per connection: the room whose invitation opened it
    \* session threads: where each is, and its local variables
    pc, role, gen, hkey, sbox, note,
    \* listener threads: where each is, and the connection in its hands
    lpc, lconn,
    \* the command thread: where it is, and its local variables
    cmd, cconn, cgen, cbox, cguest, after,
    ops,                \* room operations so far: names the newest key and room
    \* history
    userConfirmed,      \* the sessions the local user has confirmed
    peerHasConfirmed,   \* the sessions whose peer has sent its confirmation
    closedRooms,        \* the rooms that a completed close_room has ended
    frames              \* frames sent by peers, for MaxFrames

owner    == <<active, activeGen, peerGen, guestSocket>>
verify   == <<box, channel, verification, localConfirmed, peerConfirmed>>
place    == <<room, mode, key>>
listens  == <<listenerSocket, listenerThread>>
shared   == <<owner, stop, verify, place, peerCount, listens, inbox>>
net      == <<sock, servers, origin>>
tlocals  == <<role, gen, hkey, sbox, note>>
session  == <<pc, tlocals>>
listener == <<lpc, lconn>>
clocals  == <<cconn, cgen, cbox, cguest>>
command  == <<cmd, clocals, after, ops>>
history  == <<userConfirmed, peerHasConfirmed, closedRooms, frames>>
vars     == <<shared, net, session, listener, command, history>>

\* What a step of a session thread, and of the command thread, leaves alone.
world    == <<net, listener, command, history>>
threads  == <<session, listener, history>>

-----------------------------------------------------------------------------
\* "error_text" is what the backend writes about a broken connection: to the
\* frontend it is a chat event like "peer_text".
ChatEvents    == {"peer_text", "error_text"}
ControlEvents == {"channel_failed", "peer_joined", "peer_left",
                  "peer_verified", "room_deleted"}
FrameKinds    == {"verification", "message", "disconnect", "bad"}

IsOwner(c, g)   == active = c /\ activeGen = g
\* (Seeded bug: a lock block that does not check the owner.)
OwnsUnchecked(c) == TRUE

Owns(c)         == IsOwner(c, gen[c])
Encrypted       == channel = "confirmed" /\ box # NoConn
HostRoomOpen    == mode = "host" /\ room # 0
Claimable       == ~stop /\ active = NoConn

\* (Seeded bugs: one confirmation is enough, and the event is not tested.)
VerifiedByEither == (localConfirmed \/ peerConfirmed) /\ ~verification
VerifiedByUser   == localConfirmed /\ ~verification
VerifiedAgain    == localConfirmed /\ peerConfirmed
BecomesVerified  == localConfirmed /\ peerConfirmed /\ ~verification

RoomInactive ==
    /\ room = 0 /\ mode = "none"
    /\ listenerSocket = 0 /\ listenerThread = 0
    /\ guestSocket = NoConn /\ active = NoConn

\* (Seeded bug: the session stays.)
ResetForgotten(status) == UNCHANGED verify

ResetVerification(status) ==
    /\ box' = NoConn
    /\ channel' = status
    /\ verification' = FALSE /\ localConfirmed' = FALSE /\ peerConfirmed' = FALSE

\* The slot's new number: no earlier claim had it.
Claim(c) ==
    /\ peerGen' = peerGen + 1
    /\ active' = c /\ activeGen' = peerGen + 1
    /\ gen' = [gen EXCEPT ![c] = peerGen + 1]

\* (Seeded bugs: the slot, the room or the peer count is not given back.)
ClearSlotForgotten == UNCHANGED <<active, activeGen, peerGen>>
LeaveRoomKeepsRoom == peerCount' = 0 /\ key' = 0 /\ UNCHANGED <<room, mode>>
LeaveRoomKeepsCount ==
    room' = 0 /\ mode' = "none" /\ key' = 0 /\ UNCHANGED peerCount

ClearSlot   == active' = NoConn /\ activeGen' = 0 /\ UNCHANGED peerGen
ForgetGuest(c) == guestSocket' = IF guestSocket = c THEN NoConn ELSE guestSocket
LeaveRoom   == peerCount' = 0 /\ room' = 0 /\ mode' = "none" /\ key' = 0

\* (Seeded bug: no limit.)
QueueUnbounded(event, c) == inbox' = Append(inbox, <<event, c>>)

Queue(event, c) ==
    inbox' = IF Len(inbox) < InboxLimit THEN Append(inbox, <<event, c>>) ELSE inbox

\* (Seeded bug: the socket stays open.)
CloseForgotten(c) == UNCHANGED sock

Goto(c, label) == pc' = [pc EXCEPT ![c] = label]
Close(c)       == sock' = [sock EXCEPT ![c] = "closed"]

Init ==
    /\ active = NoConn /\ activeGen = 0 /\ peerGen = 0 /\ guestSocket = NoConn
    /\ stop = FALSE /\ key = 0 /\ room = 0 /\ mode = "none" /\ peerCount = 0
    /\ box = NoConn /\ channel = "disconnected"
    /\ verification = FALSE /\ localConfirmed = FALSE /\ peerConfirmed = FALSE
    /\ listenerSocket = 0 /\ listenerThread = 0 /\ inbox = <<>>
    /\ sock = [c \in Conns |-> "new"] /\ servers = {}
    /\ origin = [c \in Conns |-> 0]
    /\ pc = [c \in Conns |-> "none"] /\ role = [c \in Conns |-> "none"]
    /\ gen = [c \in Conns |-> 0] /\ hkey = [c \in Conns |-> 0]
    /\ sbox = [c \in Conns |-> NoConn] /\ note = [c \in Conns |-> "none"]
    /\ lpc = [r \in Rooms |-> "none"] /\ lconn = [r \in Rooms |-> NoConn]
    /\ cmd = "idle" /\ cconn = NoConn /\ cgen = 0 /\ cbox = NoConn
    /\ cguest = NoConn /\ after = "idle" /\ ops = 0
    /\ userConfirmed = {} /\ peerHasConfirmed = {} /\ closedRooms = {}
    /\ frames = 0

-----------------------------------------------------------------------------
(* _perform_handshake.  The host's session thread runs it for an accepted   *)
(* connection, the command thread for the guest's.  When it raises, the     *)
(* host's caller releases the slot; join_room acts at "hs_raised".          *)

Raised(c) == IF role[c] = "host" THEN "release" ELSE "hs_raised"

\* The first lock block, outside the try: a stale thread or a missing private
\* key raises at once, a missing room only through "hs_fail".
HsStart(c) ==
    /\ pc[c] = "hs_start"
    /\ IF Owns(c)
       THEN /\ ResetVerification("pending")
            /\ hkey' = [hkey EXCEPT ![c] = key]
            /\ Goto(c, IF key = 0 THEN Raised(c)
                       ELSE IF room = 0 THEN "hs_fail" ELSE "hs_exchange")
       ELSE Goto(c, Raised(c)) /\ UNCHANGED <<verify, hkey>>
    /\ UNCHANGED <<world, owner, stop, place, peerCount, listens, inbox,
                   role, gen, sbox, note>>

\* Hello, challenge and response, each after an owner check.  The peer knows
\* the key of the invitation it used: a hello under another is not answered.
HsExchange(c) ==
    /\ pc[c] = "hs_exchange"
    /\ Owns(c) /\ sock[c] = "open" /\ hkey[c] = origin[c]
    /\ Goto(c, "hs_promote")
    /\ UNCHANGED <<world, shared, tlocals>>

\* A stale owner, the 15 s deadline, a closed socket, the peer's end of stream
\* or error frame, or a frame that does not check.
HsExchangeFails(c) ==
    /\ pc[c] = "hs_exchange"
    /\ Goto(c, "hs_fail")
    /\ UNCHANGED <<world, shared, tlocals>>

\* The last lock block: only the owner, still under the key it started with,
\* makes its candidate Box the session's.
HsPromote(c) ==
    /\ pc[c] = "hs_promote"
    /\ IF Owns(c) /\ key = hkey[c]
       THEN /\ box' = c
            /\ channel' = "confirmed"
            /\ Goto(c, IF role[c] = "host" THEN "joined" ELSE "hs_done")
       ELSE Goto(c, "hs_fail") /\ UNCHANGED <<box, channel>>
    /\ UNCHANGED <<world, owner, stop, place, verification, localConfirmed,
                   peerConfirmed, peerCount, listens, inbox, tlocals>>

\* except Exception: _fail_channel_handshake, then re-raise.
HsFail(c) ==
    /\ pc[c] = "hs_fail"
    /\ IF Owns(c) THEN ResetVerification("failed") ELSE UNCHANGED verify
    /\ Goto(c, Raised(c))
    /\ UNCHANGED <<world, owner, stop, place, peerCount, listens, inbox, tlocals>>

-----------------------------------------------------------------------------
(* The host's thread around the handshake: _handle_guest and                *)
(* _release_failed_host_connection (which leaves guest_socket alone).       *)

Release(c) ==
    /\ pc[c] = "release"
    /\ IF Owns(c)
       THEN /\ ResetVerification("failed")
            /\ peerCount' = IF HostRoomOpen THEN 1 ELSE peerCount
            /\ ClearSlot
            /\ note' = [note EXCEPT ![c] = "error_text"]
       ELSE UNCHANGED <<verify, peerCount, active, activeGen, peerGen, note>>
    /\ Goto(c, "close")
    /\ UNCHANGED <<world, guestSocket, stop, place, listens, inbox,
                   role, gen, hkey, sbox>>

Joined(c) ==
    /\ pc[c] = "joined"
    /\ IF Owns(c)
       THEN /\ peerCount' = 2
            /\ Queue("peer_joined", c)
            /\ Goto(c, "loop")
            /\ UNCHANGED sock
       ELSE Close(c) /\ Goto(c, "done") /\ UNCHANGED <<peerCount, inbox>>
    /\ UNCHANGED <<owner, stop, verify, place, listens, servers, origin, listener,
                   command, history, tlocals>>

-----------------------------------------------------------------------------
(* _read_socket_messages and _process_peer_frame.                           *)

Move(c, from, to) ==
    /\ pc[c] = from
    /\ Goto(c, to)
    /\ UNCHANGED <<world, shared, tlocals>>

\* A socket that is closed no longer owns the slot, so the reader leaves
\* whether settimeout(1) raises on it or the owner check fails.
Reader(c) ==
    \/ Move(c, "loop", IF stop \/ ~Owns(c) THEN "finally" ELSE "recv")
    \/ Move(c, "recv", "loop")      \* recv times out
    \/ Move(c, "recv", "finally")   \* end of stream
    \/ Move(c, "recv", "error")     \* recv raises, or the buffer overflows
    \/ Move(c, "more", "loop")      \* no complete frame is left in the buffer

\* The next frame, received or already in the buffer (the inner loop takes
\* buffered frames without testing stop_event again).  "bad" is a frame that
\* raises: malformed, of the handshake, unsupported, an error frame, too large
\* or over the rate.
NextFrame(c, kind) ==
    /\ pc[c] \in {"recv", "more"} /\ frames < MaxFrames
    /\ frames' = frames + 1
    /\ peerHasConfirmed' = peerHasConfirmed \cup
                               (IF kind = "verification" THEN {c} ELSE {})
    /\ Goto(c, IF kind = "bad" /\ Owns(c) THEN "error"
               ELSE IF kind = "disconnect" \/ ~Owns(c) THEN "finally" ELSE kind)
    /\ UNCHANGED <<shared, net, listener, command, userConfirmed, closedRooms, tlocals>>

\* _handle_peer_verification: the first lock block reads the Box the payload is
\* decrypted with, which works only with the Box of this very connection ...
PeerVerification(c) ==
    /\ pc[c] = "verification"
    /\ IF Owns(c) /\ Encrypted /\ box = c
       THEN sbox' = [sbox EXCEPT ![c] = box] /\ Goto(c, "peer_confirm")
       ELSE Goto(c, "error") /\ UNCHANGED sbox
    /\ UNCHANGED <<world, shared, role, gen, hkey, note>>

\* (Seeded bug: the second confirmation does not complete the verification.)
PeerConfirmUnmarked(c) ==
    /\ pc[c] = "peer_confirm"
    /\ peerConfirmed' = (peerConfirmed \/ (Owns(c) /\ box = sbox[c]))
    /\ Goto(c, "more")
    /\ sbox' = [sbox EXCEPT ![c] = NoConn]
    /\ UNCHANGED <<world, owner, stop, place, box, channel, verification,
                   localConfirmed, peerCount, listens, inbox, role, gen, hkey, note>>

\* ... and the second records the confirmation if that is still the Box.
PeerConfirm(c) ==
    /\ pc[c] = "peer_confirm"
    /\ IF Owns(c) /\ box = sbox[c]
       THEN peerConfirmed' = TRUE /\ Goto(c, "mark")
       ELSE Goto(c, "error") /\ UNCHANGED peerConfirmed
    /\ sbox' = [sbox EXCEPT ![c] = NoConn]
    /\ UNCHANGED <<world, owner, stop, place, box, channel, verification,
                   localConfirmed, peerCount, listens, inbox, role, gen, hkey, note>>

\* _mark_verified_if_complete on the session thread: whoever sets the event
\* announces it, after the lock is released.
Mark(c) ==
    /\ pc[c] = "mark"
    /\ IF Owns(c) /\ BecomesVerified
       THEN verification' = TRUE /\ Goto(c, "announce")
       ELSE Goto(c, "more") /\ UNCHANGED verification
    /\ UNCHANGED <<world, owner, stop, place, box, channel, localConfirmed,
                   peerConfirmed, peerCount, listens, inbox, tlocals>>

\* An event queued by c's thread on its way to `to'.
QueueStep(c, from, event, to) ==
    /\ pc[c] = from
    /\ Queue(event, c)
    /\ Goto(c, to)
    /\ UNCHANGED <<world, owner, stop, verify, place, peerCount, listens, tlocals>>

Announce(c) == QueueStep(c, "announce", "peer_verified", "more")

\* A message: the first lock block, then decryption outside the lock ...
Message(c) ==
    /\ pc[c] = "message"
    /\ IF Owns(c) /\ Encrypted /\ verification
       THEN sbox' = [sbox EXCEPT ![c] = box] /\ Goto(c, "deliver")
       ELSE Goto(c, IF Owns(c) THEN "error" ELSE "finally") /\ UNCHANGED sbox
    /\ UNCHANGED <<world, shared, role, gen, hkey, note>>

\* ... and the second, which queues the text.  An inbox that cannot take it is
\* emptied, and the session fails.
Deliver(c) ==
    LET decrypts == sbox[c] = c
        fits     == Len(inbox) < InboxLimit
    IN /\ pc[c] = "deliver"
       /\ IF decrypts /\ Owns(c)
          THEN IF fits THEN Queue("peer_text", c) ELSE inbox' = <<>>
          ELSE UNCHANGED inbox
       /\ Goto(c, IF decrypts /\ ~Owns(c) THEN "finally"
                  ELSE IF decrypts /\ fits THEN "more" ELSE "error")
       /\ sbox' = [sbox EXCEPT ![c] = NoConn]
       /\ UNCHANGED <<world, owner, stop, verify, place, peerCount, listens,
                      role, gen, hkey, note>>

\* The reader's except clause: the stop test, the owned reset, the text.
ErrorStop(c) == Move(c, "error", IF stop THEN "finally" ELSE "error_reset")

ErrorReset(c) ==
    /\ pc[c] = "error_reset"
    /\ IF Owns(c)
       THEN ResetVerification("failed") /\ Goto(c, "error_text")
       ELSE UNCHANGED verify /\ Goto(c, "finally")
    /\ UNCHANGED <<world, owner, stop, place, peerCount, listens, inbox, tlocals>>

ErrorText(c) == QueueStep(c, "error_text", "error_text", "finally")

-----------------------------------------------------------------------------
(* The finally clause of _peer_session, and the end of every session: close *)
(* the socket, test stop_event, and only then queue the notification.       *)
Finally(c) ==
    LET failed == channel = "failed"
        status == IF failed THEN "failed" ELSE "disconnected"
        Tell(event) == note' = [note EXCEPT ![c] =
                                    IF failed THEN "channel_failed" ELSE event]
    IN /\ pc[c] = "finally"
       /\ CASE Owns(c) /\ role[c] = "host" /\ HostRoomOpen ->
                 /\ peerCount' = 1 /\ ResetVerification(status)
                 /\ Tell("peer_left") /\ UNCHANGED place
            [] Owns(c) /\ role[c] = "guest" /\ mode = "guest" ->
                 LeaveRoom /\ ResetVerification(status) /\ Tell("room_deleted")
            [] OTHER -> UNCHANGED <<peerCount, verify, note, place>>
       /\ IF Owns(c) THEN ClearSlot /\ ForgetGuest(c) ELSE UNCHANGED owner
       /\ Goto(c, "close")
       /\ UNCHANGED <<world, stop, listens, inbox, role, gen, hkey, sbox>>

SessionClose(c) ==
    /\ pc[c] = "close"
    /\ Close(c)
    /\ Goto(c, IF note[c] # "none" /\ ~stop THEN "notify" ELSE "done")
    /\ UNCHANGED <<shared, servers, origin, listener, command, history, tlocals>>

Notify(c) == QueueStep(c, "notify", note[c], "done")

SessionStep(c) ==
    \/ HsStart(c) \/ HsExchange(c) \/ HsExchangeFails(c) \/ HsPromote(c) \/ HsFail(c)
    \/ Release(c) \/ Joined(c) \/ Reader(c)
    \/ \E kind \in FrameKinds : NextFrame(c, kind)
    \/ PeerVerification(c) \/ PeerConfirm(c) \/ Mark(c) \/ Announce(c)
    \/ Message(c) \/ Deliver(c) \/ ErrorStop(c) \/ ErrorReset(c) \/ ErrorText(c)
    \/ Finally(c) \/ SessionClose(c) \/ Notify(c)

-----------------------------------------------------------------------------
(* _listener_loop, the listener thread of room r.                           *)

\* accept() gives up after a second, and raises once the server is closed.
ListenerTop(r) ==
    /\ lpc[r] \in {"loop", "accept"}
    /\ lpc' = [lpc EXCEPT ![r] =
                 IF lpc[r] = "loop" THEN (IF stop THEN "done" ELSE "accept")
                 ELSE (IF r \in servers THEN "loop" ELSE "done")]
    /\ UNCHANGED <<shared, net, session, lconn, command, history>>

Accept(r, c) ==
    /\ lpc[r] = "accept" /\ r \in servers /\ sock[c] = "new"
    /\ sock' = [sock EXCEPT ![c] = "open"]
    /\ origin' = [origin EXCEPT ![c] = r]
    /\ role' = [role EXCEPT ![c] = "host"]
    /\ lconn' = [lconn EXCEPT ![r] = c]
    /\ lpc' = [lpc EXCEPT ![r] = "claim"]
    /\ UNCHANGED <<shared, servers, pc, gen, hkey, sbox, note, command, history>>

\* _claim_active_peer_socket.
ListenerClaim(r) ==
    /\ lpc[r] = "claim"
    /\ IF Claimable THEN Claim(lconn[r])
       ELSE UNCHANGED <<active, activeGen, peerGen, gen>>
    /\ lpc' = [lpc EXCEPT ![r] = IF Claimable THEN "start" ELSE "refuse"]
    /\ UNCHANGED <<guestSocket, stop, verify, place, peerCount, listens, inbox, net,
                   pc, role, hkey, sbox, note, lconn, command, history>>

\* "This room already has two participants", then close.
Refuse(r) ==
    /\ lpc[r] = "refuse"
    /\ Close(lconn[r])
    /\ lconn' = [lconn EXCEPT ![r] = NoConn]
    /\ lpc' = [lpc EXCEPT ![r] = "loop"]
    /\ UNCHANGED <<shared, servers, origin, session, command, history>>

StartHandler(r) ==
    /\ lpc[r] = "start"
    /\ Goto(lconn[r], "hs_start")
    /\ lconn' = [lconn EXCEPT ![r] = NoConn]
    /\ lpc' = [lpc EXCEPT ![r] = "loop"]
    /\ UNCHANGED <<shared, net, tlocals, command, history>>

\* The handler thread does not start: the listener itself runs
\* _release_failed_host_connection, and goes on when that is done.
StartHandlerFails(r) ==
    /\ lpc[r] = "start" /\ "handler" \in FailingStarts
    /\ Goto(lconn[r], "release")
    /\ lpc' = [lpc EXCEPT ![r] = "releasing"]
    /\ UNCHANGED <<shared, net, tlocals, lconn, command, history>>

ListenerReleased(r) ==
    /\ lpc[r] = "releasing" /\ pc[lconn[r]] = "done"
    /\ lconn' = [lconn EXCEPT ![r] = NoConn]
    /\ lpc' = [lpc EXCEPT ![r] = "loop"]
    /\ UNCHANGED <<shared, net, session, command, history>>

ListenerStep(r) ==
    \/ ListenerTop(r) \/ ListenerClaim(r) \/ Refuse(r) \/ StartHandler(r)
    \/ StartHandlerFails(r) \/ ListenerReleased(r)
    \/ \E c \in Conns : Accept(r, c)

-----------------------------------------------------------------------------
(* The command thread.                                                      *)

Continue(next) == cmd' = next /\ UNCHANGED <<clocals, after, ops>>

\* The command answers; its local variables are dead.
Return ==
    /\ cmd' = "idle" /\ after' = "idle"
    /\ cconn' = NoConn /\ cgen' = 0 /\ cbox' = NoConn /\ cguest' = NoConn
    /\ UNCHANGED ops

\* close_room is called; `next' is what the caller does when it has returned.
CallClose(next) ==
    /\ stop' = TRUE
    /\ cmd' = "close_take" /\ after' = next /\ UNCHANGED <<clocals, ops>>

\* create_room: build_room_response binds the listener ...
CreateRoom ==
    /\ cmd = "idle" /\ "host" \in Modes /\ ops < MaxRooms /\ RoomInactive
    /\ ops' = ops + 1
    /\ listenerSocket' = ops + 1 /\ servers' = servers \cup {ops + 1}
    /\ cmd' = "create_key"
    /\ UNCHANGED <<owner, stop, verify, place, peerCount, listenerThread, inbox, sock,
                   origin, threads, clocals, after>>

\* ... starts Tor and the hidden service, and generates the key ...
CreateKey ==
    /\ cmd = "create_key"
    /\ key' = ops
    /\ ResetVerification("disconnected")
    /\ Continue("create_publish")
    /\ UNCHANGED <<owner, stop, room, mode, peerCount, listens, inbox, net, threads>>

\* ... publishes the room and lets connections in ...
CreatePublish ==
    /\ cmd = "create_publish"
    /\ room' = ops /\ mode' = "host" /\ peerCount' = 1
    /\ listenerThread' = ops
    /\ stop' = FALSE
    /\ Continue("create_start")
    /\ UNCHANGED <<owner, verify, key, listenerSocket, inbox, net, threads>>

\* ... and starts the listener thread.
CreateStart ==
    /\ cmd = "create_start"
    /\ lpc' = [lpc EXCEPT ![ops] = "loop"]
    /\ Return
    /\ UNCHANGED <<shared, net, session, lconn, history>>

\* Tor, the hidden service or the thread fails: close_room, then raise.
CreateFails ==
    /\ \/ cmd = "create_key"
       \/ cmd = "create_start" /\ "listener" \in FailingStarts
    /\ CallClose("idle")
    /\ UNCHANGED <<owner, verify, place, peerCount, listens, inbox, net, threads>>

\* join_room up to start_tor, which may take long and may raise.
JoinRoom ==
    /\ cmd = "idle" /\ "guest" \in Modes /\ ops < MaxRooms /\ RoomInactive
    /\ Continue("join_key")
    /\ UNCHANGED <<shared, net, threads>>

JoinTorFails ==
    /\ cmd = "join_key"
    /\ Return
    /\ UNCHANGED <<shared, net, threads>>

JoinKey ==
    /\ cmd = "join_key"
    /\ ops' = ops + 1 /\ key' = ops + 1
    /\ ResetVerification("disconnected")
    /\ stop' = FALSE
    /\ cmd' = "join_connect"
    /\ UNCHANGED <<owner, room, mode, peerCount, listens, inbox, net, threads,
                   clocals, after>>

JoinConnect(c) ==
    /\ cmd = "join_connect" /\ sock[c] = "new"
    /\ sock' = [sock EXCEPT ![c] = "open"]
    /\ origin' = [origin EXCEPT ![c] = ops]
    /\ role' = [role EXCEPT ![c] = "guest"]
    /\ cconn' = c
    /\ cmd' = "join_claim"
    /\ UNCHANGED <<shared, servers, pc, gen, hkey, sbox, note, listener, history,
                   cgen, cbox, cguest, after, ops>>

JoinConnectFails ==
    /\ cmd = "join_connect"
    /\ CallClose("failed")
    /\ UNCHANGED <<owner, verify, place, peerCount, listens, inbox, net, threads>>

JoinClaim ==
    /\ cmd = "join_claim"
    /\ IF Claimable
       THEN Claim(cconn) /\ Continue("join_setup") /\ UNCHANGED <<sock, stop>>
       ELSE /\ Close(cconn)
            /\ CallClose("idle")
            /\ UNCHANGED <<active, activeGen, peerGen, gen>>
    /\ UNCHANGED <<guestSocket, verify, place, peerCount, listens, inbox, servers,
                   origin, pc, role, hkey, sbox, note, listener, history>>

\* The lock block that makes the claimed socket the guest's; then the
\* handshake runs on the command thread.
JoinSetup ==
    /\ cmd = "join_setup"
    /\ IF Owns(cconn)
       THEN /\ guestSocket' = cconn /\ peerCount' = 1 /\ mode' = "guest" /\ room' = ops
            /\ Goto(cconn, "hs_start")
            /\ Continue("join_handshake") /\ UNCHANGED sock
       ELSE Close(cconn) /\ Return /\ UNCHANGED <<guestSocket, peerCount, mode, room, pc>>
    /\ UNCHANGED <<active, activeGen, peerGen, stop, verify, key, listens, inbox,
                   servers, origin, tlocals, listener, history>>

JoinHandshakeRaised ==
    /\ cmd = "join_handshake" /\ pc[cconn] = "hs_raised"
    /\ Goto(cconn, "done")
    /\ IF Owns(cconn)
       THEN CallClose("failed") /\ UNCHANGED sock
       ELSE Close(cconn) /\ Return /\ UNCHANGED stop
    /\ UNCHANGED <<owner, verify, place, peerCount, listens, inbox, servers, origin,
                   tlocals, listener, history>>

JoinHandshakeDone ==
    /\ cmd = "join_handshake" /\ pc[cconn] = "hs_done"
    /\ IF Owns(cconn)
       THEN peerCount' = 2 /\ Continue("join_start")
       ELSE Return /\ UNCHANGED peerCount
    /\ UNCHANGED <<owner, stop, verify, place, listens, inbox, net, threads>>

JoinStart ==
    /\ cmd = "join_start"
    /\ Goto(cconn, "loop")
    /\ Return
    /\ UNCHANGED <<shared, net, tlocals, listener, history>>

\* Thread.start() raises outside any try: join_room reports an error and
\* leaves the session as it is, with no thread to read it.
JoinStartFails ==
    /\ cmd = "join_start" /\ "guest" \in FailingStarts
    /\ Goto(cconn, "none")
    /\ Return
    /\ UNCHANGED <<shared, net, tlocals, listener, history>>

\* confirm_verification and send_message read the session under the lock ...
Capture(next) ==
    /\ cmd = "idle" /\ active # NoConn /\ Encrypted
    /\ cconn' = active /\ cgen' = activeGen /\ cbox' = box
    /\ cmd' = next
    /\ UNCHANGED <<shared, net, session, listener, peerHasConfirmed, closedRooms,
                   frames, cguest, after, ops>>

ConfirmVerification ==
    /\ Capture("confirm_send")
    /\ userConfirmed' = userConfirmed \cup {active}

SendMessage ==
    /\ Capture("send") /\ verification
    /\ UNCHANGED userConfirmed

\* ... and send one frame outside it, under the socket's timeout.
Send ==
    /\ cmd \in {"confirm_send", "send"} /\ sock[cconn] = "open"
    /\ IF cmd = "send" THEN Return ELSE Continue("confirm_set")
    /\ UNCHANGED <<shared, net, threads>>

SendFails ==
    /\ cmd \in {"confirm_send", "send"}
    /\ Continue("fail")
    /\ UNCHANGED <<shared, net, threads>>

\* confirm_verification, its second lock block.
ConfirmSet ==
    /\ cmd = "confirm_set"
    /\ IF IsOwner(cconn, cgen) /\ box = cbox
       THEN localConfirmed' = TRUE /\ Continue("confirm_mark")
       ELSE Return /\ UNCHANGED localConfirmed
    /\ UNCHANGED <<owner, stop, place, box, channel, verification, peerConfirmed,
                   peerCount, listens, inbox, net, threads>>

\* _mark_verified_if_complete on the command thread.
ConfirmMark ==
    /\ cmd = "confirm_mark"
    /\ IF IsOwner(cconn, cgen) /\ BecomesVerified
       THEN verification' = TRUE /\ Continue("confirm_announce")
       ELSE Return /\ UNCHANGED verification
    /\ UNCHANGED <<owner, stop, place, box, channel, localConfirmed, peerConfirmed,
                   peerCount, listens, inbox, net, threads>>

ConfirmAnnounce ==
    /\ cmd = "confirm_announce"
    /\ Queue("peer_verified", cconn)
    /\ Return
    /\ UNCHANGED <<owner, stop, verify, place, peerCount, listens, net, threads>>

\* _fail_active_channel: the lock block; then the close and the notification
\* (stop_event is clear: only this thread sets it).
FailChannel ==
    /\ cmd = "fail"
    /\ IF IsOwner(cconn, cgen)
       THEN /\ IF mode = "guest" THEN LeaveRoom
               ELSE /\ peerCount' = IF HostRoomOpen THEN 1 ELSE peerCount
                    /\ UNCHANGED place
            /\ ResetVerification("failed")
            /\ ClearSlot /\ ForgetGuest(cconn)
            /\ Continue("fail_close")
       ELSE Continue("stale_close") /\ UNCHANGED <<peerCount, place, verify, owner>>
    /\ UNCHANGED <<stop, listens, inbox, net, threads>>

FailClose ==
    /\ cmd \in {"fail_close", "stale_close"}
    /\ Close(cconn)
    /\ IF cmd = "fail_close" /\ ~stop THEN Queue("channel_failed", cconn)
       ELSE UNCHANGED inbox
    /\ Return
    /\ UNCHANGED <<owner, stop, verify, place, peerCount, listens, servers, origin,
                   threads>>

\* close_room as a command: stop_event is set ...
CloseRoom ==
    /\ cmd = "idle" /\ (RoomInactive => peerGen < MaxGeneration)
    /\ CallClose("idle")
    /\ UNCHANGED <<owner, verify, place, peerCount, listens, inbox, net, threads>>

\* ... the slot is taken from its owner ...
CloseTake ==
    /\ cmd = "close_take"
    /\ peerGen' = peerGen + 1
    /\ cconn' = active /\ cguest' = guestSocket
    /\ active' = NoConn /\ activeGen' = 0 /\ guestSocket' = NoConn
    /\ cmd' = "close_sockets"
    /\ UNCHANGED <<stop, verify, place, peerCount, listens, inbox, net, threads,
                   cgen, cbox, after, ops>>

\* ... its sockets are closed, after a disconnect frame ...
CloseSockets ==
    /\ cmd = "close_sockets"
    /\ sock' = [c \in Conns |-> IF c \in {cconn, cguest} THEN "closed" ELSE sock[c]]
    /\ Continue("close_listener")
    /\ UNCHANGED <<shared, servers, origin, threads>>

\* ... and the listening socket, ...
CloseListener ==
    /\ cmd = "close_listener"
    /\ listenerSocket' = 0
    /\ servers' = servers \ {listenerSocket}
    /\ Continue("close_join")
    /\ UNCHANGED <<owner, stop, verify, place, peerCount, listenerThread, inbox, sock,
                   origin, threads>>

\* ... the listener thread is joined for two seconds, the room and its keys are
\* cleared (outside peer_lock), and TorRoom tears Tor down; ...
CloseClear ==
    /\ cmd = "close_join"
    /\ (listenerThread # 0 /\ ~ListenerMayStall)
           => lpc[listenerThread] \in {"none", "done"}
    /\ listenerThread' = 0
    /\ LeaveRoom
    /\ ResetVerification("disconnected")
    /\ Continue("close_inbox")
    /\ UNCHANGED <<owner, stop, listenerSocket, inbox, net, threads>>

\* ... last, the pending events.  A failed join_room then records its failure.
CloseInbox ==
    /\ cmd = "close_inbox"
    /\ inbox' = <<>>
    /\ closedRooms' = closedRooms \cup (1..ops)
    /\ IF after = "failed" THEN ResetVerification("failed") ELSE UNCHANGED verify
    /\ Return
    /\ UNCHANGED <<owner, stop, place, peerCount, listens, net, session, listener,
                   userConfirmed, peerHasConfirmed, frames>>

\* poll_messages takes a batch from the front; the byte limit may cut it short,
\* but never to nothing.
Poll ==
    /\ cmd = "idle"
    /\ \E n \in 0..PollBatch :
         /\ n <= Len(inbox) /\ (n = 0 => inbox = <<>>)
         /\ inbox' = SubSeq(inbox, n + 1, Len(inbox))
    /\ UNCHANGED <<owner, stop, verify, place, peerCount, listens, net, threads, command>>

\* What the frontend may ask for, and the steps of a command once begun.
Request ==
    \/ CreateRoom \/ JoinRoom \/ ConfirmVerification \/ SendMessage
    \/ CloseRoom \/ Poll

CommandStep ==
    \/ CreateKey \/ CreatePublish \/ CreateStart \/ CreateFails
    \/ JoinTorFails \/ JoinKey \/ JoinConnectFails \/ JoinClaim \/ JoinSetup
    \/ \E c \in Conns : JoinConnect(c)
    \/ JoinHandshakeRaised \/ JoinHandshakeDone \/ JoinStart \/ JoinStartFails
    \/ Send \/ SendFails \/ ConfirmSet \/ ConfirmMark \/ ConfirmAnnounce
    \/ FailChannel \/ FailClose \/ CloseTake \/ CloseSockets \/ CloseListener
    \/ CloseClear \/ CloseInbox

Next ==
    \/ Request \/ CommandStep
    \/ \E c \in Conns : SessionStep(c)
    \/ \E r \in Rooms : ListenerStep(r)

Spec == Init /\ [][Next]_vars

(* Every thread that can run keeps running.  No step blocks for ever: the   *)
(* handshake has its deadline, recv, accept and send their socket timeouts, *)
(* and close_room's join its two seconds.  Nothing obliges the frontend to  *)
(* ask for anything, not even to poll.                                      *)
FairSpec ==
    /\ Spec
    /\ WF_vars(CommandStep)
    /\ \A c \in Conns : WF_vars(SessionStep(c))
    /\ \A r \in Rooms : WF_vars(ListenerStep(r))

-----------------------------------------------------------------------------
(* Properties.                                                              *)

SessionLabels ==
    {"none", "hs_start", "hs_exchange", "hs_promote", "hs_fail", "hs_done",
     "hs_raised", "release", "joined", "loop", "recv", "more", "verification",
     "peer_confirm", "mark", "announce", "message", "deliver", "error",
     "error_reset", "error_text", "finally", "close", "notify", "done"}
ListenerLabels ==
    {"none", "loop", "accept", "claim", "refuse", "start", "releasing", "done"}
CommandLabels ==
    {"idle", "create_key", "create_publish", "create_start", "join_key",
     "join_connect", "join_claim", "join_setup", "join_handshake", "join_start",
     "confirm_send", "confirm_set", "confirm_mark", "confirm_announce", "send",
     "fail", "fail_close", "stale_close", "close_take", "close_sockets",
     "close_listener", "close_join", "close_inbox"}
MaybeConn == Conns \cup {NoConn}
MaybeRoom == Rooms \cup {0}
Events    == ChatEvents \cup ControlEvents

OwnerType ==
    /\ active \in MaybeConn /\ activeGen \in Nat /\ peerGen \in Nat
    /\ guestSocket \in MaybeConn
VerifyType ==
    /\ box \in MaybeConn
    /\ channel \in {"disconnected", "pending", "confirmed", "failed"}
    /\ verification \in BOOLEAN
    /\ localConfirmed \in BOOLEAN /\ peerConfirmed \in BOOLEAN
PlaceType ==
    room \in MaybeRoom /\ mode \in {"none", "host", "guest"} /\ key \in MaybeRoom
HostingType ==
    /\ stop \in BOOLEAN /\ peerCount \in 0..2
    /\ listenerSocket \in MaybeRoom /\ listenerThread \in MaybeRoom
InboxType == inbox \in Seq(Events \X Conns) /\ Len(inbox) <= InboxLimit
NetType ==
    /\ sock \in [Conns -> {"new", "open", "closed"}]
    /\ servers \subseteq Rooms /\ origin \in [Conns -> MaybeRoom]
SessionType ==
    /\ pc \in [Conns -> SessionLabels]
    /\ role \in [Conns -> {"none", "host", "guest"}]
    /\ gen \in [Conns -> Nat] /\ hkey \in [Conns -> MaybeRoom]
    /\ sbox \in [Conns -> MaybeConn] /\ note \in [Conns -> Events \cup {"none"}]
ListenerType ==
    lpc \in [Rooms -> ListenerLabels] /\ lconn \in [Rooms -> MaybeConn]
CommandType ==
    /\ cmd \in CommandLabels /\ cconn \in MaybeConn /\ cgen \in Nat
    /\ cbox \in MaybeConn /\ cguest \in MaybeConn
    /\ after \in {"idle", "failed"} /\ ops \in MaybeRoom
HistoryType ==
    /\ userConfirmed \subseteq Conns /\ peerHasConfirmed \subseteq Conns
    /\ closedRooms \subseteq Rooms /\ frames \in Nat

(* Every variable keeps to the values the program gives it; in particular   *)
(* _inbox never holds more than MAX_FRONTEND_QUEUE_MESSAGES events          *)
(* (_queue_frontend_event).                                                 *)
TypeOK ==
    /\ OwnerType /\ VerifyType /\ PlaceType /\ HostingType /\ InboxType
    /\ NetType /\ SessionType /\ ListenerType /\ CommandType /\ HistoryType

(* Between taking the slot and clearing the session, close_room leaves the  *)
(* old session's state in place with no owner.                              *)
Revoked == cmd \in {"close_sockets", "close_listener", "close_join"}

(* The session's cryptography belongs to the connection that owns the slot: *)
(* no late thread of an earlier connection installs or leaves a Box, and no *)
(* path that frees the slot forgets to clear it (the ownership checks of    *)
(* every peer_lock block in main.py).                                       *)
SessionBelongsToOwner ==
    box # NoConn =>
        channel = "confirmed" /\ (Revoked \/ (active = box /\ activeGen = gen[box]))

(* A session counts as confirmed or verified only by what was done on that  *)
(* very session: the local user's confirmation, and a verification frame    *)
(* from its peer (confirm_verification, _handle_peer_verification).         *)
VerifiedByBoth ==
    /\ localConfirmed => box \in userConfirmed
    /\ peerConfirmed  => box \in peerHasConfirmed
    /\ verification   => localConfirmed /\ peerConfirmed

(* Two participants are reported only while a session owns the slot of an   *)
(* open room, and a guest's room exists only with its session (_peer_count, *)
(* _active_room and _connection_mode across all paths that end a session).  *)
PeerCountIsTrue ==
    \/ Revoked
    \/ /\ peerCount = 2 => active # NoConn /\ room # 0
       /\ mode = "guest" => active # NoConn /\ guestSocket = active
       /\ (room = 0) <=> (mode = "none")

(* close_room leaves no peer text behind, and no late session thread of the *)
(* room it closed adds any: what the next room shows was said in it.        *)
NoTextFromClosedRoom ==
    \A i \in 1..Len(inbox) :
        inbox[i][1] = "peer_text" => origin[inbox[i][2]] \notin closedRooms

(* A chat line is queued only for a session both users confirmed            *)
(* (_process_peer_frame's check of verification_event, then its queueing).  *)
TextOnlyFromVerified ==
    \A i \in 1..Len(inbox) : inbox[i][1] = "peer_text" =>
        inbox[i][2] \in userConfirmed \cap peerHasConfirmed

(* Whatever the threads do between the lock block that read them and the    *)
(* send, the socket and the Box of a frame are those of one session.        *)
SentUnderOwnBox == cmd \in {"confirm_send", "send"} => cbox = cconn

(* An open socket always has a thread that will close it: its session       *)
(* thread, the listener, or the command that opened it.                     *)
NoSocketLeak ==
    \A c \in Conns : sock[c] = "open" =>
        \/ pc[c] \notin {"none", "done"}
        \/ \E r \in Rooms : lconn[r] = c
        \/ cmd # "idle" /\ cconn = c

(* The slot is never held by a connection nobody serves, which would refuse *)
(* every later participant.                                                 *)
SlotIsServed ==
    active # NoConn =>
        \/ pc[active] \notin {"none", "close", "notify", "done"}
        \/ \E r \in Rooms : lconn[r] = active
        \/ cmd # "idle" /\ cconn = active

(* A session's verification is announced once, by whichever of the two      *)
(* threads completed it, never by both (_mark_verified_if_complete).        *)
OneAnnouncement ==
    \A c \in Conns : pc[c] = "announce" =>
        /\ ~(cmd = "confirm_announce" /\ cconn = c)
        /\ \A i \in 1..Len(inbox) : inbox[i] # <<"peer_verified", c>>

(* Whoever takes a live session's Box or verification away is that          *)
(* session's own thread or the command thread, never another connection's.  *)
OnlyOwnThreadEndsSession ==
    [][\A c \in Conns :
         box = c /\ (box' # c \/ (verification /\ ~verification'))
         => pc[c]' # pc[c] \/ cmd' # cmd]_vars

(* A connection that does not own the slot is let go: its thread ends and   *)
(* its socket is closed, whatever its peer does.                            *)
StaleSessionEnds ==
    \A c \in Conns :
        (pc[c] \notin {"none", "done"} /\ active # c)
            ~> (pc[c] = "done" /\ sock[c] = "closed")

(* A claimed slot is freed or reaches an encrypted channel: a silent peer   *)
(* cannot occupy the room past the handshake's deadline.                    *)
ClaimSettles ==
    \A c \in Conns : active = c ~> (active # c \/ box = c)

(* Once both confirmations are recorded the session becomes verified, in    *)
(* whichever order the two threads recorded them, unless it ends.           *)
BothConfirmedIsVerified ==
    \A c \in Conns :
        (box = c /\ localConfirmed /\ peerConfirmed) ~> (verification \/ box # c)

(* close_room always comes back and leaves the slot empty behind it.        *)
CloseEnds == (cmd = "close_take") ~> (cmd = "idle" /\ active = NoConn /\ room = 0)

(* Text that the backend itself writes about a broken connection is not     *)
(* queued as a chat event, which the frontend shows as the peer's words.    *)
ChatIsPeerText ==
    \A i \in 1..Len(inbox) : inbox[i][1] \in ChatEvents => inbox[i][1] = "peer_text"

=============================================================================
