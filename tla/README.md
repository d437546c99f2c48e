# MutinyChat in TLA+

Models, model checks and proofs for MutinyChat, a desktop chat for exactly two
people over Tor onion services. The reference is the code: `backend/main.py`
and `backend/participant_auth.py` (Python), `src-tauri/src/lib.rs` (Rust) and
`src/App.svelte` with `src/lib/*.js` (the interface). Line numbers below are of those files; the map in
`PROJECT.json` gives them for every definition.

- [The system](#the-system)
- [Modules](#modules) and how they correspond to the code
- [Runs](#runs): what TLC checks, with which bounds, and why they are enough
- [Fairness](#fairness)
- [Proofs](#proofs)
- [Where the code and its documents disagree](#where-the-code-and-its-documents-disagree)
- [What is not modelled](#what-is-not-modelled)
- [Plan](#plan)

## The system

```
 user -- App.svelte --invoke--> lib.rs backend_ipc --stdin/stdout--> main.py
          timer, 250 ms          one session mutex,      command thread
                                 one I/O worker          listener thread, session threads
                                                           |            |
                                                          Tor  <----> the other MutinyChat
```

One command travels down and one reply comes up; nothing is pushed. The
interface learns of everything else by polling: `poll_messages` returns the
state of the session and a batch of queued events.

| Component | State | Operations | Hard behaviour |
|---|---|---|---|
| Peer session (`main.py` 73–108, 299–338, 446–974, 977–1169) | the peer slot (`active_peer_socket`, `_active_peer_generation`), the session cryptography, the two confirmations, `stop_event`, sockets | claim, handshake, read a frame, confirm, send, fail, leave, close | three kinds of thread under two locks; a thread that is late by a whole session; locals read under a lock and used outside it |
| Tor runtime and room (`main.py` 172–296, 1191–1226, 1229–1453) | controller, process, data directory, `_tor_generation`, service, listener socket and thread, `_active_room` | `start_tor`, `create_room`, `join_room`, `close_room`, route reported by `poll_messages` | any step fails; Tor or its control connection dies at any time; a listener outlives its room |
| Handshake and verification protocol (`main.py` 568–820) | what each of the two ends believes | hello, challenge, response, confirmation, messages | two ends with different views; cut connections, refusals, crossing confirmations |
| Invitations, transcripts, safety codes (`participant_auth.py`) | none | build, check and parse invitations and protected payloads; hash the transcript; derive the code | two ends compute one value from opposite sides |
| Reader and event queue (`main.py` 446–520, 823–865, 977–1033, 1456–1469) | the receive buffer, the rate window, `_inbox`, `_inbox_bytes` | receive, take a line, count it, queue an event, clear, poll a batch | a buffer handed from handshake to reader; limits in bytes, in messages and in time; the queue at its limit; events lost with a reply |
| Rust session (`lib.rs`) | the mutex, `BackendSession`, its worker, its pipes, the child | `backend_ipc`, restart, drop, exit | late and lost answers, a hanging backend, exit while a command runs |
| Interface (`App.svelte`, `src/lib`) | view, security state shown, bubbles, draft, `isPolling` | poll, send, confirm, create, join, close, enter the chat | every handler is cut in two by an `await`; replies in any order |
| Invitation on the clipboard (`App.svelte` 133–143, 498–518, `lib/invitationClipboard.js`) | the copied invitation, its timer, the cleanup under way | copy, clear, time out, close, shut down | read, `await`, write; timers of earlier copies |
| Stdio command loop (`main.py` 1528–1584) | none | one command at a time, `close_room` at the end of input | a failure inside a command |
| Static pages, sounds, build scripts, test helper | none that protocol depends on | presentation, tools | — |

What makes each of them correct, and where it bites, is the list of hazards in
`PROJECT.json`. In short:

- *Peer session*: the cryptography always belongs to the connection that owns the
  slot; a session is verified only by two confirmations made on that session;
  every socket has a thread that will close it and the slot one that serves it;
  a stale thread ends without touching the next session.
- *Tor and room*: what the globals say is true of what runs; a failure leaves
  nothing that `close_room` cannot find; a room is not replaced silently.
- *Protocol*: what one end believes is true of the other; two confirmations
  verify both ends or the connection ends; the codes the participants compare are
  the same at both ends and no other connection's.
- *Reader and queue*: the interface gets the peer's texts whole and in order; a limit
  ends a session only for what the peer really did; the byte count stays true.
- *Clipboard*: an invitation that was copied always has something that removes it.
- *Rust session*: a command runs at most once, an answer is its own, there is
  never a second backend, every call comes back.
- *Interface*: it shows what happened, each text once and in order, and settles
  on what the backend reports.

## Modules

| Module | Models | Used with |
|---|---|---|
| `PeerSession` | one backend's peer session, with its peers free to send any frame | `PeerSessionInv` (the inductive invariant), `PeerSession_proofs`, `PeerSession_room`, `MCPeerSession` |
| `TorRoom` | the Tor runtime and the life of a room, with Tor failing at any step | `TorRoom_proofs`, `MCTorRoom` |
| `ParticipantAuth` | what invitations, transcripts, codes and payloads consist of, and which are accepted | extended by `PeerProtocol` |
| `PeerProtocol` | two backends, composed over one connection at a time | `PeerProtocol_proofs`, `MCPeerProtocol` |
| `TextChannel` | what the way of the peer's texts promises: an abstract specification | instantiated by `Inbound` |
| `Inbound` | that way in bytes, from the socket to the replies of `poll_messages`; implements `TextChannel` | `Inbound_proofs`, `MCInbound` |
| `BackendCall` | what `backend_ipc` promises: the abstract specification | instantiated by `BackendIpc` |
| `BackendIpc` | the Rust session; implements `BackendCall` | `BackendIpc_proofs` (with the refinement), `MCBackendIpc` |
| `AppFrontend` | the interface, composed with what the backend's replies tell | `AppFrontend_proofs`, `MCAppFrontend` |
| `InvitationClipboard` | the copied invitation between user, timers, other programs and the room's life | `InvitationClipboard_proofs`, `MCInvitationClipboard` |

Operators marked "Seeded bug" are variants of the definition next to them in
which a check, a reset or a close has been forgotten. No specification uses
them; each property is known to fail when one takes the place of the original.

### `PeerSession`

Threads and atomicity. What is done under one acquisition of `peer_lock` is one
action, and so is each unlocked step whose order matters to another thread: a
test of `stop_event`, the close of a socket, the queueing of an event. `pc[c]` is
where the session thread of connection `c` is, `lpc[r]` where the listener of
room `r` is, `cmd` where the command thread is; `gen`, `hkey`, `sbox`, `cconn`,
`cgen`, `cbox`, `cguest` are Python locals that outlive a lock block.

| Actions | Code |
|---|---|
| `HsStart`, `HsExchange`, `HsExchangeFails`, `HsPromote`, `HsFail` | `_perform_handshake` 568–728 |
| `Joined`, `Release` | `_handle_guest` 1115–1136, `_release_failed_host_connection` 1036–1059 |
| `Reader`, `NextFrame`, `PeerVerification`, `PeerConfirm`, `Mark`, `Announce`, `Message`, `Deliver` | `_read_socket_messages`, `_process_peer_frame`, `_handle_peer_verification`, `_mark_verified_if_complete` |
| `ErrorStop`, `ErrorReset`, `ErrorText`, `Finally`, `SessionClose`, `Notify` | the reader's `except` 1021–1033 and the `finally` of `_peer_session` 1084–1112 |
| `ListenerTop` … `ListenerReleased` | `_listener_loop` 1139–1169 |
| `CreateRoom` …, `JoinRoom` …, `ConfirmVerification` …, `SendMessage` …, `CloseRoom` …, `Poll` | the commands 773–820 and 1229–1469 |

Abstractions. A connection is used once. A Box, its transcript hash, role and
safety code are made together, set together and cleared together, so `box` names
the connection they were made on. Keys are named by the room operation that
generated them: a hello under the key of another room is not answered. A frame is
one of its kinds or `"bad"`; what a bad frame is made of is left to the parser.
`handshake_event` moves with `_channel_status = "confirmed"`. The inbox is bounded
by length; bytes, framing and rate are `Inbound`'s subject.

### `TorRoom`

An attempt to start Tor is a number, and so is an attempt to open a room. Beside
the program's globals (`controller`, `process`, `dataDir`, `serviceId`, `room`,
…) the module keeps what *really* is there (`running`, `linked`, `dirs`,
`published`, `listening`, `alive`), and the properties compare the two. The
command thread takes one step per call that may fail; `TorDies`,
`ControlConnectionBreaks`, `ListenerEnds`, `AcceptFails` and `GuestSessionEnds`
may come between any two. `create_hidden_service` may raise before or after Tor
has published. `TorDies` and `ControlConnectionBreaks` are external: Tor and stem
are modelled from how `main.py` uses them.

Cleaning up is an attempt. `_stop_process` swallows a `terminate` and a `kill` that
fail (207–212), `rmtree` runs with `ignore_errors` (265, 294, 1403), and the globals
are forgotten before either is tried. `CleanUp` may therefore leave the process, with or
without its control connection and services, and the directory, in `DropStaleTor`,
`LaunchFails` and `CloseTor` alike; the history variables `unstopped` and `undeleted`
keep what so survived, and no step of the program reads them. A Tor of `unstopped` may
still die later. Closing a socket or a controller is taken to release it.

### `ParticipantAuth` and `PeerProtocol`

`ParticipantAuth` has the functions of `participant_auth.py` under their names. A byte
string is a symbol; its base64 text has spare bits, which decoding drops, so that the
canonical text is one of several and the check for it says something. SHA-256 is
injective: a transcript hash is the tuple that was hashed, in its order, and a safety
code shows it. The frames of `PeerProtocol` are records made by these operators, and
what arrives is checked by them, field by field, as `_perform_handshake` does it
(595–710): role, nonce, the key of the invitation, transcript, challenge. A Box opens
what the Box of the same two keys has sealed.

`PeerSession` gives one backend a peer that may send anything; here both ends run
the code. `wire[c][e]` is what is on its way to end `e` of connection `c`: frames
keep their order, arrive late, and are lost with a connection that is cut. The
backlog of the host's socket holds connections it has not accepted. One step
covers a lock block; the confirmation is cut where the code is (`Confirm` sends
the frame at 803, `confirm_set` sets the flag at 814, `mark` completes at 815),
because there two ends can overtake each other. `derived` is the local `transcript_hash` of a
handshake under way, `crypto` what `HsPromote`'s counterpart installs.

### `TextChannel` and `Inbound`

A byte of the i-th frame is the number i and a newline is 0, so that a text that lost a
byte, or mixes two frames, is no frame's text. `Inbound` has `recv` with chunks of any
length up to its argument, the limit on a handshake frame, which is tested on a buffer
that may hold what follows the frame (474–491), the handover of that buffer to the
reader (983), the window of the rate limit (999–1016) on a clock in ticks, the queue
with its length, its byte count and the limit on one item (823–865), the emptied queue
of a session that fails on it (966–969), and the batches of `poll_messages` cut by
length and by bytes (1456–1469). Whether a frame after the handshake is accepted at
all, and who owns the session, is in `PeerSession`: here each queues an event. The peer
may send frames that are too long, too many, late and together; the network may break
the connection. `TextChannel` is the promise in three actions, and `ImplementsChannel`
maps it: what was sent are the application frames, what was received are the texts in
the replies of polls, and a queue that is emptied is a channel that drops its pending
texts. The poll that takes texts is the only step that may add to what was received.

### `BackendCall` and `BackendIpc`

`BackendCall` states the promise in ten lines: one command at a time, at most one
run, an answer only after a run, no run after the caller was told of a failure.
`BackendIpc` has the mutex taken with `try_lock`, the worker behind a channel of
one request, the two pipes, deadlines (a wait may end without its answer at any
moment), `Drop` with its `close_room`, its two-second wait and its kill, and the
exit event. What comes of the kill is not looked at, and a `try_wait` that fails
returns without one (lib.rs:266, 271–278): the process of a session in `Survivors` may
outlive its `Drop`. `outcome` and `runs` are history variables with the names that
`BackendCall` has, so that `INSTANCE BackendCall` needs no further mapping.

Overlap. The code takes the mutex with `try_lock`, answers a poll with `busy` and
skips the shutdown at exit when the mutex is held, and `READINESS_REPORT.md:164`
speaks of a close during a create; so the models let calls overlap. Whether they
do depends on where Tauri runs a command: `backend_ipc` is a `#[tauri::command]`
that is not `async`, and such commands run on the main thread, where they cannot
overlap each other or the exit event. The models therefore have *more* behaviours
than such a build, and what holds of them holds there too. What they *reach*
through overlap alone is not reported as a fault of the program.

### `AppFrontend`

A call is issued (the handler up to its `await`), begins (the mutex), finishes in
the backend and is answered (the handler after its `await`); the replies of
different calls come in any order. The backend is what its replies tell of it:
the room, the number of the current peer session (its safety code), the
confirmations and the queue. `shown` is what `mapBackendSecurityState` leaves of a
reply. `ShowEvents` carries the loop over a reply's events from one event to the
next, as a recursive function. The number of a text of the peer is its place in the
order of arrival; text 0 is one the backend wrote itself.

### `InvitationClipboard`

`copyShareLink` is three steps (the wait for an earlier cleanup, the write, what follows
it), `clearInvitationFromClipboard` two (the read, the write), because each access to
the clipboard is awaited; `cleanups` and `copies` are the calls made so far, `latest` is
the promise in `invitationClipboardCleanup`. The button stays enabled during a copy, so
copies overlap, and so do the buttons that create and close a room: `creates` are the
calls of `createRoomFromFrontend`, `closes` counts those of `closeRoomFromFrontend` that
await an answer, and neither looks at the room. A timer that fires sets `invitationClipboardTimer` to null whichever
copy it belonged to (513–518); the model keeps timers that no handle names any more.
`OtherCopies` is another program, external; `CleanupDenied` is a refused access.

Timers and promises live in the page. `requestGracefulShutdown` runs on `beforeunload`,
`pagehide` and teardown and does not await the cleanup it starts (551–557, 674–675); a
crash does not even run it. `PageEnds` may come at any moment, with `Shutdown` before it
or not, and nothing happens after it. Both properties speak of the time while the page
runs.

## Runs

Bounds appear as constants with the comment "bound"; limits of the program
(`InboxLimit` for `MAX_FRONTEND_QUEUE_MESSAGES`, `PollBatch` for
`MAX_POLL_MESSAGES`, `HistoryLimit` for `MAX_RENDERED_MESSAGES`) are parameters
and small, so that they are reached.

| Run | Bounds | Shows |
|---|---|---|
| `session` | 2 connections, 1 room of either mode, 1 generation before the room is only closed, 2 frames, queue of 1, the guest's peer thread may not start | the session, its flags, its frames and its announcement stay with the owner, with two session threads, the listener and the command thread: a thread is late while another connection claims the slot; no text of a closed room stays |
| `session_rooms` | 2 connections, 2 rooms of either mode, no frames, stalled listeners, thread starts that fail | no leak across rooms, and the count of participants stays true: a listener outlives `join(timeout=2)` and meets the next room |
| `session_live` | 1 connection, 2 rooms of either mode, 1 frame, the guest's peer thread may not start | stale sessions end, claims settle, two confirmations verify, `close_room` returns |
| `session_error_text` | 1 connection, 1 room | *violated*: an error text is a chat event |
| `tor_room` | 3 starts of Tor, 3 rooms, 2 faults, a clean-up that fails among them | the runtime: true route, nothing lost and nothing left after a close or a failed creation but what survived its clean-up, no silent replacement, old listeners end |
| `protocol` | 2 connections, 1 confirmation and 1 message per end and connection | the two ends agree, on the safety code too, and two confirmations verify |
| `protocol_reject` | 1 connection | *violated*: a message that is sent after verification is refused |
| `ipc` | 2 callers, 3 commands, 2 backends, 1 crash, the first backend may survive its kill | own answers, one backend beside such a survivor, `BackendCall` is implemented, every call returns, a backend without its application ends |
| `inbound` | 4 frames, 3 ticks (one second), `recv` of 2 bytes; 2 frames and 4 bytes per second, a queue of 2 events and 5 bytes, batches of 2 events and 3 bytes | limits, count and notices are true, no second carries more bytes than two windows may, `TextChannel` is implemented, texts arrive |
| `frontend` | 2 calls in flight, 3 commands, 2 sessions and faults together, 2 texts of the peer, 1 draft, queue 2, batch 1, history 2 | the peer's texts in order and once, own bubbles were sent, verified only after a verification, and the display converges |
| `frontend_draft` | as `frontend` | *violated*: a failed send loses the draft |
| `clipboard` | 2 creations, 3 copies, 1 close awaiting its answer, the page ending at any moment | while the page runs a copied invitation is never just left on the clipboard, and leaves it |

Why these are enough. The hazards are about *two* of something: the thread of the
last session and that of this one, the listener of the last room and that of
this one, two confirmations, two ends, two calls in flight, two backends. With
two of each, and each step of one between any two steps of the other, every such
overlap occurs. A third adds an actor whose lock blocks all look at the same slot
and the same generation; for every safety invariant of these runs the proofs below
remove the question. In `inbound` one frame is the handshake's, the limits are a few bytes and
the clock goes just beyond one window, so that each limit is met exactly, missed by one
and passed, in one window and across two. Three copies in `clipboard` give a copy, one
that overlaps it and one after both. `TorRoom` has three starts and three rooms because its hazard is a
*sequence*: a Tor that dies under a room, its successor, and one more after the
room was closed. Two limits are out of reach of these bounds and left to the theorems: more
*frames* than two windows of `inbound` may carry (`RateBounded`; its bytes are within
reach), and a second draft typed while the first is on its way (`BubblesWereSent`). Queue and history limits of 1 and 2 make them overflow.

Connections are interchangeable in the session runs (`SYMMETRY`), except in the
run that checks liveness. Deadlock checking is off where the bounds end a
behaviour; "something must happen" is stated by the liveness properties instead.

What the properties say:

- `SessionBelongsToOwner`: a Box exists only with its own connection in the slot,
  under the generation of its claim, save inside `close_room`, which takes the
  slot first. `OnlyOwnThreadEndsSession` is the action form: who takes a live
  session away is its thread or a command.
- `VerifiedByBoth`, `TextOnlyFromVerified`: flags are set only by what was done on
  that session, and a peer's text is queued only for one that both confirmed.
- `SentUnderOwnBox`: `confirm_verification` and `send_message` read socket and Box
  under the lock and use them outside it; they still belong together.
- `NoTextFromClosedRoom`: `close_room` clears the queue in its last step, and no
  late thread adds to it; this is why the owner is checked again at 963–965.
- `NoSocketLeak`, `SlotIsServed`, `PeerCountIsTrue`, `OneAnnouncement`: resources
  and reports on every path that ends a session.
- `RouteIsTrue`, `NothingLeaks`, `NothingIsLeft`, `OldListenersEnd`: the globals of the
  Tor runtime against what is really there. What survived its clean-up is excepted, and
  nothing else is: every process and directory was at least tried.
  `RoomIsNotReplaced`: an open room, a host's or a guest's, is only ever followed by no
  room, and this through a close, the end of the input, the failure of the very command
  that opened it, or the end of the guest's session.
- `SafetyCodeIsShared`: a channel is called confirmed only when the other end has
  answered the challenge; both ends then show one code, made of the keys and nonces of
  this connection. `VerifiedIsMutual`, `NoUnexpectedFrame`, `BothConfirmedVerify`:
  agreement of the two ends. Confirmation is one response ahead of the other end,
  never on an older connection.
- `EndIsTrue`: a session failed for its rate, or for the size of a frame, only when a
  limit was exceeded; one that ended with the peer's stream had taken all of it; one
  that ended because the queue was full told so. `RateIsBounded`: the window is not a
  sliding one, but no second carries more than twice the limit. `BytesAreCounted`,
  `ImplementsChannel` and `TextsArrive`: the queue, the order, and that a text which
  waits in the handshake's buffer is taken although nothing more arrives.
- `InvitationIsTracked`, `InvitationLeaves`: what is on the clipboard is the remembered
  invitation or has a cleanup under way, and what is remembered has a timer, as long as
  the page runs. The code gives no more: a page that ends leaves the invitation, and
  README.md:238 promises that the application tries.
- `AnswerIsOwn`, `OneBackend`, `ImplementsCall`, `CallReturns`: the Rust session. A
  backend that survived its kill is the only one `OneBackend` lets run beside another.
  `ImplementsCall` takes every step for one of `BackendCall` or a stutter except that such
  a survivor may still run the command whose caller was told of a failure.
  `BackendEnds`: a backend whose application has ended ends too, although the exit
  event may skip the shutdown (lib.rs:291) and a command may start one behind it.
- `BubbleWasSent`, `PeerTextsInOrder`, `VerifiedShownIsTrue`, `DisplayConverges`:
  the interface. `VerifiedShownIsTrue` says that *some* session was verified; see
  below why it cannot say which.

## Fairness

- `PeerSession`: weak fairness of every session thread, listener and step of the
  command thread. Each wait in the code has a deadline (`settimeout(1)`, the
  handshake's deadline, `join(timeout=2)`), so a thread that could go on does. Nothing
  obliges the frontend to issue a command, not even to poll. Fairness is of a
  thread, not of one of its choices: whether a peer answers, is silent until the
  deadline or breaks off is free.
- `TorRoom`: the command thread goes on, and a listener whose `accept` times out
  each second looks at `stop_event`.
- `PeerProtocol`: threads that can run do, so a frame on its way is read unless its
  connection is cut, which `Cut` may do and is never required to.
- `BackendIpc`: the Rust threads run on, each wait has its deadline, and the
  process ends after an exit event. The backend is given no fairness in `CallReturns`;
  `BackendEnds` assumes, in the property itself, that its commands end and that it then
  reads its input.
- `Inbound`: the session thread runs on (each `recv` has a timeout), and the interface
  polls, which `AppFrontend` shows it does. Nothing is assumed of peer and network.
- `InvitationClipboard`: as long as the page runs, a promise of the clipboard settles, one
  way or the other, and a timer that is set and not cleared fires. Nothing is assumed of
  user and room, and nothing happens after the page has ended.
- `AppFrontend`: the interval timer polls, every call is carried through (that is
  `CallReturns`), and every promise resolves. Nothing is assumed of user or peer.

## Proofs

Each theorem holds for every value of the constants that the named assumptions
allow; TLC evaluates these assumptions in the runs of the same component.

| Theorem | States | Module |
|---|---|---|
| `TypeCorrect` | `Spec => []TypeOK` | `PeerSession_proofs` |
| `SessionIsOwners` | `Spec => []SessionBelongsToOwner` | |
| `VerifiedSessionIsConfirmed` | `Spec => []VerifiedByBoth` | |
| `FramesUnderOwnBox` | `Spec => []SentUnderOwnBox` | |
| `OnlyOwnersEnd` | `Spec => OnlyOwnThreadEndsSession` | |
| `TextsAreVerified` | `Spec => []TextOnlyFromVerified` | `PeerSession_room` |
| `TextsAreOfOpenRooms` | `Spec => []NoTextFromClosedRoom` | |
| `PeersAreCounted` | `Spec => []PeerCountIsTrue` | |
| `AnnouncedOnlyOnce` | `Spec => []OneAnnouncement` | |
| `SocketsAreClosed` | `Spec => []NoSocketLeak`, if the guest's thread starts | |
| `OwnersAreServed` | `Spec => []SlotIsServed`, if the guest's thread starts | |
| `RouteIsReportedTruly` | `Spec => []RouteIsTrue` | `TorRoom_proofs` |
| `NothingIsLost` | `Spec => []NothingLeaks` | |
| `NothingStays` | `Spec => []NothingIsLeft` | |
| `RoomsAreNotReplaced` | `Spec => RoomIsNotReplaced` | |
| `ProtocolInvariant` | `Spec => []IInv` | `PeerProtocol_proofs` |
| `NeverUnexpected` | `Spec => []NoUnexpectedFrame` | |
| `MutuallyVerified` | `Spec => []VerifiedIsMutual` | |
| `CodeIsShared` | `Spec => []SafetyCodeIsShared` | |
| `InboundInvariant` | `FairSpec => []IInv` | `Inbound_proofs` |
| `BytesCounted` | `FairSpec => []BytesAreCounted` | |
| `RateBounded` | `FairSpec => []RateIsBounded` | |
| `EndTrue` | `FairSpec => []EndIsTrue` | |
| `OneBackendOnly` | `Spec => []OneBackend` | `BackendIpc_proofs` |
| `AnswersAreOwn` | `Spec => []AnswerIsOwn` | |
| `CallsAreImplemented` | `Spec => ImplementsCall` | |
| `InterfaceInvariant` | `Spec => []IInv` | `AppFrontend_proofs` |
| `VerifiedShown` | `Spec => []VerifiedShownIsTrue` | |
| `BubblesWereSent` | `Spec => []BubbleWasSent` | |
| `TextsShownInOrder` | `Spec => []PeerTextsInOrder` | |
| `InvitationTracked` | `Spec => []InvitationIsTracked` | `InvitationClipboard_proofs` |

In every module the argument is `Init => IInv`, `IInv /\ [Next]_vars => IInv'` (one
lemma per part or per group of actions, one step per action) and `IInv => Inv`. Each
invariant was checked by TLC on the instances of the runs before it was proved.

### `PeerSession`: the invariant

Assumptions: `ConnsAssumption` (the "no connection" value is not a connection),
`BoundsAssumption` (bounds are naturals, queue and batch limits positive),
`OptionsAssumption` (which modes and failures are enabled).

The invariant. `SessionBelongsToOwner` is not inductive: that `HsPromote` may
install a Box because it checks the owner does not say whether the room it is
installed in is still the one of the thread, and that `ConfirmSet` may set its
flag depends on what the command thread read two steps earlier. `IInv`
(`PeerSessionInv`) adds

- `InHand`: who is about to use a connection has one, with its role;
- `CommandPhase`: `close_room` runs under `stop_event` and, after its first lock
  block, with the slot empty; rooms are opened only where there is none; a join in
  progress owns the slot;
- `ListenerHasRoom`: listeners belong to published rooms, and the key of a room
  whose listener was started goes with the room;
- `HandshakeInOrder`: a guest's handshake runs inside `join_room`, and who
  promotes was answered under the key of its own invitation;
- `SessionInRoom`: the session's role is the mode of the room it is in, and
  without a session there are no flags;
- `CapturedIsOwn`: what a thread read in its first lock block and uses in its
  second is of one session.

Each part has a lemma, `TypeStep`, `InHandStep`, …, `CapturedIsOwnStep`, that every
step preserves it, split by session, listener and command threads and then by
action. `InitInvariant`, `InductiveStep` and `Invariance` put them together, and the
theorems follow.

`PeerSession_room` adds four further invariants, which rest on `IInv`. `TextInv` follows a text from the session it was
decrypted in to the queue: `DeliversOwn` says what a thread holds between its two lock
blocks, `RoomsAreOver` that neither key nor session outlives a room, `ListenerHasNew`
that a listener which outlives its room hands the slot only to a connection that has no
thread yet, and whose origin is that listener's room. `CountInv` has
`SlotIsOfRoom`, the owner's role is the room's, and `ThreadIsOfSlot`, who announces a
participant still has the session.

`AnnounceInv` is about the two lock blocks that may complete a verification, the
reader's and the one of `confirm_verification`. `OneAnnouncement` speaks of a
connection whose reader announces; that it was not announced *before* follows from
`UnsettledIsNew`, a connection that has not been through its handshake is announced
nowhere, and `UnverifiedIsNew`, nor is the one whose session is not verified yet: who
announces it has set that flag under the lock.

`SlotInv` says who answers for a socket and for the slot. `SocketIsKept`: an open socket
is in the hands of its own thread, of the listener that accepted it, of the command that
opened it, or of `close_room`. `OwnerIsServed`: the owner of the slot has a thread that
has yet to give it back, or the command that is about to start one. `ActiveIsClaimed`:
the number under the slot is the one its owner remembers, without which
`_release_failed_host_connection` and the `finally` of a session would decline to give
it back. The hypothesis `"guest" \notin FailingStarts` is there because the code needs
it: when the thread of `join_room` does not start (1296), the command raises and leaves
a session that no thread serves, see [below](#where-the-code-and-its-documents-disagree).
The thread of the host's session may fail to start, as may the listener's.

### `TorRoom`: the invariant

Assumption: `BoundsAssumption` (the bounds are naturals). Nothing is assumed of a
clean-up: each may fail, in either part. `NothingLeaks` speaks of the
moments between commands; what a command relies on and leaves in the middle is the
rest of `IInv`:

- `WorldIsKnown`: whatever runs, is linked, listens or lies on disk is what a global
  names or what survived a clean-up, and a published service belongs to a linked
  controller and, unless `close_room` runs or that Tor survived, to `serviceId`. This is
  what makes cleaning up what the globals name sufficient: afterwards there is only the
  residue of this clean-up and of earlier ones (lemma `OnlyResidueIsLeft`);
- `StepIsDue`: what a command has established when it comes to a step: none of the
  globals is set while Tor is being started, no room while one is being made;
- `RouteIsCurrent`: a room whose generation is the current one has its service, or its
  guest connection, at the Tor of that generation. `RouteIsTrue` follows from it,
  because a new Tor increments the generation;
- `CloseIsDone`: how far `close_room` has come.

`RoomIsNotReplaced` needs, besides, whose room there is at a step (`RoomIsOwned`): what
`_close_room` of a failed command finds is the room that this command opened, and no
command that opens a room finds one.

### `PeerProtocol`: the invariant

Assumption: `BoundsAssumption`. The four theorems compare what one end believes with
what the other has done, and between the two there are frames on their way. Nothing can
be said of a frame that is read without saying it of every frame on a wire, and of the
frames that may still come. `IInv` has

- `OwnFrames`: what is on its way to an end is a frame the other end makes on that
  connection, with this connection's keys, nonces and transcript (`FrameOf`). From it
  every check of a field succeeds (`HelloIsGood` and its neighbours), so that who gets a
  frame in its place accepts it;
- `FramesInOrder`: the frames on a wire are those due next, one after the other
  (`InOrder`), and during the handshake an end has sent exactly one frame more than it
  has read (`InStep`): what the other end has not read of them is on the wire. This is
  what makes `NoUnexpectedFrame` inductive: a confirmation or a text can be on its way
  only behind the three frames of the handshake;
- `SessionState`: where a session's reader is says what the session knows: who waits for
  a challenge or a response has derived the transcript of its connection, and who
  has confirmed the channel has that connection's Box and code, and has sent its response;
- `WireIsSent`, `Confirmation`: who counts the other's confirmation has read a frame,
  which was sent, and which the other end counted when it sent it on this connection.
  A confirmation between its three steps keeps the connection it captured;
- `Waiting`: on a connection in the backlog nothing was sent to the guest, which has read
  nothing; one that is not made carries nothing.

The actions are first summed up by what they do to a wire (`Keeps`, `Adds`, `Takes`) and
to the progress of an end (`Quits`, `Advances`, `Receives`, `Transmits`, `Rests`); the
order of the frames is then proved once for each of these kinds.

### `Inbound`: the invariant

Assumptions: `KindsAssumption` (sizes are naturals) and `LimitsAssumption`, the relations
between the program's limits that its constants have (main.py:49–60): an error text
fits an item of the queue, an item fits a batch, a batch fits the queue, an application
frame fits a frame; the limits on numbers are positive. The theorems are stated of
`FairSpec`, the specification of the run, and use its safety part only. `IInv` has

- `PhaseOK`, `SizeIsTrue`, `EndIsComplete`: how much has been taken when the session's
  thread is where it is;
- `StreamOK`: as long as the session reads, buffer and wire together carry exactly the
  frames that were not taken. `Carries` says so by the positions of the newlines: all
  bytes between the newline of one frame and that of the next are the next one's. A
  chunk that `recv` moves does not change their concatenation, and the first line is the
  next frame whole. So a session that fails for a size fails for a frame that had it,
  and one that ends with the stream has taken all of it;
- `RateOK`: `RateIsBounded` compares the frames of the last *second* with limits
  that the code applies to a *window*, which starts anew with the first frame after it
  is over (999–1016). `SplitAt(k)`: the first k frames of the last second are of the
  window before, within its limits, and the rest are among the ones this window has
  counted. As time passes the k falls (`TickRate`); when a window starts, k is all of
  them (`CountStep`). Hence at most twice the limits;
- `OverflowOK`: the queue that overflowed is emptied, so there is room for the news of it
  (`NoticeBytes <= ItemBytes <= QueueBytes`), which then stays until it is polled;
- `BytesAreCounted`: the count is the sum over the queue, after an event is
  queued, after a batch is taken and after the queue is cleared.

The sums are of sequences of any length. `Total` is a recursive function, and its lemmas
(`PrefixCounts`, `PrefixOfRest`, `PrefixOfAppend`; `Extremes` for the least and the
greatest of a finite set of numbers) need induction. The induction
theorems of the library take an operator as a parameter, which the provers cannot
instantiate; `SetInduction` states the principle for a *set* of numbers, and is proved
here from the pigeonhole theorem `FS_PigeonHole`.

### `BackendIpc`: the invariant and the refinement

Assumptions: `ThreadsAssumption` and `BoundsAssumption` of the module. `OneBackend` holds because who
starts a backend holds the mutex (`MutexIsHeld`) and whatever runs is the current
session, the one that the holder drops, or one in `Survivors` (`AliveIsHeld`). `AnswerIsOwn` holds because
the worker sends the next line only after the answer to the last one, so that the two
pipes and the backend together never hold more than one request, the worker's
(`OneInPipes`).

`CallsAreImplemented` is the refinement. The step that BackendCall does not allow would
be a command that runs after its caller was told of a failure, or runs twice. `CallInv` says that
a command is in one place on its way, in one session (`RunsOnce`, `OnePlace`,
`ChannelsAreShort`), that no backend knows it before it is sent (`UnsentIsFresh`), and that
a command is pending as long as its thread is inside `backend_ipc` (`PendingIsHeld`); a
caller is told of a failure only after the session was dropped, and by `AliveIsHeld` what
runs then has survived its kill. Even such a process runs a command once only.

### `AppFrontend`: the invariant

Assumption: `LimitsAssumption` (the limits of queue, batch and history are positive,
the bounds naturals). `IInv` has

- `RepliesAreTrue`: a reply on its way that calls a session verified, or a text sent,
  is true, although it may be late; with `ConfirmedIsTrue` this gives
  `VerifiedShownIsTrue` and `BubbleWasSent`, whatever the order in which replies come;
- `OnePoll`: `isPolling` is true as long as a poll is under way, and there is never a
  second. Two polls whose replies cross are the way to show texts out of order;
- `TextsInOrder`: the history, the events of the reply that is on its way, and the queue
  are each in order, each before the next, and none is newer than the last text that was
  queued. `PeerTextsInOrder` is its first part alone.

What `ShowEvents` does to the history is proved for a batch of any length, by induction
over its events: each appends at most its own text (`BubbleComesLast`), and the cut to `HistoryLimit`
removes from the front (`ShownInOrder`).

### `InvitationClipboard`: the invariant

Assumption: the bounds are naturals. With the types, and `InProgress` (what a call under way has
in hand is an invitation), `InvitationIsTracked` is inductive: what takes an invitation
out of the memory starts a cleanup for it (`ClearLeavesCleanup`), later cleanups do not
disturb it (`CleanupAdds`), and it ends only when the invitation is off the
clipboard or was refused (`CleanupGoesOn`). Once the page has ended there is nothing to
show, and only other programs act (`OutsideStep`).

### Model-checked only

- Every liveness property: `StaleSessionEnds`, `ClaimSettles`, `BothConfirmedIsVerified`,
  `CloseEnds`, `OldListenersEnd`, `BothConfirmedVerify`, `TextsArrive`, `CallReturns`,
  `BackendEnds`, `DisplayConverges`, `InvitationLeaves`. Liveness under fairness, with the
  ENABLED it needs, is outside the prover's reach.
- `ImplementsChannel`, the refinement of `TextChannel` by `Inbound`. Its mapping and the
  reply of a poll are written with `SelectSeq`, whose recursive definition
  is opaque to the provers; what the refinement rests on about the stream and the queue is in
  the invariant above.

Every safety invariant of a passing run, and the two action properties
`OnlyOwnThreadEndsSession` and `RoomIsNotReplaced`, are theorems.

## Where the code and its documents disagree

Shown by a run:

1. `session_error_text`. `_release_failed_host_connection` (1058) and the reader
   (1030) queue their error text as a chat event, which the interface shows as a
   bubble of the peer. MVP.md:137: "Connection errors must never appear as though
   they were written by the peer."
2. `protocol_reject`. `confirm_verification` sends its frame (803) before it sets
   its flag (814) and marks the session (815). A peer that had confirmed earlier is
   verified by that frame and may send at once; a message that is processed here
   before 815 is refused with "Participant verification is required before
   messaging" and the channel fails. MVP.md:130–132: after verification both
   participants can send and receive. The window is short: the peer's user has to
   press Send while this end is between two statements.
3. `frontend_draft`. `sendMessage` empties the field at 205 whatever was answered.
   MVP.md:135: "Failed sends preserve the unsent draft."
Met while modelling, visible in the models, without a run:

- `close_room` answers `closed` whatever its clean-up achieved: a process that
  `_stop_process` could not end and a directory that `rmtree` could not remove are
  forgotten (1380–1386, 1401–1405). PROJECT_RULES.md:304, 313: the application must never
  claim that "A room is closed before cleanup is confirmed". In `TorRoom` these are
  `unstopped` and `undeleted`; `NothingLeaks` and `NothingIsLeft` say what remains true.
- `join_room` whose peer thread does not start (1296) raises with the session, the
  slot and the socket in place; `close_room` still finds them. `TorRoom` has the room that
  stays behind the error (`JoinEnds`), `PeerSession` the session. Hence
  `session_rooms`, which checks `NoSocketLeak` and `SlotIsServed`, has every thread start
  fail but this one; `session` and `session_live` have it.
- `start_tor` makes its data directory and port before `_resolve_tor_cmd` (269),
  outside the `try`; they stay until the next start or close, which remove them.
- `stop_backend_session` returns when the mutex is held (lib.rs:291);
  PROJECT_RULES.md:851 forbids it. Reachable only where commands overlap the exit
  event, see above. The backend then ends on the end of its input, if the command it is
  running ends (`BackendEnds`); one that hangs outlives the application.
- `closeRoomFromFrontend` says "Room closed" whatever was answered (273–290), and
  MVP.md:154 forbids the claim. A lost reply is enough; a refused close needs
  overlap.
- `confirm_verification` confirms the session the backend has, not the one whose
  code the user has read: a participant who leaves and another who comes between
  two polls, then a click. And its reply, when late, is written into whatever
  session is shown (438–440), until the next poll. So `VerifiedShownIsTrue` cannot
  name the session.
- A `room_deleted` that finds the queue full is dropped, or is lost with a reply
  of `poll_messages`: a guest's view stays in a chat whose channel is reported
  disconnected. `DisplayConverges` speaks of the state shown, not of the view.
- The rate window counts frames when they are taken, not when they were sent: frames an
  honest peer sent over several seconds and the network delivered together can exceed
  it (999–1016). `EndIsTrue` is about the second in which they were taken.
- `clearInvitationFromClipboard` reads the clipboard, awaits, and then writes: what the
  user copies in between is erased, although the comment at invitationClipboard.js:5
  speaks of not overwriting it. The model has the step (`OtherCopies` between
  `CleanupReads` and `CleanupWrites`).
- Two copies that overlap leave a timer that no handle names; it clears a later copy of
  the same invitation before its 60 seconds. A copy under way while the room closes
  leaves the invitation on the clipboard until its timer fires. `InvitationLeaves` says
  that it leaves, not when.
- A page that ends with an invitation on the clipboard may leave it there: the cleanup
  is started and not awaited (551–557). README.md:238 says that the application attempts
  to remove it after a time, which is why this is no disagreement.

## What is not modelled

- *Cryptography and encodings* as byte strings: hashes are injective symbols, a Box is
  the pair of its keys, the digits of a safety code and the names of
  `room_name_gen.py` are left out.
- *Acceptance of an invitation*: `ValidInvite` has scheme, host, the fields of the
  query, the version and the canonical key; the length limit (participant_auth.py:76), the checks of path, fragment, user
  and port (86–90) and the pattern of the onion address (114) are left out, as nothing
  checked here tells such invitations apart.
- *A guest's key*: a host does not check the key of a hello against an expectation
  (main.py:630). The guard of `HsExchange` is that of the other end: it assumes a peer that
  refuses a hello under another key than its invitation's, as `join_room` does. What the
  keys do on both sides is in `PeerProtocol`.
- *Locks themselves*: a block under `peer_lock` is one step, so that the order of locks
  and a deadlock on them cannot show. `CloseEnds` is about `close_room`'s waits, each of
  which has a deadline.
- *A clean-up of stem or of the system*: a launch that stem gives up is stem's to kill,
  and Tor ends with the backend that it was told to watch (`take_ownership`).
- *Parsing* of JSON lines on the socket and on stdio: a frame or line is good or bad. The response limits of `lib.rs` are the choice "invalid answer".
- *Executable lookup* in `lib.rs` and `_resolve_tor_cmd`: a choice of success.
- In the interface: `start_tor`, `ping`, `echo` and the generated room name (a
  status line or the Tor badge), notices, sounds, modals, the byte limit of the history,
  the duration of a clipboard timer.
- *Build scripts, packaging, static pages, the participant helper of the tests*:
  no state of the running system.

## Plan

Done: the models of all components that keep state, `PeerSession`, `TorRoom`,
`PeerProtocol` with `ParticipantAuth`, `BackendIpc` under `BackendCall`, `AppFrontend`,
`Inbound` under `TextChannel`, `InvitationClipboard`; the inductive invariant of each,
and from it every safety invariant that a run checks; the refinement of `BackendCall`.

Next:

1. `ImplementsChannel`: the texts among events as a recursive function with lemmas on what
   is appended and what is taken, in place of `SelectSeq`; then, with `StreamOK`, the
   mapping step by step.
2. `TorRoom` and `InvitationClipboard`: what is safe in `OldListenersEnd` and
   `InvitationLeaves`, as invariants: that a listener which outlives its room can only
   end, that a timer or a cleanup exists.
3. `AppFrontend`: what the view shows when `room_deleted` is lost (App.svelte:273).
