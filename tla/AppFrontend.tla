---------------------------- MODULE AppFrontend ----------------------------
(***************************************************************************)
(* The interface (src/src/App.svelte) over the backend's event queue:      *)
(* every command the user gives and every poll is a call of backend_ipc    *)
(* whose reply comes back after other handlers have run.  The backend is   *)
(* reduced to what its replies tell (PeerSession and TorRoom have the      *)
(* rest): a room, the number of the confirmed peer session, the two        *)
(* confirmations, and the queue that poll_messages empties in batches.     *)
(*                                                                         *)
(* A call is issued, begins when its thread tries Rust's session lock      *)
(* (which refuses it when another call holds it), ends with a reply, and   *)
(* is answered when the handler continues after its await.  Nothing in     *)
(* the source orders the replies of different calls, so neither does the   *)
(* model.                                                                  *)
(***************************************************************************)
EXTENDS Naturals, Sequences

CONSTANTS
    MaxInFlight,   \* bound: calls in flight
    MaxCommands,   \* bound: commands the user gives, beside polls
    MaxEvents,     \* bound: peer sessions and faults, together
    MaxTexts,      \* bound: texts of the peer
    MaxDrafts,     \* bound: texts the user types
    InboxLimit,    \* MAX_FRONTEND_QUEUE_MESSAGES
    PollBatch,     \* MAX_POLL_MESSAGES
    HistoryLimit   \* MAX_RENDERED_MESSAGES

ASSUME LimitsAssumption ==
    /\ {MaxCommands, MaxDrafts, MaxEvents, MaxTexts} \subseteq Nat
    /\ {InboxLimit, PollBatch, HistoryLimit} \subseteq Nat \ {0}
    /\ MaxInFlight \in Nat

VARIABLES
    back,       \* what the backend's replies tell of its room and session
    inbox,      \* _inbox, the events for the frontend
    holder,     \* the call that holds Rust's session lock
    call,       \* the calls in flight
    shown,      \* the security state the interface shows
    peerCount,  \* ... and how many participants
    available,  \* backendAvailable
    view,       \* currentView
    messages,   \* the bubbles of the chat
    draft,      \* the text in the input field, 0 when empty
    isPolling,
    sent,       \* history: texts the backend has sent
    everVerified, \* history: the backend has verified a session
    used        \* how much of each bound is spent

backend == <<back, inbox, sent, everVerified>>
display == <<shown, peerCount>>
interface == <<display, available, view, messages, draft, isPolling>>
vars == <<back, inbox, holder, call, shown, peerCount, available, view, messages,
          draft, isPolling, sent, everVerified, used>>

Idle == 0
Slots == 1..MaxInFlight

\* An event of the queue: the peer's text n is <<"chat", n>>, the backend's own
\* text about a broken connection is <<"chat", 0>>.
Chat(n) == <<"chat", n>>
Control(name) == <<name, 0>>

-----------------------------------------------------------------------------
(* The backend, as far as its replies go *)

NoRoom(channel) ==
    [room |-> "none", session |-> 0, channel |-> channel, local |-> FALSE, peer |-> FALSE]
OpenRoom(channel) == [NoRoom(channel) EXCEPT !.room = "host"]
InSession(mode, k) ==
    [room |-> mode, session |-> k, channel |-> "confirmed", local |-> FALSE, peer |-> FALSE]

BothConfirmed(b) == b.session # 0 /\ b.local /\ b.peer
PeerCount(b) ==
    CASE b.room = "none" -> 0
      [] b.room = "host" -> IF b.session = 0 THEN 1 ELSE 2
      [] b.room = "guest" -> 2

\* A full queue takes nothing more: the caller drops a control event.
Queued(q, event) == IF Len(q) < InboxLimit THEN Append(q, event) ELSE q

\* The session ends and with it, for a guest, the room.
Ended(b, channel) == IF b.room = "host" THEN OpenRoom(channel) ELSE NoRoom(channel)

\* What poll_messages and join_room report of the session, as
\* mapBackendSecurityState keeps it: nothing but the channel's state unless it
\* is confirmed.  The safety code of session k is the number k.
Unconfirmed(channel) ==
    [channel |-> channel, code |-> 0, verified |-> FALSE, local |-> FALSE, peer |-> FALSE]
Security(b) ==
    IF b.channel = "confirmed"
    THEN [channel |-> "confirmed", code |-> b.session, verified |-> BothConfirmed(b),
          local |-> b.local, peer |-> b.peer]
    ELSE Unconfirmed(b.channel)

Spend(what) == used' = [used EXCEPT ![what] = @ + 1]
Left(what, bound) == used[what] < bound
EventsLeft == used.sessions + used.faults < MaxEvents
Verify(b) == everVerified' = (everVerified \/ BothConfirmed(b))

\* A guest reaches the listener of the open room and takes the slot ...
PeerArrives ==
    /\ back.room = "host" /\ back.session = 0 /\ back.channel # "pending" /\ EventsLeft
    /\ back' = OpenRoom("pending")
    /\ UNCHANGED <<inbox, holder, call, interface, sent, everVerified, used>>

\* ... and the handshake succeeds.
PeerConnects ==
    /\ back = OpenRoom("pending") /\ EventsLeft
    /\ Spend("sessions")
    /\ back' = InSession("host", used'.sessions)
    /\ inbox' = Queued(inbox, Control("peer_joined"))
    /\ UNCHANGED <<holder, call, interface, sent, everVerified>>

\* ... or it does not, and the slot is free again.
HandshakeFails ==
    /\ back = OpenRoom("pending") /\ EventsLeft
    /\ Spend("faults")
    /\ back' = OpenRoom("failed")
    /\ inbox' = Queued(inbox, Chat(0))
    /\ UNCHANGED <<holder, call, interface, sent, everVerified>>

PeerConfirms ==
    /\ back.session # 0 /\ ~back.peer
    /\ back' = [back EXCEPT !.peer = TRUE]
    /\ Verify(back')
    /\ inbox' = IF BothConfirmed(back') THEN Queued(inbox, Control("peer_verified"))
                                        ELSE inbox
    /\ UNCHANGED <<holder, call, interface, sent, used>>

\* What the queue q is when the reader has failed the session: the reader's text
\* and, at its end, the session's event have been added.
AfterFailure(q) == Queued(Queued(q, Chat(0)), Control("channel_failed"))

\* A text of the peer is queued; a queue that is full is emptied instead, and
\* the session fails.
PeerText ==
    /\ BothConfirmed(back) /\ Left("texts", MaxTexts)
    /\ Spend("texts")
    /\ IF Len(inbox) < InboxLimit
       THEN inbox' = Append(inbox, Chat(used'.texts)) /\ UNCHANGED back
       ELSE back' = Ended(back, "failed") /\ inbox' = AfterFailure(<<>>)
    /\ UNCHANGED <<holder, call, interface, sent, everVerified>>

PeerLeaves ==
    /\ back.session # 0
    /\ back' = Ended(back, "disconnected")
    /\ inbox' = Queued(inbox, Control(IF back.room = "host" THEN "peer_left"
                                                            ELSE "room_deleted"))
    /\ UNCHANGED <<holder, call, interface, sent, everVerified, used>>

\* The connection breaks while the session thread reads it.
SessionFails ==
    /\ back.session # 0 /\ EventsLeft
    /\ Spend("faults")
    /\ back' = Ended(back, "failed")
    /\ inbox' = AfterFailure(inbox)
    /\ UNCHANGED <<holder, call, interface, sent, everVerified>>

-----------------------------------------------------------------------------
(* Calls of backend_ipc *)

Free == [cmd |-> "none", text |-> 0, stage |-> "free", reply |-> [status |-> "none"]]
Issued(cmd, text) == [Free EXCEPT !.cmd = cmd, !.text = text, !.stage = "issued"]
FirstFree(s) == call[s] = Free /\ \A r \in Slots : call[r] = Free => s <= r
Flying(cmd) == \E s \in Slots : call[s].cmd = cmd

Status(name) == [status |-> name]
PollReply(events, b) ==
    [status |-> "ok", events |-> events, security |-> Security(b), peers |-> PeerCount(b)]

Replies(s, reply) == call' = [call EXCEPT ![s].stage = "replied", ![s].reply = reply]

\* run_backend_command finds the session lock free, or held by another call:
\* then a poll is told that the backend is busy and a command fails.
Begin(s) ==
    /\ call[s].stage = "issued"
    /\ \/ /\ holder = Idle
          /\ holder' = s
          /\ call' = [call EXCEPT ![s].stage = "running"]
       \/ /\ holder # Idle
          /\ Replies(s, Status(IF call[s].cmd = "poll" THEN "busy" ELSE "error"))
          /\ UNCHANGED holder
    /\ UNCHANGED <<backend, interface, used>>

Finishes(s, cmd) == holder = s /\ call[s].cmd = cmd /\ holder' = Idle

PollMessages(s) ==
    /\ Finishes(s, "poll")
    /\ LET n == IF Len(inbox) < PollBatch THEN Len(inbox) ELSE PollBatch IN
       /\ Replies(s, PollReply(SubSeq(inbox, 1, n), back))
       /\ inbox' = SubSeq(inbox, n + 1, Len(inbox))
    /\ UNCHANGED <<back, sent, everVerified, interface, used>>

SendMessage(s) ==
    /\ Finishes(s, "send")
    /\ IF BothConfirmed(back)
       THEN Replies(s, Status("sent")) /\ sent' = sent \cup {call[s].text}
       ELSE Replies(s, Status("error")) /\ UNCHANGED sent
    /\ UNCHANGED <<back, inbox, everVerified, interface, used>>

\* Writing the message, or the confirmation, to the peer fails, and the
\* session with it.
SendFails(s) ==
    /\ \/ Finishes(s, "send") /\ BothConfirmed(back)
       \/ Finishes(s, "confirm") /\ back.session # 0
    /\ back' = Ended(back, "failed")
    /\ inbox' = Queued(inbox, Control("channel_failed"))
    /\ Replies(s, Status("error"))
    /\ UNCHANGED <<sent, everVerified, interface, used>>

ConfirmVerification(s) ==
    /\ Finishes(s, "confirm")
    /\ IF back.session = 0
       THEN Replies(s, Status("error")) /\ UNCHANGED <<back, inbox, everVerified>>
       ELSE /\ back' = [back EXCEPT !.local = TRUE]
            /\ Verify(back')
            /\ inbox' = IF BothConfirmed(back') /\ ~BothConfirmed(back)
                        THEN Queued(inbox, Control("peer_verified")) ELSE inbox
            /\ Replies(s, Status(IF BothConfirmed(back') THEN "verified" ELSE "waiting"))
    /\ UNCHANGED <<sent, interface, used>>

CreateRoom(s) ==
    /\ Finishes(s, "create")
    /\ back.room = "none"
    /\ back' = OpenRoom("disconnected")
    /\ Replies(s, Status("ready"))
    /\ UNCHANGED <<inbox, sent, everVerified, interface, used>>

JoinRoom(s) ==
    /\ Finishes(s, "join")
    /\ back.room = "none" /\ EventsLeft
    /\ Spend("sessions")
    /\ back' = InSession("guest", used'.sessions)
    /\ Replies(s, [status |-> "connected", security |-> Security(back')])
    /\ UNCHANGED <<inbox, sent, everVerified, interface>>

\* _require_room_inactive raises before anything is changed, and so does
\* start_tor; a failure behind them closes what there was of the room.  (A session
\* without its thread, when that does not start, is in PeerSession only.)
RoomFails(s) ==
    /\ \/ Finishes(s, "create")
          /\ \/ UNCHANGED <<back, inbox>>
             \/ back.room = "none" /\ back' = NoRoom("disconnected") /\ inbox' = <<>>
       \/ Finishes(s, "join")
          /\ \/ UNCHANGED <<back, inbox>>
             \/ back.room = "none" /\ back' = NoRoom("failed") /\ inbox' = <<>>
    /\ Replies(s, Status("error"))
    /\ UNCHANGED <<sent, everVerified, interface, used>>

CloseRoom(s) ==
    /\ Finishes(s, "close")
    /\ back' = NoRoom("disconnected")
    /\ inbox' = <<>>
    /\ Replies(s, Status("closed"))
    /\ UNCHANGED <<sent, everVerified, interface, used>>

\* The backend ends, or is killed because it did not answer in time; the next
\* command starts another one.
BackendLost(s) ==
    /\ holder = s /\ holder' = Idle
    /\ EventsLeft
    /\ Spend("faults")
    /\ back' = NoRoom("disconnected")
    /\ inbox' = <<>>
    /\ Replies(s, Status("error"))
    /\ UNCHANGED <<sent, everVerified, interface>>

Finish(s) ==
    \/ PollMessages(s) \/ SendMessage(s) \/ SendFails(s) \/ ConfirmVerification(s)
    \/ CreateRoom(s) \/ JoinRoom(s) \/ CloseRoom(s) \/ RoomFails(s) \/ BackendLost(s)

-----------------------------------------------------------------------------
(* The handlers up to their await *)

\* (Seeded bug: the timer does not look at isPolling.)
MayPollAlways == TRUE

\* isPolling admits one poll at a time.
MayPoll == ~isPolling

Poll(s) ==
    /\ FirstFree(s)
    /\ MayPoll
    /\ isPolling' = TRUE
    /\ call' = [call EXCEPT ![s] = Issued("poll", 0)]
    /\ UNCHANGED <<backend, holder, display, available, view, messages, draft, used>>

\* A command of the user.
Issue(s, cmd, text) ==
    /\ FirstFree(s)
    /\ Left("commands", MaxCommands) /\ Spend("commands")
    /\ call' = [call EXCEPT ![s] = Issued(cmd, text)]

Type ==
    /\ view = "chat" /\ shown.verified
    /\ Left("drafts", MaxDrafts) /\ Spend("drafts")
    /\ draft' = used'.drafts
    /\ UNCHANGED <<backend, holder, call, display, available, view, messages, isPolling>>

SubmitMessage(s) ==
    /\ view = "chat" /\ shown.verified /\ draft # 0
    /\ Issue(s, "send", draft)
    /\ UNCHANGED <<backend, holder, interface>>

SubmitConfirm(s) ==
    /\ view = "chat" /\ shown.code # 0 /\ ~shown.verified /\ ~shown.local
    /\ Issue(s, "confirm", 0)
    /\ UNCHANGED <<backend, holder, interface>>

\* isCreatingRoom disables the button after an await only, so that a second
\* click may come before; isJoiningRoom does at once.
SubmitCreate(s) ==
    /\ Issue(s, "create", 0)
    /\ UNCHANGED <<backend, holder, display, available, view, messages, draft, isPolling>>

SubmitJoin(s) ==
    /\ ~Flying("join")
    /\ Issue(s, "join", 0)
    /\ shown' = Unconfirmed("pending")
    /\ UNCHANGED <<backend, holder, peerCount, available, view, messages, draft, isPolling>>

SubmitClose(s) ==
    /\ Issue(s, "close", 0)
    /\ UNCHANGED <<backend, holder, display, available, view, messages, draft, isPolling>>

CanHostEnterChat == available /\ peerCount = 2 /\ shown.channel = "confirmed"

StartChatting ==
    /\ view = "room-ready" /\ CanHostEnterChat
    /\ messages' = <<>>
    /\ view' = "chat"
    /\ UNCHANGED <<backend, holder, call, display, available, draft, isPolling, used>>

-----------------------------------------------------------------------------
(* The handlers after their await *)

\* appendBoundedMessages drops the oldest bubbles.
Bubble(list, mine, text) ==
    LET all == Append(list, [mine |-> mine, text |-> text])
    IN  IF Len(all) > HistoryLimit THEN Tail(all) ELSE all

\* One event of a poll: a text becomes a bubble, room_deleted empties the chat
\* when the reply itself says that the channel is gone.
ShowEvent(acc, event, reply) ==
    CASE event[1] = "chat" -> [acc EXCEPT !.messages = Bubble(@, FALSE, event[2])]
      [] event[1] = "room_deleted" /\ reply.security.channel = "disconnected"
                                   /\ reply.peers = 0 ->
            [acc EXCEPT !.messages = <<>>, !.view = "lobby"]
      [] event[1] = "peer_verified" -> [acc EXCEPT !.again = TRUE]
      [] OTHER -> acc

\* The events of a reply one after the other.
ShowEvents(acc, reply) ==
    LET after[n \in 0..Len(reply.events)] ==
            IF n = 0 THEN acc ELSE ShowEvent(after[n - 1], reply.events[n], reply)
    IN  after[Len(reply.events)]

Answered(s, cmd) == call[s].stage = "replied" /\ call[s].cmd = cmd
Done(s) == call' = [call EXCEPT ![s] = Free]

\* finally: the next poll may start, at once when an event asked for it.
PollEnds(s, again) ==
    /\ isPolling' = again
    /\ call' = [call EXCEPT ![s] = IF again THEN Issued("poll", 0) ELSE Free]

\* (Seeded bug: the early return skips the finally block.)
PollBusyReturns(s) ==
    /\ Answered(s, "poll") /\ call[s].reply.status = "busy"
    /\ Done(s)
    /\ UNCHANGED <<backend, holder, interface, used>>

PollBusy(s) ==
    /\ Answered(s, "poll") /\ call[s].reply.status = "busy"
    /\ PollEnds(s, FALSE)
    /\ UNCHANGED <<backend, holder, display, available, view, messages, draft, used>>

PollShown(s) ==
    /\ Answered(s, "poll") /\ call[s].reply.status = "ok"
    /\ LET reply == call[s].reply
           after == ShowEvents([messages |-> messages, view |-> view, again |-> FALSE], reply)
       IN  /\ shown' = reply.security /\ peerCount' = reply.peers
           /\ messages' = after.messages
           /\ view' = after.view
           /\ PollEnds(s, after.again)
    /\ available' = TRUE
    /\ UNCHANGED <<backend, holder, draft, used>>

PollFailed(s) ==
    /\ Answered(s, "poll") /\ call[s].reply.status = "error"
    /\ available' = FALSE
    /\ shown' = Unconfirmed("failed") /\ peerCount' = 0
    /\ PollEnds(s, FALSE)
    /\ UNCHANGED <<backend, holder, view, messages, draft, used>>

\* (Seeded bug: the bubble appears whatever the backend says.)
SendAnsweredAlways(s) ==
    /\ Answered(s, "send")
    /\ messages' = Bubble(messages, TRUE, call[s].text)
    /\ draft' = 0
    /\ Done(s)
    /\ UNCHANGED <<backend, holder, display, available, view, isPolling, used>>

\* The bubble appears when the backend says "sent"; the input field is emptied
\* whatever it says.
SendAnswered(s) ==
    /\ Answered(s, "send")
    /\ messages' = IF call[s].reply.status = "sent" THEN Bubble(messages, TRUE, call[s].text)
                                                    ELSE messages
    /\ draft' = 0
    /\ Done(s)
    /\ UNCHANGED <<backend, holder, display, available, view, isPolling, used>>

\* (Seeded bug: the user's own confirmation is taken for both.)
ConfirmAnsweredAlone(s) ==
    /\ Answered(s, "confirm")
    /\ shown' = IF call[s].reply.status = "error" THEN shown
                ELSE [shown EXCEPT !.local = TRUE, !.verified = TRUE]
    /\ Done(s)
    /\ UNCHANGED <<backend, holder, peerCount, available, view, messages, draft, isPolling, used>>

ConfirmAnswered(s) ==
    /\ Answered(s, "confirm")
    /\ shown' = IF call[s].reply.status = "error" THEN shown
                ELSE [shown EXCEPT !.local = TRUE,
                                   !.verified = call[s].reply.status = "verified"]
    /\ Done(s)
    /\ UNCHANGED <<backend, holder, peerCount, available, view, messages, draft, isPolling, used>>

CreateAnswered(s) ==
    /\ Answered(s, "create")
    /\ IF call[s].reply.status = "ready"
       THEN shown' = Unconfirmed("disconnected") /\ view' = "room-ready"
       ELSE UNCHANGED <<shown, view>>
    /\ Done(s)
    /\ UNCHANGED <<backend, holder, peerCount, available, messages, draft, isPolling, used>>

JoinAnswered(s) ==
    /\ Answered(s, "join")
    /\ IF call[s].reply.status = "connected"
       THEN /\ shown' = call[s].reply.security /\ peerCount' = 2
            /\ view' = "chat"
            /\ messages' = <<>>
            /\ draft' = 0
       ELSE /\ shown' = Unconfirmed("failed")
            /\ UNCHANGED <<peerCount, view, messages, draft>>
    /\ Done(s)
    /\ UNCHANGED <<backend, holder, available, isPolling, used>>

\* Whatever the reply is, the interface returns to the lobby and says that the
\* room is closed.
CloseAnswered(s) ==
    /\ Answered(s, "close")
    /\ shown' = Unconfirmed("disconnected") /\ peerCount' = 0
    /\ view' = "lobby"
    /\ messages' = <<>>
    /\ draft' = 0
    /\ Done(s)
    /\ UNCHANGED <<backend, holder, available, isPolling, used>>

Answer(s) ==
    \/ PollBusy(s) \/ PollShown(s) \/ PollFailed(s) \/ SendAnswered(s)
    \/ ConfirmAnswered(s) \/ CreateAnswered(s) \/ JoinAnswered(s) \/ CloseAnswered(s)

-----------------------------------------------------------------------------
Init ==
    /\ back = NoRoom("disconnected")
    /\ inbox = <<>>
    /\ holder = Idle
    /\ call = [s \in Slots |-> Free]
    /\ shown = Unconfirmed("disconnected") /\ peerCount = 0
    /\ available = TRUE
    /\ view = "lobby"
    /\ messages = <<>>
    /\ draft = 0
    /\ isPolling = FALSE
    /\ sent = {}
    /\ everVerified = FALSE
    /\ used = [w \in {"commands", "sessions", "texts", "drafts", "faults"} |-> 0]

User(s) ==
    SubmitMessage(s) \/ SubmitConfirm(s) \/ SubmitCreate(s) \/ SubmitJoin(s) \/ SubmitClose(s)

Next ==
    \/ PeerArrives \/ PeerConnects \/ PeerConfirms \/ PeerText \/ PeerLeaves
    \/ SessionFails \/ HandshakeFails
    \/ Type \/ StartChatting
    \/ \E s \in Slots : Poll(s) \/ User(s) \/ Begin(s) \/ Finish(s) \/ Answer(s)

Spec == Init /\ [][Next]_vars

\* The interval timer polls, and every call is carried through: Rust answers
\* each within its deadline (BackendIpc's CallReturns) and the promise resolves.
\* Nothing is assumed of the user or of the peer.
FairSpec ==
    /\ Spec
    /\ WF_vars(\E s \in Slots : Poll(s))
    /\ \A s \in Slots : WF_vars(Begin(s)) /\ WF_vars(Finish(s)) /\ WF_vars(Answer(s))

-----------------------------------------------------------------------------
\* A bubble of the user's own is a text that the backend has sent to the peer,
\* though the text in the input field may have changed meanwhile.
BubbleWasSent ==
    \A i \in 1..Len(messages) : messages[i].mine => messages[i].text \in sent

\* The peer's texts appear in the order in which they came and none twice, with
\* batches cut by the queue and polls asked for by timer and by events.
PeerTextsInOrder ==
    \A i, j \in 1..Len(messages) :
        /\ i < j
        /\ ~messages[i].mine /\ ~messages[j].mine
        /\ messages[i].text # 0 /\ messages[j].text # 0
        => messages[i].text < messages[j].text

\* The interface shows a verified participant only when a session has been
\* confirmed by both.  That it is the session whose code it shows cannot be
\* said: a late reply of confirm_verification may meet the next session.
VerifiedShownIsTrue == shown.verified => everVerified

\* Late and overlapping replies may show what is no longer so, never for long:
\* when user and peer pause, the interface comes to show what the backend
\* reports, and no event is left in the queue.
DisplayConverges ==
    <>[](available /\ inbox = <<>> /\ shown = Security(back) /\ peerCount = PeerCount(back))

\* MVP.md: "Failed sends preserve the unsent draft."
FailedSendKeepsDraft ==
    [][\A s \in Slots : SendAnswered(s) /\ call[s].reply.status # "sent"
         => draft' = draft]_vars

=============================================================================
