----------------------------- MODULE PeerProtocol -----------------------------
(***************************************************************************)
(* Two MutinyChat backends at the ends of one connection: the handshake    *)
(* (backend/main.py, _perform_handshake), the safety-code confirmation     *)
(* that each participant makes, and the first messages.  PeerSession is    *)
(* one backend with a peer that may send anything; here both ends run the  *)
(* same code, and the question is what they come to agree on.              *)
(*                                                                         *)
(* Both ends are honest.  The network delays frames, and it may cut a      *)
(* connection and lose what was in flight; it keeps the order of a         *)
(* connection's frames, as TCP does.  A random value is named by who drew  *)
(* it for which connection; a Box is the pair of its public keys, and what *)
(* it encrypted is read with the same Box alone (ParticipantAuth has what  *)
(* is encrypted).                                                          *)
(***************************************************************************)
EXTENDS ParticipantAuth, Functions

CONSTANTS
    MaxConns,     \* bound: connections the guest opens
    MaxConfirms,  \* bound: confirmations an end sends on a connection
    MaxMessages   \* bound: messages an end sends on a connection

ASSUME BoundsAssumption ==
    MaxConns \in Nat /\ MaxConfirms \in Nat /\ MaxMessages \in Nat

Ends  == {"host", "guest"}
Conns == 1..MaxConns
Other(e) == IF e = "host" THEN "guest" ELSE "host"
Handshake == <<"hello", "channel_challenge", "channel_response">>

VARIABLES
    wire,     \* wire[c][e]: the frames on their way to end e
    up,       \* the connections the network still carries
    open,     \* open[c]: the ends whose socket is open
    backlog,  \* connections the host has not accepted yet
    hosting,  \* is the host's room open?
    conn,     \* per end: active_peer_socket (0: None)
    reader,   \* per end: what its session thread waits for
    status,   \* _channel_status
    derived,  \* per end: transcript_hash, while the handshake runs
    crypto,   \* per end: _handshake_transcript_hash and _verification_code
    localConfirmed, peerConfirmed, verified,
    user, captured,  \* the main thread's step, and the connection it took
    why,      \* per end: why its last session failed
    confirms, messages, sentTo  \* per connection and end: frames sent

network == <<wire, up, open, backlog, hosting>>
flags   == <<localConfirmed, peerConfirmed, verified>>
secrets == <<derived, crypto>>
session == <<conn, reader, status, secrets, flags>>
main    == <<user, captured>>
history == <<confirms, messages, sentTo>>
vars == <<network, session, main, why, history>>

-----------------------------------------------------------------------------
Set(f, e, v) == [f EXCEPT ![e] = v]

Push(c, e, frame) ==
    /\ wire' = [wire EXCEPT ![c][e] = Append(@, frame)]
    /\ sentTo' = [sentTo EXCEPT ![c][e] = @ \cup {frame.type}]

Pop(c, e) ==
    wire' = [wire EXCEPT ![c][e] = IF @ = <<>> THEN @ ELSE Tail(@)]

\* One frame is read and another is sent in the same step.
Answer(c, e, frame) ==
    /\ wire' = [wire EXCEPT ![c][e] = Tail(@),
                            ![c][Other(e)] = Append(@, frame)]
    /\ sentTo' = [sentTo EXCEPT ![c][Other(e)] = @ \cup {frame.type}]

Arrived(e, type) ==
    /\ conn[e] # 0 /\ wire[conn[e]][e] # <<>>
    /\ Head(wire[conn[e]][e]).type = type
Frame(e) == Head(wire[conn[e]][e])

Severed(c, e) == c \notin up \/ Other(e) \notin open[c]

\* _reset_participant_verification
Reset(e, as) ==
    /\ status' = Set(status, e, as)
    /\ localConfirmed' = Set(localConfirmed, e, FALSE)
    /\ peerConfirmed' = Set(peerConfirmed, e, FALSE)
    /\ verified' = Set(verified, e, FALSE)
    /\ crypto' = Set(crypto, e, <<>>) /\ derived' = Set(derived, e, <<>>)

-----------------------------------------------------------------------------
(* What an end draws at random, and the frames it makes of it. *)
Onion == <<"onion">>
PublicKey(e, c) == IF e = "host" THEN <<"host">> ELSE <<"guest", c>>
Nonce(e, c) == <<"nonce", e, c>>
LocalChallenge(e, c) == <<"challenge", e, c>>
Invitation == build_invite(Onion, PublicKey("host", 0))

Plain(type) == [type |-> type]
Hello(e, c) == [type |-> "hello", v |-> PROTOCOL_VERSION, role |-> e,
                public_key |-> Encode(PublicKey(e, c)), nonce |-> Encode(Nonce(e, c))]

\* Box, the transcript's two keys; what is sealed in it.
BoxOf(transcript) == {transcript[3], transcript[4]}
Sealed(type, transcript, payload) ==
    [type |-> type, box |-> BoxOf(transcript), payload |-> payload]
Opens(frame, transcript) ==
    DOMAIN frame = {"type", "box", "payload"} /\ frame.box = BoxOf(transcript)

Init ==
    /\ wire = [c \in Conns |-> [e \in Ends |-> <<>>]]
    /\ up = {} /\ open = [c \in Conns |-> {}] /\ backlog = {} /\ hosting = TRUE
    /\ conn = [e \in Ends |-> 0] /\ reader = [e \in Ends |-> "none"]
    /\ status = [e \in Ends |-> "disconnected"]
    /\ derived = [e \in Ends |-> <<>>] /\ crypto = [e \in Ends |-> <<>>]
    /\ localConfirmed = [e \in Ends |-> FALSE]
    /\ peerConfirmed = [e \in Ends |-> FALSE]
    /\ verified = [e \in Ends |-> FALSE]
    /\ user = [e \in Ends |-> "idle"] /\ captured = [e \in Ends |-> 0]
    /\ why = [e \in Ends |-> "none"]
    /\ confirms = [c \in Conns |-> [e \in Ends |-> 0]]
    /\ messages = [c \in Conns |-> [e \in Ends |-> 0]]
    /\ sentTo = [c \in Conns |-> [e \in Ends |-> {}]]

-----------------------------------------------------------------------------
(* A connection is made, and each end starts its handshake with a hello.   *)
Used(c) == sentTo[c]["host"] # {}

\* join_room: the guest's main thread also runs its handshake.
Join(c) ==
    /\ user["guest"] = "idle" /\ conn["guest"] = 0 /\ hosting
    /\ ValidInvite(Invitation)
    /\ ~Used(c) /\ \A d \in 1..(c - 1) : Used(d)
    /\ up' = up \cup {c} /\ open' = [open EXCEPT ![c] = Ends]
    /\ backlog' = backlog \cup {c}
    /\ conn' = Set(conn, "guest", c) /\ reader' = Set(reader, "guest", "hello")
    /\ Reset("guest", "pending") /\ Push(c, "host", Hello("guest", c))
    /\ user' = Set(user, "guest", "joining")
    /\ why' = Set(why, "guest", "none")
    /\ UNCHANGED <<hosting, captured, confirms, messages>>

\* _listener_loop, _handle_guest.
Accept(c) ==
    /\ hosting /\ c \in backlog /\ conn["host"] = 0
    /\ backlog' = backlog \ {c}
    /\ conn' = Set(conn, "host", c) /\ reader' = Set(reader, "host", "hello")
    /\ Reset("host", "pending") /\ Push(c, "guest", Hello("host", c))
    /\ why' = Set(why, "host", "none")
    /\ UNCHANGED <<up, open, hosting, main, confirms, messages>>

\* The room already has its two participants.
Refuse(c) ==
    /\ hosting /\ c \in backlog /\ conn["host"] # 0
    /\ backlog' = backlog \ {c}
    /\ open' = [open EXCEPT ![c] = @ \ {"host"}]
    /\ Push(c, "guest", Plain("error"))
    /\ UNCHANGED <<up, hosting, session, main, why, confirms, messages>>

-----------------------------------------------------------------------------
(* _perform_handshake: each frame is checked, and answered by the next one. *)
\* Seeded bug: each end hashes its own part first.
TranscriptOwnFirst(e, hello) ==
    derive_handshake_transcript_hash(
        PublicKey(e, conn[e]), hello.public_key.value, Onion,
        Nonce(e, conn[e]), hello.nonce.value)

\* The transcript of e's own hello and the one that has arrived.
TranscriptOf(e, hello) ==
    LET own == [key |-> PublicKey(e, conn[e]), nonce |-> Nonce(e, conn[e])]
        peer == [key |-> hello.public_key.value, nonce |-> hello.nonce.value]
        host == IF e = "host" THEN own ELSE peer
        guest == IF e = "host" THEN peer ELSE own
    IN derive_handshake_transcript_hash(host.key, guest.key, Onion, host.nonce, guest.nonce)

\* The fields of a hello, and _create_candidate_box: a guest expects the key of
\* its invitation, and nobody its own.
GoodHello(e, f) ==
    /\ DOMAIN f = {"type", "v", "role", "public_key", "nonce"}
    /\ f.v = PROTOCOL_VERSION /\ f.role = Other(e) /\ Canonical(f.nonce)
    /\ e = "guest" => f.public_key.value = parse_invite(Invitation).host_public_key
    /\ f.public_key.value # PublicKey(e, conn[e])

GoodChallenge(e, f) ==
    Opens(f, derived[e]) /\ ValidChallenge(f.payload, Other(e), derived[e])

\* The response answers the challenge of this very handshake.
GoodResponse(e, f) ==
    /\ Opens(f, derived[e]) /\ ValidResponse(f.payload, Other(e), derived[e])
    /\ f.payload.response.value = LocalChallenge(e, conn[e])

Expected(e) ==
    /\ Arrived(e, reader[e])
    /\ CASE reader[e] = "hello" -> GoodHello(e, Frame(e))
         [] reader[e] = "channel_challenge" -> GoodChallenge(e, Frame(e))
         [] reader[e] = "channel_response" -> GoodResponse(e, Frame(e))

OnHello(e) ==
    /\ reader[e] = "hello" /\ Expected(e)
    /\ derived' = Set(derived, e, TranscriptOf(e, Frame(e)))
    /\ Answer(conn[e], e, Sealed("channel_challenge", derived'[e],
          build_channel_challenge_payload(e, derived'[e], LocalChallenge(e, conn[e]))))
    /\ reader' = Set(reader, e, "channel_challenge")
    /\ UNCHANGED <<up, open, backlog, hosting, conn, status, crypto, flags, main,
                   why, confirms, messages>>

OnChallenge(e) ==
    /\ reader[e] = "channel_challenge" /\ Expected(e)
    /\ Answer(conn[e], e, Sealed("channel_response", derived[e],
          build_channel_response_payload(e, derived[e], Frame(e).payload.challenge.value)))
    /\ reader' = Set(reader, e, "channel_response")
    /\ UNCHANGED <<up, open, backlog, hosting, conn, status, secrets, flags, main,
                   why, confirms, messages>>

Promote(e) ==
    /\ reader' = Set(reader, e, "chat")
    /\ status' = Set(status, e, "confirmed")
    /\ derived' = Set(derived, e, <<>>)
    /\ crypto' = Set(crypto, e, [transcript |-> derived[e],
                                 code |-> derive_safety_code(derived[e])])
    /\ user' = IF e = "guest" THEN Set(user, e, "idle") ELSE user
    /\ UNCHANGED <<up, open, backlog, hosting, conn, flags, captured, why,
                   confirms, messages, sentTo>>

\* Seeded bug: bytes read behind the last handshake frame are dropped.
OnResponseOnly(e) ==
    /\ reader[e] = "channel_response" /\ Expected(e)
    /\ wire' = [wire EXCEPT ![conn[e]][e] = <<>>]
    /\ Promote(e)

\* What has been read behind the response stays in the reader's buffer.
OnResponse(e) ==
    /\ reader[e] = "channel_response" /\ Expected(e)
    /\ Pop(conn[e], e) /\ Promote(e)

-----------------------------------------------------------------------------
(* A session ends. *)
\* The session's socket is closed, its state reset, its slot freed; for a
\* guest that is joining, join_room closes the room and returns.
EndSession(e, as, cause) ==
    /\ Reset(e, as) /\ why' = Set(why, e, cause)
    /\ open' = [open EXCEPT ![conn[e]] = @ \ {e}]
    /\ conn' = Set(conn, e, 0) /\ reader' = Set(reader, e, "none")
    /\ user' = IF user[e] = "joining" THEN Set(user, e, "idle") ELSE user
    /\ UNCHANGED <<up, backlog, hosting, captured, confirms, messages>>

Handshaking(e) == \E i \in DOMAIN Handshake : reader[e] = Handshake[i]

\* HANDSHAKE_TIMEOUT passes.
HandshakeTimeout(e) ==
    /\ Handshaking(e) /\ EndSession(e, "failed", "timeout")
    /\ UNCHANGED <<wire, sentTo>>

\* A frame other than the one the handshake expects.
HandshakeRejects(e) ==
    /\ Handshaking(e) /\ wire[conn[e]][e] # <<>> /\ ~Expected(e)
    /\ EndSession(e, "failed", CASE Arrived(e, "error") -> "refused"
                                [] Arrived(e, "disconnect") -> "left"
                                [] OTHER -> "unexpected")
    /\ UNCHANGED <<wire, sentTo>>

\* The other end has closed, or the connection is cut: recv() returns
\* nothing or raises, and what was in flight may be lost.
ConnectionLost(e) ==
    /\ conn[e] # 0 /\ Severed(conn[e], e)
    /\ EndSession(e, IF Handshaking(e) THEN "failed" ELSE "disconnected",
                  "lost")
    /\ UNCHANGED <<wire, sentTo>>

\* close_room: a disconnect frame, and the room is gone.
Leave(e) ==
    /\ user[e] = "idle" /\ IF e = "host" THEN hosting ELSE conn[e] # 0
    /\ Reset(e, "disconnected") /\ why' = Set(why, e, "left")
    /\ hosting' = (hosting /\ e # "host")
    /\ backlog' = IF e = "host" THEN {} ELSE backlog
    /\ open' = [c \in Conns |-> IF c = conn[e] \/ e = "host"
                                THEN open[c] \ {e} ELSE open[c]]
    /\ IF conn[e] = 0 THEN UNCHANGED <<wire, sentTo>>
       ELSE Push(conn[e], Other(e), Plain("disconnect"))
    /\ conn' = Set(conn, e, 0) /\ reader' = Set(reader, e, "none")
    /\ UNCHANGED <<up, main, confirms, messages>>

Cut(c) ==
    /\ c \in up /\ up' = up \ {c}
    /\ UNCHANGED <<wire, open, backlog, hosting, session, main, why, history>>

-----------------------------------------------------------------------------
(* confirm_verification, on the main thread: the frame goes out first, then *)
(* the flag is set, then the session is marked.                             *)
Confirm(e) ==
    /\ user[e] = "idle" /\ conn[e] # 0 /\ status[e] = "confirmed"
    /\ confirms[conn[e]][e] < MaxConfirms
    /\ confirms' = [confirms EXCEPT ![conn[e]][e] = @ + 1]
    /\ Push(conn[e], Other(e), Sealed("verification", crypto[e].transcript,
          build_confirmation_payload(crypto[e].code, e, crypto[e].transcript)))
    /\ user' = Set(user, e, "confirm_set") /\ captured' = Set(captured, e, conn[e])
    /\ UNCHANGED <<up, open, backlog, hosting, session, why, messages>>

ConfirmSet(e) ==
    /\ user[e] = "confirm_set"
    /\ IF conn[e] = captured[e]
       THEN /\ localConfirmed' = Set(localConfirmed, e, TRUE)
            /\ user' = Set(user, e, "mark")
       ELSE /\ user' = Set(user, e, "idle") /\ UNCHANGED localConfirmed
    /\ UNCHANGED <<network, conn, reader, status, secrets, peerConfirmed, verified,
                   captured, why, history>>

\* Seeded bug: either participant's confirmation is enough.
MarkIfAny(e) ==
    verified' = Set(verified, e, verified[e] \/ localConfirmed[e]
                                  \/ peerConfirmed[e])

\* _mark_verified_if_complete
MarkIfComplete(e) ==
    verified' = Set(verified, e, verified[e] \/ (localConfirmed[e]
                                                 /\ peerConfirmed[e]))

ConfirmMark(e) ==
    /\ user[e] = "mark" /\ user' = Set(user, e, "idle")
    /\ IF conn[e] = captured[e] THEN MarkIfComplete(e) ELSE UNCHANGED verified
    /\ UNCHANGED <<network, conn, reader, status, secrets, localConfirmed,
                   peerConfirmed, captured, why, history>>

\* send_message
Send(e) ==
    /\ user[e] = "idle" /\ conn[e] # 0
    /\ status[e] = "confirmed" /\ verified[e]
    /\ messages[conn[e]][e] < MaxMessages
    /\ messages' = [messages EXCEPT ![conn[e]][e] = @ + 1]
    /\ Push(conn[e], Other(e), Sealed("message", crypto[e].transcript, "text"))
    /\ UNCHANGED <<up, open, backlog, hosting, session, main, why, confirms>>

\* The socket refuses the frame of a confirmation or a message:
\* _fail_active_channel.
SendFails(e) ==
    /\ user[e] = "idle" /\ conn[e] # 0 /\ status[e] = "confirmed"
    /\ Severed(conn[e], e)
    /\ EndSession(e, "failed", "lost")
    /\ UNCHANGED <<wire, sentTo>>

-----------------------------------------------------------------------------
(* The session thread reads on: _read_socket_messages.                     *)
\* The payload confirms the code of this session.
GoodVerification(e) ==
    /\ Arrived(e, "verification") /\ Opens(Frame(e), crypto[e].transcript)
    /\ ValidConfirmation(Frame(e).payload, crypto[e].code, Other(e), crypto[e].transcript)

\* _handle_peer_verification
OnVerification(e) ==
    /\ reader[e] = "chat" /\ GoodVerification(e)
    /\ Pop(conn[e], e)
    /\ peerConfirmed' = Set(peerConfirmed, e, TRUE)
    /\ reader' = Set(reader, e, "mark")
    /\ UNCHANGED <<up, open, backlog, hosting, conn, status, secrets,
                   localConfirmed, verified, main, why, history>>

PeerMark(e) ==
    /\ reader[e] = "mark" /\ reader' = Set(reader, e, "chat")
    /\ MarkIfComplete(e)
    /\ UNCHANGED <<network, conn, status, secrets, localConfirmed, peerConfirmed, main,
                   why, history>>

OnMessage(e) ==
    /\ reader[e] = "chat" /\ Arrived(e, "message") /\ verified[e]
    /\ Opens(Frame(e), crypto[e].transcript)
    /\ Pop(conn[e], e)
    /\ UNCHANGED <<up, open, backlog, hosting, session, main, why, history>>

\* "Participant verification is required before messaging"
MessageRejected(e) ==
    /\ reader[e] = "chat" /\ Arrived(e, "message") /\ ~verified[e]
    /\ EndSession(e, "failed", "unverified")
    /\ UNCHANGED <<wire, sentTo>>

\* A disconnect ends the session; a handshake frame, a refusal, or what does not
\* open or confirm is not expected.
OnOther(e) ==
    /\ reader[e] = "chat" /\ wire[conn[e]][e] # <<>>
    /\ ~GoodVerification(e)
    /\ Arrived(e, "message") => verified[e] /\ ~Opens(Frame(e), crypto[e].transcript)
    /\ IF Arrived(e, "disconnect") THEN EndSession(e, "disconnected", "left")
       ELSE EndSession(e, "failed", "unexpected")
    /\ UNCHANGED <<wire, sentTo>>

-----------------------------------------------------------------------------
HandshakeStep(e) ==
    OnHello(e) \/ OnChallenge(e) \/ OnResponse(e) \/ HandshakeRejects(e)
ReaderStep(e) ==
    \/ OnVerification(e) \/ PeerMark(e) \/ OnMessage(e) \/ MessageRejected(e)
    \/ OnOther(e) \/ ConnectionLost(e)
MainStep(e) == ConfirmSet(e) \/ ConfirmMark(e)

Next ==
    \/ \E c \in Conns : Join(c) \/ Accept(c) \/ Refuse(c) \/ Cut(c)
    \/ \E e \in Ends :
         \/ HandshakeStep(e) \/ ReaderStep(e) \/ MainStep(e)
         \/ HandshakeTimeout(e) \/ Confirm(e) \/ Send(e) \/ SendFails(e)
         \/ Leave(e)

Spec == Init /\ [][Next]_vars

\* Threads that can run do run.
FairSpec ==
    /\ Spec
    /\ \A e \in Ends : /\ WF_vars(HandshakeStep(e)) /\ WF_vars(ReaderStep(e))
                       /\ WF_vars(MainStep(e))

-----------------------------------------------------------------------------
\* An end calls its channel confirmed only on a connection whose other end has
\* answered its challenge.  Two ends that call one connection confirmed show the
\* same safety code, and it is made of both keys and both nonces of this
\* connection, so that no other shows it: comparing codes tells something.
SafetyCodeIsShared ==
    /\ \A e \in Ends : status[e] = "confirmed" =>
          /\ conn[e] # 0 /\ "channel_response" \in sentTo[conn[e]][e]
          /\ \A f \in Ends :
               {PublicKey(f, conn[e]), Nonce(f, conn[e])} \subseteq Range(crypto[e].code.digits)
    /\ conn["host"] = conn["guest"] /\ (\A e \in Ends : status[e] = "confirmed") =>
          crypto["host"].code = crypto["guest"].code

\* An end counts its session verified only when the participants at both
\* ends have confirmed the safety code of this connection, never on what an
\* earlier connection left (PROJECT_RULES.md: no participant is verified
\* before mutual confirmation).
VerifiedIsMutual ==
    \A e \in Ends : verified[e] =>
        /\ conn[e] # 0
        /\ confirms[conn[e]]["host"] > 0 /\ confirms[conn[e]]["guest"] > 0

\* Two honest ends never break off over a frame the other was not to send:
\* not when one is still in the handshake while the other confirms, and not
\* when a refused or a lost connection is followed by another.
NoUnexpectedFrame == \A e \in Ends : why[e] # "unexpected"

\* Once both participants have confirmed on a connection, each end counts
\* it verified, or the connection ends: no confirmation is lost between the
\* handshake and the reader, and none is forgotten when the two cross.
BothConfirmedVerify ==
    \A c \in Conns : \A e \in Ends :
        (confirms[c]["host"] > 0 /\ confirms[c]["guest"] > 0)
            ~> (verified[e] \/ conn[e] # c)

\* MVP.md, "After verification": both participants can send and receive
\* plain text.  A message sent after verification is not refused as
\* unverified by the other end.
SentIsAccepted == \A e \in Ends : why[e] # "unverified"

=============================================================================
