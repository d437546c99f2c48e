------------------------ MODULE PeerProtocol_proofs ------------------------
(***************************************************************************)
(* What PeerProtocol's two ends come to agree on, for any number of        *)
(* connections, confirmations and messages: the safety code of a           *)
(* connection is the same at both ends, neither is verified unless both    *)
(* participants have confirmed, and no end ever reads a frame that the     *)
(* other was not to send.                                                  *)
(*                                                                         *)
(* The last one needs to know, of every wire, which frames are on it and   *)
(* in what order (FramesInOrder): an end has sent the frames of the        *)
(* handshake up to the one after those it has read, and what the other has *)
(* not read of them is on the wire.                                        *)
(***************************************************************************)
EXTENDS PeerProtocol, TLAPS, SequenceTheorems

(* What each frame holds. *)
\* The transcript and the safety code of a connection.
Transcript(c) ==
    derive_handshake_transcript_hash(PublicKey("host", c), PublicKey("guest", c), Onion,
                                     Nonce("host", c), Nonce("guest", c))
Crypto(c) == [transcript |-> Transcript(c), code |-> derive_safety_code(Transcript(c))]

FrameTypes == {"hello", "channel_challenge", "channel_response", "verification",
               "message", "disconnect", "error"}

\* The one frame of a type that end e makes on connection c.
FrameOf(c, e, type) ==
    IF type = "hello" THEN Hello(e, c)
    ELSE IF type = "channel_challenge" THEN Sealed(type, Transcript(c),
            build_channel_challenge_payload(e, Transcript(c), LocalChallenge(e, c)))
    ELSE IF type = "channel_response" THEN Sealed(type, Transcript(c),
            build_channel_response_payload(e, Transcript(c), LocalChallenge(Other(e), c)))
    ELSE IF type = "verification" THEN Sealed(type, Transcript(c),
            build_confirmation_payload(Crypto(c).code, e, Transcript(c)))
    ELSE IF type = "message" THEN Sealed(type, Transcript(c), "text")
    ELSE Plain(type)

-----------------------------------------------------------------------------
(* The inductive invariant, in named parts. *)
\* Its frames, of all types.
Frames(c, e) == {FrameOf(c, e, type) : type \in FrameTypes}
AnyFrame == UNION {Frames(ce[1], ce[2]) : ce \in Conns \X Ends}

InHandshake == {"hello", "channel_challenge", "channel_response"}
InChat == {"chat", "mark"}

WireType ==
    /\ wire \in [Conns -> [Ends -> Seq(AnyFrame)]]
    /\ sentTo \in [Conns -> [Ends -> SUBSET FrameTypes]]

SessionType ==
    /\ conn \in [Ends -> Conns \cup {0}]
    /\ reader \in [Ends -> {"none"} \cup InHandshake \cup InChat]
    /\ status \in [Ends -> {"pending", "confirmed", "failed", "disconnected"}]
    /\ derived \in [Ends -> {<<>>} \cup {Transcript(c) : c \in Conns}]
    /\ crypto \in [Ends -> {<<>>} \cup {Crypto(c) : c \in Conns}]
    /\ localConfirmed \in [Ends -> BOOLEAN] /\ peerConfirmed \in [Ends -> BOOLEAN]
    /\ verified \in [Ends -> BOOLEAN]

TypeOK ==
    /\ WireType /\ SessionType
    /\ up \subseteq Conns /\ open \in [Conns -> SUBSET Ends]
    /\ backlog \subseteq Conns /\ hosting \in BOOLEAN
    /\ user \in [Ends -> {"idle", "joining", "confirm_set", "mark"}]
    /\ captured \in [Ends -> Conns \cup {0}]
    /\ why \in [Ends -> {"none", "timeout", "refused", "left", "unexpected", "lost", "unverified"}]
    /\ confirms \in [Conns -> [Ends -> Nat]] /\ messages \in [Conns -> [Ends -> Nat]]

\* What a wire carries to an end is what the other end makes.
OwnFrames == \A c \in Conns, e \in Ends : \A i \in 1..Len(wire[c][e]) :
                 wire[c][e][i] \in Frames(c, Other(e))

\* Where a session's reader is says what the session knows.
SessionState == \A e \in Ends :
    /\ conn[e] = 0 <=> reader[e] = "none"
    /\ status[e] = "confirmed" <=> reader[e] \in InChat
    /\ reader[e] \in {"channel_challenge", "channel_response"} => derived[e] = Transcript(conn[e])
    /\ status[e] = "confirmed" =>
         /\ crypto[e] = Crypto(conn[e])
         /\ "channel_response" \in sentTo[conn[e]][e]

\* What is on a wire has been sent, and a confirmation has been counted.
WireIsSent == \A c \in Conns, e \in Ends : \A i \in 1..Len(wire[c][e]) :
    /\ wire[c][e][i].type \in sentTo[c][e]
    /\ wire[c][e][i].type = "verification" => confirms[c][Other(e)] > 0

\* What an end counts as confirmed has been confirmed on its own connection.
Confirmation == \A e \in Ends :
    /\ localConfirmed[e] => conn[e] # 0 /\ confirms[conn[e]][e] > 0
    /\ peerConfirmed[e] => conn[e] # 0 /\ confirms[conn[e]][Other(e)] > 0
    /\ verified[e] => localConfirmed[e] /\ peerConfirmed[e]
    /\ user[e] \in {"confirm_set", "mark"} =>
          captured[e] # 0 /\ confirms[captured[e]][e] > 0

\* The handshake frames that an end has read.
Read(e) ==
    IF reader[e] \in InChat THEN 3
    ELSE IF reader[e] = "channel_response" THEN 2
    ELSE IF reader[e] = "channel_challenge" THEN 1 ELSE 0

\* A connection that waits in the backlog has heard nothing, one that is not made is empty.
Waiting == \A c \in Conns :
    /\ c \in backlog => /\ Used(c) /\ conn["host"] # c
                        /\ conn["guest"] = c => Read("guest") = 0
    /\ c \in backlog \/ ~Used(c) => wire[c]["guest"] = <<>>
    /\ ~Used(c) => wire[c]["host"] = <<>> /\ conn["host"] # c /\ conn["guest"] # c

\* Those it has read on a connection it has, or is to have: the frames due next.
Got(c, e) == IF conn[e] = c THEN Read(e) ELSE 0
Awaits(c, e) == conn[e] = c \/ (e = "host" /\ c \in backlog)
Due(n) ==
    IF n = 1 THEN {"hello", "error"}
    ELSE IF n = 2 THEN {"channel_challenge", "disconnect"}
    ELSE IF n = 3 THEN {"channel_response", "disconnect"}
    ELSE {"verification", "message", "disconnect"}

\* The frames on a wire are those due next, one after the other.
InOrder(c, e) == \A i \in 1..Len(wire[c][e]) : wire[c][e][i].type \in Due(Got(c, e) + i)
\* Who is in the handshake has sent one frame more than it has read.
InStep(c, e) == conn[Other(e)] = c =>
    /\ \A i \in 1..Len(wire[c][e]) : wire[c][e][i].type \notin {"error", "disconnect"}
    /\ Read(Other(e)) < 3 => Got(c, e) + Len(wire[c][e]) = Read(Other(e)) + 1
    /\ Read(Other(e)) = 3 => Got(c, e) + Len(wire[c][e]) >= 3
\* All this of the wires that somebody reads, or will.
FramesInOrder == \A c \in Conns, e \in Ends : Awaits(c, e) => InOrder(c, e) /\ InStep(c, e)

IInv ==
    /\ TypeOK /\ OwnFrames /\ SessionState /\ WireIsSent /\ Confirmation /\ Waiting
    /\ FramesInOrder /\ NoUnexpectedFrame

-----------------------------------------------------------------------------
(* Lemmas about the frames: each is accepted by the end it is meant for. *)
\* A frame is of the type it was made for.
LEMMA FrameHasType ==
  ASSUME NEW c \in Conns, NEW e \in Ends, NEW type \in FrameTypes
  PROVE  FrameOf(c, e, type).type = type
BY DEF FrameTypes, FrameOf, Hello, Sealed, Plain

\* A hello is accepted, and both ends make one transcript of the two of a connection.
LEMMA HelloIsGood ==
  ASSUME NEW c \in Conns, NEW e \in Ends, conn[e] = c
  PROVE  /\ GoodHello(e, FrameOf(c, Other(e), "hello"))
         /\ TranscriptOf(e, FrameOf(c, Other(e), "hello")) = Transcript(c)
<1> DEFINE f == FrameOf(c, Other(e), "hello")
<1>1. f = Hello(Other(e), c)
  BY DEF FrameOf
<1>2. /\ DOMAIN f = {"type", "v", "role", "public_key", "nonce"}
      /\ f.v = PROTOCOL_VERSION /\ f.role = Other(e)
      /\ f.nonce = Encode(Nonce(Other(e), c)) /\ f.public_key = Encode(PublicKey(Other(e), c))
  BY <1>1 DEF Hello
<1>3. f.nonce.value = Nonce(Other(e), c) /\ f.public_key.value = PublicKey(Other(e), c)
      /\ Canonical(f.nonce)
  BY <1>2 DEF Encode, Canonical
<1>4. parse_invite(Invitation).host_public_key = PublicKey("host", 0)
  BY DEF parse_invite, Invitation, build_invite, Encode
<1>5. <<"host">> # <<"guest", c>>
  OBVIOUS
<1>6. e = "guest" => PublicKey(Other(e), c) = PublicKey("host", 0)
  BY DEF PublicKey, Other
<1>7. PublicKey(Other(e), c) # PublicKey(e, c)
  BY <1>5 DEF PublicKey, Other, Ends
<1>8. GoodHello(e, f)
  BY <1>2, <1>3, <1>4, <1>6, <1>7 DEF GoodHello
<1>9. TranscriptOf(e, f) = Transcript(c)
  BY <1>3 DEF TranscriptOf, Transcript, Other, Ends
<1>. QED BY <1>8, <1>9

\* What was sealed in a Box opens with it.
LEMMA SealedFields ==
  ASSUME NEW type, NEW transcript, NEW payload
  PROVE  /\ Opens(Sealed(type, transcript, payload), transcript)
         /\ Sealed(type, transcript, payload).payload = payload
         /\ Sealed(type, transcript, payload).type = type
BY DEF Opens, Sealed

\* A payload has the fields its reader looks for.
LEMMA PayloadFields ==
  ASSUME NEW type, NEW role, NEW transcript, NEW field, NEW value,
         field \notin {"type", "v", "role", "transcript"}
  PROVE  LET p == With(field, value, Payload(type, role, transcript)) IN
         /\ OfType(p, type, field) /\ HasRoleAndTranscript(p, role, transcript)
         /\ p[field] = value
<1> DEFINE q == Payload(type, role, transcript)  p == With(field, value, q)
<1>1. /\ DOMAIN q = {"type", "v", "role", "transcript"}
      /\ q.type = type /\ q.v = PROTOCOL_VERSION /\ q.role = role
      /\ q.transcript = Encode(transcript)
  BY DEF Payload
<1>2. DOMAIN p = {"type", "v", "role", "transcript", field}
  BY <1>1 DEF With
<1>3. /\ p.type = type /\ p.v = PROTOCOL_VERSION /\ p.role = role
      /\ p.transcript = Encode(transcript) /\ p[field] = value
  BY <1>1 DEF With
<1>. QED BY <1>2, <1>3 DEF OfType, HasRoleAndTranscript, Encode, Canonical

\* A challenge is accepted by the end that has the same transcript.
LEMMA ChallengeIsGood ==
  ASSUME NEW c \in Conns, NEW e \in Ends, derived[e] = Transcript(c)
  PROVE  /\ GoodChallenge(e, FrameOf(c, Other(e), "channel_challenge"))
         /\ FrameOf(c, Other(e), "channel_challenge").payload.challenge.value
               = LocalChallenge(Other(e), c)
<1> DEFINE p == build_channel_challenge_payload(Other(e), Transcript(c),
                                                LocalChallenge(Other(e), c))
<1>1. /\ OfType(p, "channel_challenge", "challenge")
      /\ HasRoleAndTranscript(p, Other(e), Transcript(c))
      /\ p.challenge = Encode(LocalChallenge(Other(e), c))
  BY PayloadFields DEF build_channel_challenge_payload
<1>2. FrameOf(c, Other(e), "channel_challenge") = Sealed("channel_challenge", Transcript(c), p)
  BY DEF FrameOf
<1>3. ValidChallenge(p, Other(e), Transcript(c))
  BY <1>1 DEF ValidChallenge, Canonical, Encode
<1>4. p.challenge.value = LocalChallenge(Other(e), c)
  BY <1>1 DEF Encode
<1>. QED BY <1>2, <1>3, <1>4, SealedFields DEF GoodChallenge

\* The answer to its challenge is accepted by the end that drew it.
LEMMA ResponseIsGood ==
  ASSUME NEW c \in Conns, NEW e \in Ends, conn[e] = c, derived[e] = Transcript(c)
  PROVE  GoodResponse(e, FrameOf(c, Other(e), "channel_response"))
<1> DEFINE p == build_channel_response_payload(Other(e), Transcript(c), LocalChallenge(e, c))
<1>1. /\ OfType(p, "channel_response", "response")
      /\ HasRoleAndTranscript(p, Other(e), Transcript(c))
      /\ p.response = Encode(LocalChallenge(e, c))
  BY PayloadFields DEF build_channel_response_payload
<1>2. FrameOf(c, Other(e), "channel_response") = Sealed("channel_response", Transcript(c), p)
  BY DEF FrameOf, Other, Ends
<1>3. ValidResponse(p, Other(e), Transcript(c)) /\ p.response.value = LocalChallenge(e, c)
  BY <1>1 DEF ValidResponse, Canonical, Encode
<1>. QED BY <1>2, <1>3, SealedFields DEF GoodResponse

\* A confirmation is accepted by the end that shows the same code.
LEMMA VerificationIsGood ==
  ASSUME NEW c \in Conns, NEW e \in Ends, crypto[e] = Crypto(c),
         Arrived(e, "verification"), Frame(e) = FrameOf(c, Other(e), "verification")
  PROVE  GoodVerification(e)
<1> DEFINE p == build_confirmation_payload(Crypto(c).code, Other(e), Transcript(c))
<1>1. /\ OfType(p, "participant_verification", "code")
      /\ HasRoleAndTranscript(p, Other(e), Transcript(c))
      /\ p.code = Crypto(c).code
  BY PayloadFields DEF build_confirmation_payload
<1>2. Frame(e) = Sealed("verification", Transcript(c), p)
  BY DEF FrameOf
<1>3. ValidConfirmation(p, Crypto(c).code, Other(e), Transcript(c))
  BY <1>1 DEF ValidConfirmation
<1>4. crypto[e].transcript = Transcript(c) /\ crypto[e].code = Crypto(c).code
  BY DEF Crypto
<1>. QED BY <1>2, <1>3, <1>4, SealedFields DEF GoodVerification

\* A message opens at the end that has the same transcript.
LEMMA MessageOpens ==
  ASSUME NEW c \in Conns, NEW e \in Ends, crypto[e] = Crypto(c)
  PROVE  Opens(FrameOf(c, Other(e), "message"), crypto[e].transcript)
BY SealedFields DEF FrameOf, Crypto

-----------------------------------------------------------------------------
(* What a step does to the wires. *)
\* A wire is left alone, gets a frame, loses its first.
Keeps(c, e) == wire'[c][e] = wire[c][e] /\ sentTo'[c][e] = sentTo[c][e]
Adds(c, e, type) ==
    /\ Len(wire'[c][e]) = Len(wire[c][e]) + 1
    /\ wire'[c][e][Len(wire[c][e]) + 1] = FrameOf(c, Other(e), type)
    /\ wire'[c][e][Len(wire[c][e]) + 1].type = type
    /\ \A i \in 1..Len(wire[c][e]) : wire'[c][e][i] = wire[c][e][i]
    /\ sentTo'[c][e] = sentTo[c][e] \cup {type}
Takes(c, e) ==
    /\ Len(wire[c][e]) > 0
    /\ Len(wire'[c][e]) = Len(wire[c][e]) - 1
    /\ \A i \in 1..Len(wire'[c][e]) : wire'[c][e][i] = wire[c][e][i + 1]
    /\ sentTo'[c][e] = sentTo[c][e]

\* A frame is sent to an end, read there, answered there.
KeepsOthers(c) == \A d \in Conns : d # c => \A g \in Ends : Keeps(d, g)
Sends(c, e, type)   == Adds(c, e, type) /\ Keeps(c, Other(e)) /\ KeepsOthers(c)
Reads(c, e)         == Takes(c, e) /\ Keeps(c, Other(e)) /\ KeepsOthers(c)
Answers(c, e, type) == Takes(c, e) /\ Adds(c, Other(e), type) /\ KeepsOthers(c)

\* A frame of a connection is a frame.
LEMMA FrameIsAny ==
  ASSUME NEW c \in Conns, NEW e \in Ends, NEW type \in FrameTypes
  PROVE  FrameOf(c, e, type) \in AnyFrame
<1>1. FrameOf(c, e, type) \in Frames(c, e)
  BY DEF Frames
<1>2. Frames(c, e) \subseteq AnyFrame
  BY <<c, e>> \in Conns \X Ends DEF AnyFrame
<1>. QED BY <1>1, <1>2

\* There are two ends.
LEMMA OtherEnd ==
  ASSUME NEW e \in Ends
  PROVE  Other(e) \in Ends /\ Other(e) # e /\ Other(Other(e)) = e
         /\ \A g \in Ends : g = e \/ g = Other(e)
BY DEF Ends, Other

\* Push puts a frame at the end of one wire.
LEMMA PushSends ==
  ASSUME WireType, NEW c \in Conns, NEW e \in Ends, NEW type \in FrameTypes,
         Push(c, e, FrameOf(c, Other(e), type))
  PROVE  WireType' /\ Sends(c, e, type)
<1> DEFINE f == FrameOf(c, Other(e), type)
<1>1. f \in AnyFrame /\ f.type = type /\ wire[c][e] \in Seq(AnyFrame)
  BY FrameIsAny, FrameHasType, OtherEnd DEF WireType
<1>2. /\ Append(wire[c][e], f) \in Seq(AnyFrame)
      /\ Len(Append(wire[c][e], f)) = Len(wire[c][e]) + 1
      /\ Append(wire[c][e], f)[Len(wire[c][e]) + 1] = f
      /\ \A i \in 1..Len(wire[c][e]) : Append(wire[c][e], f)[i] = wire[c][e][i]
  BY <1>1, AppendProperties
<1>3. /\ wire'[c][e] = Append(wire[c][e], f)
      /\ \A d \in Conns, g \in Ends : d # c \/ g # e => wire'[d][g] = wire[d][g]
      /\ wire' \in [Conns -> [Ends -> Seq(AnyFrame)]]
  <2> HIDE DEF f
  <2>1. wire' = [wire EXCEPT ![c] = [wire[c] EXCEPT ![e] = Append(wire[c][e], f)]]
    BY <1>1 DEF Push, f, WireType
  <2>. QED BY <2>1, <1>1, <1>2 DEF WireType
<1>4. /\ sentTo'[c][e] = sentTo[c][e] \cup {type}
      /\ \A d \in Conns, g \in Ends : d # c \/ g # e => sentTo'[d][g] = sentTo[d][g]
      /\ sentTo' \in [Conns -> [Ends -> SUBSET FrameTypes]]
  <2> HIDE DEF f
  <2>1. sentTo' = [sentTo EXCEPT ![c] = [sentTo[c] EXCEPT ![e] = sentTo[c][e] \cup {type}]]
    BY <1>1 DEF Push, f, WireType
  <2>. QED BY <2>1 DEF WireType
<1>. QED BY <1>1, <1>2, <1>3, <1>4, OtherEnd DEF WireType, Sends, Adds, Keeps, KeepsOthers

\* Pop takes the first frame of one wire.
LEMMA PopReads ==
  ASSUME WireType, NEW c \in Conns, NEW e \in Ends, wire[c][e] # <<>>,
         Pop(c, e), UNCHANGED sentTo
  PROVE  WireType' /\ Reads(c, e)
<1>1. wire[c][e] \in Seq(AnyFrame)
  BY DEF WireType
<1>2. /\ Tail(wire[c][e]) \in Seq(AnyFrame) /\ Len(wire[c][e]) \in Nat \ {0}
      /\ Len(Tail(wire[c][e])) = Len(wire[c][e]) - 1
      /\ \A i \in 1..Len(Tail(wire[c][e])) : Tail(wire[c][e])[i] = wire[c][e][i + 1]
  BY <1>1, HeadTailProperties, EmptySeq
<1>3. /\ wire'[c][e] = Tail(wire[c][e])
      /\ \A d \in Conns, g \in Ends : d # c \/ g # e => wire'[d][g] = wire[d][g]
      /\ wire' \in [Conns -> [Ends -> Seq(AnyFrame)]]
  <2>1. wire' = [wire EXCEPT ![c] = [wire[c] EXCEPT ![e] = Tail(wire[c][e])]]
    BY DEF Pop, WireType
  <2>. QED BY <2>1, <1>1, <1>2 DEF WireType
<1>. QED BY <1>2, <1>3, OtherEnd DEF WireType, Reads, Takes, Keeps, KeepsOthers

\* Answer does both on one connection.
LEMMA AnswerAnswers ==
  ASSUME WireType, NEW c \in Conns, NEW e \in Ends, NEW type \in FrameTypes,
         wire[c][e] # <<>>, Answer(c, e, FrameOf(c, e, type))
  PROVE  WireType' /\ Answers(c, e, type)
<1> DEFINE f == FrameOf(c, e, type)  o == Other(e)
<1>1. /\ f \in AnyFrame
      /\ f.type = type
      /\ wire[c][e] \in Seq(AnyFrame)
      /\ wire[c][o] \in Seq(AnyFrame)
      /\ o \in Ends /\ o # e /\ Other(o) = e
  BY FrameIsAny, FrameHasType, OtherEnd DEF WireType
<1>2. /\ Tail(wire[c][e]) \in Seq(AnyFrame) /\ Len(wire[c][e]) \in Nat \ {0}
      /\ Len(Tail(wire[c][e])) = Len(wire[c][e]) - 1
      /\ \A i \in 1..Len(Tail(wire[c][e])) : Tail(wire[c][e])[i] = wire[c][e][i + 1]
  BY <1>1, HeadTailProperties, EmptySeq
<1>3. /\ Append(wire[c][o], f) \in Seq(AnyFrame)
      /\ Len(Append(wire[c][o], f)) = Len(wire[c][o]) + 1
      /\ Append(wire[c][o], f)[Len(wire[c][o]) + 1] = f
      /\ \A i \in 1..Len(wire[c][o]) : Append(wire[c][o], f)[i] = wire[c][o][i]
  BY <1>1, AppendProperties
<1>4. /\ wire'[c][e] = Tail(wire[c][e]) /\ wire'[c][o] = Append(wire[c][o], f)
      /\ \A d \in Conns, g \in Ends : d # c => wire'[d][g] = wire[d][g]
      /\ wire' \in [Conns -> [Ends -> Seq(AnyFrame)]]
  <2> HIDE DEF f, o
  <2>1. wire' = [wire EXCEPT ![c] = [wire[c] EXCEPT ![e] = Tail(wire[c][e]),
                                                    ![o] = Append(wire[c][o], f)]]
    BY <1>1 DEF Answer, f, o, WireType
  <2>. QED BY <2>1, <1>1, <1>2, <1>3 DEF WireType
<1>5. /\ sentTo'[c][o] = sentTo[c][o] \cup {type} /\ sentTo'[c][e] = sentTo[c][e]
      /\ \A d \in Conns, g \in Ends : d # c => sentTo'[d][g] = sentTo[d][g]
      /\ sentTo' \in [Conns -> [Ends -> SUBSET FrameTypes]]
  <2> HIDE DEF f, o
  <2>1. sentTo' = [sentTo EXCEPT ![c] = [sentTo[c] EXCEPT ![o] = sentTo[c][o] \cup {type}]]
    BY <1>1 DEF Answer, f, o, WireType
  <2>. QED BY <2>1, <1>1 DEF WireType
<1>. QED BY <1>1, <1>2, <1>3, <1>4, <1>5 DEF WireType, Answers, Adds, Takes, Keeps, KeepsOthers

\* The frame that has arrived is the other end's frame of its type.
LEMMA FrameArrived ==
  ASSUME IInv, NEW e \in Ends, conn[e] # 0, wire[conn[e]][e] # <<>>
  PROVE  /\ conn[e] \in Conns /\ Len(wire[conn[e]][e]) \in Nat \ {0}
         /\ Frame(e) = wire[conn[e]][e][1] /\ Frame(e).type \in FrameTypes
         /\ Frame(e) = FrameOf(conn[e], Other(e), Frame(e).type)
         /\ \A type : Arrived(e, type) <=> Frame(e).type = type
<1>1. conn[e] \in Conns /\ wire[conn[e]][e] \in Seq(AnyFrame)
  BY DEF IInv, TypeOK, WireType, SessionType
<1>2. Len(wire[conn[e]][e]) \in Nat \ {0} /\ Frame(e) = wire[conn[e]][e][1]
  BY <1>1, EmptySeq DEF Frame
<1>3. Frame(e) \in Frames(conn[e], Other(e))
  BY <1>1, <1>2 DEF IInv, OwnFrames
<1>4. PICK type \in FrameTypes : Frame(e) = FrameOf(conn[e], Other(e), type)
  BY <1>3 DEF Frames
<1>5. Frame(e).type = type
  BY <1>1, <1>4, FrameHasType, OtherEnd
<1>. QED BY <1>1, <1>2, <1>4, <1>5 DEF Arrived, Frame

\* In the handshake a frame of the awaited type is the awaited frame.
LEMMA ArrivedIsExpected ==
  ASSUME IInv, NEW e \in Ends, Handshaking(e)
  PROVE  /\ conn[e] \in Conns /\ reader[e] \in InHandshake
         /\ Expected(e) <=> Arrived(e, reader[e])
<1>1. conn[e] \in Conns /\ reader[e] \in InHandshake
  BY DEF IInv, TypeOK, SessionType, SessionState, Handshaking, Handshake, InHandshake
<1>2. SUFFICES ASSUME Arrived(e, reader[e]) PROVE Expected(e)
  BY <1>1 DEF Expected
<1>3. Frame(e) = FrameOf(conn[e], Other(e), reader[e])
  BY <1>2, FrameArrived DEF Arrived
<1>4. CASE reader[e] = "hello"
  BY <1>1, <1>2, <1>3, <1>4, HelloIsGood DEF Expected
<1>5. CASE reader[e] = "channel_challenge"
  <2>1. derived[e] = Transcript(conn[e])
    BY <1>5 DEF IInv, SessionState
  <2>2. GoodChallenge(e, Frame(e))
    BY <1>1, <1>3, <1>5, <2>1, ChallengeIsGood
  <2>. QED BY <1>2, <1>5, <2>2 DEF Expected
<1>6. CASE reader[e] = "channel_response"
  <2>1. derived[e] = Transcript(conn[e])
    BY <1>6 DEF IInv, SessionState
  <2>2. GoodResponse(e, Frame(e))
    BY <1>1, <1>3, <1>6, <2>1, ResponseIsGood
  <2>. QED BY <1>2, <1>6, <2>2 DEF Expected
<1>. QED BY <1>1, <1>4, <1>5, <1>6 DEF InHandshake

\* The frames of a connection's making.
LEMMA ConnectionFrames ==
  ASSUME IInv, NEW c \in Conns
  PROVE  /\ Join(c) => WireType' /\ Sends(c, "host", "hello")
         /\ Accept(c) => WireType' /\ Sends(c, "guest", "hello")
         /\ Refuse(c) => WireType' /\ Sends(c, "guest", "error")
<1>1. WireType /\ {"hello", "error"} \subseteq FrameTypes /\ {"host", "guest"} \subseteq Ends
  BY DEF IInv, TypeOK, FrameTypes, Ends
<1>2. Other("host") = "guest" /\ Other("guest") = "host"
  BY DEF Other
<1>3. /\ FrameOf(c, "guest", "hello") = Hello("guest", c)
      /\ FrameOf(c, "host", "hello") = Hello("host", c)
      /\ FrameOf(c, "host", "error") = Plain("error")
  BY DEF FrameOf
<1>. QED BY <1>1, <1>2, <1>3, PushSends DEF Join, Accept, Refuse

\* The frames of the handshake.
LEMMA HandshakeFrames ==
  ASSUME IInv, NEW e \in Ends
  PROVE  /\ OnHello(e) =>
               /\ WireType' /\ Answers(conn[e], e, "channel_challenge")
               /\ conn[e] \in Conns /\ wire[conn[e]][e][1].type = "hello"
               /\ derived' = Set(derived, e, Transcript(conn[e]))
         /\ OnChallenge(e) =>
               /\ WireType' /\ Answers(conn[e], e, "channel_response")
               /\ conn[e] \in Conns /\ wire[conn[e]][e][1].type = "channel_challenge"
         /\ OnResponse(e) =>
               /\ WireType' /\ Reads(conn[e], e)
               /\ conn[e] \in Conns /\ wire[conn[e]][e][1].type = "channel_response"
<1>1. WireType /\ {"channel_challenge", "channel_response"} \subseteq FrameTypes
  BY DEF IInv, TypeOK, FrameTypes
<1>2. ASSUME Expected(e)
      PROVE  /\ conn[e] \in Conns /\ wire[conn[e]][e] # <<>>
             /\ wire[conn[e]][e][1].type = reader[e]
             /\ Frame(e) = FrameOf(conn[e], Other(e), reader[e])
  BY <1>2, FrameArrived DEF Expected, Arrived
<1>3. ASSUME OnHello(e)
      PROVE  /\ WireType' /\ Answers(conn[e], e, "channel_challenge")
             /\ derived' = Set(derived, e, Transcript(conn[e]))
  <2>1. reader[e] = "hello" /\ Expected(e)
    BY <1>3 DEF OnHello
  <2>2. derived' = Set(derived, e, Transcript(conn[e]))
    BY <1>2, <1>3, <2>1, HelloIsGood DEF OnHello
  <2>3. derived'[e] = Transcript(conn[e])
    BY <2>2 DEF Set, IInv, TypeOK, SessionType
  <2>4. Answer(conn[e], e, FrameOf(conn[e], e, "channel_challenge"))
    BY <1>3, <2>3 DEF OnHello, FrameOf
  <2>. QED BY <1>1, <1>2, <2>1, <2>2, <2>4, AnswerAnswers
<1>4. ASSUME OnChallenge(e)
      PROVE  WireType' /\ Answers(conn[e], e, "channel_response")
  <2>1. reader[e] = "channel_challenge" /\ Expected(e)
    BY <1>4 DEF OnChallenge
  <2>2. derived[e] = Transcript(conn[e])
    BY <2>1 DEF IInv, SessionState
  <2>3. Frame(e).payload.challenge.value = LocalChallenge(Other(e), conn[e])
    BY <1>2, <2>1, <2>2, ChallengeIsGood
  <2>4. Answer(conn[e], e, FrameOf(conn[e], e, "channel_response"))
    BY <1>4, <2>2, <2>3 DEF OnChallenge, FrameOf
  <2>. QED BY <1>1, <1>2, <2>1, <2>4, AnswerAnswers
<1>5. OnResponse(e) => WireType' /\ Reads(conn[e], e)
  BY <1>1, <1>2, PopReads DEF OnResponse, Promote
<1>. QED BY <1>2, <1>3, <1>4, <1>5 DEF OnHello, OnChallenge, OnResponse

\* The frames of the session.
LEMMA SessionFrames ==
  ASSUME IInv, NEW e \in Ends
  PROVE  /\ OnVerification(e) =>
               /\ WireType' /\ Reads(conn[e], e)
               /\ conn[e] \in Conns /\ wire[conn[e]][e][1].type = "verification"
         /\ OnMessage(e) =>
               /\ WireType' /\ Reads(conn[e], e)
               /\ conn[e] \in Conns /\ wire[conn[e]][e][1].type = "message"
         /\ Confirm(e) => WireType' /\ conn[e] \in Conns /\ Sends(conn[e], Other(e), "verification")
         /\ Send(e) => WireType' /\ conn[e] \in Conns /\ Sends(conn[e], Other(e), "message")
         /\ Leave(e) => WireType' /\ \/ conn[e] = 0 /\ UNCHANGED <<wire, sentTo>>
                                     \/ conn[e] \in Conns /\ Sends(conn[e], Other(e), "disconnect")
<1>1. WireType /\ {"verification", "message", "disconnect"} \subseteq FrameTypes
  BY DEF IInv, TypeOK, FrameTypes
<1>2. Other(e) \in Ends /\ Other(Other(e)) = e
  BY OtherEnd
<1>3. ASSUME NEW type, Arrived(e, type)
      PROVE  conn[e] \in Conns /\ wire[conn[e]][e] # <<>> /\ wire[conn[e]][e][1].type = type
  BY <1>3, FrameArrived DEF Arrived
<1>4. conn[e] # 0 => conn[e] \in Conns
  BY DEF IInv, TypeOK, SessionType
<1>5. status[e] = "confirmed" => crypto[e].transcript = Transcript(conn[e])
                                 /\ crypto[e].code = Crypto(conn[e]).code
  <2>1. status[e] = "confirmed" => crypto[e] = Crypto(conn[e])
    BY DEF IInv, SessionState
  <2>2. Crypto(conn[e]).transcript = Transcript(conn[e])
    BY DEF Crypto
  <2>. QED BY <2>1, <2>2
<1>6. OnVerification(e) => WireType' /\ Reads(conn[e], e)
  BY <1>1, <1>3, PopReads DEF OnVerification, GoodVerification, history
<1>7. OnMessage(e) => WireType' /\ Reads(conn[e], e)
  BY <1>1, <1>3, PopReads DEF OnMessage, history
<1>8. Confirm(e) => WireType' /\ Sends(conn[e], Other(e), "verification")
  BY <1>1, <1>2, <1>4, <1>5, PushSends DEF Confirm, FrameOf
<1>9. Send(e) => WireType' /\ Sends(conn[e], Other(e), "message")
  BY <1>1, <1>2, <1>4, <1>5, PushSends DEF Send, FrameOf
<1>10. Leave(e) => WireType' /\ \/ conn[e] = 0 /\ UNCHANGED <<wire, sentTo>>
                                \/ conn[e] \in Conns /\ Sends(conn[e], Other(e), "disconnect")
  <2>1. FrameOf(conn[e], e, "disconnect") = Plain("disconnect")
    BY DEF FrameOf
  <2>2. CASE conn[e] = 0
    BY <1>1, <2>2 DEF Leave, WireType
  <2>3. CASE conn[e] # 0
    BY <1>1, <1>2, <1>4, <2>1, <2>3, PushSends DEF Leave
  <2>. QED BY <2>2, <2>3
<1>. QED
  BY ZenonT(40), <1>3, <1>4, <1>6, <1>7, <1>8, <1>9, <1>10 DEF OnVerification, GoodVerification, OnMessage, Confirm, Send

-----------------------------------------------------------------------------
(* Every wire is left alone, loses its first frame or gets one more. *)
\* 0 stands for no connection.
LEMMA NoConnection == 0 \notin Conns
BY BoundsAssumption DEF Conns

\* What a step may do to a wire.
LaneStep(c, e) ==
    \/ Keeps(c, e) \/ Takes(c, e)
    \/ \E type \in FrameTypes : /\ Adds(c, e, type)
                                /\ type = "verification" => confirms'[c][Other(e)] > 0
LanesStep == \A c \in Conns, e \in Ends : LaneStep(c, e)

\* A sent, read or answered frame is a step of every wire.
LEMMA MovesAreLaneSteps ==
  ASSUME NEW c \in Conns, NEW e \in Ends, NEW type \in FrameTypes
  PROVE  /\ Reads(c, e) => LanesStep
         /\ type # "verification" /\ Answers(c, e, type) => LanesStep
         /\ Sends(c, e, type) /\ (type = "verification" => confirms'[c][Other(e)] > 0) => LanesStep
<1>1. \A d \in Conns, g \in Ends : Keeps(d, g) \/ Takes(d, g) => LaneStep(d, g)
  BY DEF LaneStep
<1>2. Reads(c, e) => LanesStep
  BY <1>1, OtherEnd DEF Reads, LanesStep, KeepsOthers
<1>3. type # "verification" /\ Answers(c, e, type) => LanesStep
  <2>1. type # "verification" /\ Adds(c, Other(e), type) => LaneStep(c, Other(e))
    BY DEF LaneStep
  <2>. QED BY <1>1, <2>1, OtherEnd DEF Answers, LanesStep, KeepsOthers
<1>4. Sends(c, e, type) /\ (type = "verification" => confirms'[c][Other(e)] > 0) => LanesStep
  <2>1. ASSUME Adds(c, e, type), type = "verification" => confirms'[c][Other(e)] > 0
        PROVE  LaneStep(c, e)
    <3>1. \E t \in FrameTypes : /\ Adds(c, e, t)
                                /\ t = "verification" => confirms'[c][Other(e)] > 0
      <4>. WITNESS type \in FrameTypes
      <4>. QED BY <2>1
    <3>. QED BY <3>1 DEF LaneStep
  <2>. QED BY <1>1, <2>1, OtherEnd DEF Sends, LanesStep, KeepsOthers
<1>. QED BY <1>2, <1>3, <1>4

\* Every step is a step of every wire.
LEMMA EveryLaneSteps ==
  ASSUME IInv, [Next]_vars
  PROVE  WireType' /\ LanesStep
<1>1. UNCHANGED <<wire, sentTo>> => WireType' /\ LanesStep
  BY DEF IInv, TypeOK, WireType, LanesStep, LaneStep, Keeps
<1>2. FrameTypes = {"hello", "channel_challenge", "channel_response", "verification",
                    "message", "disconnect", "error"} /\ Ends = {"host", "guest"}
  BY DEF FrameTypes, Ends
<1>3. ASSUME NEW c \in Conns, Join(c) \/ Accept(c) \/ Refuse(c)
      PROVE  WireType' /\ LanesStep
  BY <1>2, <1>3, ConnectionFrames, MovesAreLaneSteps
<1>4. ASSUME NEW e \in Ends, OnHello(e) \/ OnChallenge(e) \/ OnResponse(e)
      PROVE  WireType' /\ LanesStep
  BY <1>2, <1>4, HandshakeFrames, MovesAreLaneSteps
<1>5. ASSUME NEW e \in Ends, OnVerification(e) \/ OnMessage(e) \/ Send(e) \/ Leave(e)
      PROVE  WireType' /\ LanesStep
  BY <1>1, <1>2, <1>5, OtherEnd, SessionFrames, MovesAreLaneSteps
<1>6. ASSUME NEW e \in Ends, Confirm(e)
      PROVE  WireType' /\ LanesStep
  <2>1. conn[e] \in Conns /\ Sends(conn[e], Other(e), "verification") /\ WireType'
    BY <1>6, SessionFrames
  <2>2. confirms'[conn[e]][e] = confirms[conn[e]][e] + 1 /\ confirms[conn[e]][e] \in Nat
    BY <1>6, <2>1 DEF Confirm, IInv, TypeOK
  <2>. QED BY <1>2, <2>1, <2>2, OtherEnd, MovesAreLaneSteps
<1>7. ASSUME NEW c \in Conns, Cut(c)
      PROVE  UNCHANGED <<wire, sentTo>>
  BY <1>7 DEF Cut, history
<1>8. ASSUME NEW e \in Ends,
             \/ HandshakeRejects(e) \/ PeerMark(e) \/ MessageRejected(e) \/ OnOther(e)
             \/ ConnectionLost(e) \/ MainStep(e) \/ HandshakeTimeout(e) \/ SendFails(e)
      PROVE  UNCHANGED <<wire, sentTo>>
  BY <1>8 DEF HandshakeRejects, PeerMark, MessageRejected, OnOther, ConnectionLost, MainStep,
     ConfirmSet, ConfirmMark, HandshakeTimeout, SendFails, network, history
<1>9. CASE UNCHANGED vars
  BY <1>1, <1>9 DEF vars, network, history
<1>. QED BY <1>1, <1>3, <1>4, <1>5, <1>6, <1>7, <1>8, <1>9 DEF Next, HandshakeStep, ReaderStep

\* What has been sent or confirmed stays so.
LEMMA HistoryGrows ==
  ASSUME IInv, [Next]_vars, NEW c \in Conns, NEW e \in Ends
  PROVE  /\ sentTo[c][e] \subseteq sentTo'[c][e]
         /\ confirms[c][e] > 0 => confirms'[c][e] > 0
<1>1. sentTo[c][e] \subseteq sentTo'[c][e]
  BY EveryLaneSteps DEF LanesStep, LaneStep, Keeps, Takes, Adds
<1>2. confirms[c][e] > 0 => confirms'[c][e] > 0
  <2>1. ASSUME NEW a \in Ends, Confirm(a) PROVE confirms[c][e] > 0 => confirms'[c][e] > 0
    <3>1. confirms' = [confirms EXCEPT ![conn[a]] =
                            [confirms[conn[a]] EXCEPT ![a] = confirms[conn[a]][a] + 1]]
      BY <2>1 DEF Confirm
    <3>. QED BY <2>1, <3>1 DEF IInv, TypeOK
  <2>2. UNCHANGED confirms \/ \E a \in Ends : Confirm(a)
    BY ZenonT(40) DEF Next, vars, history, Join, Accept, Refuse, Cut, HandshakeStep, OnHello, OnChallenge,
       OnResponse, Promote, HandshakeRejects, ReaderStep, OnVerification, PeerMark, OnMessage,
       MessageRejected, OnOther, ConnectionLost, MainStep, ConfirmSet, ConfirmMark,
       HandshakeTimeout, Send, SendFails, Leave, EndSession
  <2>. QED BY <2>1, <2>2
<1>. QED BY <1>1, <1>2

\* Every step leaves on a wire what the other end makes.
LEMMA OwnFramesStep ==
  ASSUME IInv, [Next]_vars
  PROVE  OwnFrames'
<1>1. SUFFICES ASSUME NEW c \in Conns, NEW e \in Ends, NEW i \in 1..Len(wire'[c][e])
               PROVE  wire'[c][e][i] \in Frames(c, Other(e))
  BY DEF OwnFrames
<1>2. \A j \in 1..Len(wire[c][e]) : wire[c][e][j] \in Frames(c, Other(e))
  BY DEF IInv, OwnFrames
<1>3. Len(wire[c][e]) \in Nat
  BY LenProperties DEF IInv, TypeOK, WireType
<1>4. \A type \in FrameTypes : FrameOf(c, Other(e), type) \in Frames(c, Other(e))
  BY DEF Frames
<1>8. LaneStep(c, e)
  BY EveryLaneSteps DEF LanesStep
<1>5. CASE Keeps(c, e)
  BY <1>1, <1>2, <1>5 DEF Keeps
<1>6. CASE Takes(c, e)
  <2>1. i \in 1..Len(wire'[c][e]) /\ i + 1 \in 1..Len(wire[c][e])
    BY <1>1, <1>3, <1>6 DEF Takes
  <2>. QED BY <1>2, <1>6, <2>1 DEF Takes
<1>7. ASSUME NEW type \in FrameTypes, Adds(c, e, type)
      PROVE  wire'[c][e][i] \in Frames(c, Other(e))
  <2>1. CASE i \in 1..Len(wire[c][e])
    BY <1>2, <1>7, <2>1 DEF Adds
  <2>2. CASE i = Len(wire[c][e]) + 1
    BY <1>4, <1>7, <2>2 DEF Adds
  <2>. QED BY SMTT(30), <1>1, <1>3, <1>7, <2>1, <2>2 DEF Adds
<1>. QED BY <1>8, <1>5, <1>6, <1>7 DEF LaneStep

\* Every step leaves on a wire what has been sent, confirmations among it.
LEMMA WireIsSentStep ==
  ASSUME IInv, [Next]_vars
  PROVE  WireIsSent'
<1>1. SUFFICES ASSUME NEW c \in Conns, NEW e \in Ends, NEW i \in 1..Len(wire'[c][e])
               PROVE  /\ wire'[c][e][i].type \in sentTo'[c][e]
                      /\ wire'[c][e][i].type = "verification" => confirms'[c][Other(e)] > 0
  BY DEF WireIsSent
<1>2. \A j \in 1..Len(wire[c][e]) :
          /\ wire[c][e][j].type \in sentTo'[c][e]
          /\ wire[c][e][j].type = "verification" => confirms'[c][Other(e)] > 0
  BY HistoryGrows, OtherEnd DEF IInv, WireIsSent
<1>3. Len(wire[c][e]) \in Nat
  BY LenProperties DEF IInv, TypeOK, WireType
<1>8. LaneStep(c, e)
  BY EveryLaneSteps DEF LanesStep
<1>5. CASE Keeps(c, e)
  BY <1>1, <1>2, <1>5 DEF Keeps
<1>6. CASE Takes(c, e)
  <2>1. i \in 1..Len(wire'[c][e]) /\ i + 1 \in 1..Len(wire[c][e])
    BY <1>1, <1>3, <1>6 DEF Takes
  <2>. QED BY <1>2, <1>6, <2>1 DEF Takes
<1>7. ASSUME NEW type \in FrameTypes, Adds(c, e, type),
             type = "verification" => confirms'[c][Other(e)] > 0
      PROVE  /\ wire'[c][e][i].type \in sentTo'[c][e]
             /\ wire'[c][e][i].type = "verification" => confirms'[c][Other(e)] > 0
  <2>1. CASE i \in 1..Len(wire[c][e])
    BY <1>2, <1>7, <2>1 DEF Adds
  <2>2. CASE i = Len(wire[c][e]) + 1
    BY <1>7, <2>2 DEF Adds
  <2>. QED BY <1>1, <1>3, <1>7, <2>1, <2>2 DEF Adds
<1>. QED BY <1>8, <1>5, <1>6, <1>7 DEF LaneStep

-----------------------------------------------------------------------------
(* What arrives is what is due. *)
\* The first frame of a wire is the next that its reader is to read.
LEMMA HeadIsDue ==
  ASSUME IInv, NEW e \in Ends, conn[e] # 0, wire[conn[e]][e] # <<>>
  PROVE  Frame(e).type \in Due(Read(e) + 1)
<1>1. /\ conn[e] \in Conns /\ Len(wire[conn[e]][e]) \in Nat \ {0}
      /\ Frame(e) = wire[conn[e]][e][1]
  BY FrameArrived
<1>2. InOrder(conn[e], e)
  BY <1>1 DEF IInv, FramesInOrder, Awaits
<1>3. Got(conn[e], e) = Read(e)
  BY DEF Got
<1>. QED BY <1>1, <1>2, <1>3 DEF InOrder

\* A handshake breaks off over a refusal or a disconnect, nothing else.
LEMMA RejectsLastFrame ==
  ASSUME IInv, NEW e \in Ends, HandshakeRejects(e)
  PROVE  \E cause \in {"refused", "left"} : EndSession(e, "failed", cause)
<1>1. conn[e] \in Conns /\ conn[e] # 0 /\ reader[e] \in InHandshake
      /\ ~Arrived(e, reader[e]) /\ wire[conn[e]][e] # <<>>
  BY ArrivedIsExpected, NoConnection DEF HandshakeRejects
<1>2. Frame(e).type # reader[e] /\ Frame(e).type \in Due(Read(e) + 1)
  BY <1>1, FrameArrived, HeadIsDue
<1>3. Frame(e).type \in {"error", "disconnect"}
  BY <1>1, <1>2 DEF InHandshake, InChat, Due, Read
<1>4. \A type : Arrived(e, type) <=> Frame(e).type = type
  BY <1>1, FrameArrived
<1>. DEFINE cause == CASE Arrived(e, "error") -> "refused"
                       [] Arrived(e, "disconnect") -> "left"
                       [] OTHER -> "unexpected"
<1>7. EndSession(e, "failed", cause)
  BY Zenon DEF HandshakeRejects
<1>5. CASE Frame(e).type = "error"
  <2>1. Arrived(e, "error") /\ ~Arrived(e, "disconnect")
    BY <1>4, <1>5
  <2>2. cause = "refused"
    BY <2>1
  <2>. QED BY <1>7, <2>2
<1>6. CASE Frame(e).type = "disconnect"
  <2>1. ~Arrived(e, "error") /\ Arrived(e, "disconnect")
    BY <1>4, <1>6
  <2>2. cause = "left"
    BY <2>1
  <2>. QED BY <1>7, <2>2
<1>. QED BY <1>3, <1>5, <1>6

\* A session's thread stops reading at a disconnect, at nothing else.
LEMMA ChatEndsByDisconnect ==
  ASSUME IInv, NEW e \in Ends, OnOther(e)
  PROVE  EndSession(e, "disconnected", "left")
<1>1. conn[e] # 0 /\ wire[conn[e]][e] # <<>> /\ conn[e] \in Conns /\ crypto[e] = Crypto(conn[e])
  BY DEF OnOther, IInv, TypeOK, SessionType, SessionState, InChat
<1>2. Frame(e).type \in {"verification", "message", "disconnect"}
      /\ Frame(e) = FrameOf(conn[e], Other(e), Frame(e).type)
      /\ \A type : Arrived(e, type) <=> Frame(e).type = type
  BY <1>1, HeadIsDue, FrameArrived DEF OnOther, Due, Read, InChat
<1>3. CASE Frame(e).type = "verification"
  BY <1>1, <1>2, <1>3, VerificationIsGood DEF OnOther
<1>4. CASE Frame(e).type = "message"
  BY <1>1, <1>2, <1>4, MessageOpens DEF OnOther
<1>5. CASE Frame(e).type = "disconnect"
  BY <1>2, <1>5 DEF OnOther
<1>. QED BY <1>2, <1>3, <1>4, <1>5

-----------------------------------------------------------------------------
(* What a step does to the sessions' progress. *)
ReadsSame == \A e \in Ends : Read(e)' = Read(e)

\* An end's session is over; it reads a handshake frame; it reads a later one; it sends
\* one; nothing of the kind.
Quits(a) ==
    /\ conn' = Set(conn, a, 0) /\ Read(Other(a))' = Read(Other(a)) /\ backlog' \subseteq backlog
    /\ \/ UNCHANGED <<wire, sentTo>>
       \/ conn[a] \in Conns /\ Sends(conn[a], Other(a), "disconnect")
Advances(a) ==
    /\ UNCHANGED <<conn, backlog>> /\ conn[a] \in Conns /\ Read(a) \in 0..2
    /\ Read(a)' = Read(a) + 1 /\ Read(Other(a))' = Read(Other(a))
    /\ \/ Read(a) < 2 /\ Answers(conn[a], a, Handshake[Read(a) + 2])
       \/ Read(a) = 2 /\ Reads(conn[a], a)
Receives(a) ==
    /\ UNCHANGED <<conn, backlog>> /\ conn[a] \in Conns /\ Read(a) = 3 /\ ReadsSame
    /\ Reads(conn[a], a)
Transmits(a) ==
    /\ UNCHANGED <<conn, backlog>> /\ conn[a] \in Conns /\ Read(a) = 3 /\ ReadsSame
    /\ \E type \in {"verification", "message"} : Sends(conn[a], Other(a), type)
Rests == UNCHANGED <<conn, backlog, wire, sentTo>> /\ ReadsSame

\* A handshake step is one frame read, and the next one sent.
LEMMA HandshakeAdvances ==
  ASSUME IInv, NEW a \in Ends, OnHello(a) \/ OnChallenge(a) \/ OnResponse(a)
  PROVE  Advances(a)
<1>0. /\ Other(a) \in Ends /\ Other(a) # a
      /\ reader \in [Ends -> {"none"} \cup InHandshake \cup InChat]
  BY OtherEnd DEF IInv, TypeOK, SessionType
<1>1. CASE OnHello(a)
  <2>1. conn[a] \in Conns /\ Answers(conn[a], a, "channel_challenge")
    BY <1>1, HandshakeFrames
  <2>2. /\ UNCHANGED <<conn, backlog>>
        /\ reader' = Set(reader, a, "channel_challenge")
        /\ reader[a] = "hello"
    BY <1>1 DEF OnHello
  <2>. QED BY <1>0, <2>1, <2>2 DEF Advances, Read, Set, Handshake, InChat, InHandshake
<1>2. CASE OnChallenge(a)
  <2>1. conn[a] \in Conns /\ Answers(conn[a], a, "channel_response")
    BY <1>2, HandshakeFrames
  <2>2. /\ UNCHANGED <<conn, backlog>>
        /\ reader' = Set(reader, a, "channel_response")
        /\ reader[a] = "channel_challenge"
    BY <1>2 DEF OnChallenge
  <2>. QED BY <1>0, <2>1, <2>2 DEF Advances, Read, Set, Handshake, InChat, InHandshake
<1>3. CASE OnResponse(a)
  <2>1. conn[a] \in Conns /\ Reads(conn[a], a)
    BY <1>3, HandshakeFrames
  <2>2. /\ UNCHANGED <<conn, backlog>>
        /\ reader' = Set(reader, a, "chat")
        /\ reader[a] = "channel_response"
    BY <1>3 DEF OnResponse, Promote
  <2>. QED BY <1>0, <2>1, <2>2 DEF Advances, Read, Set, Handshake, InChat, InHandshake
<1>. QED BY <1>1, <1>2, <1>3

\* A session that ends leaves the wires as they are, or a disconnect on one.
LEMMA EndingQuits ==
  ASSUME IInv, NEW a \in Ends,
         \/ HandshakeRejects(a) \/ MessageRejected(a) \/ OnOther(a) \/ ConnectionLost(a)
         \/ HandshakeTimeout(a) \/ SendFails(a) \/ Leave(a)
  PROVE  Quits(a)
<1>0. /\ Other(a) \in Ends /\ Other(a) # a
      /\ reader \in [Ends -> {"none"} \cup InHandshake \cup InChat]
  BY OtherEnd DEF IInv, TypeOK, SessionType
<1>1. ASSUME NEW as, NEW cause, EndSession(a, as, cause), UNCHANGED <<wire, sentTo>>
      PROVE  Quits(a)
  BY <1>0, <1>1 DEF EndSession, Quits, Read, Set
<1>2. CASE Leave(a)
  <2>1. /\ conn' = Set(conn, a, 0) /\ reader' = Set(reader, a, "none")
        /\ backlog' = backlog \/ backlog' = {}
    BY <1>2 DEF Leave
  <2>. QED BY <1>0, <1>2, <2>1, SessionFrames DEF Quits, Read, Set
<1>3. CASE HandshakeRejects(a)
  BY <1>1, <1>3, RejectsLastFrame DEF HandshakeRejects
<1>4. CASE OnOther(a)
  BY <1>1, <1>4, ChatEndsByDisconnect DEF OnOther
<1>5. CASE MessageRejected(a) \/ ConnectionLost(a) \/ HandshakeTimeout(a) \/ SendFails(a)
  BY <1>1, <1>5 DEF MessageRejected, ConnectionLost, HandshakeTimeout, SendFails
<1>. QED BY <1>2, <1>3, <1>4, <1>5

\* Every step makes a connection, moves one end's session, or neither.
LEMMA StepMoves ==
  ASSUME IInv, [Next]_vars
  PROVE  \/ \E c \in Conns : Join(c) \/ Accept(c) \/ Refuse(c)
         \/ \E a \in Ends : Quits(a) \/ Advances(a) \/ Receives(a) \/ Transmits(a)
         \/ Rests
<1>0. /\ reader \in [Ends -> {"none"} \cup InHandshake \cup InChat]
      /\ \A e \in Ends : status[e] = "confirmed" => reader[e] \in InChat
  BY DEF IInv, TypeOK, SessionType, SessionState
<1>1. ASSUME NEW a \in Ends, OnVerification(a) \/ OnMessage(a)
      PROVE  Receives(a)
  <2>1. conn[a] \in Conns /\ Reads(conn[a], a)
    BY <1>1, SessionFrames
  <2>2. /\ UNCHANGED <<conn, backlog>> /\ reader[a] = "chat"
        /\ reader' = Set(reader, a, "mark") \/ reader' = reader
    BY <1>1 DEF OnVerification, OnMessage, session
  <2>. QED BY <1>0, <2>1, <2>2 DEF Receives, ReadsSame, Read, Set, InChat
<1>2. ASSUME NEW a \in Ends, Confirm(a) \/ Send(a)
      PROVE  Transmits(a)
  <2>1. conn[a] \in Conns
        /\ \E type \in {"verification", "message"} : Sends(conn[a], Other(a), type)
    BY <1>2, SessionFrames
  <2>2. /\ UNCHANGED <<conn, backlog, reader>> /\ reader[a] \in InChat
    BY <1>0, <1>2 DEF Confirm, Send, session
  <2>. QED BY <1>0, <2>1, <2>2 DEF Transmits, ReadsSame, Read
<1>3. ASSUME UNCHANGED <<conn, backlog, wire, sentTo>>,
             reader' = reader \/ \E a \in Ends : reader[a] = "mark" /\ reader' = Set(reader, a, "chat")
      PROVE  Rests
  BY <1>0, <1>3 DEF Rests, ReadsSame, Read, Set, InChat
<1>4. ASSUME NEW a \in Ends, PeerMark(a) \/ ConfirmSet(a) \/ ConfirmMark(a)
      PROVE  Rests
  BY <1>3, <1>4 DEF PeerMark, ConfirmSet, ConfirmMark, network, history
<1>5. ASSUME NEW c \in Conns, Cut(c)
      PROVE  Rests
  BY <1>3, <1>5 DEF Cut, session, history
<1>6. CASE UNCHANGED vars
  BY <1>3, <1>6 DEF vars, network, session, history
<1>. QED BY <1>1, <1>2, <1>4, <1>5, <1>6, HandshakeAdvances, EndingQuits
     DEF Next, HandshakeStep, ReaderStep, MainStep

-----------------------------------------------------------------------------
(* The wires: what waits there, and in what order. *)
\* A wire is empty when there is no frame on it.
LEMMA EmptyIsNone ==
  ASSUME TypeOK, NEW c \in Conns, NEW e \in Ends
  PROVE  /\ Len(wire[c][e]) \in Nat
         /\ wire[c][e] = <<>> <=> Len(wire[c][e]) = 0
BY LenProperties, EmptySeq DEF TypeOK, WireType

\* Waiting, of one connection.
WaitingAt(c) ==
    /\ c \in backlog => /\ Used(c) /\ conn["host"] # c
                        /\ conn["guest"] = c => Read("guest") = 0
    /\ c \in backlog \/ ~Used(c) => wire[c]["guest"] = <<>>
    /\ ~Used(c) => wire[c]["host"] = <<>> /\ conn["host"] # c /\ conn["guest"] # c

\* Every step leaves connections not accepted, or not made, with nothing to read.
LEMMA WaitingStep ==
  ASSUME IInv, [Next]_vars
  PROVE  Waiting'
<1>1. SUFFICES ASSUME NEW c \in Conns PROVE WaitingAt(c)'
  BY DEF Waiting, WaitingAt
<1>2. WaitingAt(c)
  BY DEF IInv, Waiting, WaitingAt
<1>3. /\ Ends = {"host", "guest"} /\ Other("host") = "guest" /\ Other("guest") = "host"
      /\ conn \in [Ends -> Conns \cup {0}] /\ c # 0
      /\ reader \in [Ends -> {"none"} \cup InHandshake \cup InChat]
  BY NoConnection DEF Ends, Other, IInv, TypeOK, SessionType
<1>4. wire[c]["guest"] = <<>> => Len(wire[c]["guest"]) = 0
  BY <1>3, EmptyIsNone DEF IInv
<1>5. Used(c) => Used(c)'
  BY <1>3, HistoryGrows DEF Used
<1>6. ASSUME NEW d \in Conns, Join(d) PROVE WaitingAt(c)'
  <2>1. /\ Sends(d, "host", "hello") /\ ~Used(d) /\ backlog' = backlog \cup {d}
        /\ conn' = Set(conn, "guest", d) /\ reader' = Set(reader, "guest", "hello")
    BY <1>6, ConnectionFrames DEF Join
  <2>2. CASE c = d
    <3>1. wire'[c]["guest"] = <<>> /\ Used(c)'
      BY <1>2, <1>3, <2>1, <2>2 DEF WaitingAt, Sends, Adds, Keeps, Used
    <3>2. conn'["host"] # c /\ Read("guest")' = 0
      BY <1>2, <1>3, <2>1, <2>2 DEF WaitingAt, Set, Read, InChat
    <3>. QED BY <3>1, <3>2 DEF WaitingAt
  <2>3. CASE c # d
    <3>1. Keeps(c, "host") /\ Keeps(c, "guest")
      BY <1>3, <2>1, <2>3 DEF Sends, KeepsOthers
    <3>2. conn'["host"] = conn["host"] /\ conn'["guest"] # c
      BY <1>3, <2>1, <2>3 DEF Set
    <3>. QED BY <1>2, <2>1, <2>3, <3>1, <3>2 DEF WaitingAt, Keeps, Used
  <2>. QED BY <2>2, <2>3
<1>7. ASSUME NEW d \in Conns, Accept(d) PROVE WaitingAt(c)'
  <2>1. /\ Sends(d, "guest", "hello") /\ d \in backlog /\ backlog' = backlog \ {d}
        /\ conn' = Set(conn, "host", d) /\ reader' = Set(reader, "host", "hello")
    BY <1>7, ConnectionFrames DEF Accept
  <2>2. CASE c = d
    BY <1>2, <1>5, <2>1, <2>2 DEF WaitingAt
  <2>3. CASE c # d
    <3>1. Keeps(c, "host") /\ Keeps(c, "guest")
      BY <1>3, <2>1, <2>3 DEF Sends, KeepsOthers
    <3>2. conn'["guest"] = conn["guest"] /\ conn'["host"] # c /\ Read("guest")' = Read("guest")
      BY <1>3, <2>1, <2>3 DEF Set, Read
    <3>. QED BY <1>2, <2>1, <2>3, <3>1, <3>2 DEF WaitingAt, Keeps, Used
  <2>. QED BY <2>2, <2>3
<1>8. ASSUME NEW d \in Conns, Refuse(d) PROVE WaitingAt(c)'
  <2>1. /\ Sends(d, "guest", "error") /\ d \in backlog /\ backlog' = backlog \ {d}
        /\ UNCHANGED <<conn, reader>>
    BY <1>8, ConnectionFrames DEF Refuse, session
  <2>2. CASE c = d
    BY <1>2, <1>5, <2>1, <2>2 DEF WaitingAt
  <2>3. CASE c # d
    <3>1. Keeps(c, "host") /\ Keeps(c, "guest")
      BY <1>3, <2>1, <2>3 DEF Sends, KeepsOthers
    <3>. QED BY <1>2, <2>1, <2>3, <3>1 DEF WaitingAt, Keeps, Used, Read
  <2>. QED BY <2>2, <2>3
<1>9. ASSUME NEW a \in Ends, Quits(a) PROVE WaitingAt(c)'
  <2>1. /\ conn'[a] = 0 /\ conn'[Other(a)] = conn[Other(a)]
        /\ backlog' \subseteq backlog /\ Read(Other(a))' = Read(Other(a))
    BY <1>3, <1>9 DEF Quits, Set
  <2>2. CASE conn[a] # c \/ UNCHANGED <<wire, sentTo>>
    <3>1. Keeps(c, "host") /\ Keeps(c, "guest")
      BY <1>3, <1>9, <2>2 DEF Quits, Sends, KeepsOthers, Keeps
    <3>. QED BY <1>2, <1>3, <2>1, <3>1 DEF WaitingAt, Keeps, Used
  <2>3. CASE conn[a] = c /\ Sends(c, Other(a), "disconnect")
    <3>1. Used(c) /\ Used(c)'
      BY <1>2, <1>3, <1>5, <2>3 DEF WaitingAt
    <3>2. a = "host" => c \notin backlog
      BY <1>2, <2>3 DEF WaitingAt
    <3>3. a = "guest" => wire'[c]["guest"] = wire[c]["guest"]
      BY <1>3, <2>3 DEF Sends, Keeps
    <3>. QED BY <1>2, <1>3, <2>1, <3>1, <3>2, <3>3 DEF WaitingAt
  <2>. QED BY <1>9, <2>2, <2>3 DEF Quits
<1>10. ASSUME NEW a \in Ends, Advances(a) PROVE WaitingAt(c)'
  <2>1. CASE conn[a] # c
    <3>1. Keeps(c, "host") /\ Keeps(c, "guest")
      BY <1>3, <1>10, <2>1 DEF Advances, Answers, Reads, KeepsOthers
    <3>. QED BY <1>2, <1>3, <1>10, <2>1, <3>1 DEF WaitingAt, Keeps, Used, Advances
  <2>2. CASE conn[a] = c
    <3>1. Used(c) /\ Used(c)' /\ conn' = conn /\ backlog' = backlog
      BY <1>2, <1>3, <1>5, <1>10, <2>2 DEF WaitingAt, Advances
    <3>2. Len(wire[c][a]) > 0
      BY <1>10, <2>2 DEF Advances, Answers, Reads, Takes
    <3>3. c \notin backlog
      BY <1>2, <1>3, <1>4, <2>2, <3>2 DEF WaitingAt
    <3>. QED BY <1>2, <3>1, <3>3 DEF WaitingAt
  <2>. QED BY <2>1, <2>2
<1>11. ASSUME NEW a \in Ends, Receives(a) \/ Transmits(a) PROVE WaitingAt(c)'
  <2>1. /\ conn[a] \in Conns /\ UNCHANGED <<conn, backlog>> /\ Read(a) = 3
        /\ Read("guest")' = Read("guest")
    BY <1>3, <1>11 DEF Receives, Transmits, ReadsSame
  <2>2. CASE conn[a] # c
    <3>1. Keeps(c, "host") /\ Keeps(c, "guest")
      BY <1>3, <1>11, <2>2 DEF Receives, Transmits, Reads, Sends, KeepsOthers
    <3>. QED BY <1>2, <2>1, <3>1 DEF WaitingAt, Keeps, Used
  <2>3. CASE conn[a] = c
    <3>1. Used(c) /\ Used(c)'
      BY <1>2, <1>3, <1>5, <2>3 DEF WaitingAt
    <3>2. c \notin backlog
      BY <1>2, <1>3, <2>1, <2>3 DEF WaitingAt
    <3>. QED BY <1>2, <2>1, <3>1, <3>2 DEF WaitingAt
  <2>. QED BY <2>2, <2>3
<1>12. CASE Rests
  BY <1>2, <1>3, <1>12 DEF WaitingAt, Rests, ReadsSame, Used
<1>. QED BY <1>6, <1>7, <1>8, <1>9, <1>10, <1>11, <1>12, StepMoves

\* The first frame of a wire has been sent.
LEMMA HeadIsSent ==
  ASSUME IInv, NEW c \in Conns, NEW e \in Ends, Len(wire[c][e]) > 0
  PROVE  /\ wire[c][e][1].type \in sentTo[c][e]
         /\ wire[c][e][1].type = "verification" => confirms[c][Other(e)] > 0
<1>1. Len(wire[c][e]) \in Nat
  BY EmptyIsNone DEF IInv
<1>2. 1 \in 1..Len(wire[c][e])
  BY <1>1
<1>. QED BY <1>2 DEF IInv, WireIsSent

\* Every step leaves the frames of every wire in order.
LEMMA FramesInOrderStep ==
  ASSUME IInv, [Next]_vars
  PROVE  FramesInOrder'
<1>1. SUFFICES ASSUME NEW c \in Conns, NEW e \in Ends, Awaits(c, e)'
               PROVE  InOrder(c, e)' /\ InStep(c, e)'
  BY DEF FramesInOrder
<1>. DEFINE o == Other(e)
<1>2. /\ o \in Ends /\ o # e /\ Other(o) = e /\ c # 0 /\ \A a \in Ends : a = e \/ a = o
      /\ Ends = {"host", "guest"}
      /\ conn \in [Ends -> Conns \cup {0}]
      /\ reader \in [Ends -> {"none"} \cup InHandshake \cup InChat]
  BY OtherEnd, NoConnection DEF IInv, TypeOK, SessionType, Ends
<1>3. /\ Read(e) \in 0..3 /\ Read(o) \in 0..3 /\ Got(c, e) \in 0..3
      /\ Len(wire[c][e]) \in Nat /\ Len(wire[c][o]) \in Nat
  BY <1>2, EmptyIsNone DEF Read, Got, IInv
<1>4. Awaits(c, e) => InOrder(c, e) /\ InStep(c, e)
  BY DEF IInv, FramesInOrder
<1>5. WaitingAt(c)
  BY DEF IInv, Waiting, WaitingAt
<1>. HIDE DEF o
\* A lane that is left alone.
<1>6. ASSUME wire'[c][e] = wire[c][e], Awaits(c, e), Got(c, e)' = Got(c, e),
             conn'[o] = c => conn[o] = c /\ Read(o)' = Read(o)
      PROVE  InOrder(c, e)' /\ InStep(c, e)'
  <2>1. InOrder(c, e)'
    <3>. SUFFICES ASSUME NEW i \in 1..Len(wire'[c][e])
                  PROVE  wire'[c][e][i].type \in Due(Got(c, e) + i)
      BY <1>6 DEF InOrder
    <3>. QED BY <1>4, <1>6 DEF InOrder
  <2>2. InStep(c, e)'
    BY <1>4, <1>6 DEF InStep, o
  <2>. QED BY <2>1, <2>2
\* A frame is added to it, by the other end or by the host that turns away.
<1>7. ASSUME NEW type \in FrameTypes, Adds(c, e, type), Awaits(c, e), Got(c, e)' = Got(c, e),
             type \in Due(Got(c, e) + Len(wire[c][e]) + 1)
      PROVE  InOrder(c, e)'
  <2>. SUFFICES ASSUME NEW i \in 1..Len(wire'[c][e])
                PROVE  wire'[c][e][i].type \in Due(Got(c, e) + i)
    BY <1>7 DEF InOrder
  <2>1. CASE i \in 1..Len(wire[c][e])
    BY <1>4, <1>7, <2>1 DEF Adds, InOrder
  <2>2. CASE i = Len(wire[c][e]) + 1
    <3>1. Got(c, e) + i = Got(c, e) + Len(wire[c][e]) + 1
      BY <1>3, <2>2
    <3>. QED BY <1>7, <2>2, <3>1 DEF Adds
  <2>. QED BY SMTT(30), <1>3, <1>7, <2>1, <2>2 DEF Adds
<1>8. ASSUME NEW type \in FrameTypes, Adds(c, e, type), type \notin {"error", "disconnect"},
             \A i \in 1..Len(wire[c][e]) : wire[c][e][i].type \notin {"error", "disconnect"}
      PROVE  \A i \in 1..Len(wire'[c][e]) : wire'[c][e][i].type \notin {"error", "disconnect"}
  <2>1. \A i \in 1..Len(wire'[c][e]) : i \in 1..Len(wire[c][e]) \/ i = Len(wire[c][e]) + 1
    BY <1>3, <1>8 DEF Adds
  <2>. QED BY <1>8, <2>1 DEF Adds
<1>9. ASSUME NEW d \in Conns, Join(d) PROVE InOrder(c, e)' /\ InStep(c, e)'
  <2>1. /\ Sends(d, "host", "hello")
        /\ ~Used(d)
        /\ backlog' = backlog \cup {d}
        /\ conn["guest"] = 0
        /\ conn' = Set(conn, "guest", d) /\ reader' = Set(reader, "guest", "hello")
    BY <1>9, ConnectionFrames DEF Join
  <2>2. /\ conn'["host"] = conn["host"] /\ conn'["guest"] = d
        /\ Read("host")' = Read("host") /\ Read("guest")' = 0
    BY <1>2, <2>1 DEF Set, Read, InChat
  <2>3. CASE c = d
    <3>1. conn["host"] # c /\ wire[c]["host"] = <<>> /\ wire[c]["guest"] = <<>>
      BY <1>5, <2>1, <2>3 DEF WaitingAt
    <3>2. Len(wire[c]["host"]) = 0 /\ Len(wire[c]["guest"]) = 0
      BY <3>1, <1>2, EmptyIsNone DEF IInv
    <3>3. CASE e = "host"
      <4>1. /\ Len(wire'[c][e]) = 1 /\ wire'[c][e][1].type = "hello" /\ o = "guest"
        BY <1>2, <2>1, <2>3, <3>2, <3>3 DEF Sends, Adds
      <4>2. Got(c, e)' = 0 /\ Read(o)' = 0
        BY <2>2, <3>1, <3>3, <4>1 DEF Got
      <4>. QED BY <4>1, <4>2 DEF InOrder, InStep, Due, o
    <3>4. CASE e = "guest"
      <4>1. Len(wire'[c][e]) = 0 /\ o = "host" /\ conn'[o] # c
        BY <1>2, <2>1, <2>2, <2>3, <3>1, <3>2, <3>4 DEF Sends, Keeps, Other
      <4>. QED BY <4>1 DEF InOrder, InStep, o
    <3>. QED BY <1>2, <3>3, <3>4
  <2>4. CASE c # d
    <3>1. wire'[c][e] = wire[c][e]
      BY <1>2, <2>1, <2>4 DEF Sends, KeepsOthers, Keeps
    <3>2. Awaits(c, e) /\ Got(c, e)' = Got(c, e)
      BY <1>1, <1>2, <2>1, <2>2, <2>4 DEF Awaits, Got
    <3>. QED BY <1>2, <1>6, <2>2, <2>4, <3>1, <3>2
  <2>. QED BY <2>3, <2>4
<1>10. ASSUME NEW d \in Conns, Accept(d) PROVE InOrder(c, e)' /\ InStep(c, e)'
  <2>1. /\ Sends(d, "guest", "hello")
        /\ d \in backlog
        /\ backlog' = backlog \ {d}
        /\ conn["host"] = 0
        /\ conn' = Set(conn, "host", d) /\ reader' = Set(reader, "host", "hello")
    BY <1>10, ConnectionFrames DEF Accept
  <2>2. /\ conn'["guest"] = conn["guest"] /\ conn'["host"] = d
        /\ Read("guest")' = Read("guest") /\ Read("host")' = 0
    BY <1>2, <2>1 DEF Set, Read, InChat
  <2>3. CASE c = d
    <3>1. wire[c]["guest"] = <<>> /\ (conn["guest"] = c => Read("guest") = 0)
      BY <1>5, <2>1, <2>3 DEF WaitingAt
    <3>2. Len(wire[c]["guest"]) = 0
      BY <3>1, <1>2, EmptyIsNone DEF IInv
    <3>3. CASE e = "guest"
      <4>1. /\ Len(wire'[c][e]) = 1 /\ wire'[c][e][1].type = "hello" /\ o = "host"
        BY <1>2, <2>1, <2>3, <3>2, <3>3 DEF Sends, Adds
      <4>2. Got(c, e)' = 0 /\ Read(o)' = 0
        BY <1>2, <2>2, <3>1, <3>3, <4>1 DEF Got
      <4>. QED BY <4>1, <4>2 DEF InOrder, InStep, Due, o
    <3>4. CASE e = "host"
      <4>1. wire'[c][e] = wire[c][e] /\ o = "guest"
        BY <1>2, <2>1, <2>3, <3>4 DEF Sends, Keeps, Other
      <4>2. Awaits(c, e) /\ Got(c, e) = 0 /\ Got(c, e)' = 0
        BY <1>2, <2>1, <2>2, <2>3, <3>4 DEF Awaits, Got
      <4>. QED BY <1>6, <2>2, <4>1, <4>2
    <3>. QED BY <1>2, <3>3, <3>4
  <2>4. CASE c # d
    <3>1. wire'[c][e] = wire[c][e]
      BY <1>2, <2>1, <2>4 DEF Sends, KeepsOthers, Keeps
    <3>2. Awaits(c, e) /\ Got(c, e)' = Got(c, e)
      BY <1>1, <1>2, <2>1, <2>2, <2>4 DEF Awaits, Got
    <3>. QED BY <1>2, <1>6, <2>2, <2>4, <3>1, <3>2
  <2>. QED BY <2>3, <2>4
<1>11. ASSUME NEW d \in Conns, Refuse(d) PROVE InOrder(c, e)' /\ InStep(c, e)'
  <2>1. /\ Sends(d, "guest", "error") /\ d \in backlog /\ backlog' = backlog \ {d}
        /\ UNCHANGED <<conn, reader>>
    BY <1>11, ConnectionFrames DEF Refuse, session
  <2>2. Awaits(c, e) /\ Got(c, e)' = Got(c, e) /\ Read(o)' = Read(o)
    BY <1>1, <2>1 DEF Awaits, Got, Read
  <2>3. CASE c = d /\ e = "guest"
    <3>1. /\ wire[c]["guest"] = <<>> /\ conn["host"] # c
          /\ conn["guest"] = c => Read("guest") = 0
      BY <1>5, <2>1, <2>3 DEF WaitingAt
    <3>2. Len(wire[c]["guest"]) = 0
      BY <3>1, <1>2, EmptyIsNone DEF IInv
    <3>3. Got(c, e) = 0 /\ Adds(c, e, "error") /\ "error" \in FrameTypes
      BY <2>1, <2>3, <3>1 DEF Sends, Got, FrameTypes
    <3>4. InOrder(c, e)'
      BY <1>7, <2>2, <2>3, <3>2, <3>3 DEF Due
    <3>5. conn'[o] # c
      BY <2>1, <2>3, <3>1 DEF o, Other
    <3>. QED BY <3>4, <3>5 DEF InStep, o
  <2>4. CASE c # d \/ e = "host"
    <3>1. wire'[c][e] = wire[c][e]
      BY <1>2, <2>1, <2>4 DEF Sends, KeepsOthers, Keeps, Other
    <3>. QED BY <1>6, <2>1, <2>2, <3>1
  <2>. QED BY <1>2, <2>3, <2>4
<1>12. ASSUME NEW a \in Ends, Quits(a) PROVE InOrder(c, e)' /\ InStep(c, e)'
  <2>1. /\ conn'[a] = 0 /\ conn'[Other(a)] = conn[Other(a)]
        /\ backlog' \subseteq backlog /\ Read(Other(a))' = Read(Other(a))
    BY <1>2, <1>12, OtherEnd DEF Quits, Set
  <2>2. Awaits(c, e)
    BY <1>1, <1>2, <2>1 DEF Awaits, o
  <2>3. CASE a = e
    <3>1. wire'[c][e] = wire[c][e]
      BY <1>2, <1>12, <2>3 DEF Quits, Sends, KeepsOthers, Keeps, o
    <3>2. c \in backlog /\ e = "host" /\ conn'[o] = conn[o] /\ Read(o)' = Read(o)
      BY <1>1, <1>2, <2>1, <2>3 DEF Awaits, o
    <3>3. Got(c, e) = 0 /\ Got(c, e)' = 0
      BY <1>2, <1>5, <2>1, <2>3, <3>2 DEF WaitingAt, Got
    <3>. QED BY <1>6, <2>2, <3>1, <3>2, <3>3
  <2>4. CASE a = o
    <3>1. conn'[e] = conn[e] /\ Read(e)' = Read(e) /\ conn'[o] # c
      BY <1>2, <2>1, <2>4
    <3>2. Got(c, e)' = Got(c, e)
      BY <3>1 DEF Got
    <3>3. CASE wire'[c][e] = wire[c][e]
      BY <1>6, <2>2, <3>1, <3>2, <3>3
    <3>4. CASE conn[o] = c /\ Adds(c, e, "disconnect")
      <4>1. Got(c, e) + Len(wire[c][e]) >= 1
        BY <1>3, <1>4, <2>2, <3>4 DEF InStep, o
      <4>2. "disconnect" \in Due(Got(c, e) + Len(wire[c][e]) + 1) /\ "disconnect" \in FrameTypes
        BY <1>3, <4>1 DEF Due, FrameTypes
      <4>3. InOrder(c, e)'
        BY <1>7, <2>2, <3>2, <3>4, <4>2
      <4>. QED BY <3>1, <4>3 DEF InStep, o
    <3>. QED BY <1>2, <1>12, <2>4, <3>3, <3>4 DEF Quits, Sends, KeepsOthers, Keeps
  <2>. QED BY <1>2, <2>3, <2>4
<1>13. ASSUME NEW a \in Ends, Advances(a) PROVE InOrder(c, e)' /\ InStep(c, e)'
  <2>1. /\ UNCHANGED <<conn, backlog>>
        /\ Read(a)' = Read(a) + 1
        /\ Read(Other(a))' = Read(Other(a))
        /\ conn[a] \in Conns /\ Read(a) \in 0..2
    BY <1>13 DEF Advances
  <2>2. Awaits(c, e)
    BY <1>1, <2>1 DEF Awaits
  <2>3. CASE conn[a] # c
    <3>1. wire'[c][e] = wire[c][e]
      BY <1>2, <1>13, <2>3 DEF Advances, Answers, Reads, KeepsOthers, Keeps
    <3>2. Got(c, e)' = Got(c, e) /\ (conn'[o] = c => Read(o)' = Read(o))
      BY <1>2, <2>1, <2>3 DEF Got, o
    <3>. QED BY <1>6, <2>1, <2>2, <3>1, <3>2
  <2>4. CASE conn[a] = c /\ a = e
    <3>1. Takes(c, e) /\ Got(c, e)' = Got(c, e) + 1 /\ Read(o)' = Read(o)
      BY <1>13, <2>1, <2>4 DEF Advances, Answers, Reads, Got, o
    <3>2. InOrder(c, e)'
      <4>. SUFFICES ASSUME NEW i \in 1..Len(wire'[c][e])
                    PROVE  wire'[c][e][i].type \in Due(Got(c, e)' + i)
        BY DEF InOrder
      <4>1. i + 1 \in 1..Len(wire[c][e]) /\ Got(c, e)' + i = Got(c, e) + (i + 1)
        BY <1>3, <3>1 DEF Takes
      <4>2. wire[c][e][i + 1].type \in Due(Got(c, e) + (i + 1))
        BY <1>4, <2>2, <4>1 DEF InOrder
      <4>3. wire'[c][e][i] = wire[c][e][i + 1]
        BY <3>1 DEF Takes
      <4>. QED BY <4>1, <4>2, <4>3
    <3>3. InStep(c, e)'
      <4>. SUFFICES ASSUME conn[o] = c
                    PROVE  /\ \A i \in 1..Len(wire'[c][e]) :
                             wire'[c][e][i].type \notin {"error", "disconnect"}
                           /\ Read(o) < 3 => Got(c, e)' + Len(wire'[c][e]) = Read(o) + 1
                           /\ Read(o) = 3 => Got(c, e)' + Len(wire'[c][e]) >= 3
        BY <2>1, <3>1 DEF InStep, o
      <4>1. /\ \A i \in 1..Len(wire[c][e]) : wire[c][e][i].type \notin {"error", "disconnect"}
            /\ Read(o) < 3 => Got(c, e) + Len(wire[c][e]) = Read(o) + 1
            /\ Read(o) = 3 => Got(c, e) + Len(wire[c][e]) >= 3
        BY <1>4, <2>2 DEF InStep, o
      <4>2. Got(c, e)' + Len(wire'[c][e]) = Got(c, e) + Len(wire[c][e])
        BY <1>3, <3>1 DEF Takes
      <4>3. \A i \in 1..Len(wire'[c][e]) :
               /\ i + 1 \in 1..Len(wire[c][e])
               /\ wire'[c][e][i] = wire[c][e][i + 1]
        BY <1>3, <3>1 DEF Takes
      <4>. QED BY <4>1, <4>2, <4>3
    <3>. QED BY <3>2, <3>3
  <2>5. CASE conn[a] = c /\ a = o
    <3>1. Got(c, e)' = Got(c, e) /\ Read(o)' = Read(o) + 1 /\ conn'[o] = c
      BY <1>2, <2>1, <2>5 DEF Got
    <3>2. /\ \A i \in 1..Len(wire[c][e]) : wire[c][e][i].type \notin {"error", "disconnect"}
          /\ Got(c, e) + Len(wire[c][e]) = Read(o) + 1
      BY <1>4, <2>1, <2>2, <2>5 DEF InStep, o
    <3>3. CASE Read(o) < 2 /\ Answers(c, o, Handshake[Read(o) + 2])
      <4>. DEFINE type == Handshake[Read(o) + 2]
      <4>1. /\ type \in FrameTypes /\ type \in Due(Read(o) + 2)
            /\ type \notin {"error", "disconnect"}
        BY <1>3, <3>3 DEF Handshake, FrameTypes, Due
      <4>2. Adds(c, e, type)
        BY <1>2, <3>3 DEF Answers
      <4>. HIDE DEF type
      <4>3. Got(c, e) + Len(wire[c][e]) + 1 = Read(o) + 2
        BY <1>3, <3>2
      <4>4. InOrder(c, e)'
        BY <1>7, <2>2, <3>1, <4>1, <4>2, <4>3
      <4>5. Got(c, e)' + Len(wire'[c][e]) = Read(o)' + 1
        BY <1>3, <3>1, <3>2, <4>2 DEF Adds
      <4>6. \A i \in 1..Len(wire'[c][e]) : wire'[c][e][i].type \notin {"error", "disconnect"}
        BY <1>8, <3>2, <4>1, <4>2
      <4>. QED BY <1>3, <3>1, <3>3, <4>4, <4>5, <4>6 DEF InStep, o
    <3>4. CASE Read(o) = 2 /\ Reads(c, o)
      <4>1. wire'[c][e] = wire[c][e]
        BY <1>2, <3>4 DEF Reads, Keeps
      <4>2. InOrder(c, e)'
        BY <1>4, <2>2, <3>1, <4>1 DEF InOrder
      <4>. QED BY <3>1, <3>2, <3>4, <4>1, <4>2 DEF InStep, o
    <3>. QED BY <1>13, <2>5, <3>3, <3>4 DEF Advances
  <2>. QED BY <1>2, <2>3, <2>4, <2>5
<1>14. ASSUME NEW a \in Ends, Receives(a) PROVE InOrder(c, e)' /\ InStep(c, e)'
  <2>1. UNCHANGED <<conn, backlog>> /\ Read(e)' = Read(e) /\ Read(o)' = Read(o) /\ Read(a) = 3
    BY <1>2, <1>14 DEF Receives, ReadsSame
  <2>2. Awaits(c, e) /\ Got(c, e)' = Got(c, e)
    BY <1>1, <2>1 DEF Awaits, Got
  <2>3. CASE conn[a] = c /\ a = e
    <3>1. Takes(c, e) /\ Got(c, e) = 3
      BY <1>14, <2>1, <2>3 DEF Receives, Reads, Got
    <3>2. \A i \in 1..Len(wire'[c][e]) :
             /\ i + 1 \in 1..Len(wire[c][e])
             /\ wire'[c][e][i] = wire[c][e][i + 1]
      BY SMTT(30), <1>3, <3>1 DEF Takes
    <3>3. InOrder(c, e)'
      <4>. SUFFICES ASSUME NEW i \in 1..Len(wire'[c][e])
                    PROVE  wire'[c][e][i].type \in Due(3 + i)
        BY <2>2, <3>1 DEF InOrder
      <4>1. wire[c][e][i + 1].type \in Due(3 + (i + 1))
        BY <1>4, <2>2, <3>1, <3>2 DEF InOrder
      <4>2. i \in Nat \ {0} /\ Due(3 + i) = Due(3 + (i + 1))
        BY <3>1 DEF Due, Takes
      <4>. QED BY <3>2, <4>1, <4>2
    <3>4. InStep(c, e)'
      <4>. SUFFICES ASSUME conn[o] = c
                    PROVE  /\ \A i \in 1..Len(wire'[c][e]) :
                             wire'[c][e][i].type \notin {"error", "disconnect"}
                           /\ Read(o) < 3 => 3 + Len(wire'[c][e]) = Read(o) + 1
                           /\ Read(o) = 3 => 3 + Len(wire'[c][e]) >= 3
        BY <2>1, <2>2, <3>1 DEF InStep, o
      <4>1. /\ \A i \in 1..Len(wire[c][e]) : wire[c][e][i].type \notin {"error", "disconnect"}
            /\ Read(o) < 3 => Got(c, e) + Len(wire[c][e]) = Read(o) + 1
        BY <1>4, <2>2 DEF InStep, o
      <4>2. Len(wire[c][e]) > 0 /\ Len(wire'[c][e]) = Len(wire[c][e]) - 1
        BY <3>1 DEF Takes
      <4>3. ~(Read(o) < 3)
        BY <1>3, <3>1, <4>1, <4>2
      <4>4. 3 + Len(wire'[c][e]) >= 3
        BY <1>3, <4>2
      <4>5. \A i \in 1..Len(wire'[c][e]) : wire'[c][e][i].type \notin {"error", "disconnect"}
        BY <3>2, <4>1
      <4>. QED BY <4>3, <4>4, <4>5
    <3>. QED BY <3>3, <3>4
  <2>4. CASE conn[a] # c \/ a = o
    <3>1. wire'[c][e] = wire[c][e]
      BY <1>2, <1>14, <2>4 DEF Receives, Reads, KeepsOthers, Keeps, o
    <3>. QED BY <1>6, <2>1, <2>2, <3>1
  <2>. QED BY <1>2, <2>3, <2>4
<1>15. ASSUME NEW a \in Ends, Transmits(a) PROVE InOrder(c, e)' /\ InStep(c, e)'
  <2>1. UNCHANGED <<conn, backlog>> /\ Read(e)' = Read(e) /\ Read(o)' = Read(o) /\ Read(a) = 3
    BY <1>2, <1>15 DEF Transmits, ReadsSame
  <2>2. Awaits(c, e) /\ Got(c, e)' = Got(c, e)
    BY <1>1, <2>1 DEF Awaits, Got
  <2>3. PICK type \in {"verification", "message"} : Sends(conn[a], Other(a), type)
    BY <1>15 DEF Transmits
  <2>4. CASE conn[a] = c /\ a = o
    <3>1. Adds(c, e, type) /\ type \in FrameTypes /\ type \notin {"error", "disconnect"}
      BY <1>2, <2>3, <2>4 DEF Sends, FrameTypes
    <3>2. Got(c, e) + Len(wire[c][e]) >= 3
          /\ \A i \in 1..Len(wire[c][e]) : wire[c][e][i].type \notin {"error", "disconnect"}
      BY <1>4, <2>1, <2>2, <2>4 DEF InStep, o
    <3>3. type \in Due(Got(c, e) + Len(wire[c][e]) + 1)
      BY <1>3, <3>2 DEF Due
    <3>4. InOrder(c, e)'
      BY <1>7, <2>2, <3>1, <3>3
    <3>5. \A i \in 1..Len(wire'[c][e]) : wire'[c][e][i].type \notin {"error", "disconnect"}
      BY <1>8, <3>1, <3>2
    <3>6. Got(c, e)' + Len(wire'[c][e]) >= 3
      BY <1>3, <2>2, <3>1, <3>2 DEF Adds
    <3>. QED BY <2>1, <2>4, <3>4, <3>5, <3>6 DEF InStep, o
  <2>5. CASE conn[a] # c \/ a = e
    <3>1. wire'[c][e] = wire[c][e]
      BY <1>2, <1>15, <2>3, <2>5 DEF o, Transmits, Sends, KeepsOthers, Keeps
    <3>. QED BY <1>6, <2>1, <2>2, <3>1
  <2>. QED BY <1>2, <2>4, <2>5
<1>16. CASE Rests
  <2>1. Awaits(c, e) /\ Got(c, e)' = Got(c, e) /\ Read(o)' = Read(o)
    BY <1>1, <1>2, <1>16 DEF Rests, ReadsSame, Awaits, Got
  <2>. QED BY <1>6, <1>16, <2>1 DEF Rests
<1>. QED BY <1>9, <1>10, <1>11, <1>12, <1>13, <1>14, <1>15, <1>16, StepMoves

-----------------------------------------------------------------------------
(* The sessions. *)
\* Every step preserves the types.
LEMMA TypeOKStep ==
  ASSUME IInv, [Next]_vars
  PROVE  TypeOK'
<1>0. /\ TypeOK /\ OwnFrames /\ SessionState /\ WireIsSent /\ Confirmation /\ Waiting
      /\ FramesInOrder /\ NoUnexpectedFrame
  BY DEF IInv
<1>. USE <1>0, EveryLaneSteps DEF TypeOK, SessionType, InHandshake, InChat, Set, network,
   flags, secrets, session, main, history
<1>1. ASSUME NEW d \in Conns, Join(d) \/ Accept(d) \/ Refuse(d) \/ Cut(d) PROVE TypeOK'
  <2>1. CASE Join(d)
    BY <2>1 DEF Join, Used, Reset
  <2>2. CASE Accept(d)
    BY <2>2 DEF Accept, Reset
  <2>3. CASE Refuse(d)
    BY <2>3 DEF Refuse
  <2>4. CASE Cut(d)
    BY <2>4 DEF Cut
  <2>. QED BY <1>1, <2>1, <2>2, <2>3, <2>4
<1>2. ASSUME NEW a \in Ends, HandshakeStep(a) \/ ReaderStep(a) \/ MainStep(a) PROVE TypeOK'
  <2>1. CASE OnHello(a)
    <3>1. conn[a] \in Conns /\ derived' = Set(derived, a, Transcript(conn[a]))
      BY <2>1, HandshakeFrames
    <3>2. /\ reader' = Set(reader, a, "channel_challenge") /\ reader[a] = "hello"
          /\ UNCHANGED <<up, open, backlog, hosting, conn, status, crypto, flags, main, why,
                         confirms, messages>>
      BY <2>1 DEF OnHello
    <3>. QED BY <3>1, <3>2
  <2>2. CASE OnChallenge(a)
    BY <2>2 DEF OnChallenge
  <2>3. CASE OnResponse(a)
    <3>1. reader[a] = "channel_response" /\ conn[a] \in Conns
      BY <2>3, HandshakeFrames DEF OnResponse
    <3>2. derived[a] = Transcript(conn[a])
      BY <3>1 DEF SessionState
    <3>3. crypto' = Set(crypto, a, Crypto(conn[a]))
      BY <2>3, <3>2 DEF OnResponse, Promote, Crypto
    <3>. QED BY <2>3, <3>1, <3>3 DEF OnResponse, Promote
  <2>4. CASE HandshakeRejects(a)
    <3>1. \E cause \in {"refused", "left"} : EndSession(a, "failed", cause)
      BY <2>4, RejectsLastFrame
    <3>2. conn[a] # 0 /\ conn[a] \in Conns /\ UNCHANGED <<wire, sentTo>>
      BY <2>4, ArrivedIsExpected, NoConnection DEF HandshakeRejects
    <3>. QED BY <3>1, <3>2 DEF EndSession, Reset
  <2>5. CASE OnVerification(a)
    BY <2>5 DEF OnVerification
  <2>6. CASE PeerMark(a)
    BY <2>6 DEF PeerMark, MarkIfComplete
  <2>7. CASE MessageRejected(a)
    BY <2>7 DEF MessageRejected, EndSession, Reset, SessionState
  <2>8. CASE OnOther(a)
    <3>1. EndSession(a, "disconnected", "left")
      BY <2>8, ChatEndsByDisconnect
    <3>2. conn[a] # 0 /\ conn[a] \in Conns /\ UNCHANGED <<wire, sentTo>>
      BY <2>8 DEF OnOther, SessionState, SessionType, InChat
    <3>. QED BY <3>1, <3>2 DEF EndSession, Reset
  <2>9. CASE ConnectionLost(a)
    BY <2>9 DEF ConnectionLost, EndSession, Reset, Handshaking, SessionState
  <2>10. CASE ConfirmSet(a)
    BY <2>10 DEF ConfirmSet
  <2>11. CASE ConfirmMark(a)
    BY <2>11 DEF ConfirmMark, MarkIfComplete
  <2>12. CASE OnMessage(a)
    BY <2>12 DEF OnMessage
  <2>. QED BY <1>2, <2>1, <2>2, <2>3, <2>4, <2>5, <2>6, <2>7, <2>8, <2>9, <2>10, <2>11,
     <2>12 DEF HandshakeStep, ReaderStep, MainStep
<1>3. ASSUME NEW a \in Ends, HandshakeTimeout(a) \/ Confirm(a) \/ Send(a) \/ SendFails(a)
   \/ Leave(a) PROVE TypeOK'
  <2>1. CASE HandshakeTimeout(a)
    BY <2>1, ArrivedIsExpected DEF HandshakeTimeout, Handshaking, EndSession, Reset,
       SessionState
  <2>2. CASE Confirm(a)
    BY <2>2 DEF Confirm, Other
  <2>3. CASE Send(a)
    BY <2>3 DEF Send, Other
  <2>4. CASE SendFails(a)
    BY <2>4 DEF SendFails, EndSession, Reset, SessionState
  <2>5. CASE Leave(a)
    BY <2>5 DEF Leave, Reset, Other
  <2>. QED BY <1>3, <2>1, <2>2, <2>3, <2>4, <2>5
<1>4. CASE UNCHANGED vars
  BY <1>4 DEF vars
<1>. QED BY <1>1, <1>2, <1>3, <1>4 DEF Next

\* Every step leaves the status, the transcript and the code with the reader's place.
LEMMA SessionStateStep ==
  ASSUME IInv, [Next]_vars
  PROVE  SessionState'
<1>0. /\ TypeOK /\ OwnFrames /\ SessionState /\ WireIsSent /\ Confirmation /\ Waiting
      /\ FramesInOrder /\ NoUnexpectedFrame
  BY DEF IInv
<1>. USE <1>0, HistoryGrows, NoConnection DEF SessionState, SessionType, InHandshake,
   InChat, TypeOK, Set, network, flags, secrets, session, main, history
<1>1. ASSUME NEW d \in Conns, Join(d) \/ Accept(d) \/ Refuse(d) \/ Cut(d) PROVE
   SessionState'
  <2>1. CASE Join(d)
    BY <2>1 DEF Join, Used, Reset, Ends
  <2>2. CASE Accept(d)
    BY <2>2 DEF Accept, Reset, Ends
  <2>3. CASE Refuse(d) \/ Cut(d)
    BY <2>3 DEF Refuse, Cut
  <2>. QED BY <1>1, <2>1, <2>2, <2>3
<1>2. ASSUME NEW a \in Ends, HandshakeStep(a) \/ ReaderStep(a) \/ MainStep(a) PROVE
   SessionState'
  <2>1. CASE OnHello(a)
    <3>1. conn[a] \in Conns /\ derived' = Set(derived, a, Transcript(conn[a]))
      BY <2>1, HandshakeFrames
    <3>2. /\ reader' = Set(reader, a, "channel_challenge") /\ reader[a] = "hello"
          /\ UNCHANGED <<up, open, backlog, hosting, conn, status, crypto, flags, main, why,
                         confirms, messages>>
      BY <2>1 DEF OnHello
    <3>. QED BY <3>1, <3>2
  <2>2. CASE OnChallenge(a)
    BY <2>2 DEF OnChallenge
  <2>3. CASE OnResponse(a)
    <3>1. /\ reader[a] = "channel_response" /\ conn[a] \in Conns
          /\ wire[conn[a]][a][1].type = "channel_response" /\ Len(wire[conn[a]][a]) > 0
      BY <2>3, HandshakeFrames DEF OnResponse, Reads, Takes
    <3>2. derived[a] = Transcript(conn[a])
      BY <3>1
    <3>3. crypto' = Set(crypto, a, Crypto(conn[a]))
      BY <2>3, <3>2 DEF OnResponse, Promote, Crypto
    <3>4. "channel_response" \in sentTo[conn[a]][a]
      BY <3>1, HeadIsSent
    <3>5. /\ reader' = Set(reader, a, "chat") /\ status' = Set(status, a, "confirmed")
          /\ derived' = Set(derived, a, <<>>) /\ UNCHANGED <<conn, sentTo>>
      BY <2>3 DEF OnResponse, Promote
    <3>. QED BY <3>1, <3>3, <3>4, <3>5
  <2>4. CASE HandshakeRejects(a)
    <3>1. \E cause \in {"refused", "left"} : EndSession(a, "failed", cause)
      BY <2>4, RejectsLastFrame
    <3>2. conn[a] # 0 /\ conn[a] \in Conns /\ UNCHANGED <<wire, sentTo>>
      BY <2>4, ArrivedIsExpected, NoConnection DEF HandshakeRejects
    <3>. QED BY <3>1, <3>2 DEF EndSession, Reset
  <2>5. CASE OnVerification(a)
    BY <2>5 DEF OnVerification
  <2>6. CASE PeerMark(a)
    BY <2>6 DEF PeerMark, MarkIfComplete
  <2>7. CASE MessageRejected(a)
    BY <2>7 DEF MessageRejected, EndSession, Reset
  <2>8. CASE OnOther(a)
    <3>1. EndSession(a, "disconnected", "left")
      BY <2>8, ChatEndsByDisconnect
    <3>2. conn[a] # 0 /\ conn[a] \in Conns /\ UNCHANGED <<wire, sentTo>>
      BY <2>8 DEF OnOther, SessionState, SessionType, InChat
    <3>. QED BY <3>1, <3>2 DEF EndSession, Reset
  <2>9. CASE ConnectionLost(a)
    BY <2>9 DEF ConnectionLost, EndSession, Reset, Handshaking
  <2>10. CASE OnMessage(a) \/ ConfirmSet(a) \/ ConfirmMark(a)
    BY <2>10 DEF OnMessage, ConfirmSet, ConfirmMark, MarkIfComplete
  <2>. QED BY <1>2, <2>1, <2>2, <2>3, <2>4, <2>5, <2>6, <2>7, <2>8, <2>9, <2>10 DEF
     HandshakeStep, ReaderStep, MainStep
<1>3. ASSUME NEW a \in Ends, HandshakeTimeout(a) \/ Confirm(a) \/ Send(a) \/ SendFails(a)
   \/ Leave(a) PROVE SessionState'
  <2>1. CASE HandshakeTimeout(a)
    BY <2>1, ArrivedIsExpected DEF HandshakeTimeout, Handshaking, EndSession, Reset
  <2>2. CASE Confirm(a)
    BY <2>2 DEF Confirm, Other
  <2>3. CASE Send(a)
    BY <2>3 DEF Send, Other
  <2>4. CASE SendFails(a)
    BY <2>4 DEF SendFails, EndSession, Reset
  <2>5. CASE Leave(a)
    BY <2>5 DEF Leave, Reset, Other
  <2>. QED BY <1>3, <2>1, <2>2, <2>3, <2>4, <2>5
<1>4. CASE UNCHANGED vars
  BY <1>4 DEF vars
<1>. QED BY <1>1, <1>2, <1>3, <1>4 DEF Next

\* Every step leaves an end's flags with what has been confirmed on its connection.
LEMMA ConfirmationStep ==
  ASSUME IInv, [Next]_vars
  PROVE  Confirmation'
<1>0. /\ TypeOK /\ OwnFrames /\ SessionState /\ WireIsSent /\ Confirmation /\ Waiting
      /\ FramesInOrder /\ NoUnexpectedFrame
  BY DEF IInv
<1>. USE <1>0, OtherEnd, HistoryGrows, NoConnection DEF Confirmation, SessionType, TypeOK,
   InHandshake, InChat, Set, network, flags, secrets, session, main, history
<1>1. ASSUME NEW d \in Conns, Join(d) \/ Accept(d) \/ Refuse(d) \/ Cut(d) PROVE
   Confirmation'
  <2>1. CASE Join(d)
    BY <2>1 DEF Join, Used, Reset
  <2>2. CASE Accept(d)
    BY <2>2 DEF Accept, Reset
  <2>3. CASE Refuse(d) \/ Cut(d)
    BY <2>3 DEF Refuse, Cut
  <2>. QED BY <1>1, <2>1, <2>2, <2>3
<1>2. ASSUME NEW a \in Ends, HandshakeStep(a) \/ ReaderStep(a) \/ MainStep(a) PROVE
   Confirmation'
  <2>1. CASE OnResponse(a)
    BY <2>1 DEF OnResponse, Promote
  <2>2. CASE HandshakeRejects(a)
    <3>1. \E cause \in {"refused", "left"} : EndSession(a, "failed", cause)
      BY <2>2, RejectsLastFrame
    <3>2. conn[a] # 0 /\ conn[a] \in Conns /\ UNCHANGED <<wire, sentTo>>
      BY <2>2, ArrivedIsExpected, NoConnection DEF HandshakeRejects
    <3>. QED BY <3>1, <3>2 DEF EndSession, Reset
  <2>3. CASE OnVerification(a)
    <3>1. /\ conn[a] \in Conns
          /\ wire[conn[a]][a][1].type = "verification" /\ Len(wire[conn[a]][a]) > 0
      BY <2>3, SessionFrames DEF Reads, Takes
    <3>2. confirms[conn[a]][Other(a)] > 0
      BY <3>1, HeadIsSent
    <3>3. peerConfirmed' = Set(peerConfirmed, a, TRUE) /\ UNCHANGED <<conn, localConfirmed,
       verified, main, confirms>>
      BY <2>3 DEF OnVerification, history
    <3>. QED BY <3>1, <3>2, <3>3
  <2>4. CASE PeerMark(a)
    BY <2>4 DEF PeerMark, MarkIfComplete
  <2>5. CASE MessageRejected(a)
    BY <2>5 DEF MessageRejected, EndSession, Reset
  <2>6. CASE OnOther(a)
    <3>1. EndSession(a, "disconnected", "left")
      BY <2>6, ChatEndsByDisconnect
    <3>2. conn[a] # 0 /\ conn[a] \in Conns /\ UNCHANGED <<wire, sentTo>>
      BY <2>6 DEF OnOther, SessionState, SessionType, InChat
    <3>. QED BY <3>1, <3>2 DEF EndSession, Reset
  <2>7. CASE ConnectionLost(a)
    BY <2>7 DEF ConnectionLost, EndSession, Reset, Handshaking
  <2>8. CASE ConfirmSet(a)
    BY <2>8 DEF ConfirmSet
  <2>9. CASE ConfirmMark(a)
    <3>1. CASE conn[a] = captured[a]
      BY <2>9, <3>1 DEF ConfirmMark, MarkIfComplete
    <3>2. CASE conn[a] # captured[a]
      BY <2>9, <3>2 DEF ConfirmMark
    <3>. QED BY <3>1, <3>2
  <2>10. CASE OnHello(a) \/ OnChallenge(a) \/ OnMessage(a)
    BY <2>10 DEF OnHello, OnChallenge, OnMessage
  <2>. QED BY <1>2, <2>1, <2>2, <2>3, <2>4, <2>5, <2>6, <2>7, <2>8, <2>9, <2>10 DEF
     HandshakeStep, ReaderStep, MainStep
<1>3. ASSUME NEW a \in Ends, HandshakeTimeout(a) \/ Confirm(a) \/ Send(a) \/ SendFails(a)
   \/ Leave(a) PROVE Confirmation'
  <2>1. CASE HandshakeTimeout(a)
    BY <2>1 DEF HandshakeTimeout, Handshaking, EndSession, Reset
  <2>2. CASE Confirm(a)
    BY <2>2 DEF Confirm, Other
  <2>3. CASE SendFails(a)
    BY <2>3 DEF SendFails, EndSession, Reset
  <2>4. CASE Leave(a)
    BY <2>4 DEF Leave, Reset, Other
  <2>5. CASE Send(a)
    BY <2>5 DEF Send, Other
  <2>. QED BY <1>3, <2>1, <2>2, <2>3, <2>4, <2>5
<1>4. CASE UNCHANGED vars
  BY <1>4 DEF vars
<1>. QED BY <1>1, <1>2, <1>3, <1>4 DEF Next

\* No step ends a session over a frame that was not to come.
LEMMA NoUnexpectedFrameStep ==
  ASSUME IInv, [Next]_vars
  PROVE  NoUnexpectedFrame'
<1>0. /\ TypeOK /\ OwnFrames /\ SessionState /\ WireIsSent /\ Confirmation /\ Waiting
      /\ FramesInOrder /\ NoUnexpectedFrame
  BY DEF IInv
<1>. USE <1>0 DEF NoUnexpectedFrame, SessionType, TypeOK, Set, network, flags, secrets,
   session, main, history
<1>1. ASSUME NEW d \in Conns, Join(d) \/ Accept(d) \/ Refuse(d) \/ Cut(d) PROVE
   NoUnexpectedFrame'
  <2>1. CASE Join(d)
    BY <2>1 DEF Join, Used, Reset
  <2>2. CASE Accept(d)
    BY <2>2 DEF Accept, Reset
  <2>3. CASE Refuse(d) \/ Cut(d)
    BY <2>3 DEF Refuse, Cut
  <2>. QED BY <1>1, <2>1, <2>2, <2>3
<1>2. ASSUME NEW a \in Ends, HandshakeStep(a) \/ ReaderStep(a) \/ MainStep(a) PROVE
   NoUnexpectedFrame'
  <2>1. CASE HandshakeRejects(a)
    <3>1. \E cause \in {"refused", "left"} : EndSession(a, "failed", cause)
      BY <2>1, RejectsLastFrame
    <3>2. conn[a] # 0 /\ conn[a] \in Conns /\ UNCHANGED <<wire, sentTo>>
      BY <2>1, ArrivedIsExpected, NoConnection DEF HandshakeRejects
    <3>. QED BY <3>1, <3>2 DEF EndSession, Reset
  <2>2. CASE MessageRejected(a)
    BY <2>2 DEF MessageRejected, EndSession, Reset
  <2>3. CASE OnOther(a)
    <3>1. EndSession(a, "disconnected", "left")
      BY <2>3, ChatEndsByDisconnect
    <3>2. conn[a] # 0 /\ conn[a] \in Conns /\ UNCHANGED <<wire, sentTo>>
      BY <2>3 DEF OnOther, SessionState, SessionType, InChat
    <3>. QED BY <3>1, <3>2 DEF EndSession, Reset
  <2>4. CASE ConnectionLost(a)
    BY <2>4 DEF ConnectionLost, EndSession, Reset, Handshaking
  <2>5. CASE OnHello(a) \/ OnChallenge(a) \/ OnResponse(a) \/ OnVerification(a) \/
     PeerMark(a)
    BY <2>5 DEF OnHello, OnChallenge, OnResponse, Promote, OnVerification, PeerMark,
       MarkIfComplete
  <2>6. CASE OnMessage(a) \/ ConfirmSet(a) \/ ConfirmMark(a)
    BY <2>6 DEF OnMessage, ConfirmSet, ConfirmMark, MarkIfComplete
  <2>. QED BY <1>2, <2>1, <2>2, <2>3, <2>4, <2>5, <2>6 DEF HandshakeStep, ReaderStep,
     MainStep
<1>3. ASSUME NEW a \in Ends, HandshakeTimeout(a) \/ Confirm(a) \/ Send(a) \/ SendFails(a)
   \/ Leave(a) PROVE NoUnexpectedFrame'
  <2>1. CASE HandshakeTimeout(a)
    BY <2>1 DEF HandshakeTimeout, Handshaking, EndSession, Reset
  <2>2. CASE SendFails(a)
    BY <2>2 DEF SendFails, EndSession, Reset
  <2>3. CASE Leave(a)
    BY <2>3 DEF Leave, Reset, Other
  <2>4. CASE Confirm(a) \/ Send(a)
    BY <2>4 DEF Confirm, Other, Send
  <2>. QED BY <1>3, <2>1, <2>2, <2>3, <2>4
<1>4. CASE UNCHANGED vars
  BY <1>4 DEF vars
<1>. QED BY <1>1, <1>2, <1>3, <1>4 DEF Next

-----------------------------------------------------------------------------
(* The theorems. *)
\* The invariant holds initially.
LEMMA InitHolds == Init => IInv
<1>. SUFFICES ASSUME Init PROVE IInv
  OBVIOUS
<1>. USE NoConnection DEF Init
<1>1. TypeOK
  <2>1. <<>> \in Seq(AnyFrame)
    BY EmptySeq
  <2>. QED BY <2>1 DEF TypeOK, WireType, SessionType
<1>2. \A c \in Conns, e \in Ends : Len(wire[c][e]) = 0
  OBVIOUS
<1>3. OwnFrames /\ WireIsSent
  BY <1>2 DEF OwnFrames, WireIsSent
<1>4. SessionState /\ Confirmation
  BY DEF SessionState, Confirmation, InChat
<1>5. Waiting
  BY DEF Waiting, Used, Ends
<1>6. FramesInOrder
  BY DEF FramesInOrder, Awaits, Ends
<1>7. NoUnexpectedFrame
  BY DEF NoUnexpectedFrame
<1>. QED BY <1>1, <1>3, <1>4, <1>5, <1>6, <1>7 DEF IInv

\* Every step preserves the invariant.
LEMMA StepHolds == IInv /\ [Next]_vars => IInv'
BY TypeOKStep, OwnFramesStep, SessionStateStep, WireIsSentStep, ConfirmationStep, WaitingStep,
   FramesInOrderStep, NoUnexpectedFrameStep DEF IInv

\* The inductive invariant holds in every state.
THEOREM ProtocolInvariant == Spec => []IInv
BY InitHolds, StepHolds, PTL DEF Spec

\* Two honest ends never break off over a frame the other was not to send: what
\* _expect_handshake_frame and _process_peer_frame reject, the other end does not send.
THEOREM NeverUnexpected == Spec => []NoUnexpectedFrame
<1>1. IInv => NoUnexpectedFrame
  BY DEF IInv
<1>. QED BY <1>1, ProtocolInvariant, PTL

\* No end is verified before the participants at both ends have confirmed the code of
\* this connection (_mark_verified_if_complete).
THEOREM MutuallyVerified == Spec => []VerifiedIsMutual
<1>1. IInv => VerifiedIsMutual
  <2>. SUFFICES ASSUME IInv, NEW e \in Ends, verified[e]
                PROVE  /\ conn[e] # 0
                       /\ confirms[conn[e]]["host"] > 0 /\ confirms[conn[e]]["guest"] > 0
    BY DEF VerifiedIsMutual
  <2>1. conn[e] # 0 /\ confirms[conn[e]][e] > 0 /\ confirms[conn[e]][Other(e)] > 0
    BY DEF IInv, Confirmation
  <2>. QED BY <2>1 DEF Ends, Other
<1>. QED BY <1>1, ProtocolInvariant, PTL

\* Ends that call one connection confirmed show one safety code, made of both keys and
\* both nonces of this connection (_perform_handshake, derive_safety_code).
THEOREM CodeIsShared == Spec => []SafetyCodeIsShared
<1>1. ASSUME NEW c \in Conns, NEW f \in Ends
      PROVE  {PublicKey(f, c), Nonce(f, c)} \subseteq Range(Crypto(c).code.digits)
  <2>. DEFINE t == Transcript(c)
  <2>1. Crypto(c).code.digits = t
    BY DEF Crypto, derive_safety_code
  <2>2. /\ {3, 4, 5, 6} \subseteq DOMAIN t
        /\ t[3] = PublicKey("host", c) /\ t[4] = PublicKey("guest", c)
        /\ t[5] = Nonce("host", c) /\ t[6] = Nonce("guest", c)
    BY DEF Transcript, derive_handshake_transcript_hash
  <2>. HIDE DEF t
  <2>3. \A i \in {3, 4, 5, 6} : t[i] \in Range(t)
    BY <2>2 DEF Range
  <2>4. f = "host" \/ f = "guest"
    BY DEF Ends
  <2>. QED BY <2>1, <2>2, <2>3, <2>4
<1>2. IInv => SafetyCodeIsShared
  <2>. SUFFICES ASSUME IInv PROVE SafetyCodeIsShared
    OBVIOUS
  <2>1. ASSUME NEW e \in Ends, status[e] = "confirmed"
        PROVE  /\ conn[e] # 0 /\ conn[e] \in Conns /\ "channel_response" \in sentTo[conn[e]][e]
               /\ crypto[e] = Crypto(conn[e])
    <3>1. /\ conn[e] = 0 <=> reader[e] = "none"
          /\ reader[e] \in InChat /\ crypto[e] = Crypto(conn[e])
          /\ "channel_response" \in sentTo[conn[e]][e] /\ conn[e] \in Conns \cup {0}
      BY <2>1 DEF IInv, TypeOK, SessionType, SessionState
    <3>. QED BY <3>1 DEF InChat
  <2>2. \A e \in Ends : status[e] = "confirmed" =>
           \A f \in Ends : {PublicKey(f, conn[e]), Nonce(f, conn[e])} \subseteq Range(crypto[e].code.digits)
    BY <1>1, <2>1
  <2>3. conn["host"] = conn["guest"] /\ (\A e \in Ends : status[e] = "confirmed") =>
           crypto["host"].code = crypto["guest"].code
    BY <2>1 DEF Ends
  <2>. QED BY <2>1, <2>2, <2>3 DEF SafetyCodeIsShared
<1>. QED BY <1>2, ProtocolInvariant, PTL

=============================================================================
