------------------------------ MODULE Inbound ------------------------------
(***************************************************************************)
(* The way of a peer's frames through backend/main.py, byte by byte: the   *)
(* socket, the buffer that the handshake hands to the reader, the limits   *)
(* on a frame and on the rate of frames, the event queue with its byte     *)
(* count, and the batches of poll_messages.                                *)
(*                                                                         *)
(* A frame after the handshake is here one that _process_peer_frame        *)
(* accepts and that queues an event; which frames those are, and who owns  *)
(* the session, is in PeerSession.  The peer's frames may be too large and *)
(* too many, and come in pieces of any length, late and together; the      *)
(* network may lose the rest of a connection.                              *)
(*                                                                         *)
(* A byte of the i-th frame is the number i, a newline is 0: a line is the *)
(* frame that was sent if it has all of its bytes and no others.           *)
(***************************************************************************)
EXTENDS Naturals, Sequences, SequencesExt

CONSTANTS
    Kinds,            \* what a frame may be: its bytes, and those of its event
    HandshakeFrames,  \* the handshake frames that come first
    Chunk,            \* the argument of recv
    MaxHandshake, MaxApplication, MaxFrame,  \* MAX_..._FRAME_BYTES
    Second,           \* ticks in a second
    RateFrames, RateBytes,                   \* MAX_INBOUND_..._PER_SECOND
    QueueMessages, QueueBytes, ItemBytes,    \* MAX_FRONTEND_QUEUE_...
    PollMessages, PollBytes,                 \* MAX_POLL_...
    NoticeBytes,      \* the size of an event that tells of the session's end
    MaxFrames,        \* bound: frames the peer sends
    MaxTime           \* bound: ticks

ASSUME KindsAssumption == Kinds \subseteq [raw : Nat, event : Nat]
ASSUME LimitsAssumption ==
    /\ {MaxHandshake, MaxApplication, MaxFrame, RateFrames, RateBytes} \subseteq Nat
    /\ {NoticeBytes, ItemBytes, PollBytes, QueueBytes, MaxFrames, MaxTime} \subseteq Nat
    /\ {HandshakeFrames, Second, Chunk, QueueMessages, PollMessages} \subseteq Nat \ {0}
    /\ NoticeBytes <= ItemBytes /\ ItemBytes <= PollBytes /\ PollBytes <= QueueBytes
    /\ MaxApplication <= MaxFrame

VARIABLES
    now,         \* time.monotonic()
    sent,        \* the frames the peer has sent
    wire, eof,   \* bytes on their way, and has the connection ended behind them?
    phase,       \* where the session's thread is
    buffer,      \* receive_buffer, then the reader's buffer
    started, frames, bytes,  \* rate_window_...
    inbox, inboxBytes,       \* _inbox, _inbox_bytes
    polled, told, \* texts, and is there a notice, in the replies of polls
    \* history
    done,        \* frames taken out of the buffer
    recent,      \* <<time, bytes>> of the application frames of the last second
    why          \* why the session ended

input   == <<sent, wire, eof>>
rate    == <<started, frames, bytes>>
queue   == <<inbox, inboxBytes>>
output  == <<polled, told>>
history == <<done, recent, why>>
vars    == <<now, input, phase, buffer, rate, queue, output, history>>

Newline == 0
Line(i, n) == [k \in 1..n |-> i]
Total(seq) ==
    LET part[n \in 0..Len(seq)] == IF n = 0 THEN 0 ELSE part[n - 1] + seq[n]
    IN  part[Len(seq)]
Sizes(events) == [i \in DOMAIN events |-> events[i].size]
Least(m, n) == IF m < n THEN m ELSE n

Init ==
    /\ now = 0 /\ sent = <<>> /\ wire = <<>> /\ eof = FALSE
    /\ phase = "handshake" /\ buffer = <<>>
    /\ started = 0 /\ frames = 0 /\ bytes = 0
    /\ inbox = <<>> /\ inboxBytes = 0 /\ polled = <<>> /\ told = FALSE
    /\ done = 0 /\ recent = <<>> /\ why = "none"

Reading == phase \in {"handshake", "handed", "reader"}

-----------------------------------------------------------------------------
(* The peer, the network and the clock *)

PeerSends(kind) ==
    /\ Reading /\ ~eof /\ Len(sent) < MaxFrames
    /\ sent' = Append(sent, kind)
    /\ wire' = wire \o Append(Line(Len(sent) + 1, kind.raw), Newline)
    /\ UNCHANGED <<now, eof, phase, buffer, rate, queue, output, history>>

PeerCloses ==
    /\ Reading /\ ~eof /\ eof' = TRUE
    /\ UNCHANGED <<now, sent, wire, phase, buffer, rate, queue, output, history>>

Tick ==
    /\ Reading /\ now < MaxTime /\ now' = now + 1
    /\ recent' = LET past == {i \in DOMAIN recent : now' - recent[i][1] >= Second}
                 IN  SubSeq(recent, Max(past \cup {0}) + 1, Len(recent))
    /\ UNCHANGED <<input, phase, buffer, rate, queue, output, done, why>>

-----------------------------------------------------------------------------
(* Lines and chunks *)

HasLine == Contains(buffer, Newline)
LineEnd == Min({i \in DOMAIN buffer : buffer[i] = Newline})
FirstLine == SubSeq(buffer, 1, LineEnd - 1)
DropLine == buffer' = SubSeq(buffer, LineEnd + 1, Len(buffer)) /\ done' = done + 1

\* recv(most): some of what is there.
Receive(most) ==
    /\ ~HasLine
    /\ \E n \in 1..Least(most, Len(wire)) :
         /\ buffer' = buffer \o SubSeq(wire, 1, n)
         /\ wire' = SubSeq(wire, n + 1, Len(wire))

Fail(cause) == phase' = "failed" /\ why' = cause

-----------------------------------------------------------------------------
(* _receive_handshake_frame *)
\* (Seeded bug: what is read behind the frame counts for its size.)
HandshakeBufferTooLarge == Len(buffer) > MaxHandshake

HandshakeTooLarge ==
    IF HasLine THEN LineEnd - 1 > MaxHandshake ELSE Len(buffer) > MaxHandshake

HandshakeReceives ==
    /\ phase = "handshake" /\ ~HandshakeTooLarge
    /\ Receive(Least(Chunk, MaxHandshake + 1 - Len(buffer)))
    /\ UNCHANGED <<now, sent, eof, phase, rate, queue, output, history>>

HandshakeTakes ==
    /\ phase = "handshake" /\ HasLine /\ ~HandshakeTooLarge
    /\ DropLine
    /\ IF FirstLine = <<>> THEN Fail("malformed")
       ELSE /\ phase' = IF done' = HandshakeFrames THEN "handed" ELSE "handshake"
            /\ UNCHANGED why
    /\ UNCHANGED <<now, input, rate, queue, output, recent>>

HandshakeRefuses ==
    /\ phase = "handshake" /\ HandshakeTooLarge
    /\ Fail("large")
    /\ UNCHANGED <<now, input, buffer, rate, queue, output, done, recent>>

-----------------------------------------------------------------------------
(* _queue_frontend_event: an event is taken as a whole or not at all. *)
Text(line) == [text |-> line, size |-> IF line = <<>> THEN 0 ELSE sent[line[1]].event]
Notice == [text |-> <<>>, size |-> NoticeBytes]

Fits(event) ==
    /\ event.size <= ItemBytes
    /\ Len(inbox) < QueueMessages /\ inboxBytes + event.size <= QueueBytes

Queue(event) ==
    IF Fits(event)
    THEN inbox' = Append(inbox, event) /\ inboxBytes' = inboxBytes + event.size
    ELSE UNCHANGED queue

\* _clear_frontend_messages
\* (Seeded bugs: the count of the bytes stays, or nothing is cleared.)
ClearItems == inbox' = <<>> /\ UNCHANGED inboxBytes
ClearNothing == UNCHANGED queue

Clear == inbox' = <<>> /\ inboxBytes' = 0

\* _read_socket_messages: the buffer of the handshake is its first buffer.
\* (Seeded bug: it starts with an empty one.)
ReaderStartsEmpty ==
    /\ phase = "handed" /\ phase' = "reader" /\ buffer' = <<>>
    /\ started' = now /\ frames' = 0 /\ bytes' = 0
    /\ UNCHANGED <<now, input, queue, output, history>>

ReaderStarts ==
    /\ phase = "handed" /\ phase' = "reader"
    /\ started' = now /\ frames' = 0 /\ bytes' = 0
    /\ UNCHANGED <<now, input, buffer, queue, output, history>>

ReaderReceives ==
    /\ phase = "reader"
    /\ Receive(Chunk)
    /\ IF Len(buffer') > MaxFrame /\ ~Contains(buffer', Newline)
       THEN Fail("large") ELSE UNCHANGED <<phase, why>>
    /\ UNCHANGED <<now, sent, eof, rate, queue, output, done, recent>>

\* (Seeded bug: every tick starts a window.)
WindowOverAtOnce == now > started

\* A window that has lasted a second ends with the next frame.
WindowOver == now - started >= Second
Started == IF WindowOver THEN now ELSE started

\* (Seeded bug: a new window keeps the counts of the old one.)
CountedOn(count, n) == count + n

Counted(count, n) == (IF WindowOver THEN 0 ELSE count) + n
OverRate(f, b) == f > RateFrames \/ b > RateBytes

\* An application frame is taken out of the buffer: an empty line is skipped, a
\* line that is too long or one too many fails the session, and so does one
\* whose event finds no room: then the queue is emptied.
ReaderTakes ==
    LET line == FirstLine
        f == Counted(frames, 1)
        b == Counted(bytes, Len(line))
    IN /\ phase = "reader" /\ HasLine
       /\ DropLine
       /\ \/ /\ line = <<>>
             /\ UNCHANGED <<phase, why, rate, queue, recent>>
          \/ /\ Len(line) > MaxApplication
             /\ Fail("large")
             /\ UNCHANGED <<rate, queue, recent>>
          \/ /\ line # <<>> /\ Len(line) <= MaxApplication
             /\ started' = Started /\ frames' = f /\ bytes' = b
             /\ recent' = Append(recent, <<now, Len(line)>>)
             /\ \/ OverRate(f, b) /\ Fail("rate") /\ UNCHANGED queue
                \/ ~OverRate(f, b) /\ ~Fits(Text(line)) /\ Fail("capacity") /\ Clear
                \/ /\ ~OverRate(f, b) /\ Fits(Text(line))
                   /\ Queue(Text(line)) /\ UNCHANGED <<phase, why>>
       /\ UNCHANGED <<now, input, output>>

\* (Seeded bug: recv comes first, whatever is in the buffer.)
EndOfStreamFirst ==
    /\ phase = "reader" /\ wire = <<>> /\ eof /\ phase' = "left" /\ why' = "eof"
    /\ UNCHANGED <<now, input, buffer, rate, queue, output, done, recent>>

\* recv returns nothing: the connection has ended, and all of it was read.
EndOfStream ==
    /\ phase \in {"handshake", "reader"} /\ ~HasLine /\ wire = <<>> /\ eof
    /\ IF phase = "handshake" THEN Fail("lost") ELSE phase' = "left" /\ why' = "eof"
    /\ UNCHANGED <<now, input, buffer, rate, queue, output, done, recent>>

\* recv raises: what was on its way is lost.
ConnectionBreaks ==
    /\ phase \in {"handshake", "reader"} /\ ~HasLine
    /\ Fail("lost")
    /\ wire' = <<>> /\ eof' = TRUE
    /\ UNCHANGED <<now, sent, buffer, rate, queue, output, done, recent>>

\* The text of the failure, and then what the end of every session queues.
TellFailure ==
    /\ phase = "failed" /\ phase' = "left"
    /\ Queue(Notice)
    /\ UNCHANGED <<now, input, buffer, rate, output, history>>

TellEnd ==
    /\ phase = "left" /\ phase' = "ended"
    /\ Queue(Notice)
    /\ UNCHANGED <<now, input, buffer, rate, output, history>>

\* close_room, at any time, takes the session away and clears the queue; the
\* thread's owner checks then let it end in silence.
CloseRoom ==
    /\ why # "closed" /\ phase' = "ended" /\ why' = "closed"
    /\ Clear
    /\ UNCHANGED <<now, input, buffer, rate, output, done, recent>>

-----------------------------------------------------------------------------
(* poll_messages: events while they are within the limits of a batch, and    *)
(* one in any case.                                                         *)
\* (Seeded bug: a first event that fills the batch is left behind.)
BatchStrict == CHOOSE n \in 0..Least(PollMessages, Len(inbox)) :
    /\ n = 0 \/ Total(Sizes(SubSeq(inbox, 1, n))) < PollBytes
    /\ \A m \in n + 1 .. Least(PollMessages, Len(inbox)) :
          Total(Sizes(SubSeq(inbox, 1, m))) >= PollBytes

Batch == CHOOSE n \in 1..Least(PollMessages, Len(inbox)) :
    /\ n = 1 \/ Total(Sizes(SubSeq(inbox, 1, n))) <= PollBytes
    /\ \A m \in n + 1 .. Least(PollMessages, Len(inbox)) :
          Total(Sizes(SubSeq(inbox, 1, m))) > PollBytes

Poll ==
    /\ inbox # <<>>
    /\ LET batch == SubSeq(inbox, 1, Batch)
           texts == SelectSeq(batch, LAMBDA e : e # Notice)
       IN /\ polled' = polled \o [i \in DOMAIN texts |-> texts[i].text]
          /\ told' = (told \/ Contains(batch, Notice))
          /\ inbox' = SubSeq(inbox, Len(batch) + 1, Len(inbox))
          /\ inboxBytes' = inboxBytes - Total(Sizes(batch))
    /\ UNCHANGED <<now, input, phase, buffer, rate, history>>

-----------------------------------------------------------------------------
Handshake == HandshakeReceives \/ HandshakeTakes \/ HandshakeRefuses
Reader == ReaderStarts \/ ReaderReceives \/ ReaderTakes
End == EndOfStream \/ TellFailure \/ TellEnd

Next ==
    \/ \E kind \in Kinds : PeerSends(kind)
    \/ PeerCloses \/ Tick \/ Handshake \/ Reader \/ End
    \/ ConnectionBreaks \/ CloseRoom \/ Poll

\* The session's thread runs on, and the interface polls (every 250 ms).
FairSpec ==
    /\ Init /\ [][Next]_vars
    /\ WF_vars(Handshake) /\ WF_vars(Reader) /\ WF_vars(End) /\ WF_vars(Poll)

-----------------------------------------------------------------------------
\* The queue is within its limits, and its byte count is that of its events: a
\* count that drifts would in time refuse everything or nothing.
BytesAreCounted ==
    /\ inboxBytes = Total(Sizes(inbox))
    /\ inboxBytes <= QueueBytes /\ Len(inbox) <= QueueMessages

Lengths(taken) == [i \in DOMAIN taken |-> taken[i][2]]

\* The window is not a sliding one, but within no second is more than twice the
\* limit taken (the frame that fails the session not counted).  When the room
\* has been closed no more is taken.
RateIsBounded ==
    why \notin {"rate", "closed"} =>
        /\ Len(recent) <= 2 * RateFrames
        /\ Total(Lengths(recent)) <= 2 * RateBytes

\* A session is failed for its rate only when more frames, or more bytes, than
\* allowed were taken within one second: a peer that stays below is never cut
\* off by counts left from an earlier window.
RateIsTrue ==
    why = "rate" =>
        \/ Len(recent) > RateFrames
        \/ Total(Lengths(recent)) > RateBytes

\* A session is failed for the size of a frame only when a frame is too large:
\* not for what is read behind a handshake frame in the same recv.
SizeIsTrue ==
    why = "large" =>
        \E i \in {done, done + 1} \cap DOMAIN sent :
            sent[i].raw > (IF i <= HandshakeFrames THEN MaxHandshake ELSE MaxApplication)

\* A session that ends with the peer's stream has taken every frame of it, the
\* ones that came in one piece with the last handshake frame too.
EndIsComplete == why = "eof" => done = Len(sent)

\* A session that fails because the queue is full empties it first, so that the
\* news of its end finds room in it.
OverflowIsTold ==
    why = "capacity" /\ phase = "ended" => told \/ Contains(inbox, Notice)

\* What ends a session is what has happened: a limit is exceeded when the session
\* fails for it, and no frame and no notice is lost on the way out.
EndIsTrue == RateIsTrue /\ SizeIsTrue /\ EndIsComplete /\ OverflowIsTold

\* The texts of the interface are the peer's texts: TextChannel, with the
\* application frames as the texts that were sent, and the queue and the buffers
\* hidden.  A queue that is emptied is a channel that drops what is pending.
SentTexts ==
    SelectSeq([i \in 1..Len(sent) - HandshakeFrames |->
                   Line(HandshakeFrames + i, sent[HandshakeFrames + i].raw)],
              LAMBDA line : line # <<>>)
Channel == INSTANCE TextChannel WITH
    Texts <- {Line(i, kind.raw) : i \in 1..MaxFrames, kind \in Kinds},
    sent <- SentTexts,
    received <- polled,
    dropped <- why \in {"capacity", "closed"}
ImplementsChannel == Channel!Spec

\* Every text reaches the interface, or the session ends otherwise than with the
\* peer's stream: also a text that waits in the buffer of the handshake while
\* nothing more arrives.
TextsArrive ==
    \A n \in 1..MaxFrames - HandshakeFrames :
        (Len(SentTexts) = n) ~> (Len(polled) >= n \/ why \notin {"none", "eof"})

=============================================================================
