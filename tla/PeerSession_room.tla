------------------------- MODULE PeerSession_room --------------------------
(***************************************************************************)
(* What a room shows and holds, for every number of connections, rooms,    *)
(* frames and queued events:                                               *)
(*   - TextOnlyFromVerified and NoTextFromClosedRoom: a text is decrypted  *)
(*     between two lock blocks, and by the second one its thread may be    *)
(*     late by a whole room: the proof follows it from the session that it *)
(*     was read from to the queue, and the queue to the end of close_room; *)
(*   - PeerCountIsTrue: whoever owns the slot has the role of the room, so *)
(*     that each path that frees the slot takes the count with it;         *)
(*   - OneAnnouncement: a session is announced by the thread that finds    *)
(*     both confirmations, and by that thread once;                        *)
(*   - NoSocketLeak and SlotIsServed: an open socket and an occupied slot  *)
(*     each have a thread that will close or free them.                    *)
(***************************************************************************)
EXTENDS PeerSession_proofs

(* TextOnlyFromVerified and NoTextFromClosedRoom.                          *)

\* Where a listener has a connection in hand.
InHandOf == {"claim", "refuse", "start", "releasing"}

\* The rooms that are over have had their number, and neither their key nor a
\* session outlives them.
RoomsAreOver ==
    /\ closedRooms \subseteq 1..ops
    /\ cmd = "create_key" => ops \notin closedRooms
    /\ key \notin closedRooms
    /\ cmd = "close_inbox" => key = 0 /\ box = NoConn /\ active = NoConn
    /\ box # NoConn /\ ~Revoked => origin[box] \notin closedRooms

\* A listener has connections to its own room in hand, and claims the slot for
\* one that has no thread yet, up to the moment it starts it.
ListenerHasNew ==
    \A r \in Rooms : lpc[r] \in InHandOf =>
        /\ origin[lconn[r]] = r
        /\ lpc[r] \in {"claim", "start"} => pc[lconn[r]] = "none"

Confirmed(c) == c \in userConfirmed \cap peerHasConfirmed

\* What a thread has decrypted is a text of a confirmed session, and of an open
\* room as long as the thread owns the slot.
DeliversOwn ==
    \A c \in Conns :
        /\ pc[c] = "deliver" /\ sbox[c] = c =>
              Confirmed(c) /\ (Owns(c) => origin[c] \notin closedRooms)
        /\ note[c] \notin {"peer_text", "peer_verified"}

\* A text of c may be in the queue.
Said(c) == sock[c] # "new" /\ Confirmed(c) /\ origin[c] \notin closedRooms

TextsAreSaid ==
    \A i \in 1..Len(inbox) : inbox[i][1] = "peer_text" => Said(inbox[i][2])

\* The step in which c's verification is announced: c's own thread moves on from
\* it, or the command thread is at it.
Announces(c) ==
    \/ pc[c] = "announce" /\ pc'[c] # "announce"
    \/ cmd = "confirm_announce" /\ cconn = c

TextInv == RoomsAreOver /\ ListenerHasNew /\ DeliversOwn /\ TextsAreSaid

-----------------------------------------------------------------------------
\* The numbers of rooms count up from 1; 0 is no room's.
LEMMA RoomsAreNumbered ==
  ASSUME IInv, TextInv
  PROVE  /\ ops \in Nat /\ ops + 1 \notin closedRooms /\ 0 \notin closedRooms
         /\ 0 \notin 1..ops /\ 1..ops \subseteq 1..(ops + 1)
<1>1. ops \in Nat
  BY BoundsAssumption DEF IInv, TypeOK, CommandType, MaybeRoom, Rooms
<1>. QED BY <1>1 DEF TextInv, RoomsAreOver

\* A connection with a thread, or with the session, is not a new one.
LEMMA SessionIsOld ==
  ASSUME IInv
  PROVE  /\ box # NoConn /\ ~Revoked => sock[box] # "new"
         /\ \A c \in Conns : pc[c] # "none" => sock[c] # "new"
<1>1. \A c \in Conns : sock[c] = "new" => role[c] = "none" /\ pc[c] = "none"
  BY DEF IInv, InHand
<1>2. box # NoConn /\ ~Revoked => box \in Conns /\ role[box] # "none"
  BY DEF IInv, TypeOK, VerifyType, MaybeConn, SessionInRoom, InRoom
<1>. QED BY <1>1, <1>2

\* Every step leaves closed rooms without key and session.
LEMMA RoomsAreOverStep ==
  ASSUME IInv, TextInv, [Next]_vars
  PROVE  RoomsAreOver'
<1>. USE ConnsAssumption, BoundsAssumption DEF TextInv, RoomsAreOver, IInv, Revoked, Goto,
   Close, Owns, IsOwner, Continue, Return, owner, verify, place, listens, shared, net, tlocals,
   session, listener, clocals, command, history, world, threads
<1>1. ASSUME NEW c \in Conns, SessionStep(c) PROVE RoomsAreOver'
  <2>1. CASE HsPromote(c)
    BY <2>1 DEF HsPromote, CommandPhase, Revoked, HandshakeInOrder
  <2>2. CASE Finally(c)
    BY <2>2, RoomsAreNumbered DEF Finally, ResetVerification, LeaveRoom, ClearSlot, ForgetGuest
  <2>3. CASE Release(c)
    BY <2>3 DEF Release, ResetVerification, ClearSlot, HostRoomOpen
  <2>4. CASE HsStart(c) \/ HsExchange(c) \/ HsExchangeFails(c) \/ HsFail(c) \/ Joined(c) \/
     Reader(c) \/ PeerVerification(c) \/ PeerConfirm(c) \/ Mark(c) \/ Announce(c) \/ Message(c)
    BY <2>4 DEF HsStart, ResetVerification, Raised, HsExchange, HsExchangeFails, HsFail, Joined,
       Queue, Reader, Move, PeerVerification, Encrypted, PeerConfirm, Mark, BecomesVerified,
       Announce, QueueStep, Message
  <2>5. CASE Deliver(c) \/ ErrorStop(c) \/ ErrorReset(c) \/ ErrorText(c) \/ SessionClose(c) \/
     Notify(c) \/ (\E kind \in FrameKinds : NextFrame(c, kind))
    BY <2>5 DEF Deliver, Queue, ErrorStop, Move, ErrorReset, ResetVerification, ErrorText,
       QueueStep, SessionClose, Notify, NextFrame
  <2>. QED BY <1>1, <2>1, <2>2, <2>3, <2>4, <2>5 DEF SessionStep
<1>2. ASSUME NEW r \in Rooms, ListenerStep(r) PROVE RoomsAreOver'
  <2>1. CASE \E c \in Conns : Accept(r, c)
    BY <2>1, SessionIsOld DEF Accept
  <2>2. CASE ListenerClaim(r)
    BY <2>2 DEF ListenerClaim, Claimable, Claim, CommandPhase, Closing
  <2>3. CASE ListenerTop(r) \/ Refuse(r) \/ StartHandler(r) \/ StartHandlerFails(r) \/
     ListenerReleased(r)
    BY <2>3 DEF ListenerTop, Refuse, StartHandler, StartHandlerFails, ListenerReleased
  <2>. QED BY <1>2, <2>1, <2>2, <2>3 DEF ListenerStep
<1>3. ASSUME Request \/ CommandStep PROVE RoomsAreOver'
  <2>1. CASE CreateRoom
    BY <2>1, RoomsAreNumbered DEF CreateRoom
  <2>2. CASE CreateKey
    BY <2>2, RoomsAreNumbered DEF CreateKey, ResetVerification
  <2>3. CASE JoinKey
    BY <2>3, RoomsAreNumbered DEF JoinKey, ResetVerification
  <2>4. CASE \E c \in Conns : JoinConnect(c)
    BY <2>4, SessionIsOld DEF JoinConnect
  <2>5. CASE CloseTake
    BY <2>5 DEF CloseTake
  <2>6. CASE CloseClear
    BY <2>6, RoomsAreNumbered DEF CloseClear, LeaveRoom, ResetVerification, CommandPhase
  <2>7. CASE CloseInbox
    BY <2>7, RoomsAreNumbered DEF CloseInbox, ResetVerification, CommandPhase
  <2>8. CASE FailChannel
    BY <2>8, RoomsAreNumbered DEF FailChannel, LeaveRoom, ResetVerification, ClearSlot,
       ForgetGuest
  <2>9. CASE JoinRoom \/ ConfirmVerification \/ SendMessage \/ CloseRoom \/ Poll \/
     CreatePublish \/ CreateStart \/ CreateFails \/ JoinTorFails \/ JoinConnectFails \/
     JoinClaim
    BY <2>9 DEF JoinRoom, ConfirmVerification, Capture, SendMessage, CloseRoom, CallClose, Poll,
       CreatePublish, CreateStart, CreateFails, JoinTorFails, JoinConnectFails, JoinClaim,
       Claimable, Claim
  <2>10. CASE JoinSetup \/ JoinHandshakeRaised \/ JoinHandshakeDone \/ JoinStart \/
     JoinStartFails \/ Send \/ SendFails \/ ConfirmSet \/ ConfirmMark \/ ConfirmAnnounce \/
     FailClose
    BY <2>10 DEF JoinSetup, JoinHandshakeRaised, CallClose, JoinHandshakeDone, JoinStart,
       JoinStartFails, Send, SendFails, ConfirmSet, ConfirmMark, ConfirmAnnounce, Queue,
       FailClose
  <2>11. CASE CloseSockets \/ CloseListener
    BY <2>11 DEF CloseSockets, CloseListener
  <2>. QED BY <1>3, <2>1, <2>2, <2>3, <2>4, <2>5, <2>6, <2>7, <2>8, <2>9, <2>10, <2>11 DEF
     Request, CommandStep
<1>4. CASE UNCHANGED vars
  BY <1>4 DEF vars
<1>. QED BY <1>1, <1>2, <1>3, <1>4 DEF Next

\* Every step leaves listeners with new connections to their own rooms.
LEMMA ListenerHasNewStep ==
  ASSUME IInv, TextInv, [Next]_vars
  PROVE  ListenerHasNew'
<1>. USE DEF TextInv, ListenerHasNew, InHandOf, IInv, InHand, TypeOK, NetType, SessionType,
   ListenerType, CommandType, WithConn, Joining, Goto, Close, Owns, IsOwner, Continue, Return,
   owner, verify, place, listens, shared, net, tlocals, session, listener, clocals, command,
   history, world, threads
<1>1. ASSUME NEW c \in Conns, SessionStep(c) PROVE ListenerHasNew'
  <2>1. CASE HsStart(c) \/ HsExchange(c) \/ HsExchangeFails(c) \/ HsPromote(c) \/ HsFail(c) \/
     Release(c) \/ Joined(c) \/ Reader(c) \/ PeerVerification(c) \/ PeerConfirm(c) \/ Mark(c)
    BY <2>1 DEF HsStart, ResetVerification, Raised, HsExchange, HsExchangeFails, HsPromote,
       HsFail, Release, ClearSlot, HostRoomOpen, Joined, Queue, Reader, Move, PeerVerification,
       Encrypted, PeerConfirm, Mark, BecomesVerified
  <2>2. CASE Announce(c) \/ Message(c) \/ Deliver(c) \/ ErrorStop(c) \/ ErrorReset(c) \/
     ErrorText(c) \/ Finally(c) \/ SessionClose(c) \/ Notify(c) \/ (\E kind \in FrameKinds :
     NextFrame(c, kind))
    BY <2>2 DEF Announce, QueueStep, Queue, Message, Encrypted, Deliver, ErrorStop, Move,
       ErrorReset, ResetVerification, ErrorText, Finally, LeaveRoom, ClearSlot, ForgetGuest,
       SessionClose, Notify, NextFrame
  <2>. QED BY <1>1, <2>1, <2>2 DEF SessionStep
<1>2. ASSUME NEW r \in Rooms, ListenerStep(r) PROVE ListenerHasNew'
  <2>1. CASE ListenerTop(r)
    BY <2>1 DEF ListenerTop
  <2>2. CASE ListenerClaim(r)
    BY <2>2 DEF ListenerClaim, Claimable, Claim
  <2>3. CASE \E c \in Conns : Accept(r, c)
    BY <2>3 DEF Accept
  <2>4. CASE Refuse(r)
    BY <2>4 DEF Refuse
  <2>5. CASE StartHandler(r)
    BY <2>5 DEF StartHandler
  <2>6. CASE StartHandlerFails(r)
    BY <2>6 DEF StartHandlerFails
  <2>7. CASE ListenerReleased(r)
    BY <2>7 DEF ListenerReleased
  <2>. QED BY <1>2, <2>1, <2>2, <2>3, <2>4, <2>5, <2>6, <2>7 DEF ListenerStep
<1>3. ASSUME Request \/ CommandStep PROVE ListenerHasNew'
  <2>1. CASE \E c \in Conns : JoinConnect(c)
    BY <2>1 DEF JoinConnect
  <2>2. CASE JoinSetup
    BY <2>2 DEF JoinSetup, CommandPhase
  <2>3. CASE JoinHandshakeRaised
    BY <2>3 DEF JoinHandshakeRaised, CallClose
  <2>4. CASE JoinStart
    BY <2>4 DEF JoinStart
  <2>5. CASE JoinStartFails
    BY <2>5 DEF JoinStartFails
  <2>6. CASE CreateStart
    BY <2>6 DEF CreateStart
  <2>7. CASE CreateRoom \/ JoinRoom \/ ConfirmVerification \/ SendMessage \/ CloseRoom \/ Poll
     \/ CreateKey \/ CreatePublish \/ CreateFails \/ JoinTorFails \/ JoinKey
    BY <2>7 DEF CreateRoom, JoinRoom, ConfirmVerification, Capture, SendMessage, CloseRoom,
       CallClose, Poll, CreateKey, ResetVerification, CreatePublish, CreateFails, JoinTorFails,
       JoinKey
  <2>8. CASE JoinConnectFails \/ JoinClaim \/ JoinHandshakeDone \/ Send \/ SendFails \/
     ConfirmSet \/ ConfirmMark \/ ConfirmAnnounce \/ FailChannel \/ FailClose \/ CloseTake
    BY <2>8 DEF JoinConnectFails, CallClose, JoinClaim, Claimable, Claim, JoinHandshakeDone,
       Send, SendFails, ConfirmSet, ConfirmMark, ConfirmAnnounce, Queue, FailChannel, LeaveRoom,
       ResetVerification, ClearSlot, ForgetGuest, FailClose, CloseTake
  <2>9. CASE CloseSockets \/ CloseListener \/ CloseClear \/ CloseInbox
    BY <2>9 DEF CloseSockets, CloseListener, CloseClear, LeaveRoom, ResetVerification,
       CloseInbox
  <2>. QED BY <1>3, <2>1, <2>2, <2>3, <2>4, <2>5, <2>6, <2>7, <2>8, <2>9 DEF Request,
     CommandStep
<1>4. CASE UNCHANGED vars
  BY <1>4 DEF vars
<1>. QED BY <1>1, <1>2, <1>3, <1>4 DEF Next

\* Every step leaves decrypted texts with the session they are of.
LEMMA DeliversOwnStep ==
  ASSUME IInv, TextInv, [Next]_vars
  PROVE  DeliversOwn'
<1>. USE ConnsAssumption DEF TextInv, DeliversOwn, Confirmed, IInv, TypeOK, OwnerType, NetType,
   SessionType, Goto, Close, Owns, IsOwner, Continue, Return, owner, verify, place, listens,
   shared, net, tlocals, session, listener, clocals, command, history, world, threads
<1>1. ASSUME NEW c \in Conns, SessionStep(c) PROVE DeliversOwn'
  <2>1. CASE Message(c)
    BY <2>1 DEF Message, Encrypted, RoomsAreOver, SessionBelongsToOwner, VerifiedByBoth,
       CommandPhase, Revoked, VerifyType
  <2>2. CASE \E kind \in FrameKinds : NextFrame(c, kind)
    BY <2>2 DEF NextFrame, HistoryType, FrameKinds
  <2>3. CASE Deliver(c)
    BY <2>3 DEF Deliver, Queue
  <2>4. CASE Release(c)
    BY <2>4 DEF Release, ResetVerification, ClearSlot, HostRoomOpen
  <2>5. CASE Finally(c)
    BY <2>5 DEF Finally, ResetVerification, LeaveRoom, ClearSlot, ForgetGuest
  <2>6. CASE HsStart(c) \/ HsExchange(c) \/ HsExchangeFails(c) \/ HsPromote(c) \/ HsFail(c) \/
     Joined(c) \/ Reader(c) \/ PeerVerification(c) \/ PeerConfirm(c) \/ Mark(c) \/ Announce(c)
    BY <2>6 DEF HsStart, ResetVerification, Raised, HsExchange, HsExchangeFails, HsPromote,
       HsFail, Joined, Queue, Reader, Move, PeerVerification, Encrypted, PeerConfirm, Mark,
       BecomesVerified, Announce, QueueStep
  <2>7. CASE ErrorStop(c) \/ ErrorReset(c) \/ ErrorText(c) \/ SessionClose(c) \/ Notify(c)
    BY <2>7 DEF ErrorStop, Move, ErrorReset, ResetVerification, ErrorText, QueueStep, Queue,
       SessionClose, Notify
  <2>. QED BY <1>1, <2>1, <2>2, <2>3, <2>4, <2>5, <2>6, <2>7 DEF SessionStep
<1>2. ASSUME NEW r \in Rooms, ListenerStep(r) PROVE DeliversOwn'
  <2>1. CASE ListenerClaim(r)
    BY <2>1 DEF ListenerClaim, Claimable, Claim, ListenerHasNew, InHandOf, InHand
  <2>2. CASE \E c \in Conns : Accept(r, c)
    BY <2>2 DEF Accept, InHand
  <2>3. CASE StartHandler(r)
    BY <2>3 DEF StartHandler, ListenerHasNew
  <2>4. CASE StartHandlerFails(r)
    BY <2>4 DEF StartHandlerFails
  <2>5. CASE ListenerTop(r) \/ Refuse(r) \/ ListenerReleased(r)
    BY <2>5 DEF ListenerTop, Refuse, ListenerReleased
  <2>. QED BY <1>2, <2>1, <2>2, <2>3, <2>4, <2>5 DEF ListenerStep
<1>3. ASSUME Request \/ CommandStep PROVE DeliversOwn'
  <2>1. CASE \E c \in Conns : JoinConnect(c)
    BY <2>1 DEF JoinConnect, InHand
  <2>2. CASE JoinClaim
    BY <2>2 DEF JoinClaim, Claimable, Claim, CallClose, HandshakeInOrder, InHand, WithConn,
       Joining
  <2>3. CASE JoinSetup
    BY <2>3 DEF JoinSetup
  <2>4. CASE CloseInbox
    BY <2>4 DEF CloseInbox, ResetVerification, RoomsAreOver
  <2>5. CASE ConfirmVerification
    BY <2>5 DEF ConfirmVerification, Capture
  <2>6. CASE CloseTake
    BY <2>6 DEF CloseTake
  <2>7. CASE CreateRoom \/ JoinRoom \/ SendMessage \/ CloseRoom \/ Poll \/ CreateKey \/
     CreatePublish \/ CreateStart \/ CreateFails \/ JoinTorFails \/ JoinKey
    BY <2>7 DEF CreateRoom, JoinRoom, SendMessage, Capture, CloseRoom, CallClose, Poll,
       CreateKey, ResetVerification, CreatePublish, CreateStart, CreateFails, JoinTorFails,
       JoinKey
  <2>8. CASE JoinConnectFails \/ JoinHandshakeRaised \/ JoinHandshakeDone \/ JoinStart \/
     JoinStartFails \/ Send \/ SendFails \/ ConfirmSet \/ ConfirmMark \/ ConfirmAnnounce \/
     FailChannel
    BY <2>8 DEF JoinConnectFails, CallClose, JoinHandshakeRaised, JoinHandshakeDone, JoinStart,
       JoinStartFails, Send, SendFails, ConfirmSet, ConfirmMark, ConfirmAnnounce, Queue,
       FailChannel, LeaveRoom, ResetVerification, ClearSlot, ForgetGuest
  <2>9. CASE FailClose \/ CloseSockets \/ CloseListener \/ CloseClear
    BY <2>9 DEF FailClose, Queue, CloseSockets, CloseListener, CloseClear, LeaveRoom,
       ResetVerification
  <2>. QED BY <1>3, <2>1, <2>2, <2>3, <2>4, <2>5, <2>6, <2>7, <2>8, <2>9 DEF Request,
     CommandStep
<1>4. CASE UNCHANGED vars
  BY <1>4 DEF vars
<1>. QED BY <1>1, <1>2, <1>3, <1>4 DEF Next

\* What may be said of a session stays true until close_room clears the queue.
LEMMA SaidStays ==
  ASSUME IInv, [Next]_vars, NEW c \in Conns, Said(c)
  PROVE  Said(c)' \/ inbox' = <<>>
<1>. USE DEF Said, Confirmed, Goto, Close, Continue, Return, owner, verify, place, listens,
   shared, net, tlocals, session, listener, clocals, command, history, world, threads
<1>. DEFINE Stays == Said(c)' \/ inbox' = <<>>
<1>. SUFFICES Stays
  OBVIOUS
<1>. USE DEF IInv, TypeOK, NetType, HistoryType, CommandType, Said, Confirmed,
   Goto, Close, Continue, Return, owner, verify, place, listens, shared, net, tlocals, session,
   listener, clocals, command, history, world, threads
<1>1. ASSUME NEW d \in Conns, SessionStep(d) PROVE Stays
  <2>1. CASE HsStart(d) \/ HsExchange(d) \/ HsExchangeFails(d) \/ HsPromote(d) \/ HsFail(d) \/
     Release(d) \/ Joined(d) \/ Reader(d) \/ PeerVerification(d) \/ PeerConfirm(d) \/ Mark(d)
    BY <2>1 DEF HsStart, ResetVerification, Raised, HsExchange, HsExchangeFails, HsPromote,
       HsFail, Release, ClearSlot, HostRoomOpen, Joined, Queue, Reader, Move, PeerVerification,
       Encrypted, PeerConfirm, Mark, BecomesVerified
  <2>2. CASE Announce(d) \/ Message(d) \/ Deliver(d) \/ ErrorStop(d) \/ ErrorReset(d) \/
     ErrorText(d) \/ Finally(d) \/ SessionClose(d) \/ Notify(d) \/ (\E kind \in FrameKinds :
     NextFrame(d, kind))
    BY <2>2 DEF Announce, QueueStep, Queue, Message, Encrypted, Deliver, ErrorStop, Move,
       ErrorReset, ResetVerification, ErrorText, Finally, LeaveRoom, ClearSlot, ForgetGuest,
       SessionClose, Notify, NextFrame
  <2>. QED BY <1>1, <2>1, <2>2 DEF SessionStep
<1>2. ASSUME NEW r \in Rooms, ListenerStep(r) PROVE Stays
  <2>1. CASE \E d \in Conns : Accept(r, d)
    BY <2>1 DEF Accept
  <2>2. CASE Refuse(r)
    BY <2>2 DEF Refuse, InHand
  <2>3. CASE ListenerTop(r) \/ ListenerClaim(r) \/ StartHandler(r) \/ StartHandlerFails(r) \/
     ListenerReleased(r)
    BY <2>3 DEF ListenerTop, ListenerClaim, Claimable, Claim, StartHandler, StartHandlerFails,
       ListenerReleased
  <2>. QED BY <1>2, <2>1, <2>2, <2>3 DEF ListenerStep
<1>3. ASSUME Request \/ CommandStep PROVE Stays
  <2>1. CASE \E d \in Conns : JoinConnect(d)
    BY <2>1 DEF JoinConnect
  <2>2. CASE CloseSockets
    BY <2>2 DEF CloseSockets
  <2>3. CASE CloseInbox
    BY <2>3 DEF CloseInbox, ResetVerification
  <2>4. CASE CreateRoom \/ JoinRoom \/ ConfirmVerification \/ SendMessage \/ CloseRoom \/ Poll
     \/ CreateKey \/ CreatePublish \/ CreateStart \/ CreateFails \/ JoinTorFails
    BY <2>4 DEF CreateRoom, JoinRoom, ConfirmVerification, Capture, SendMessage, CloseRoom,
       CallClose, Poll, CreateKey, ResetVerification, CreatePublish, CreateStart, CreateFails,
       JoinTorFails
  <2>5. CASE JoinKey \/ JoinConnectFails \/ JoinClaim \/ JoinSetup \/ JoinHandshakeRaised \/
     JoinHandshakeDone \/ JoinStart \/ JoinStartFails \/ Send \/ SendFails \/ ConfirmSet
    BY <2>5 DEF JoinKey, ResetVerification, JoinConnectFails, CallClose, JoinClaim, Claimable,
       Claim, JoinSetup, JoinHandshakeRaised, JoinHandshakeDone, JoinStart, JoinStartFails,
       Send, SendFails, ConfirmSet
  <2>6. CASE ConfirmMark \/ ConfirmAnnounce \/ FailChannel \/ FailClose \/ CloseTake \/
     CloseListener \/ CloseClear
    BY <2>6 DEF ConfirmMark, ConfirmAnnounce, Queue, FailChannel, LeaveRoom, ResetVerification,
       ClearSlot, ForgetGuest, FailClose, CloseTake, CloseListener, CloseClear
  <2>. QED BY <1>3, <2>1, <2>2, <2>3, <2>4, <2>5, <2>6 DEF Request, CommandStep
<1>4. CASE UNCHANGED vars
  BY <1>4 DEF vars
<1>. QED BY <1>1, <1>2, <1>3, <1>4 DEF Next
\* What a step does to the queue: it leaves it, empties it, takes from its front,
\* or queues one event, which is the text of a session only if that may be said,
\* and the news of its verification only from a thread that was to announce it.
LEMMA QueueStepOnly ==
  ASSUME IInv, TextInv, [Next]_vars
  PROVE  \/ inbox' = inbox \/ inbox' = <<>>
         \/ \E n \in Nat : n <= Len(inbox) /\ inbox' = SubSeq(inbox, n + 1, Len(inbox))
         \/ \E event \in Events, c \in Conns :
               /\ Queue(event, c) /\ (event = "peer_text" => Said(c))
               /\ event = "peer_verified" => Announces(c)
<1>. USE DEF Goto, Continue, Return, owner, verify, place, listens, shared, net, tlocals,
   session, listener, clocals, command, history, world, threads
<1>. DEFINE May(event, c) ==
              /\ Queue(event, c) /\ (event = "peer_text" => Said(c))
              /\ event = "peer_verified" => Announces(c)
            Changed == \/ inbox' = inbox \/ inbox' = <<>>
                       \/ \E n \in Nat : /\ n <= Len(inbox)
                                          /\ inbox' = SubSeq(inbox, n + 1, Len(inbox))
                       \/ \E event \in Events, c \in Conns : May(event, c)
<1>. SUFFICES Changed
  OBVIOUS
<1>. USE DEF IInv, TypeOK, Events, ChatEvents, ControlEvents,
   Goto, Close, Continue, Return, owner, verify, place, listens, shared, net, tlocals, session,
   listener, clocals, command, history, world, threads
<1>1. ASSUME NEW c \in Conns, SessionStep(c) PROVE Changed
  <2>1. CASE Joined(c)
    BY <2>1 DEF Joined
  <2>2. CASE Announce(c)
    BY <2>2 DEF Announce, QueueStep, Announces, SessionType
  <2>3. CASE Deliver(c)
    BY <2>3, SessionIsOld DEF Deliver, TextInv, DeliversOwn, Said
  <2>4. CASE ErrorText(c)
    BY <2>4 DEF ErrorText, QueueStep
  <2>5. CASE Notify(c)
    BY <2>5 DEF Notify, QueueStep, SessionType, InHand, TextInv, DeliversOwn
  <2>6. CASE HsStart(c) \/ HsExchange(c) \/ HsExchangeFails(c) \/ HsPromote(c) \/ HsFail(c) \/
     Release(c) \/ Reader(c) \/ PeerVerification(c) \/ PeerConfirm(c) \/ Mark(c) \/ Message(c)
    BY <2>6 DEF HsStart, ResetVerification, Raised, HsExchange, HsExchangeFails, HsPromote,
       HsFail, Release, ClearSlot, HostRoomOpen, Reader, Move, PeerVerification, Encrypted,
       PeerConfirm, Mark, BecomesVerified, Message
  <2>7. CASE ErrorStop(c) \/ ErrorReset(c) \/ Finally(c) \/ SessionClose(c) \/ (\E kind \in
     FrameKinds : NextFrame(c, kind))
    BY <2>7 DEF ErrorStop, Move, ErrorReset, ResetVerification, Finally, LeaveRoom, ClearSlot,
       ForgetGuest, SessionClose, NextFrame
  <2>. QED BY <1>1, <2>1, <2>2, <2>3, <2>4, <2>5, <2>6, <2>7 DEF SessionStep
<1>2. ASSUME NEW r \in Rooms, ListenerStep(r) PROVE Changed
  <2>1. CASE ListenerTop(r) \/ ListenerClaim(r) \/ Refuse(r) \/ StartHandler(r) \/
     StartHandlerFails(r) \/ ListenerReleased(r) \/ (\E c \in Conns : Accept(r, c))
    BY <2>1 DEF ListenerTop, ListenerClaim, Claimable, Claim, Refuse, StartHandler,
       StartHandlerFails, ListenerReleased, Accept
  <2>. QED BY <1>2, <2>1 DEF ListenerStep
<1>3. ASSUME Request \/ CommandStep PROVE Changed
  <2>1. CASE Poll
    BY <2>1, BoundsAssumption DEF Poll
  <2>2. CASE ConfirmAnnounce
    BY <2>2 DEF ConfirmAnnounce, InHand, WithConn, Announces
  <2>3. CASE FailClose
    BY <2>3 DEF FailClose, InHand, WithConn
  <2>4. CASE CloseInbox
    BY <2>4 DEF CloseInbox, ResetVerification
  <2>5. CASE CreateRoom \/ JoinRoom \/ ConfirmVerification \/ SendMessage \/ CloseRoom \/
     CreateKey \/ CreatePublish \/ CreateStart \/ CreateFails \/ JoinTorFails \/ JoinKey
    BY <2>5 DEF CreateRoom, JoinRoom, ConfirmVerification, Capture, SendMessage, CloseRoom,
       CallClose, CreateKey, ResetVerification, CreatePublish, CreateStart, CreateFails,
       JoinTorFails, JoinKey
  <2>6. CASE JoinConnectFails \/ JoinClaim \/ JoinSetup \/ JoinHandshakeRaised \/
     JoinHandshakeDone \/ JoinStart \/ JoinStartFails \/ Send \/ SendFails \/ ConfirmSet \/
     ConfirmMark
    BY <2>6 DEF JoinConnectFails, CallClose, JoinClaim, Claimable, Claim, JoinSetup,
       JoinHandshakeRaised, JoinHandshakeDone, JoinStart, JoinStartFails, Send, SendFails,
       ConfirmSet, ConfirmMark
  <2>7. CASE FailChannel \/ CloseTake \/ CloseSockets \/ CloseListener \/ CloseClear \/ (\E c
     \in Conns : JoinConnect(c))
    BY <2>7 DEF FailChannel, LeaveRoom, ResetVerification, ClearSlot, ForgetGuest, CloseTake,
       CloseSockets, CloseListener, CloseClear, JoinConnect
  <2>. QED BY <1>3, <2>1, <2>2, <2>3, <2>4, <2>5, <2>6, <2>7 DEF Request, CommandStep
<1>4. CASE UNCHANGED vars
  BY <1>4 DEF vars
<1>. QED BY <1>1, <1>2, <1>3, <1>4 DEF Next

\* Every step leaves the peer's texts in the queue with sessions of open rooms.
LEMMA TextsAreSaidStep ==
  ASSUME IInv, TextInv, [Next]_vars
  PROVE  TextsAreSaid'
<1>1. inbox \in Seq(Events \X Conns) /\ Len(inbox) \in Nat
  BY LenProperties DEF IInv, TypeOK, InboxType
<1>2. \A i \in 1..Len(inbox) : inbox[i] \in Events \X Conns
  BY <1>1, ElementOfSeq
<1>3. CASE inbox' = <<>>
  BY <1>3 DEF TextsAreSaid
<1>4. CASE inbox' # <<>>
  <2>1. \A c \in Conns : Said(c) => Said(c)'
    BY <1>4, SaidStays
  <2>2. \A i \in 1..Len(inbox) : inbox[i][1] = "peer_text" =>
          \E c \in Conns : c = inbox[i][2] /\ Said(c)'
    BY <1>2, <2>1 DEF TextInv, TextsAreSaid
  <2>3. CASE inbox' = inbox
    BY <2>2, <2>3 DEF TextsAreSaid
  <2>4. ASSUME NEW n \in Nat, n <= Len(inbox), inbox' = SubSeq(inbox, n + 1, Len(inbox))
        PROVE  TextsAreSaid'
    <3>1. /\ Len(inbox') = Len(inbox) - n
          /\ \A i \in 1..Len(inbox') : inbox'[i] = inbox[n + i] /\ n + i \in 1..Len(inbox)
      BY <1>1, <2>4, SubSeqProperties
    <3>. QED BY <2>2, <3>1 DEF TextsAreSaid
  <2>5. ASSUME NEW event \in Events, NEW c \in Conns, Queue(event, c),
               event = "peer_text" => Said(c)
        PROVE  TextsAreSaid'
    <3>1. CASE inbox' = inbox
      BY <2>2, <3>1 DEF TextsAreSaid
    <3>2. CASE inbox' = Append(inbox, <<event, c>>)
      <4>1. /\ Len(inbox') = Len(inbox) + 1 /\ inbox'[Len(inbox) + 1] = <<event, c>>
            /\ \A i \in 1..Len(inbox) : inbox'[i] = inbox[i]
        BY <1>1, <3>2, AppendProperties
      <4>2. event = "peer_text" => Said(c)'
        BY <2>1, <2>5
      <4>3. ASSUME NEW i \in 1..Len(inbox'), inbox'[i][1] = "peer_text"
            PROVE  Said(inbox[i][2])'
        <5>1. CASE i = Len(inbox) + 1
          BY <4>1, <4>2, <4>3, <5>1
        <5>2. CASE i \in 1..Len(inbox)
          BY <2>2, <4>1, <4>3, <5>2
        <5>. QED BY <1>1, <4>1, <5>1, <5>2
      <4>. QED BY <4>3 DEF TextsAreSaid
    <3>. QED BY <2>5, <3>1, <3>2 DEF Queue
  <2>. QED BY <1>4, <2>3, <2>4, <2>5, QueueStepOnly
<1>. QED BY <1>3, <1>4

-----------------------------------------------------------------------------
\* The invariant holds when the backend starts.
LEMMA InitTexts == Init => TextInv
<1>. SUFFICES ASSUME Init PROVE TextInv
  OBVIOUS
<1>1. RoomsAreOver
  BY DEF Init, RoomsAreOver
<1>2. ListenerHasNew /\ DeliversOwn
  BY DEF Init, ListenerHasNew, DeliversOwn, InHandOf
<1>3. TextsAreSaid
  BY DEF Init, TextsAreSaid
<1>. QED BY <1>1, <1>2, <1>3 DEF TextInv

\* Every step of every thread keeps it.
LEMMA TextStep == IInv /\ TextInv /\ [Next]_vars => TextInv'
  BY RoomsAreOverStep, ListenerHasNewStep, DeliversOwnStep, TextsAreSaidStep DEF TextInv

(* A line that the interface shows as the peer's was said in a session that *)
(* both participants had confirmed, for any number of connections, rooms,   *)
(* frames and events, and however late a session thread is.                 *)
THEOREM TextsAreVerified == Spec => []TextOnlyFromVerified
<1>1. TextInv => TextOnlyFromVerified
  BY DEF TextInv, TextsAreSaid, Said, Confirmed, TextOnlyFromVerified
<1>. QED BY <1>1, Invariance, InitTexts, TextStep, PTL DEF Spec

(* close_room leaves no text of the room it closed behind, and no late      *)
(* thread of that room adds one.                                            *)
THEOREM TextsAreOfOpenRooms == Spec => []NoTextFromClosedRoom
<1>1. TextInv => NoTextFromClosedRoom
  BY DEF TextInv, TextsAreSaid, Said, NoTextFromClosedRoom
<1>. QED BY <1>1, Invariance, InitTexts, TextStep, PTL DEF Spec

-----------------------------------------------------------------------------
(* PeerCountIsTrue.                                                        *)

\* The owner of the slot has been connected, in the role that the room gives it,
\* and close_room has left neither owner nor room when it clears the queue.
SlotIsOfRoom ==
    /\ active # NoConn =>
          /\ sock[active] # "new"
          /\ mode = "guest" => role[active] = "guest"
          /\ role[active] = "guest" => mode = "guest" \/ cmd = "join_setup"
    /\ cmd \in {"join_connect", "join_claim", "join_setup"} => ops # 0

\* Whose failure _release_failed_host_connection releases is a host's connection,
\* and who is about to be announced still has the session if it has the slot.
ThreadIsOfSlot ==
    \A c \in Conns :
        /\ pc[c] = "release" => role[c] = "host"
        /\ pc[c] = "joined" /\ Owns(c) => box = c

CountInv == SlotIsOfRoom /\ ThreadIsOfSlot /\ PeerCountIsTrue

-----------------------------------------------------------------------------
\* Every step leaves the slot with an owner of the room's role.
LEMMA SlotIsOfRoomStep ==
  ASSUME IInv, TextInv, CountInv, [Next]_vars
  PROVE  SlotIsOfRoom'
<1>. USE ConnsAssumption DEF CountInv, SlotIsOfRoom, IInv, TypeOK, OwnerType, NetType,
   SessionType, MaybeConn, Goto, Close, Owns, IsOwner, Continue, Return, owner, verify, place,
   listens, shared, net, tlocals, session, listener, clocals, command, history, world, threads
<1>1. ASSUME NEW c \in Conns, SessionStep(c) PROVE SlotIsOfRoom'
  <2>1. CASE Finally(c)
    BY <2>1 DEF Finally, ResetVerification, LeaveRoom, ClearSlot, ForgetGuest
  <2>2. CASE Release(c)
    BY <2>2 DEF Release, ResetVerification, ClearSlot, HostRoomOpen
  <2>3. CASE HsStart(c) \/ HsExchange(c) \/ HsExchangeFails(c) \/ HsPromote(c) \/ HsFail(c) \/
     Joined(c) \/ Reader(c) \/ PeerVerification(c) \/ PeerConfirm(c) \/ Mark(c) \/ Announce(c)
    BY <2>3 DEF HsStart, ResetVerification, Raised, HsExchange, HsExchangeFails, HsPromote,
       HsFail, Joined, Queue, Reader, Move, PeerVerification, Encrypted, PeerConfirm, Mark,
       BecomesVerified, Announce, QueueStep
  <2>4. CASE Message(c) \/ Deliver(c) \/ ErrorStop(c) \/ ErrorReset(c) \/ ErrorText(c) \/
     SessionClose(c) \/ Notify(c) \/ (\E kind \in FrameKinds : NextFrame(c, kind))
    BY <2>4 DEF Message, Encrypted, Deliver, Queue, ErrorStop, Move, ErrorReset,
       ResetVerification, ErrorText, QueueStep, SessionClose, Notify, NextFrame
  <2>. QED BY <1>1, <2>1, <2>2, <2>3, <2>4 DEF SessionStep
<1>2. ASSUME NEW r \in Rooms, ListenerStep(r) PROVE SlotIsOfRoom'
  <2>1. CASE ListenerClaim(r)
    BY <2>1 DEF ListenerClaim, Claimable, Claim, InHand, CommandPhase, Opening, PeerCountIsTrue,
       Revoked, Closing
  <2>2. CASE \E c \in Conns : Accept(r, c)
    BY <2>2 DEF Accept
  <2>3. CASE ListenerTop(r) \/ Refuse(r) \/ StartHandler(r) \/ StartHandlerFails(r) \/
     ListenerReleased(r)
    BY <2>3 DEF ListenerTop, Refuse, StartHandler, StartHandlerFails, ListenerReleased
  <2>. QED BY <1>2, <2>1, <2>2, <2>3 DEF ListenerStep
<1>3. ASSUME Request \/ CommandStep PROVE SlotIsOfRoom'
  <2>1. CASE CreateRoom
    BY <2>1 DEF CreateRoom
  <2>2. CASE CreatePublish
    BY <2>2 DEF CreatePublish, CommandPhase, Opening
  <2>3. CASE CreateFails
    BY <2>3 DEF CreateFails, CallClose
  <2>4. CASE JoinKey
    BY <2>4, RoomsAreNumbered DEF JoinKey, ResetVerification
  <2>5. CASE \E c \in Conns : JoinConnect(c)
    BY <2>5 DEF JoinConnect
  <2>6. CASE JoinClaim
    BY <2>6 DEF JoinClaim, Claimable, Claim, CallClose, InHand, Joining, WithConn, CommandPhase,
       Opening
  <2>7. CASE JoinSetup
    BY <2>7 DEF JoinSetup, CommandPhase, Joining, InHand
  <2>8. CASE JoinHandshakeRaised
    BY <2>8 DEF JoinHandshakeRaised, CallClose
  <2>9. CASE CloseTake
    BY <2>9 DEF CloseTake
  <2>10. CASE CloseClear
    BY <2>10 DEF CloseClear, LeaveRoom, ResetVerification, CommandPhase, Revoked
  <2>11. CASE FailChannel
    BY <2>11 DEF FailChannel, LeaveRoom, ResetVerification, ClearSlot, ForgetGuest
  <2>12. CASE CloseSockets
    BY <2>12 DEF CloseSockets, CommandPhase, Revoked
  <2>13. CASE JoinRoom \/ ConfirmVerification \/ SendMessage \/ CloseRoom \/ Poll \/ CreateKey
     \/ CreateStart \/ JoinTorFails \/ JoinConnectFails \/ JoinHandshakeDone \/ JoinStart
    BY <2>13 DEF JoinRoom, ConfirmVerification, Capture, SendMessage, CloseRoom, CallClose,
       Poll, CreateKey, ResetVerification, CreateStart, JoinTorFails, JoinConnectFails,
       JoinHandshakeDone, JoinStart
  <2>14. CASE JoinStartFails \/ Send \/ SendFails \/ ConfirmSet \/ ConfirmMark \/
     ConfirmAnnounce \/ FailClose \/ CloseListener \/ CloseInbox
    BY <2>14 DEF JoinStartFails, Send, SendFails, ConfirmSet, ConfirmMark, ConfirmAnnounce,
       Queue, FailClose, CloseListener, CloseInbox, ResetVerification
  <2>. QED BY <1>3, <2>1, <2>2, <2>3, <2>4, <2>5, <2>6, <2>7, <2>8, <2>9, <2>10, <2>11, <2>12,
     <2>13, <2>14 DEF Request, CommandStep
<1>4. CASE UNCHANGED vars
  BY <1>4 DEF vars
<1>. QED BY <1>1, <1>2, <1>3, <1>4 DEF Next

\* Every step leaves host threads and announcements with their slot.
LEMMA ThreadIsOfSlotStep ==
  ASSUME IInv, TextInv, CountInv, [Next]_vars
  PROVE  ThreadIsOfSlot'
<1>. USE ConnsAssumption DEF CountInv, ThreadIsOfSlot, IInv, TypeOK, OwnerType, NetType,
   SessionType, MaybeConn, Goto, Close, Owns, IsOwner, Continue, Return, owner, verify, place,
   listens, shared, net, tlocals, session, listener, clocals, command, history, world, threads
<1>1. ASSUME NEW c \in Conns, SessionStep(c) PROVE ThreadIsOfSlot'
  <2>1. CASE HsStart(c)
    BY <2>1 DEF HsStart, ResetVerification, Raised, InHand
  <2>2. CASE HsFail(c)
    BY <2>2 DEF HsFail, ResetVerification, Raised, InHand
  <2>3. CASE HsPromote(c)
    BY <2>3 DEF HsPromote
  <2>4. CASE Joined(c)
    BY <2>4 DEF Joined, Queue
  <2>5. CASE \E kind \in FrameKinds : NextFrame(c, kind)
    BY <2>5 DEF NextFrame, FrameKinds
  <2>6. CASE Finally(c)
    BY <2>6 DEF Finally, ResetVerification, LeaveRoom, ClearSlot, ForgetGuest
  <2>7. CASE Release(c)
    BY <2>7 DEF Release, ResetVerification, ClearSlot, HostRoomOpen
  <2>8. CASE ErrorReset(c)
    BY <2>8 DEF ErrorReset, ResetVerification
  <2>9. CASE HsExchange(c) \/ HsExchangeFails(c) \/ Reader(c) \/ PeerVerification(c) \/
     PeerConfirm(c) \/ Mark(c) \/ Announce(c) \/ Message(c) \/ Deliver(c) \/ ErrorStop(c) \/
     ErrorText(c)
    BY <2>9 DEF HsExchange, HsExchangeFails, Reader, Move, PeerVerification, Encrypted,
       PeerConfirm, Mark, BecomesVerified, Announce, QueueStep, Queue, Message, Deliver,
       ErrorStop, ErrorText
  <2>10. CASE SessionClose(c) \/ Notify(c)
    BY <2>10 DEF SessionClose, Notify, QueueStep, Queue
  <2>. QED BY <1>1, <2>1, <2>2, <2>3, <2>4, <2>5, <2>6, <2>7, <2>8, <2>9, <2>10 DEF SessionStep
<1>2. ASSUME NEW r \in Rooms, ListenerStep(r) PROVE ThreadIsOfSlot'
  <2>1. CASE ListenerClaim(r)
    BY <2>1 DEF ListenerClaim, Claimable, Claim, TextInv, ListenerHasNew, InHandOf, InHand
  <2>2. CASE \E c \in Conns : Accept(r, c)
    BY <2>2 DEF Accept, InHand
  <2>3. CASE StartHandlerFails(r)
    BY <2>3 DEF StartHandlerFails, InHand
  <2>4. CASE ListenerTop(r) \/ Refuse(r) \/ StartHandler(r) \/ ListenerReleased(r)
    BY <2>4 DEF ListenerTop, Refuse, StartHandler, ListenerReleased
  <2>. QED BY <1>2, <2>1, <2>2, <2>3, <2>4 DEF ListenerStep
<1>3. ASSUME Request \/ CommandStep PROVE ThreadIsOfSlot'
  <2>1. CASE CreateKey
    BY <2>1 DEF CreateKey, ResetVerification, CommandPhase, Opening, SessionInRoom, InRoom,
       HostRoomOpen, Revoked
  <2>2. CASE JoinKey
    BY <2>2 DEF JoinKey, ResetVerification, CommandPhase, Opening, SessionInRoom, InRoom,
       HostRoomOpen, Revoked
  <2>3. CASE \E c \in Conns : JoinConnect(c)
    BY <2>3 DEF JoinConnect, InHand
  <2>4. CASE JoinClaim
    BY <2>4 DEF JoinClaim, Claimable, Claim, CallClose, HandshakeInOrder, InHand, WithConn,
       Joining
  <2>5. CASE CloseTake
    BY <2>5 DEF CloseTake
  <2>6. CASE CloseClear
    BY <2>6 DEF CloseClear, LeaveRoom, ResetVerification, CommandPhase, Revoked
  <2>7. CASE CloseInbox
    BY <2>7 DEF CloseInbox, ResetVerification, TextInv, RoomsAreOver
  <2>8. CASE FailChannel
    BY <2>8 DEF FailChannel, LeaveRoom, ResetVerification, ClearSlot, ForgetGuest
  <2>9. CASE CreateRoom \/ JoinRoom \/ ConfirmVerification \/ SendMessage \/ CloseRoom \/ Poll
     \/ CreatePublish \/ CreateStart \/ CreateFails \/ JoinTorFails \/ JoinConnectFails
    BY <2>9 DEF CreateRoom, JoinRoom, ConfirmVerification, Capture, SendMessage, CloseRoom,
       CallClose, Poll, CreatePublish, CreateStart, CreateFails, JoinTorFails, JoinConnectFails
  <2>10. CASE JoinSetup \/ JoinHandshakeRaised \/ JoinHandshakeDone \/ JoinStart \/
     JoinStartFails \/ Send \/ SendFails \/ ConfirmSet \/ ConfirmMark \/ ConfirmAnnounce \/
     FailClose
    BY <2>10 DEF JoinSetup, JoinHandshakeRaised, CallClose, JoinHandshakeDone, JoinStart,
       JoinStartFails, Send, SendFails, ConfirmSet, ConfirmMark, ConfirmAnnounce, Queue,
       FailClose
  <2>11. CASE CloseSockets \/ CloseListener
    BY <2>11 DEF CloseSockets, CloseListener
  <2>. QED BY <1>3, <2>1, <2>2, <2>3, <2>4, <2>5, <2>6, <2>7, <2>8, <2>9, <2>10, <2>11 DEF
     Request, CommandStep
<1>4. CASE UNCHANGED vars
  BY <1>4 DEF vars
<1>. QED BY <1>1, <1>2, <1>3, <1>4 DEF Next

\* Every step keeps the count of participants true.
LEMMA PeerCountIsTrueStep ==
  ASSUME IInv, TextInv, CountInv, [Next]_vars
  PROVE  PeerCountIsTrue'
<1>. USE ConnsAssumption DEF CountInv, PeerCountIsTrue, Revoked, IInv, TypeOK, OwnerType,
   PlaceType, MaybeConn, HostRoomOpen, Goto, Close, Owns, IsOwner, Continue, Return, owner,
   verify, place, listens, shared, net, tlocals, session, listener, clocals, command, history,
   world, threads
<1>1. ASSUME NEW c \in Conns, SessionStep(c) PROVE PeerCountIsTrue'
  <2>1. CASE Release(c)
    BY <2>1 DEF Release, ResetVerification, ClearSlot, HostRoomOpen, ThreadIsOfSlot,
       SlotIsOfRoom
  <2>2. CASE Joined(c)
    BY <2>2 DEF Joined, Queue, ThreadIsOfSlot, SessionInRoom, InRoom
  <2>3. CASE Finally(c)
    BY <2>3 DEF Finally, ResetVerification, LeaveRoom, ClearSlot, ForgetGuest, SlotIsOfRoom,
       InHand, SessionType, CommandPhase, Opening
  <2>4. CASE HsStart(c) \/ HsExchange(c) \/ HsExchangeFails(c) \/ HsPromote(c) \/ HsFail(c) \/
     Reader(c) \/ PeerVerification(c) \/ PeerConfirm(c) \/ Mark(c) \/ Announce(c) \/ Message(c)
    BY <2>4 DEF HsStart, ResetVerification, Raised, HsExchange, HsExchangeFails, HsPromote,
       HsFail, Reader, Move, PeerVerification, Encrypted, PeerConfirm, Mark, BecomesVerified,
       Announce, QueueStep, Queue, Message
  <2>5. CASE Deliver(c) \/ ErrorStop(c) \/ ErrorReset(c) \/ ErrorText(c) \/ SessionClose(c) \/
     Notify(c) \/ (\E kind \in FrameKinds : NextFrame(c, kind))
    BY <2>5 DEF Deliver, Queue, ErrorStop, Move, ErrorReset, ResetVerification, ErrorText,
       QueueStep, SessionClose, Notify, NextFrame
  <2>. QED BY <1>1, <2>1, <2>2, <2>3, <2>4, <2>5 DEF SessionStep
<1>2. ASSUME NEW r \in Rooms, ListenerStep(r) PROVE PeerCountIsTrue'
  <2>1. CASE ListenerClaim(r)
    BY <2>1 DEF ListenerClaim, Claimable, Claim, InHand, CommandPhase, Closing
  <2>2. CASE ListenerTop(r) \/ Refuse(r) \/ StartHandler(r) \/ StartHandlerFails(r) \/
     ListenerReleased(r) \/ (\E c \in Conns : Accept(r, c))
    BY <2>2 DEF ListenerTop, Refuse, StartHandler, StartHandlerFails, ListenerReleased, Accept
  <2>. QED BY <1>2, <2>1, <2>2 DEF ListenerStep
<1>3. ASSUME Request \/ CommandStep PROVE PeerCountIsTrue'
  <2>1. CASE CreatePublish
    BY <2>1 DEF CreatePublish, CommandPhase, Opening, ListenerHasRoom, Rooms
  <2>2. CASE JoinSetup
    BY <2>2 DEF JoinSetup, SlotIsOfRoom, CommandPhase, Joining, InHand, WithConn
  <2>3. CASE JoinHandshakeDone
    BY <2>3 DEF JoinHandshakeDone, CommandPhase, Joining
  <2>4. CASE JoinClaim
    BY <2>4 DEF JoinClaim, Claimable, Claim, CallClose, CommandPhase, Opening
  <2>5. CASE FailChannel
    BY <2>5 DEF FailChannel, LeaveRoom, ResetVerification, ClearSlot, ForgetGuest, SlotIsOfRoom
  <2>6. CASE CloseTake
    BY <2>6 DEF CloseTake
  <2>7. CASE CloseClear
    BY <2>7 DEF CloseClear, LeaveRoom, ResetVerification, CommandPhase
  <2>8. CASE CreateRoom \/ JoinRoom \/ ConfirmVerification \/ SendMessage \/ CloseRoom \/ Poll
     \/ CreateKey \/ CreateStart \/ CreateFails \/ JoinTorFails \/ JoinKey
    BY <2>8 DEF CreateRoom, JoinRoom, ConfirmVerification, Capture, SendMessage, CloseRoom,
       CallClose, Poll, CreateKey, ResetVerification, CreateStart, CreateFails, JoinTorFails,
       JoinKey
  <2>9. CASE JoinConnectFails \/ JoinHandshakeRaised \/ JoinStart \/ JoinStartFails \/ Send \/
     SendFails \/ ConfirmSet \/ ConfirmMark \/ ConfirmAnnounce \/ FailClose \/ CloseSockets
    BY <2>9 DEF JoinConnectFails, CallClose, JoinHandshakeRaised, JoinStart, JoinStartFails,
       Send, SendFails, ConfirmSet, ConfirmMark, ConfirmAnnounce, Queue, FailClose, CloseSockets
  <2>10. CASE CloseListener \/ CloseInbox \/ (\E c \in Conns : JoinConnect(c))
    BY <2>10 DEF CloseListener, CloseInbox, ResetVerification, JoinConnect
  <2>. QED BY <1>3, <2>1, <2>2, <2>3, <2>4, <2>5, <2>6, <2>7, <2>8, <2>9, <2>10 DEF Request,
     CommandStep
<1>4. CASE UNCHANGED vars
  BY <1>4 DEF vars
<1>. QED BY <1>1, <1>2, <1>3, <1>4 DEF Next

-----------------------------------------------------------------------------
\* The invariant holds when the backend starts.
LEMMA InitCount == Init => CountInv
  BY DEF Init, CountInv, SlotIsOfRoom, ThreadIsOfSlot, PeerCountIsTrue

\* Every step of every thread keeps it.
LEMMA CountStep == IInv /\ TextInv /\ CountInv /\ [Next]_vars => CountInv'
  BY SlotIsOfRoomStep, ThreadIsOfSlotStep, PeerCountIsTrueStep DEF CountInv

(* poll_messages reports two participants only while a session owns the     *)
(* slot of an open room, whatever threads end sessions in whichever order.  *)
THEOREM PeersAreCounted == Spec => []PeerCountIsTrue
<1>1. CountInv => PeerCountIsTrue
  BY DEF CountInv
<1>. QED BY <1>1, Invariance, InitTexts, TextStep, InitCount, CountStep, PTL DEF Spec

-----------------------------------------------------------------------------
(* OneAnnouncement.                                                        *)

IsQueued(c) == \E i \in 1..Len(inbox) : inbox[i] = <<"peer_verified", c>>

Announced(c) ==
    pc[c] = "announce" \/ (cmd = "confirm_announce" /\ cconn = c) \/ IsQueued(c)

\* Before its handshake is over: a connection that is new, in the hands of a
\* listener or of join_room, or of its own thread.
Unsettled(c) ==
    \/ sock[c] = "new"
    \/ \E r \in Rooms : lpc[r] \in {"claim", "start"} /\ lconn[r] = c
    \/ cmd \in {"join_claim", "join_setup"} /\ cconn = c
    \/ pc[c] \in {"hs_start", "hs_exchange", "hs_promote"}

\* A connection is announced neither before it has a session, which it gets once
\* only, nor before this session is verified.
UnsettledIsNew == \A c \in Conns : Unsettled(c) => ~Announced(c) /\ box # c
UnverifiedIsNew == box # NoConn /\ ~verification => ~Announced(box)

\* OneAnnouncement, with a name for what the queue holds.
AnnouncedOnce ==
    \A c \in Conns : pc[c] = "announce" =>
        ~(cmd = "confirm_announce" /\ cconn = c) /\ ~IsQueued(c)

AnnounceInv == UnsettledIsNew /\ UnverifiedIsNew /\ AnnouncedOnce

-----------------------------------------------------------------------------
\* What is in the queue of c's announcement was there before, or comes with a
\* step that announces it.
LEMMA QueuedByAnnouncer ==
  ASSUME IInv, TextInv, [Next]_vars, NEW c \in Conns, IsQueued(c)'
  PROVE  IsQueued(c) \/ Announces(c)
<1>1. inbox \in Seq(Events \X Conns) /\ Len(inbox) \in Nat
  BY LenProperties DEF IInv, TypeOK, InboxType
<1>2. PICK i \in 1..Len(inbox') : inbox'[i] = <<"peer_verified", c>>
  BY DEF IsQueued
<1>3. CASE inbox' = inbox \/ inbox' = <<>>
  BY <1>2, <1>3 DEF IsQueued
<1>4. ASSUME NEW n \in Nat, n <= Len(inbox), inbox' = SubSeq(inbox, n + 1, Len(inbox))
      PROVE  IsQueued(c)
  <2>1. Len(inbox') = Len(inbox) - n /\ inbox'[i] = inbox[n + i] /\ n + i \in 1..Len(inbox)
    BY <1>1, <1>2, <1>4, SubSeqProperties
  <2>. QED BY <1>2, <2>1 DEF IsQueued
<1>5. ASSUME NEW event \in Events, NEW d \in Conns, Queue(event, d),
             event = "peer_verified" => Announces(d)
      PROVE  IsQueued(c) \/ Announces(c)
  <2>1. CASE inbox' = inbox
    BY <1>2, <2>1 DEF IsQueued
  <2>2. CASE inbox' = Append(inbox, <<event, d>>)
    <3>1. /\ Len(inbox') = Len(inbox) + 1 /\ inbox'[Len(inbox) + 1] = <<event, d>>
          /\ \A j \in 1..Len(inbox) : inbox'[j] = inbox[j]
      BY <1>1, <2>2, AppendProperties
    <3>2. CASE i \in 1..Len(inbox)
      BY <1>2, <3>1, <3>2 DEF IsQueued
    <3>3. CASE i = Len(inbox) + 1
      BY <1>2, <1>5, <3>1, <3>3
    <3>. QED BY <1>1, <1>2, <3>1, <3>2, <3>3
  <2>. QED BY <1>5, <2>1, <2>2 DEF Queue
<1>. QED BY <1>3, <1>4, <1>5, QueueStepOnly

\* Every step leaves connections without a session unannounced.
LEMMA UnsettledIsNewStep ==
  ASSUME IInv, TextInv, AnnounceInv, [Next]_vars
  PROVE  UnsettledIsNew'
<1>. USE ConnsAssumption, QueuedByAnnouncer DEF UnsettledIsNew, AnnounceInv, Unsettled,
   Announced, IInv, TypeOK, SessionType, Announces, Goto, Close, Owns, IsOwner, Continue,
   Return, owner, verify, place, listens, shared, net, tlocals, session, listener, clocals,
   command, history, world, threads
<1>1. ASSUME NEW c \in Conns, SessionStep(c) PROVE UnsettledIsNew'
  <2>1. CASE HsStart(c)
    BY <2>1 DEF HsStart, ResetVerification, Raised
  <2>2. CASE HsExchange(c)
    BY <2>2 DEF HsExchange
  <2>3. CASE HsExchangeFails(c)
    BY <2>3 DEF HsExchangeFails
  <2>4. CASE HsPromote(c)
    BY <2>4 DEF HsPromote, ListenerHasNew, TextInv, InHandOf, HandshakeInOrder,
       GuestHandshake, InHand
  <2>5. CASE HsFail(c)
    BY <2>5 DEF HsFail, ResetVerification, Raised
  <2>6. CASE Release(c)
    BY <2>6 DEF Release, ResetVerification, HostRoomOpen, ClearSlot
  <2>7. CASE Joined(c)
    BY <2>7 DEF Joined, Queue, NetType
  <2>8. CASE Reader(c)
    BY <2>8 DEF Reader, Move
  <2>9. CASE \E kind \in FrameKinds : NextFrame(c, kind)
    BY <2>9 DEF NextFrame, FrameKinds
  <2>10. CASE PeerVerification(c)
    BY <2>10 DEF PeerVerification, Encrypted
  <2>11. CASE PeerConfirm(c)
    BY <2>11 DEF PeerConfirm
  <2>12. CASE Mark(c)
    BY <2>12 DEF Mark, BecomesVerified, CommandPhase, Joining, SessionBelongsToOwner,
       Revoked, SessionInRoom, InRoom
  <2>13. CASE Announce(c)
    BY <2>13 DEF Announce, QueueStep, Queue
  <2>14. CASE Message(c)
    BY <2>14 DEF Message, Encrypted
  <2>15. CASE Deliver(c)
    BY <2>15 DEF Deliver, Queue
  <2>16. CASE ErrorStop(c)
    BY <2>16 DEF ErrorStop, Move
  <2>17. CASE ErrorReset(c)
    BY <2>17 DEF ErrorReset, ResetVerification
  <2>18. CASE ErrorText(c)
    BY <2>18 DEF ErrorText, QueueStep, Queue
  <2>19. CASE Finally(c)
    BY <2>19 DEF Finally, HostRoomOpen, ResetVerification, LeaveRoom, ClearSlot, ForgetGuest
  <2>20. CASE SessionClose(c)
    BY <2>20 DEF SessionClose
  <2>21. CASE Notify(c)
    BY <2>21 DEF Notify, QueueStep, Queue
  <2>. QED BY <1>1, <2>1, <2>2, <2>3, <2>4, <2>5, <2>6, <2>7, <2>8, <2>9, <2>10, <2>11,
     <2>12, <2>13, <2>14, <2>15, <2>16, <2>17, <2>18, <2>19, <2>20, <2>21 DEF SessionStep
<1>2. ASSUME NEW r \in Rooms, ListenerStep(r) PROVE UnsettledIsNew'
  <2>1. CASE ListenerTop(r)
    BY <2>1 DEF ListenerTop
  <2>2. CASE \E c \in Conns : Accept(r, c)
    BY <2>2 DEF Accept, ListenerType
  <2>3. CASE ListenerClaim(r)
    BY <2>3 DEF ListenerClaim, Claimable, Claim
  <2>4. CASE Refuse(r)
    BY <2>4 DEF Refuse
  <2>5. CASE StartHandler(r)
    BY <2>5 DEF StartHandler
  <2>6. CASE StartHandlerFails(r)
    BY <2>6 DEF StartHandlerFails
  <2>7. CASE ListenerReleased(r)
    BY <2>7 DEF ListenerReleased
  <2>. QED BY <1>2, <2>1, <2>2, <2>3, <2>4, <2>5, <2>6, <2>7 DEF ListenerStep
<1>3. ASSUME Request \/ CommandStep PROVE UnsettledIsNew'
  <2>1. CASE CreateRoom
    BY <2>1 DEF CreateRoom, RoomInactive
  <2>2. CASE CreateKey
    BY <2>2 DEF CreateKey, ResetVerification
  <2>3. CASE CreatePublish
    BY <2>3 DEF CreatePublish
  <2>4. CASE CreateStart
    BY <2>4 DEF CreateStart
  <2>5. CASE CreateFails
    BY <2>5 DEF CreateFails, CallClose
  <2>6. CASE JoinRoom
    BY <2>6 DEF JoinRoom, RoomInactive
  <2>7. CASE JoinTorFails
    BY <2>7 DEF JoinTorFails
  <2>8. CASE JoinKey
    BY <2>8 DEF JoinKey, ResetVerification
  <2>9. CASE \E c \in Conns : JoinConnect(c)
    BY <2>9 DEF JoinConnect
  <2>10. CASE JoinConnectFails
    BY <2>10 DEF JoinConnectFails, CallClose
  <2>11. CASE JoinClaim
    BY <2>11 DEF JoinClaim, Claimable, Claim, CallClose, NetType
  <2>12. CASE JoinSetup
    BY <2>12 DEF JoinSetup, CommandPhase, Joining
  <2>13. CASE JoinHandshakeRaised
    BY <2>13 DEF JoinHandshakeRaised, CallClose, CommandPhase, Joining
  <2>14. CASE JoinHandshakeDone
    BY <2>14 DEF JoinHandshakeDone
  <2>15. CASE JoinStart
    BY <2>15 DEF JoinStart
  <2>16. CASE JoinStartFails
    BY <2>16 DEF JoinStartFails
  <2>17. CASE ConfirmVerification
    BY <2>17 DEF ConfirmVerification, Capture, Encrypted
  <2>18. CASE SendMessage
    BY <2>18 DEF SendMessage, Capture, Encrypted
  <2>19. CASE Send
    BY <2>19 DEF Send
  <2>20. CASE SendFails
    BY <2>20 DEF SendFails
  <2>21. CASE ConfirmSet
    BY <2>21 DEF ConfirmSet
  <2>22. CASE ConfirmMark
    BY <2>22 DEF ConfirmMark, BecomesVerified, SessionBelongsToOwner, Revoked,
       SessionInRoom, InRoom
  <2>23. CASE ConfirmAnnounce
    BY <2>23 DEF ConfirmAnnounce, Queue
  <2>24. CASE FailChannel
    BY <2>24 DEF FailChannel, LeaveRoom, HostRoomOpen, ResetVerification, ClearSlot,
       ForgetGuest
  <2>25. CASE FailClose
    BY <2>25 DEF FailClose, Queue
  <2>26. CASE CloseRoom
    BY <2>26 DEF CloseRoom, RoomInactive, CallClose
  <2>27. CASE CloseTake
    BY <2>27 DEF CloseTake
  <2>28. CASE CloseSockets
    BY <2>28 DEF CloseSockets
  <2>29. CASE CloseListener
    BY <2>29 DEF CloseListener
  <2>30. CASE CloseClear
    BY <2>30 DEF CloseClear, LeaveRoom, ResetVerification
  <2>31. CASE CloseInbox
    BY <2>31 DEF CloseInbox, ResetVerification
  <2>32. CASE Poll
    BY <2>32 DEF Poll
  <2>. QED BY <1>3, <2>1, <2>2, <2>3, <2>4, <2>5, <2>6, <2>7, <2>8, <2>9, <2>10, <2>11,
     <2>12, <2>13, <2>14, <2>15, <2>16, <2>17, <2>18, <2>19, <2>20, <2>21, <2>22, <2>23,
     <2>24, <2>25, <2>26, <2>27, <2>28, <2>29, <2>30, <2>31, <2>32 DEF Request, CommandStep
<1>4. CASE UNCHANGED vars
  BY <1>4 DEF vars
<1>. QED BY <1>1, <1>2, <1>3, <1>4 DEF Next

-----------------------------------------------------------------------------
\* Every step leaves a session that is not verified unannounced.
LEMMA UnverifiedIsNewStep ==
  ASSUME IInv, TextInv, AnnounceInv, [Next]_vars
  PROVE  UnverifiedIsNew'
<1>. USE ConnsAssumption, QueuedByAnnouncer DEF UnverifiedIsNew, AnnounceInv,
   UnsettledIsNew, Unsettled, Announced, IInv, TypeOK, VerifyType, MaybeConn, SessionType,
   Announces, Goto, Close, Owns, IsOwner, Continue, Return, owner, verify, place, listens,
   shared, net, tlocals, session, listener, clocals, command, history, world, threads
<1>1. ASSUME NEW c \in Conns, SessionStep(c) PROVE UnverifiedIsNew'
  <2>1. CASE HsStart(c)
    BY <2>1 DEF HsStart, ResetVerification, Raised
  <2>2. CASE HsExchange(c)
    BY <2>2 DEF HsExchange
  <2>3. CASE HsExchangeFails(c)
    BY <2>3 DEF HsExchangeFails
  <2>4. CASE HsPromote(c)
    BY <2>4 DEF HsPromote
  <2>5. CASE HsFail(c)
    BY <2>5 DEF HsFail, ResetVerification, Raised
  <2>6. CASE Release(c)
    BY <2>6 DEF Release, ResetVerification, HostRoomOpen, ClearSlot
  <2>7. CASE Joined(c)
    BY <2>7 DEF Joined, Queue
  <2>8. CASE Reader(c)
    BY <2>8 DEF Reader, Move
  <2>9. CASE \E kind \in FrameKinds : NextFrame(c, kind)
    BY <2>9 DEF NextFrame, FrameKinds
  <2>10. CASE PeerVerification(c)
    BY <2>10 DEF PeerVerification, Encrypted
  <2>11. CASE PeerConfirm(c)
    BY <2>11 DEF PeerConfirm
  <2>12. CASE Mark(c)
    BY <2>12 DEF Mark, BecomesVerified
  <2>13. CASE Announce(c)
    BY <2>13 DEF Announce, QueueStep, Queue
  <2>14. CASE Message(c)
    BY <2>14 DEF Message, Encrypted
  <2>15. CASE Deliver(c)
    BY <2>15 DEF Deliver, Queue
  <2>16. CASE ErrorStop(c)
    BY <2>16 DEF ErrorStop, Move
  <2>17. CASE ErrorReset(c)
    BY <2>17 DEF ErrorReset, ResetVerification
  <2>18. CASE ErrorText(c)
    BY <2>18 DEF ErrorText, QueueStep, Queue
  <2>19. CASE Finally(c)
    BY <2>19 DEF Finally, HostRoomOpen, ResetVerification, LeaveRoom, ClearSlot, ForgetGuest
  <2>20. CASE SessionClose(c)
    BY <2>20 DEF SessionClose
  <2>21. CASE Notify(c)
    BY <2>21 DEF Notify, QueueStep, Queue
  <2>. QED BY <1>1, <2>1, <2>2, <2>3, <2>4, <2>5, <2>6, <2>7, <2>8, <2>9, <2>10, <2>11,
     <2>12, <2>13, <2>14, <2>15, <2>16, <2>17, <2>18, <2>19, <2>20, <2>21 DEF SessionStep
<1>2. ASSUME NEW r \in Rooms, ListenerStep(r) PROVE UnverifiedIsNew'
  <2>1. CASE StartHandler(r)
    BY <2>1 DEF StartHandler
  <2>2. CASE StartHandlerFails(r)
    BY <2>2 DEF StartHandlerFails
  <2>3. CASE ListenerTop(r) \/ (\E c \in Conns : Accept(r, c)) \/ ListenerClaim(r) \/
     Refuse(r) \/ ListenerReleased(r)
    BY <2>3 DEF ListenerTop, Accept, ListenerClaim, Claimable, Claim, Refuse,
       ListenerReleased
  <2>. QED BY <1>2, <2>1, <2>2, <2>3 DEF ListenerStep
<1>3. ASSUME Request \/ CommandStep PROVE UnverifiedIsNew'
  <2>1. CASE CreateRoom
    BY <2>1 DEF CreateRoom, RoomInactive
  <2>2. CASE CreateKey
    BY <2>2 DEF CreateKey, ResetVerification
  <2>3. CASE CreatePublish
    BY <2>3 DEF CreatePublish
  <2>4. CASE CreateStart
    BY <2>4 DEF CreateStart
  <2>5. CASE CreateFails
    BY <2>5 DEF CreateFails, CallClose
  <2>6. CASE JoinRoom
    BY <2>6 DEF JoinRoom, RoomInactive
  <2>7. CASE JoinTorFails
    BY <2>7 DEF JoinTorFails
  <2>8. CASE JoinKey
    BY <2>8 DEF JoinKey, ResetVerification
  <2>9. CASE \E c \in Conns : JoinConnect(c)
    BY <2>9 DEF JoinConnect
  <2>10. CASE JoinConnectFails
    BY <2>10 DEF JoinConnectFails, CallClose
  <2>11. CASE JoinClaim
    BY <2>11 DEF JoinClaim, Claimable, Claim, CallClose
  <2>12. CASE JoinSetup
    BY <2>12 DEF JoinSetup
  <2>13. CASE JoinHandshakeRaised
    BY <2>13 DEF JoinHandshakeRaised, CallClose
  <2>14. CASE JoinHandshakeDone
    BY <2>14 DEF JoinHandshakeDone
  <2>15. CASE JoinStart
    BY <2>15 DEF JoinStart
  <2>16. CASE JoinStartFails
    BY <2>16 DEF JoinStartFails
  <2>17. CASE ConfirmVerification
    BY <2>17 DEF ConfirmVerification, Capture, Encrypted
  <2>18. CASE SendMessage
    BY <2>18 DEF SendMessage, Capture, Encrypted
  <2>19. CASE Send
    BY <2>19 DEF Send
  <2>20. CASE SendFails
    BY <2>20 DEF SendFails
  <2>21. CASE ConfirmSet
    BY <2>21 DEF ConfirmSet
  <2>22. CASE ConfirmMark
    BY <2>22 DEF ConfirmMark, BecomesVerified
  <2>23. CASE ConfirmAnnounce
    BY <2>23 DEF ConfirmAnnounce, Queue
  <2>24. CASE FailChannel
    BY <2>24 DEF FailChannel, LeaveRoom, HostRoomOpen, ResetVerification, ClearSlot,
       ForgetGuest
  <2>25. CASE FailClose
    BY <2>25 DEF FailClose, Queue
  <2>26. CASE CloseRoom
    BY <2>26 DEF CloseRoom, RoomInactive, CallClose
  <2>27. CASE CloseTake
    BY <2>27 DEF CloseTake
  <2>28. CASE CloseSockets
    BY <2>28 DEF CloseSockets
  <2>29. CASE CloseListener
    BY <2>29 DEF CloseListener
  <2>30. CASE CloseClear
    BY <2>30 DEF CloseClear, LeaveRoom, ResetVerification
  <2>31. CASE CloseInbox
    BY <2>31 DEF CloseInbox, ResetVerification
  <2>32. CASE Poll
    BY <2>32 DEF Poll
  <2>. QED BY <1>3, <2>1, <2>2, <2>3, <2>4, <2>5, <2>6, <2>7, <2>8, <2>9, <2>10, <2>11,
     <2>12, <2>13, <2>14, <2>15, <2>16, <2>17, <2>18, <2>19, <2>20, <2>21, <2>22, <2>23,
     <2>24, <2>25, <2>26, <2>27, <2>28, <2>29, <2>30, <2>31, <2>32 DEF Request, CommandStep
<1>4. CASE UNCHANGED vars
  BY <1>4 DEF vars
<1>. QED BY <1>1, <1>2, <1>3, <1>4 DEF Next

-----------------------------------------------------------------------------
\* Every step leaves a session with one announcement.
LEMMA AnnouncedOnceStep ==
  ASSUME IInv, TextInv, AnnounceInv, [Next]_vars
  PROVE  AnnouncedOnce'
<1>. USE ConnsAssumption, QueuedByAnnouncer DEF AnnouncedOnce, AnnounceInv,
   UnverifiedIsNew, Announced, IInv, TypeOK, SessionType, Announces, Goto, Close, Owns,
   IsOwner, Continue, Return, owner, verify, place, listens, shared, net, tlocals, session,
   listener, clocals, command, history, world, threads
<1>1. ASSUME NEW c \in Conns, SessionStep(c) PROVE AnnouncedOnce'
  <2>1. CASE HsStart(c)
    BY <2>1 DEF HsStart, ResetVerification, Raised
  <2>2. CASE HsExchange(c)
    BY <2>2 DEF HsExchange
  <2>3. CASE HsExchangeFails(c)
    BY <2>3 DEF HsExchangeFails
  <2>4. CASE HsPromote(c)
    BY <2>4 DEF HsPromote
  <2>5. CASE HsFail(c)
    BY <2>5 DEF HsFail, ResetVerification, Raised
  <2>6. CASE Release(c)
    BY <2>6 DEF Release, ResetVerification, HostRoomOpen, ClearSlot
  <2>7. CASE Joined(c)
    BY <2>7 DEF Joined, Queue
  <2>8. CASE Reader(c)
    BY <2>8 DEF Reader, Move
  <2>9. CASE \E kind \in FrameKinds : NextFrame(c, kind)
    BY <2>9 DEF NextFrame, FrameKinds
  <2>10. CASE PeerVerification(c)
    BY <2>10 DEF PeerVerification, Encrypted
  <2>11. CASE PeerConfirm(c)
    BY <2>11 DEF PeerConfirm
  <2>12. CASE Mark(c)
    BY <2>12 DEF Mark, BecomesVerified, CommandPhase, Joining, SessionBelongsToOwner,
       Revoked, SessionInRoom, InRoom
  <2>13. CASE Announce(c)
    BY <2>13 DEF Announce, QueueStep, Queue
  <2>14. CASE Message(c)
    BY <2>14 DEF Message, Encrypted
  <2>15. CASE Deliver(c)
    BY <2>15 DEF Deliver, Queue
  <2>16. CASE ErrorStop(c)
    BY <2>16 DEF ErrorStop, Move
  <2>17. CASE ErrorReset(c)
    BY <2>17 DEF ErrorReset, ResetVerification
  <2>18. CASE ErrorText(c)
    BY <2>18 DEF ErrorText, QueueStep, Queue
  <2>19. CASE Finally(c)
    BY <2>19 DEF Finally, HostRoomOpen, ResetVerification, LeaveRoom, ClearSlot, ForgetGuest
  <2>20. CASE SessionClose(c)
    BY <2>20 DEF SessionClose
  <2>21. CASE Notify(c)
    BY <2>21 DEF Notify, QueueStep, Queue
  <2>. QED BY <1>1, <2>1, <2>2, <2>3, <2>4, <2>5, <2>6, <2>7, <2>8, <2>9, <2>10, <2>11,
     <2>12, <2>13, <2>14, <2>15, <2>16, <2>17, <2>18, <2>19, <2>20, <2>21 DEF SessionStep
<1>2. ASSUME NEW r \in Rooms, ListenerStep(r) PROVE AnnouncedOnce'
  <2>1. CASE StartHandler(r)
    BY <2>1 DEF StartHandler
  <2>2. CASE StartHandlerFails(r)
    BY <2>2 DEF StartHandlerFails
  <2>3. CASE ListenerTop(r) \/ (\E c \in Conns : Accept(r, c)) \/ ListenerClaim(r) \/
     Refuse(r) \/ ListenerReleased(r)
    BY <2>3 DEF ListenerTop, Accept, ListenerClaim, Claimable, Claim, Refuse,
       ListenerReleased
  <2>. QED BY <1>2, <2>1, <2>2, <2>3 DEF ListenerStep
<1>3. ASSUME Request \/ CommandStep PROVE AnnouncedOnce'
  <2>1. CASE CreateRoom
    BY <2>1 DEF CreateRoom, RoomInactive
  <2>2. CASE CreateKey
    BY <2>2 DEF CreateKey, ResetVerification
  <2>3. CASE CreatePublish
    BY <2>3 DEF CreatePublish
  <2>4. CASE CreateStart
    BY <2>4 DEF CreateStart
  <2>5. CASE CreateFails
    BY <2>5 DEF CreateFails, CallClose
  <2>6. CASE JoinRoom
    BY <2>6 DEF JoinRoom, RoomInactive
  <2>7. CASE JoinTorFails
    BY <2>7 DEF JoinTorFails
  <2>8. CASE JoinKey
    BY <2>8 DEF JoinKey, ResetVerification
  <2>9. CASE \E c \in Conns : JoinConnect(c)
    BY <2>9 DEF JoinConnect
  <2>10. CASE JoinConnectFails
    BY <2>10 DEF JoinConnectFails, CallClose
  <2>11. CASE JoinClaim
    BY <2>11 DEF JoinClaim, Claimable, Claim, CallClose
  <2>12. CASE JoinSetup
    BY <2>12 DEF JoinSetup
  <2>13. CASE JoinHandshakeRaised
    BY <2>13 DEF JoinHandshakeRaised, CallClose
  <2>14. CASE JoinHandshakeDone
    BY <2>14 DEF JoinHandshakeDone
  <2>15. CASE JoinStart
    BY <2>15 DEF JoinStart
  <2>16. CASE JoinStartFails
    BY <2>16 DEF JoinStartFails
  <2>17. CASE ConfirmVerification
    BY <2>17 DEF ConfirmVerification, Capture, Encrypted
  <2>18. CASE SendMessage
    BY <2>18 DEF SendMessage, Capture, Encrypted
  <2>19. CASE Send
    BY <2>19 DEF Send
  <2>20. CASE SendFails
    BY <2>20 DEF SendFails
  <2>21. CASE ConfirmSet
    BY <2>21 DEF ConfirmSet
  <2>22. CASE ConfirmMark
    BY <2>22 DEF ConfirmMark, BecomesVerified, SessionBelongsToOwner, Revoked,
       SessionInRoom, InRoom
  <2>23. CASE ConfirmAnnounce
    BY <2>23 DEF ConfirmAnnounce, Queue
  <2>24. CASE FailChannel
    BY <2>24 DEF FailChannel, LeaveRoom, HostRoomOpen, ResetVerification, ClearSlot,
       ForgetGuest
  <2>25. CASE FailClose
    BY <2>25 DEF FailClose, Queue
  <2>26. CASE CloseRoom
    BY <2>26 DEF CloseRoom, RoomInactive, CallClose
  <2>27. CASE CloseTake
    BY <2>27 DEF CloseTake
  <2>28. CASE CloseSockets
    BY <2>28 DEF CloseSockets
  <2>29. CASE CloseListener
    BY <2>29 DEF CloseListener
  <2>30. CASE CloseClear
    BY <2>30 DEF CloseClear, LeaveRoom, ResetVerification
  <2>31. CASE CloseInbox
    BY <2>31 DEF CloseInbox, ResetVerification
  <2>32. CASE Poll
    BY <2>32 DEF Poll
  <2>. QED BY <1>3, <2>1, <2>2, <2>3, <2>4, <2>5, <2>6, <2>7, <2>8, <2>9, <2>10, <2>11,
     <2>12, <2>13, <2>14, <2>15, <2>16, <2>17, <2>18, <2>19, <2>20, <2>21, <2>22, <2>23,
     <2>24, <2>25, <2>26, <2>27, <2>28, <2>29, <2>30, <2>31, <2>32 DEF Request, CommandStep
<1>4. CASE UNCHANGED vars
  BY <1>4 DEF vars
<1>. QED BY <1>1, <1>2, <1>3, <1>4 DEF Next

-----------------------------------------------------------------------------
\* The invariant holds when the backend starts.
LEMMA InitAnnounce == Init => AnnounceInv
  BY ConnsAssumption DEF Init, AnnounceInv, UnsettledIsNew, UnverifiedIsNew, AnnouncedOnce,
     Announced, IsQueued

\* Every step of every thread keeps it.
LEMMA AnnounceStep == IInv /\ TextInv /\ AnnounceInv /\ [Next]_vars => AnnounceInv'
  BY UnsettledIsNewStep, UnverifiedIsNewStep, AnnouncedOnceStep DEF AnnounceInv

(* The interface is told once that a participant is verified: the reader    *)
(* and the command thread never both find that the other has confirmed.     *)
THEOREM AnnouncedOnlyOnce == Spec => []OneAnnouncement
<1>1. AnnounceInv => OneAnnouncement
  BY DEF AnnounceInv, AnnouncedOnce, IsQueued, OneAnnouncement
<1>. QED BY <1>1, Invariance, InitTexts, TextStep, InitAnnounce, AnnounceStep, PTL DEF Spec

-----------------------------------------------------------------------------
(* NoSocketLeak and SlotIsServed.                                          *)

\* Whoever owns the slot owns it by the number it was claimed with.
ActiveIsClaimed == active # NoConn => activeGen = gen[active]

\* An open socket has a thread at work on it: its own, a listener's, or the command
\* that opened it; or close_room is about to take it, or has just taken it.
Kept(c) ==
    \/ pc[c] \notin {"none", "notify", "done"}
    \/ \E r \in Rooms : lpc[r] \in {"claim", "refuse", "start"} /\ lconn[r] = c
    \/ cmd \in Joining \cup {"join_claim"} /\ cconn = c
    \/ cmd = "close_take" /\ active = c
    \/ cmd = "close_sockets" /\ cconn = c
SocketIsKept == \A c \in Conns : sock[c] = "open" => Kept(c)

\* Who owns the slot has a thread that will give it back.
Served(c) ==
    \/ pc[c] \notin {"none", "close", "notify", "done"}
    \/ \E r \in Rooms : lpc[r] = "start" /\ lconn[r] = c
    \/ cmd \in Joining \cup {"close_take"} /\ cconn = c
OwnerIsServed == active # NoConn => Served(active)

SlotInv == ActiveIsClaimed /\ SocketIsKept /\ OwnerIsServed

\* Every step leaves the slot to who claimed it.
LEMMA ActiveIsClaimedStep ==
  ASSUME IInv, TextInv, SlotInv, "guest" \notin FailingStarts, [Next]_vars
  PROVE  ActiveIsClaimed'
<1>. USE ConnsAssumption DEF ActiveIsClaimed, SlotInv, IInv, TypeOK, OwnerType, MaybeConn,
   SessionType, Goto, Close, Owns, IsOwner, Continue, Return, owner, verify, place,
   listens, shared, net, tlocals, session, listener, clocals, command, history, world,
   threads
<1>1. ASSUME NEW c \in Conns, SessionStep(c) PROVE ActiveIsClaimed'
  <2>1. CASE Release(c)
    BY <2>1 DEF Release, ResetVerification, HostRoomOpen, ClearSlot
  <2>2. CASE Finally(c)
    BY <2>2 DEF Finally, HostRoomOpen, ResetVerification, LeaveRoom, ClearSlot, ForgetGuest
  <2>3. CASE HsStart(c) \/ HsExchange(c) \/ HsExchangeFails(c) \/ HsPromote(c) \/ HsFail(c)
     \/ Joined(c) \/ Reader(c) \/ (\E kind \in FrameKinds : NextFrame(c, kind)) \/
     PeerVerification(c) \/ PeerConfirm(c) \/ Mark(c)
    BY <2>3 DEF HsStart, ResetVerification, Raised, HsExchange, HsExchangeFails, HsPromote,
       HsFail, Joined, Queue, Reader, Move, NextFrame, PeerVerification, Encrypted,
       PeerConfirm, Mark, BecomesVerified
  <2>4. CASE Announce(c) \/ Message(c) \/ Deliver(c) \/ ErrorStop(c) \/ ErrorReset(c) \/
     ErrorText(c) \/ SessionClose(c) \/ Notify(c)
    BY <2>4 DEF Announce, QueueStep, Queue, Message, Encrypted, Deliver, ErrorStop, Move,
       ErrorReset, ResetVerification, ErrorText, SessionClose, Notify
  <2>. QED BY <1>1, <2>1, <2>2, <2>3, <2>4 DEF SessionStep
<1>2. ASSUME NEW r \in Rooms, ListenerStep(r) PROVE ActiveIsClaimed'
  <2>1. CASE ListenerClaim(r)
    BY <2>1 DEF ListenerClaim, Claimable, Claim, ListenerType
  <2>2. CASE ListenerTop(r) \/ (\E c \in Conns : Accept(r, c)) \/ Refuse(r) \/
     StartHandler(r) \/ StartHandlerFails(r) \/ ListenerReleased(r)
    BY <2>2 DEF ListenerTop, Accept, Refuse, StartHandler, StartHandlerFails,
       ListenerReleased
  <2>. QED BY <1>2, <2>1, <2>2 DEF ListenerStep
<1>3. ASSUME Request \/ CommandStep PROVE ActiveIsClaimed'
  <2>1. CASE JoinClaim
    BY <2>1 DEF JoinClaim, Claimable, Claim, CallClose, CommandType
  <2>2. CASE FailChannel
    BY <2>2 DEF FailChannel, LeaveRoom, HostRoomOpen, ResetVerification, ClearSlot,
       ForgetGuest
  <2>3. CASE CloseTake
    BY <2>3 DEF CloseTake
  <2>4. CASE CreateRoom \/ CreateKey \/ CreatePublish \/ CreateStart \/ CreateFails \/
     JoinRoom \/ JoinTorFails \/ JoinKey \/ (\E c \in Conns : JoinConnect(c)) \/
     JoinConnectFails \/ JoinSetup
    BY <2>4 DEF CreateRoom, RoomInactive, CreateKey, ResetVerification, CreatePublish,
       CreateStart, CreateFails, CallClose, JoinRoom, JoinTorFails, JoinKey, JoinConnect,
       JoinConnectFails, JoinSetup
  <2>5. CASE JoinHandshakeRaised \/ JoinHandshakeDone \/ JoinStart \/ JoinStartFails \/
     ConfirmVerification \/ SendMessage \/ Send \/ SendFails \/ ConfirmSet \/ ConfirmMark
     \/ ConfirmAnnounce
    BY <2>5 DEF JoinHandshakeRaised, CallClose, JoinHandshakeDone, JoinStart,
       JoinStartFails, ConfirmVerification, Capture, Encrypted, SendMessage, Send,
       SendFails, ConfirmSet, ConfirmMark, BecomesVerified, ConfirmAnnounce, Queue
  <2>6. CASE FailClose \/ CloseRoom \/ CloseSockets \/ CloseListener \/ CloseClear \/
     CloseInbox \/ Poll
    BY <2>6 DEF FailClose, Queue, CloseRoom, RoomInactive, CallClose, CloseSockets,
       CloseListener, CloseClear, LeaveRoom, ResetVerification, CloseInbox, Poll
  <2>. QED BY <1>3, <2>1, <2>2, <2>3, <2>4, <2>5, <2>6 DEF Request, CommandStep
<1>4. CASE UNCHANGED vars
  BY <1>4 DEF vars
<1>. QED BY <1>1, <1>2, <1>3, <1>4 DEF Next

-----------------------------------------------------------------------------
\* Every step leaves open sockets to a thread at work on them.
LEMMA SocketIsKeptStep ==
  ASSUME IInv, TextInv, SlotInv, "guest" \notin FailingStarts, [Next]_vars
  PROVE  SocketIsKept'
<1>. USE ConnsAssumption DEF SocketIsKept, SlotInv, Kept, IInv, TypeOK, NetType,
   SessionType, Joining, WithConn, Goto, Close, Owns, IsOwner, Continue, Return, owner,
   verify, place, listens, shared, net, tlocals, session, listener, clocals, command,
   history, world, threads
<1>1. ASSUME NEW c \in Conns, SessionStep(c) PROVE SocketIsKept'
  <2>1. CASE HsStart(c)
    BY <2>1 DEF HsStart, ResetVerification, Raised
  <2>2. CASE HsExchange(c)
    BY <2>2 DEF HsExchange
  <2>3. CASE HsExchangeFails(c)
    BY <2>3 DEF HsExchangeFails
  <2>4. CASE HsPromote(c)
    BY <2>4 DEF HsPromote
  <2>5. CASE HsFail(c)
    BY <2>5 DEF HsFail, ResetVerification, Raised
  <2>6. CASE Release(c)
    BY <2>6 DEF Release, ResetVerification, HostRoomOpen, ClearSlot
  <2>7. CASE Joined(c)
    BY <2>7 DEF Joined, Queue
  <2>8. CASE Reader(c)
    BY <2>8 DEF Reader, Move
  <2>9. CASE \E kind \in FrameKinds : NextFrame(c, kind)
    BY <2>9 DEF NextFrame, FrameKinds
  <2>10. CASE PeerVerification(c)
    BY <2>10 DEF PeerVerification, Encrypted
  <2>11. CASE PeerConfirm(c)
    BY <2>11 DEF PeerConfirm
  <2>12. CASE Mark(c)
    BY <2>12 DEF Mark, BecomesVerified
  <2>13. CASE Announce(c)
    BY <2>13 DEF Announce, QueueStep, Queue
  <2>14. CASE Message(c)
    BY <2>14 DEF Message, Encrypted
  <2>15. CASE Deliver(c)
    BY <2>15 DEF Deliver, Queue
  <2>16. CASE ErrorStop(c)
    BY <2>16 DEF ErrorStop, Move
  <2>17. CASE ErrorReset(c)
    BY <2>17 DEF ErrorReset, ResetVerification
  <2>18. CASE ErrorText(c)
    BY <2>18 DEF ErrorText, QueueStep, Queue
  <2>19. CASE Finally(c)
    BY <2>19 DEF Finally, HostRoomOpen, ResetVerification, LeaveRoom, ClearSlot, ForgetGuest
  <2>20. CASE SessionClose(c)
    BY <2>20 DEF SessionClose
  <2>21. CASE Notify(c)
    BY <2>21 DEF Notify, QueueStep, Queue
  <2>. QED BY <1>1, <2>1, <2>2, <2>3, <2>4, <2>5, <2>6, <2>7, <2>8, <2>9, <2>10, <2>11,
     <2>12, <2>13, <2>14, <2>15, <2>16, <2>17, <2>18, <2>19, <2>20, <2>21 DEF SessionStep
<1>2. ASSUME NEW r \in Rooms, ListenerStep(r) PROVE SocketIsKept'
  <2>1. CASE ListenerTop(r)
    BY <2>1 DEF ListenerTop
  <2>2. CASE \E c \in Conns : Accept(r, c)
    BY <2>2 DEF Accept, ListenerType
  <2>3. CASE ListenerClaim(r)
    BY <2>3 DEF ListenerClaim, Claimable, Claim
  <2>4. CASE Refuse(r)
    BY <2>4 DEF Refuse
  <2>5. CASE StartHandler(r)
    BY <2>5 DEF StartHandler
  <2>6. CASE StartHandlerFails(r)
    BY <2>6 DEF StartHandlerFails
  <2>7. CASE ListenerReleased(r)
    BY <2>7 DEF ListenerReleased
  <2>. QED BY <1>2, <2>1, <2>2, <2>3, <2>4, <2>5, <2>6, <2>7 DEF ListenerStep
<1>3. ASSUME Request \/ CommandStep PROVE SocketIsKept'
  <2>1. CASE CreateRoom
    BY <2>1 DEF CreateRoom, RoomInactive
  <2>2. CASE CreateKey
    BY <2>2 DEF CreateKey, ResetVerification
  <2>3. CASE CreatePublish
    BY <2>3 DEF CreatePublish
  <2>4. CASE CreateStart
    BY <2>4 DEF CreateStart, ListenerHasRoom
  <2>5. CASE CreateFails
    BY <2>5 DEF CreateFails, CallClose
  <2>6. CASE JoinRoom
    BY <2>6 DEF JoinRoom, RoomInactive
  <2>7. CASE JoinTorFails
    BY <2>7 DEF JoinTorFails
  <2>8. CASE JoinKey
    BY <2>8 DEF JoinKey, ResetVerification
  <2>9. CASE \E c \in Conns : JoinConnect(c)
    BY <2>9 DEF JoinConnect
  <2>10. CASE JoinConnectFails
    BY <2>10 DEF JoinConnectFails, CallClose
  <2>11. CASE JoinClaim
    BY <2>11 DEF JoinClaim, Claimable, Claim, CallClose
  <2>12. CASE JoinSetup
    BY <2>12 DEF JoinSetup
  <2>13. CASE JoinHandshakeRaised
    BY <2>13 DEF JoinHandshakeRaised, CallClose
  <2>14. CASE JoinHandshakeDone
    BY <2>14 DEF JoinHandshakeDone
  <2>15. CASE JoinStart
    BY <2>15 DEF JoinStart
  <2>16. CASE JoinStartFails
    BY <2>16 DEF JoinStartFails
  <2>17. CASE ConfirmVerification
    BY <2>17 DEF ConfirmVerification, Capture, Encrypted
  <2>18. CASE SendMessage
    BY <2>18 DEF SendMessage, Capture, Encrypted
  <2>19. CASE Send
    BY <2>19 DEF Send
  <2>20. CASE SendFails
    BY <2>20 DEF SendFails
  <2>21. CASE ConfirmSet
    BY <2>21 DEF ConfirmSet
  <2>22. CASE ConfirmMark
    BY <2>22 DEF ConfirmMark, BecomesVerified
  <2>23. CASE ConfirmAnnounce
    BY <2>23 DEF ConfirmAnnounce, Queue
  <2>24. CASE FailChannel
    BY <2>24 DEF FailChannel, LeaveRoom, HostRoomOpen, ResetVerification, ClearSlot,
       ForgetGuest
  <2>25. CASE FailClose
    BY <2>25 DEF FailClose, Queue
  <2>26. CASE CloseRoom
    BY <2>26 DEF CloseRoom, RoomInactive, CallClose
  <2>27. CASE CloseTake
    BY <2>27 DEF CloseTake
  <2>28. CASE CloseSockets
    BY <2>28 DEF CloseSockets
  <2>29. CASE CloseListener
    BY <2>29 DEF CloseListener
  <2>30. CASE CloseClear
    BY <2>30 DEF CloseClear, LeaveRoom, ResetVerification
  <2>31. CASE CloseInbox
    BY <2>31 DEF CloseInbox, ResetVerification
  <2>32. CASE Poll
    BY <2>32 DEF Poll
  <2>. QED BY <1>3, <2>1, <2>2, <2>3, <2>4, <2>5, <2>6, <2>7, <2>8, <2>9, <2>10, <2>11,
     <2>12, <2>13, <2>14, <2>15, <2>16, <2>17, <2>18, <2>19, <2>20, <2>21, <2>22, <2>23,
     <2>24, <2>25, <2>26, <2>27, <2>28, <2>29, <2>30, <2>31, <2>32 DEF Request, CommandStep
<1>4. CASE UNCHANGED vars
  BY <1>4 DEF vars
<1>. QED BY <1>1, <1>2, <1>3, <1>4 DEF Next

-----------------------------------------------------------------------------
\* Every step leaves the owner of the slot with a thread that gives it back.
LEMMA OwnerIsServedStep ==
  ASSUME IInv, TextInv, SlotInv, "guest" \notin FailingStarts, [Next]_vars
  PROVE  OwnerIsServed'
<1>. USE ConnsAssumption DEF OwnerIsServed, SlotInv, ActiveIsClaimed, Served, IInv, TypeOK,
   OwnerType, MaybeConn, SessionType, Joining, Goto, Close, Owns, IsOwner, Continue,
   Return, owner, verify, place, listens, shared, net, tlocals, session, listener, clocals,
   command, history, world, threads
<1>1. ASSUME NEW c \in Conns, SessionStep(c) PROVE OwnerIsServed'
  <2>1. CASE HsStart(c)
    BY <2>1 DEF HsStart, ResetVerification, Raised
  <2>2. CASE HsExchange(c)
    BY <2>2 DEF HsExchange
  <2>3. CASE HsExchangeFails(c)
    BY <2>3 DEF HsExchangeFails
  <2>4. CASE HsPromote(c)
    BY <2>4 DEF HsPromote
  <2>5. CASE HsFail(c)
    BY <2>5 DEF HsFail, ResetVerification, Raised
  <2>6. CASE Release(c)
    BY <2>6 DEF Release, ResetVerification, HostRoomOpen, ClearSlot
  <2>7. CASE Joined(c)
    BY <2>7 DEF Joined, Queue
  <2>8. CASE Reader(c)
    BY <2>8 DEF Reader, Move
  <2>9. CASE \E kind \in FrameKinds : NextFrame(c, kind)
    BY <2>9 DEF NextFrame, FrameKinds
  <2>10. CASE PeerVerification(c)
    BY <2>10 DEF PeerVerification, Encrypted
  <2>11. CASE PeerConfirm(c)
    BY <2>11 DEF PeerConfirm
  <2>12. CASE Mark(c)
    BY <2>12 DEF Mark, BecomesVerified
  <2>13. CASE Announce(c)
    BY <2>13 DEF Announce, QueueStep, Queue
  <2>14. CASE Message(c)
    BY <2>14 DEF Message, Encrypted
  <2>15. CASE Deliver(c)
    BY <2>15 DEF Deliver, Queue
  <2>16. CASE ErrorStop(c)
    BY <2>16 DEF ErrorStop, Move
  <2>17. CASE ErrorReset(c)
    BY <2>17 DEF ErrorReset, ResetVerification
  <2>18. CASE ErrorText(c)
    BY <2>18 DEF ErrorText, QueueStep, Queue
  <2>19. CASE Finally(c)
    BY <2>19 DEF Finally, HostRoomOpen, ResetVerification, LeaveRoom, ClearSlot, ForgetGuest
  <2>20. CASE SessionClose(c)
    BY <2>20 DEF SessionClose
  <2>21. CASE Notify(c)
    BY <2>21 DEF Notify, QueueStep, Queue
  <2>. QED BY <1>1, <2>1, <2>2, <2>3, <2>4, <2>5, <2>6, <2>7, <2>8, <2>9, <2>10, <2>11,
     <2>12, <2>13, <2>14, <2>15, <2>16, <2>17, <2>18, <2>19, <2>20, <2>21 DEF SessionStep
<1>2. ASSUME NEW r \in Rooms, ListenerStep(r) PROVE OwnerIsServed'
  <2>1. CASE ListenerTop(r)
    BY <2>1 DEF ListenerTop
  <2>2. CASE \E c \in Conns : Accept(r, c)
    BY <2>2 DEF Accept
  <2>3. CASE ListenerClaim(r)
    BY <2>3 DEF ListenerClaim, Claimable, Claim, ListenerType
  <2>4. CASE Refuse(r)
    BY <2>4 DEF Refuse
  <2>5. CASE StartHandler(r)
    BY <2>5 DEF StartHandler
  <2>6. CASE StartHandlerFails(r)
    BY <2>6 DEF StartHandlerFails
  <2>7. CASE ListenerReleased(r)
    BY <2>7 DEF ListenerReleased
  <2>. QED BY <1>2, <2>1, <2>2, <2>3, <2>4, <2>5, <2>6, <2>7 DEF ListenerStep
<1>3. ASSUME Request \/ CommandStep PROVE OwnerIsServed'
  <2>1. CASE CreateRoom
    BY <2>1 DEF CreateRoom, RoomInactive
  <2>2. CASE CreateKey
    BY <2>2 DEF CreateKey, ResetVerification
  <2>3. CASE CreatePublish
    BY <2>3 DEF CreatePublish
  <2>4. CASE CreateStart
    BY <2>4 DEF CreateStart, ListenerHasRoom
  <2>5. CASE CreateFails
    BY <2>5 DEF CreateFails, CallClose
  <2>6. CASE JoinRoom
    BY <2>6 DEF JoinRoom, RoomInactive
  <2>7. CASE JoinTorFails
    BY <2>7 DEF JoinTorFails
  <2>8. CASE JoinKey
    BY <2>8 DEF JoinKey, ResetVerification
  <2>9. CASE \E c \in Conns : JoinConnect(c)
    BY <2>9 DEF JoinConnect
  <2>10. CASE JoinConnectFails
    BY <2>10 DEF JoinConnectFails, CallClose
  <2>11. CASE JoinClaim
    BY <2>11 DEF JoinClaim, Claimable, Claim, CallClose
  <2>12. CASE JoinSetup
    BY <2>12 DEF JoinSetup
  <2>13. CASE JoinHandshakeRaised
    BY <2>13 DEF JoinHandshakeRaised, CallClose
  <2>14. CASE JoinHandshakeDone
    BY <2>14 DEF JoinHandshakeDone
  <2>15. CASE JoinStart
    BY <2>15 DEF JoinStart
  <2>16. CASE JoinStartFails
    BY <2>16 DEF JoinStartFails
  <2>17. CASE ConfirmVerification
    BY <2>17 DEF ConfirmVerification, Capture, Encrypted
  <2>18. CASE SendMessage
    BY <2>18 DEF SendMessage, Capture, Encrypted
  <2>19. CASE Send
    BY <2>19 DEF Send
  <2>20. CASE SendFails
    BY <2>20 DEF SendFails
  <2>21. CASE ConfirmSet
    BY <2>21 DEF ConfirmSet
  <2>22. CASE ConfirmMark
    BY <2>22 DEF ConfirmMark, BecomesVerified
  <2>23. CASE ConfirmAnnounce
    BY <2>23 DEF ConfirmAnnounce, Queue
  <2>24. CASE FailChannel
    BY <2>24 DEF FailChannel, LeaveRoom, HostRoomOpen, ResetVerification, ClearSlot,
       ForgetGuest
  <2>25. CASE FailClose
    BY <2>25 DEF FailClose, Queue
  <2>26. CASE CloseRoom
    BY <2>26 DEF CloseRoom, RoomInactive, CallClose
  <2>27. CASE CloseTake
    BY <2>27 DEF CloseTake
  <2>28. CASE CloseSockets
    BY <2>28 DEF CloseSockets
  <2>29. CASE CloseListener
    BY <2>29 DEF CloseListener
  <2>30. CASE CloseClear
    BY <2>30 DEF CloseClear, LeaveRoom, ResetVerification
  <2>31. CASE CloseInbox
    BY <2>31 DEF CloseInbox, ResetVerification
  <2>32. CASE Poll
    BY <2>32 DEF Poll
  <2>. QED BY <1>3, <2>1, <2>2, <2>3, <2>4, <2>5, <2>6, <2>7, <2>8, <2>9, <2>10, <2>11,
     <2>12, <2>13, <2>14, <2>15, <2>16, <2>17, <2>18, <2>19, <2>20, <2>21, <2>22, <2>23,
     <2>24, <2>25, <2>26, <2>27, <2>28, <2>29, <2>30, <2>31, <2>32 DEF Request, CommandStep
<1>4. CASE UNCHANGED vars
  BY <1>4 DEF vars
<1>. QED BY <1>1, <1>2, <1>3, <1>4 DEF Next

-----------------------------------------------------------------------------
\* The invariant holds when the backend starts.
LEMMA InitSlot == Init => SlotInv
  BY DEF Init, SlotInv, ActiveIsClaimed, SocketIsKept, OwnerIsServed

\* Every step of every thread keeps it.
LEMMA SlotStep ==
  ASSUME "guest" \notin FailingStarts
  PROVE  IInv /\ TextInv /\ SlotInv /\ [Next]_vars => SlotInv'
  BY ActiveIsClaimedStep, SocketIsKeptStep, OwnerIsServedStep DEF SlotInv

(* No interleaving of the threads forgets a socket that is open.  join_room *)
(* lets a failing Thread.start() of its reader pass without closing the     *)
(* session: that is the case set aside.                                     *)
THEOREM SocketsAreClosed ==
  ASSUME "guest" \notin FailingStarts
  PROVE  Spec => []NoSocketLeak
<1>1. IInv /\ TextInv /\ SlotInv => NoSocketLeak
  BY ConnsAssumption DEF IInv, TypeOK, ListenerType, CommandType, SlotInv, SocketIsKept, Kept,
     OwnerIsServed, Served, NoSocketLeak, Joining
<1>. QED BY <1>1, Invariance, InitTexts, TextStep, InitSlot, SlotStep, PTL DEF Spec

(* Nor does one leave the slot to a connection whose threads have gone,     *)
(* which would refuse every later participant of the room.                  *)
THEOREM OwnersAreServed ==
  ASSUME "guest" \notin FailingStarts
  PROVE  Spec => []SlotIsServed
<1>1. IInv /\ TextInv /\ SlotInv => SlotIsServed
  BY DEF SlotInv, OwnerIsServed, Served, SlotIsServed, Joining
<1>. QED BY <1>1, Invariance, InitTexts, TextStep, InitSlot, SlotStep, PTL DEF Spec

=============================================================================
