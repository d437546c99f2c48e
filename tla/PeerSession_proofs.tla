------------------------ MODULE PeerSession_proofs ------------------------
(* TLAPS proofs about PeerSession for every number of connections, rooms,   *)
(* frames and queued events.  First the types, then one lemma for each part *)
(* of the inductive invariant IInv, with a step for each action of the code *)
(* that changes what the part speaks of; at the end the theorems.           *)
EXTENDS PeerSessionInv, TLAPS, SequenceTheorems

\* Each part of the type invariant is about one group of variables only.
LEMMA TypeFrames ==
  /\ OwnerType /\ UNCHANGED owner => OwnerType'
  /\ VerifyType /\ UNCHANGED verify => VerifyType'
  /\ PlaceType /\ UNCHANGED place => PlaceType'
  /\ HostingType /\ UNCHANGED <<stop, peerCount, listens>> => HostingType'
  /\ InboxType /\ UNCHANGED inbox => InboxType'
  /\ NetType /\ UNCHANGED net => NetType'
  /\ SessionType /\ UNCHANGED session => SessionType'
  /\ ListenerType /\ UNCHANGED listener => ListenerType'
  /\ CommandType /\ UNCHANGED command => CommandType'
  /\ HistoryType /\ UNCHANGED history => HistoryType'
  BY DEF OwnerType, owner, VerifyType, verify, PlaceType, place, HostingType, listens,
         InboxType, NetType, net, SessionType, session, tlocals, ListenerType, listener,
         CommandType, command, clocals, HistoryType, history

\* Queueing an event keeps _inbox a bounded sequence of events.
LEMMA QueueType ==
  ASSUME InboxType, NEW event \in Events, NEW c \in Conns, Queue(event, c)
  PROVE  InboxType'
  BY BoundsAssumption, AppendProperties DEF InboxType, Queue

\* A reset of the session's cryptography is well typed.
LEMMA ResetType ==
  ASSUME NEW status \in {"disconnected", "pending", "confirmed", "failed"},
         ResetVerification(status)
  PROVE  VerifyType'
  BY DEF VerifyType, ResetVerification, MaybeConn

\* What a poll leaves in _inbox is a shorter sequence of events.
LEMMA SubSeqType ==
  ASSUME InboxType, NEW n \in Nat, n <= Len(inbox)
  PROVE  /\ SubSeq(inbox, n + 1, Len(inbox)) \in Seq(Events \X Conns)
         /\ Len(SubSeq(inbox, n + 1, Len(inbox))) <= InboxLimit
<1>. DEFINE m == Len(inbox)
<1>1. inbox \in Seq(Events \X Conns) /\ m \in Nat /\ m <= InboxLimit
  BY LenProperties DEF InboxType
<1>2. \A i \in n + 1 .. m : inbox[i] \in Events \X Conns
  BY <1>1, ElementOfSeq
<1>. QED BY <1>1, <1>2, SubSeqProperties, BoundsAssumption

\* The steps of a session thread keep the types.
LEMMA SessionTypes ==
  ASSUME TypeOK, InHand, NEW c \in Conns, SessionStep(c)
  PROVE  TypeOK'
<1>1. ASSUME HsStart(c) PROVE TypeOK'
  <2>1. VerifyType'
    BY <1>1, ResetType, TypeFrames DEF TypeOK, HsStart
  <2>2. SessionType'
    BY <1>1 DEF TypeOK, HsStart, SessionType, Goto, SessionLabels, PlaceType, Raised
  <2>. QED BY <1>1, <2>1, <2>2, TypeFrames DEF TypeOK, HsStart, world
<1>2. ASSUME HsExchange(c) PROVE TypeOK'
  <2>1. SessionType'
    BY <1>2 DEF TypeOK, HsExchange, SessionType, Goto, SessionLabels, tlocals
  <2>. QED BY <1>2, <2>1, TypeFrames DEF TypeOK, HsExchange, world, shared
<1>3. ASSUME HsExchangeFails(c) PROVE TypeOK'
  <2>1. SessionType'
    BY <1>3 DEF TypeOK, HsExchangeFails, SessionType, Goto, SessionLabels, tlocals
  <2>. QED BY <1>3, <2>1, TypeFrames DEF TypeOK, HsExchangeFails, world, shared
<1>4. ASSUME HsPromote(c) PROVE TypeOK'
  <2>1. VerifyType'
    BY <1>4 DEF TypeOK, HsPromote, VerifyType, MaybeConn
  <2>2. SessionType'
    BY <1>4 DEF TypeOK, HsPromote, SessionType, Goto, SessionLabels, tlocals
  <2>. QED BY <1>4, <2>1, <2>2, TypeFrames DEF TypeOK, HsPromote, world
<1>5. ASSUME HsFail(c) PROVE TypeOK'
  <2>1. VerifyType'
    BY <1>5, ResetType, TypeFrames DEF TypeOK, HsFail
  <2>2. SessionType'
    BY <1>5 DEF TypeOK, HsFail, SessionType, Goto, SessionLabels, Raised, tlocals
  <2>. QED BY <1>5, <2>1, <2>2, TypeFrames DEF TypeOK, HsFail, world
<1>6. ASSUME Release(c) PROVE TypeOK'
  <2>1. VerifyType'
    BY <1>6, ResetType, TypeFrames DEF TypeOK, Release
  <2>2. OwnerType'
    BY <1>6 DEF TypeOK, Release, OwnerType, ClearSlot, MaybeConn, owner
  <2>3. HostingType'
    BY <1>6 DEF TypeOK, Release, HostingType, listens
  <2>4. SessionType'
    BY <1>6 DEF TypeOK, Release, SessionType, Goto, SessionLabels, Events,
       ChatEvents
  <2>. QED BY <1>6, <2>1, <2>2, <2>3, <2>4, TypeFrames DEF TypeOK, Release, world
<1>7. ASSUME Joined(c) PROVE TypeOK'
  <2>1. HostingType'
    BY <1>7 DEF TypeOK, Joined, HostingType, listens
  <2>2. InboxType'
    BY <1>7, QueueType, TypeFrames DEF TypeOK, Joined, Events, ControlEvents
  <2>3. NetType'
    BY <1>7 DEF TypeOK, Joined, NetType, Close
  <2>4. SessionType'
    BY <1>7 DEF TypeOK, Joined, SessionType, Goto, SessionLabels, tlocals
  <2>. QED BY <1>7, <2>1, <2>2, <2>3, <2>4, TypeFrames DEF TypeOK, Joined
<1>8. ASSUME Reader(c) PROVE TypeOK'
  <2>1. SessionType'
    BY <1>8 DEF TypeOK, Reader, SessionType, Goto, SessionLabels, tlocals, Move
  <2>. QED BY <1>8, <2>1, TypeFrames DEF TypeOK, Reader, world, shared, Move
<1>9. ASSUME NEW kind \in FrameKinds, NextFrame(c, kind) PROVE TypeOK'
  <2>1. SessionType'
    BY <1>9 DEF TypeOK, NextFrame, SessionType, Goto, SessionLabels, tlocals,
       FrameKinds
  <2>2. HistoryType'
    BY <1>9 DEF TypeOK, NextFrame, HistoryType
  <2>. QED BY <1>9, <2>1, <2>2, TypeFrames DEF TypeOK, NextFrame, shared
<1>10. ASSUME PeerVerification(c) PROVE TypeOK'
  <2>1. SessionType'
    BY <1>10 DEF TypeOK, PeerVerification, SessionType, Goto, SessionLabels,
       VerifyType, MaybeConn
  <2>. QED BY <1>10, <2>1, TypeFrames DEF TypeOK, PeerVerification, world, shared
<1>11. ASSUME PeerConfirm(c) PROVE TypeOK'
  <2>1. VerifyType'
    BY <1>11 DEF TypeOK, PeerConfirm, VerifyType
  <2>2. SessionType'
    BY <1>11 DEF TypeOK, PeerConfirm, SessionType, Goto, SessionLabels, MaybeConn
  <2>. QED BY <1>11, <2>1, <2>2, TypeFrames DEF TypeOK, PeerConfirm, world
<1>12. ASSUME Mark(c) PROVE TypeOK'
  <2>1. VerifyType'
    BY <1>12 DEF TypeOK, Mark, VerifyType
  <2>2. SessionType'
    BY <1>12 DEF TypeOK, Mark, SessionType, Goto, SessionLabels, tlocals
  <2>. QED BY <1>12, <2>1, <2>2, TypeFrames DEF TypeOK, Mark, world
<1>13. ASSUME Announce(c) PROVE TypeOK'
  <2>1. InboxType'
    BY <1>13, QueueType, TypeFrames DEF TypeOK, Announce, Events, ControlEvents,
       QueueStep
  <2>2. SessionType'
    BY <1>13 DEF TypeOK, Announce, SessionType, Goto, SessionLabels, QueueStep,
       tlocals
  <2>. QED BY <1>13, <2>1, <2>2, TypeFrames DEF TypeOK, Announce, world, QueueStep
<1>14. ASSUME Message(c) PROVE TypeOK'
  <2>1. SessionType'
    BY <1>14 DEF TypeOK, Message, SessionType, Goto, SessionLabels, VerifyType,
       MaybeConn
  <2>. QED BY <1>14, <2>1, TypeFrames DEF TypeOK, Message, world, shared
<1>15. ASSUME Deliver(c) PROVE TypeOK'
  <2>1. InboxType'
    <3>1. InboxType /\ "peer_text" \in Events
      BY DEF TypeOK, Events, ChatEvents
    <3>2. Queue("peer_text", c) \/ inbox' = <<>> \/ inbox' = inbox
      BY <1>15 DEF Deliver
    <3>3. ASSUME inbox' = <<>> PROVE InboxType'
      BY <3>3, BoundsAssumption DEF InboxType
    <3>. QED BY <3>1, <3>2, <3>3, QueueType DEF InboxType
  <2>2. SessionType'
    BY <1>15 DEF TypeOK, Deliver, SessionType, Goto, SessionLabels, MaybeConn
  <2>. QED BY <1>15, <2>1, <2>2, TypeFrames DEF TypeOK, Deliver, world
<1>16. ASSUME ErrorStop(c) PROVE TypeOK'
  <2>1. SessionType'
    BY <1>16 DEF TypeOK, ErrorStop, SessionType, Goto, SessionLabels, tlocals, Move
  <2>. QED BY <1>16, <2>1, TypeFrames DEF TypeOK, ErrorStop, world, shared, Move
<1>17. ASSUME ErrorReset(c) PROVE TypeOK'
  <2>1. VerifyType'
    BY <1>17, ResetType, TypeFrames DEF TypeOK, ErrorReset
  <2>2. SessionType'
    BY <1>17 DEF TypeOK, ErrorReset, SessionType, Goto, SessionLabels, tlocals
  <2>. QED BY <1>17, <2>1, <2>2, TypeFrames DEF TypeOK, ErrorReset, world
<1>18. ASSUME ErrorText(c) PROVE TypeOK'
  <2>1. InboxType'
    BY <1>18, QueueType, TypeFrames DEF TypeOK, ErrorText, Events, ChatEvents,
       QueueStep
  <2>2. SessionType'
    BY <1>18 DEF TypeOK, ErrorText, SessionType, Goto, SessionLabels, QueueStep,
       tlocals
  <2>. QED BY <1>18, <2>1, <2>2, TypeFrames DEF TypeOK, ErrorText, world, QueueStep
<1>19. ASSUME Finally(c) PROVE TypeOK'
  <2>1. OwnerType'
    BY <1>19 DEF TypeOK, Finally, OwnerType, ClearSlot, ForgetGuest, MaybeConn,
       owner
  <2>2. VerifyType'
    BY <1>19 DEF TypeOK, Finally, VerifyType, ResetVerification, MaybeConn, verify
  <2>3. PlaceType'
    BY <1>19 DEF TypeOK, Finally, PlaceType, LeaveRoom, MaybeRoom, place
  <2>4. HostingType'
    BY <1>19 DEF TypeOK, Finally, HostingType, LeaveRoom, listens
  <2>5. SessionType'
    BY <1>19 DEF TypeOK, Finally, SessionType, Goto, SessionLabels, Events,
       ControlEvents
  <2>. QED BY <1>19, <2>1, <2>2, <2>3, <2>4, <2>5, TypeFrames DEF TypeOK, Finally,
     world
<1>20. ASSUME SessionClose(c) PROVE TypeOK'
  <2>1. NetType'
    BY <1>20 DEF TypeOK, SessionClose, NetType, Close
  <2>2. SessionType'
    BY <1>20 DEF TypeOK, SessionClose, SessionType, Goto, SessionLabels, tlocals
  <2>. QED BY <1>20, <2>1, <2>2, TypeFrames DEF TypeOK, SessionClose, shared
<1>21. ASSUME Notify(c) PROVE TypeOK'
  <2>1. InboxType'
    BY <1>21, QueueType, TypeFrames DEF TypeOK, Notify, Events, QueueStep,
       SessionType, InHand
  <2>2. SessionType'
    BY <1>21 DEF TypeOK, Notify, SessionType, Goto, SessionLabels, QueueStep,
       tlocals
  <2>. QED BY <1>21, <2>1, <2>2, TypeFrames DEF TypeOK, Notify, world, QueueStep
<1>. QED BY <1>1, <1>2, <1>3, <1>4, <1>5, <1>6, <1>7, <1>8, <1>9, <1>10, <1>11,
   <1>12, <1>13, <1>14, <1>15, <1>16, <1>17, <1>18, <1>19, <1>20, <1>21 DEF
   SessionStep

\* The steps of a listener thread keep the types.
LEMMA ListenerTypes ==
  ASSUME TypeOK, InHand, NEW r \in Rooms, ListenerStep(r)
  PROVE  TypeOK'
<1>1. ASSUME ListenerTop(r) PROVE TypeOK'
  <2>1. ListenerType'
    BY <1>1 DEF TypeOK, ListenerTop, ListenerType, ListenerLabels, MaybeConn
  <2>. QED BY <1>1, <2>1, TypeFrames DEF TypeOK, ListenerTop, shared
<1>2. ASSUME NEW c \in Conns, Accept(r, c) PROVE TypeOK'
  <2>1. ListenerType'
    BY <1>2 DEF TypeOK, Accept, ListenerType, ListenerLabels, MaybeConn
  <2>2. NetType'
    BY <1>2 DEF TypeOK, Accept, NetType, MaybeRoom
  <2>3. SessionType'
    BY <1>2 DEF TypeOK, Accept, SessionType
  <2>. QED BY <1>2, <2>1, <2>2, <2>3, TypeFrames DEF TypeOK, Accept, shared
<1>3. ASSUME ListenerClaim(r) PROVE TypeOK'
  <2>1. ListenerType'
    BY <1>3 DEF TypeOK, ListenerClaim, ListenerType, ListenerLabels, MaybeConn
  <2>2. OwnerType'
    BY <1>3 DEF TypeOK, ListenerClaim, OwnerType, ListenerType, Claim, MaybeConn,
       owner
  <2>3. SessionType'
    BY <1>3 DEF TypeOK, ListenerClaim, SessionType, OwnerType, Claim
  <2>. QED BY <1>3, <2>1, <2>2, <2>3, TypeFrames DEF TypeOK, ListenerClaim
<1>4. ASSUME Refuse(r) PROVE TypeOK'
  <2>1. ListenerType'
    BY <1>4 DEF TypeOK, Refuse, ListenerType, ListenerLabels, MaybeConn
  <2>2. NetType'
    BY <1>4 DEF TypeOK, Refuse, NetType, Close
  <2>. QED BY <1>4, <2>1, <2>2, TypeFrames DEF TypeOK, Refuse, shared
<1>5. ASSUME StartHandler(r) PROVE TypeOK'
  <2>1. ListenerType'
    BY <1>5 DEF TypeOK, StartHandler, ListenerType, ListenerLabels, MaybeConn
  <2>2. SessionType'
    BY <1>5 DEF TypeOK, StartHandler, SessionType, Goto, SessionLabels, tlocals
  <2>. QED BY <1>5, <2>1, <2>2, TypeFrames DEF TypeOK, StartHandler, shared
<1>6. ASSUME StartHandlerFails(r) PROVE TypeOK'
  <2>1. ListenerType'
    BY <1>6 DEF TypeOK, StartHandlerFails, ListenerType, ListenerLabels, MaybeConn
  <2>2. SessionType'
    BY <1>6 DEF TypeOK, StartHandlerFails, SessionType, Goto, SessionLabels, tlocals
  <2>. QED BY <1>6, <2>1, <2>2, TypeFrames DEF TypeOK, StartHandlerFails, shared
<1>7. ASSUME ListenerReleased(r) PROVE TypeOK'
  <2>1. ListenerType'
    BY <1>7 DEF TypeOK, ListenerReleased, ListenerType, ListenerLabels, MaybeConn
  <2>. QED BY <1>7, <2>1, TypeFrames DEF TypeOK, ListenerReleased, shared
<1>. QED BY <1>1, <1>2, <1>3, <1>4, <1>5, <1>6, <1>7 DEF ListenerStep

\* The steps of the command thread keep the types.
LEMMA CommandTypes ==
  ASSUME TypeOK, InHand, Request \/ CommandStep
  PROVE  TypeOK'
<1>1. ASSUME CreateRoom PROVE TypeOK'
  <2>1. HostingType'
    BY <1>1, BoundsAssumption DEF TypeOK, CreateRoom, HostingType, CommandType,
       MaybeRoom, Rooms, listens
  <2>2. NetType'
    BY <1>1, BoundsAssumption DEF TypeOK, CreateRoom, NetType, CommandType,
       MaybeRoom, Rooms
  <2>3. CommandType'
    BY <1>1, BoundsAssumption DEF TypeOK, CreateRoom, CommandType, CommandLabels,
       MaybeRoom, Rooms, clocals
  <2>. QED BY <1>1, <2>1, <2>2, <2>3, TypeFrames DEF TypeOK, CreateRoom, threads
<1>2. ASSUME CreateKey PROVE TypeOK'
  <2>1. VerifyType'
    BY <1>2, ResetType, TypeFrames DEF TypeOK, CreateKey
  <2>2. PlaceType'
    BY <1>2 DEF TypeOK, CreateKey, PlaceType, CommandType, place
  <2>3. CommandType'
    BY <1>2 DEF TypeOK, CreateKey, CommandType, CommandLabels, Continue, clocals
  <2>. QED BY <1>2, <2>1, <2>2, <2>3, TypeFrames DEF TypeOK, CreateKey, threads
<1>3. ASSUME CreatePublish PROVE TypeOK'
  <2>1. PlaceType'
    BY <1>3 DEF TypeOK, CreatePublish, PlaceType, CommandType
  <2>2. HostingType'
    <3>1. stop' \in BOOLEAN
      BY <1>3 DEF CreatePublish
    <3>2. peerCount' \in 0..2
      BY <1>3 DEF CreatePublish
    <3>3. listenerThread' \in MaybeRoom /\ listenerSocket' \in MaybeRoom
      BY <1>3 DEF TypeOK, CreatePublish, HostingType, CommandType
    <3>. QED BY <3>1, <3>2, <3>3 DEF HostingType
  <2>3. CommandType'
    BY <1>3 DEF TypeOK, CreatePublish, CommandType, CommandLabels, Continue, clocals
  <2>. QED BY <1>3, <2>1, <2>2, <2>3, TypeFrames DEF TypeOK, CreatePublish, threads
<1>4. ASSUME CreateStart PROVE TypeOK'
  <2>1. ListenerType'
    BY <1>4 DEF TypeOK, CreateStart, ListenerType, ListenerLabels, MaybeConn
  <2>2. CommandType'
    BY <1>4 DEF TypeOK, CreateStart, CommandType, CommandLabels, Return, MaybeConn,
       clocals
  <2>. QED BY <1>4, <2>1, <2>2, TypeFrames DEF TypeOK, CreateStart, shared
<1>5. ASSUME CreateFails PROVE TypeOK'
  <2>1. HostingType'
    BY <1>5 DEF TypeOK, CreateFails, HostingType, CallClose, listens
  <2>2. CommandType'
    BY <1>5 DEF TypeOK, CreateFails, CommandType, CommandLabels, CallClose, clocals
  <2>. QED BY <1>5, <2>1, <2>2, TypeFrames DEF TypeOK, CreateFails, threads
<1>6. ASSUME JoinRoom PROVE TypeOK'
  <2>1. CommandType'
    BY <1>6 DEF TypeOK, JoinRoom, CommandType, CommandLabels, Continue, clocals
  <2>. QED BY <1>6, <2>1, TypeFrames DEF TypeOK, JoinRoom, threads, shared
<1>7. ASSUME JoinTorFails PROVE TypeOK'
  <2>1. CommandType'
    BY <1>7 DEF TypeOK, JoinTorFails, CommandType, CommandLabels, Return,
       MaybeConn, clocals
  <2>. QED BY <1>7, <2>1, TypeFrames DEF TypeOK, JoinTorFails, threads, shared
<1>8. ASSUME JoinKey PROVE TypeOK'
  <2>1. VerifyType'
    BY <1>8, ResetType, TypeFrames DEF TypeOK, JoinKey
  <2>2. PlaceType'
    BY <1>8, BoundsAssumption DEF TypeOK, JoinKey, PlaceType, CommandType, InHand,
       MaybeRoom, Rooms
  <2>3. HostingType'
    BY <1>8 DEF TypeOK, JoinKey, HostingType, listens
  <2>4. CommandType'
    BY <1>8, BoundsAssumption DEF TypeOK, JoinKey, CommandType, CommandLabels,
       InHand, MaybeRoom, Rooms, clocals
  <2>. QED BY <1>8, <2>1, <2>2, <2>3, <2>4, TypeFrames DEF TypeOK, JoinKey, threads
<1>9. ASSUME NEW c \in Conns, JoinConnect(c) PROVE TypeOK'
  <2>1. NetType'
    BY <1>9 DEF TypeOK, JoinConnect, NetType, CommandType
  <2>2. SessionType'
    BY <1>9 DEF TypeOK, JoinConnect, SessionType
  <2>3. CommandType'
    BY <1>9 DEF TypeOK, JoinConnect, CommandType, CommandLabels, MaybeConn, clocals
  <2>. QED BY <1>9, <2>1, <2>2, <2>3, TypeFrames DEF TypeOK, JoinConnect, shared
<1>10. ASSUME JoinConnectFails PROVE TypeOK'
  <2>1. HostingType'
    BY <1>10 DEF TypeOK, JoinConnectFails, HostingType, CallClose, listens
  <2>2. CommandType'
    BY <1>10 DEF TypeOK, JoinConnectFails, CommandType, CommandLabels, CallClose,
       clocals
  <2>. QED BY <1>10, <2>1, <2>2, TypeFrames DEF TypeOK, JoinConnectFails, threads
<1>11. ASSUME JoinClaim PROVE TypeOK'
  <2>1. OwnerType'
    BY <1>11 DEF TypeOK, JoinClaim, OwnerType, CommandType, Claim, MaybeConn, owner
  <2>2. HostingType'
    BY <1>11 DEF TypeOK, JoinClaim, HostingType, CallClose, listens
  <2>3. NetType'
    BY <1>11 DEF TypeOK, JoinClaim, NetType, Close
  <2>4. SessionType'
    BY <1>11 DEF TypeOK, JoinClaim, SessionType, OwnerType, Claim
  <2>5. CommandType'
    BY <1>11 DEF TypeOK, JoinClaim, CommandType, CommandLabels, Continue,
       CallClose, clocals
  <2>. QED BY <1>11, <2>1, <2>2, <2>3, <2>4, <2>5, TypeFrames DEF TypeOK, JoinClaim
<1>12. ASSUME JoinSetup PROVE TypeOK'
  <2>1. OwnerType'
    BY <1>12 DEF TypeOK, JoinSetup, OwnerType, CommandType, owner
  <2>2. PlaceType'
    BY <1>12 DEF TypeOK, JoinSetup, PlaceType, CommandType
  <2>3. HostingType'
    BY <1>12 DEF TypeOK, JoinSetup, HostingType, listens
  <2>4. NetType'
    BY <1>12 DEF TypeOK, JoinSetup, NetType, Close
  <2>5. SessionType'
    BY <1>12 DEF TypeOK, JoinSetup, SessionType, Goto, SessionLabels, tlocals
  <2>6. CommandType'
    BY <1>12 DEF TypeOK, JoinSetup, CommandType, CommandLabels, Continue, Return,
       MaybeConn, clocals
  <2>. QED BY <1>12, <2>1, <2>2, <2>3, <2>4, <2>5, <2>6, TypeFrames DEF TypeOK,
     JoinSetup
<1>13. ASSUME JoinHandshakeRaised PROVE TypeOK'
  <2>1. HostingType'
    BY <1>13 DEF TypeOK, JoinHandshakeRaised, HostingType, CallClose, listens
  <2>2. NetType'
    BY <1>13 DEF TypeOK, JoinHandshakeRaised, NetType, Close
  <2>3. SessionType'
    BY <1>13 DEF TypeOK, JoinHandshakeRaised, SessionType, Goto, SessionLabels,
       tlocals
  <2>4. CommandType'
    BY <1>13 DEF TypeOK, JoinHandshakeRaised, CommandType, CommandLabels,
       CallClose, Return, MaybeConn, clocals
  <2>. QED BY <1>13, <2>1, <2>2, <2>3, <2>4, TypeFrames DEF TypeOK,
     JoinHandshakeRaised
<1>14. ASSUME JoinHandshakeDone PROVE TypeOK'
  <2>1. HostingType'
    BY <1>14 DEF TypeOK, JoinHandshakeDone, HostingType, listens
  <2>2. CommandType'
    BY <1>14 DEF TypeOK, JoinHandshakeDone, CommandType, CommandLabels, Continue,
       Return, MaybeConn, clocals
  <2>. QED BY <1>14, <2>1, <2>2, TypeFrames DEF TypeOK, JoinHandshakeDone, threads
<1>15. ASSUME JoinStart PROVE TypeOK'
  <2>1. SessionType'
    BY <1>15 DEF TypeOK, JoinStart, SessionType, Goto, SessionLabels, tlocals
  <2>2. CommandType'
    BY <1>15 DEF TypeOK, JoinStart, CommandType, CommandLabels, Return, MaybeConn,
       clocals
  <2>. QED BY <1>15, <2>1, <2>2, TypeFrames DEF TypeOK, JoinStart, shared
<1>16. ASSUME JoinStartFails PROVE TypeOK'
  <2>1. SessionType'
    BY <1>16 DEF TypeOK, JoinStartFails, SessionType, Goto, SessionLabels, tlocals
  <2>2. CommandType'
    BY <1>16 DEF TypeOK, JoinStartFails, CommandType, CommandLabels, Return,
       MaybeConn, clocals
  <2>. QED BY <1>16, <2>1, <2>2, TypeFrames DEF TypeOK, JoinStartFails, shared
<1>17. ASSUME ConfirmVerification PROVE TypeOK'
  <2>1. CommandType'
    BY <1>17 DEF TypeOK, ConfirmVerification, CommandType, CommandLabels, Capture,
       OwnerType, VerifyType
  <2>2. HistoryType'
    BY <1>17 DEF TypeOK, ConfirmVerification, HistoryType, OwnerType, MaybeConn,
       Capture
  <2>. QED BY <1>17, <2>1, <2>2, TypeFrames DEF TypeOK, ConfirmVerification,
     Capture, shared
<1>18. ASSUME SendMessage PROVE TypeOK'
  <2>1. CommandType'
    BY <1>18 DEF TypeOK, SendMessage, CommandType, CommandLabels, Capture,
       OwnerType, VerifyType
  <2>2. HistoryType'
    BY <1>18 DEF TypeOK, SendMessage, HistoryType, Capture
  <2>. QED BY <1>18, <2>1, <2>2, TypeFrames DEF TypeOK, SendMessage, Capture, shared
<1>19. ASSUME Send PROVE TypeOK'
  <2>1. CommandType'
    BY <1>19 DEF TypeOK, Send, CommandType, CommandLabels, Continue, Return,
       MaybeConn, clocals
  <2>. QED BY <1>19, <2>1, TypeFrames DEF TypeOK, Send, threads, shared
<1>20. ASSUME SendFails PROVE TypeOK'
  <2>1. CommandType'
    BY <1>20 DEF TypeOK, SendFails, CommandType, CommandLabels, Continue, clocals
  <2>. QED BY <1>20, <2>1, TypeFrames DEF TypeOK, SendFails, threads, shared
<1>21. ASSUME ConfirmSet PROVE TypeOK'
  <2>1. VerifyType'
    BY <1>21 DEF TypeOK, ConfirmSet, VerifyType
  <2>2. CommandType'
    BY <1>21 DEF TypeOK, ConfirmSet, CommandType, CommandLabels, Continue, Return,
       MaybeConn, clocals
  <2>. QED BY <1>21, <2>1, <2>2, TypeFrames DEF TypeOK, ConfirmSet, threads
<1>22. ASSUME ConfirmMark PROVE TypeOK'
  <2>1. VerifyType'
    BY <1>22 DEF TypeOK, ConfirmMark, VerifyType
  <2>2. CommandType'
    BY <1>22 DEF TypeOK, ConfirmMark, CommandType, CommandLabels, Continue, Return,
       MaybeConn, clocals
  <2>. QED BY <1>22, <2>1, <2>2, TypeFrames DEF TypeOK, ConfirmMark, threads
<1>23. ASSUME ConfirmAnnounce PROVE TypeOK'
  <2>1. InboxType'
    BY <1>23, QueueType, TypeFrames DEF TypeOK, ConfirmAnnounce, Events,
       ControlEvents, InHand, WithConn
  <2>2. CommandType'
    BY <1>23 DEF TypeOK, ConfirmAnnounce, CommandType, CommandLabels, Return,
       MaybeConn, clocals
  <2>. QED BY <1>23, <2>1, <2>2, TypeFrames DEF TypeOK, ConfirmAnnounce, threads
<1>24. ASSUME FailChannel PROVE TypeOK'
  <2>1. OwnerType'
    BY <1>24 DEF TypeOK, FailChannel, OwnerType, ClearSlot, ForgetGuest, MaybeConn,
       owner
  <2>2. VerifyType'
    BY <1>24, ResetType, TypeFrames DEF TypeOK, FailChannel
  <2>3. PlaceType'
    BY <1>24 DEF TypeOK, FailChannel, PlaceType, LeaveRoom, MaybeRoom, place
  <2>4. HostingType'
    BY <1>24 DEF TypeOK, FailChannel, HostingType, LeaveRoom, listens
  <2>5. CommandType'
    BY <1>24 DEF TypeOK, FailChannel, CommandType, CommandLabels, Continue, clocals
  <2>. QED BY <1>24, <2>1, <2>2, <2>3, <2>4, <2>5, TypeFrames DEF TypeOK,
     FailChannel, threads
<1>25. ASSUME FailClose PROVE TypeOK'
  <2>1. InboxType'
    BY <1>25, QueueType, TypeFrames DEF TypeOK, FailClose, Events, ControlEvents,
       InHand, WithConn
  <2>2. NetType'
    BY <1>25 DEF TypeOK, FailClose, NetType, Close
  <2>3. CommandType'
    BY <1>25 DEF TypeOK, FailClose, CommandType, CommandLabels, Return, MaybeConn,
       clocals
  <2>. QED BY <1>25, <2>1, <2>2, <2>3, TypeFrames DEF TypeOK, FailClose, threads
<1>26. ASSUME CloseRoom PROVE TypeOK'
  <2>1. HostingType'
    BY <1>26 DEF TypeOK, CloseRoom, HostingType, CallClose, listens
  <2>2. CommandType'
    BY <1>26 DEF TypeOK, CloseRoom, CommandType, CommandLabels, CallClose, clocals
  <2>. QED BY <1>26, <2>1, <2>2, TypeFrames DEF TypeOK, CloseRoom, threads
<1>27. ASSUME CloseTake PROVE TypeOK'
  <2>1. OwnerType'
    BY <1>27 DEF TypeOK, CloseTake, OwnerType, MaybeConn
  <2>2. CommandType'
    BY <1>27 DEF TypeOK, CloseTake, CommandType, CommandLabels, OwnerType
  <2>. QED BY <1>27, <2>1, <2>2, TypeFrames DEF TypeOK, CloseTake, threads
<1>28. ASSUME CloseSockets PROVE TypeOK'
  <2>1. NetType'
    BY <1>28 DEF TypeOK, CloseSockets, NetType
  <2>2. CommandType'
    BY <1>28 DEF TypeOK, CloseSockets, CommandType, CommandLabels, Continue, clocals
  <2>. QED BY <1>28, <2>1, <2>2, TypeFrames DEF TypeOK, CloseSockets, threads,
     shared
<1>29. ASSUME CloseListener PROVE TypeOK'
  <2>1. HostingType'
    BY <1>29 DEF TypeOK, CloseListener, HostingType, MaybeRoom
  <2>2. NetType'
    BY <1>29 DEF TypeOK, CloseListener, NetType
  <2>3. CommandType'
    BY <1>29 DEF TypeOK, CloseListener, CommandType, CommandLabels, Continue,
       clocals
  <2>. QED BY <1>29, <2>1, <2>2, <2>3, TypeFrames DEF TypeOK, CloseListener, threads
<1>30. ASSUME CloseClear PROVE TypeOK'
  <2>1. VerifyType'
    BY <1>30, ResetType, TypeFrames DEF TypeOK, CloseClear
  <2>2. PlaceType'
    BY <1>30 DEF TypeOK, CloseClear, PlaceType, LeaveRoom, MaybeRoom
  <2>3. HostingType'
    BY <1>30 DEF TypeOK, CloseClear, HostingType, LeaveRoom, MaybeRoom
  <2>4. CommandType'
    BY <1>30 DEF TypeOK, CloseClear, CommandType, CommandLabels, Continue, clocals
  <2>. QED BY <1>30, <2>1, <2>2, <2>3, <2>4, TypeFrames DEF TypeOK, CloseClear,
     threads
<1>31. ASSUME CloseInbox PROVE TypeOK'
  <2>1. VerifyType'
    BY <1>31, ResetType, TypeFrames DEF TypeOK, CloseInbox
  <2>2. InboxType'
    BY <1>31, BoundsAssumption, EmptySeq DEF TypeOK, CloseInbox, InboxType
  <2>3. HistoryType'
    BY <1>31, BoundsAssumption DEF TypeOK, CloseInbox, HistoryType, CommandType,
       MaybeRoom, Rooms
  <2>4. CommandType'
    BY <1>31 DEF TypeOK, CloseInbox, CommandType, CommandLabels, Return, MaybeConn,
       clocals
  <2>. QED BY <1>31, <2>1, <2>2, <2>3, <2>4, TypeFrames DEF TypeOK, CloseInbox,
     threads
<1>32. ASSUME Poll PROVE TypeOK'
  <2>1. InboxType'
    BY <1>32, SubSeqType DEF TypeOK, Poll, InboxType
  <2>. QED BY <1>32, <2>1, TypeFrames DEF TypeOK, Poll, threads
<1>. QED BY <1>1, <1>2, <1>3, <1>4, <1>5, <1>6, <1>7, <1>8, <1>9, <1>10, <1>11,
   <1>12, <1>13, <1>14, <1>15, <1>16, <1>17, <1>18, <1>19, <1>20, <1>21, <1>22,
   <1>23, <1>24, <1>25, <1>26, <1>27, <1>28, <1>29, <1>30, <1>31, <1>32 DEF
   Request, CommandStep

-----------------------------------------------------------------------------
\* Every step leaves threads and commands with the connection they work on.
LEMMA InHandStep ==
  ASSUME IInv, [Next]_vars
  PROVE  InHand'
<1>. USE ConnsAssumption, BoundsAssumption DEF IInv, TypeOK, InHand, WithConn,
   Joining, Rooms, MaybeConn, Goto, Close, Owns, IsOwner, Continue, Return, owner,
   verify, place, listens, shared, net, tlocals, session, listener, clocals,
   command, history, world, threads
<1>1. ASSUME NEW c \in Conns, SessionStep(c) PROVE InHand'
  <2>1. CASE HsStart(c)
    BY <2>1 DEF HsStart, ResetVerification, Raised, SessionType
  <2>2. CASE HsExchange(c)
    BY <2>2 DEF HsExchange, SessionType
  <2>3. CASE HsExchangeFails(c)
    BY <2>3 DEF HsExchangeFails, SessionType
  <2>4. CASE HsPromote(c)
    BY <2>4 DEF HsPromote, SessionType
  <2>5. CASE HsFail(c)
    BY <2>5 DEF HsFail, ResetVerification, Raised, SessionType
  <2>6. CASE Release(c)
    BY <2>6 DEF Release, ResetVerification, HostRoomOpen, ClearSlot, SessionType
  <2>7. CASE Joined(c)
    BY <2>7 DEF Joined, Queue, SessionType, NetType
  <2>8. CASE Reader(c)
    BY <2>8 DEF Reader, Move, SessionType
  <2>9. CASE \E kind \in FrameKinds : NextFrame(c, kind)
    BY <2>9 DEF NextFrame, FrameKinds, SessionType
  <2>10. CASE PeerVerification(c)
    BY <2>10 DEF PeerVerification, Encrypted, SessionType
  <2>11. CASE PeerConfirm(c)
    BY <2>11 DEF PeerConfirm, SessionType
  <2>12. CASE Mark(c)
    BY <2>12 DEF Mark, BecomesVerified, SessionType
  <2>13. CASE Announce(c)
    BY <2>13 DEF Announce, QueueStep, Queue, SessionType
  <2>14. CASE Message(c)
    BY <2>14 DEF Message, Encrypted, SessionType
  <2>15. CASE Deliver(c)
    BY <2>15 DEF Deliver, Queue, SessionType
  <2>16. CASE ErrorStop(c)
    BY <2>16 DEF ErrorStop, Move, SessionType
  <2>17. CASE ErrorReset(c)
    BY <2>17 DEF ErrorReset, ResetVerification, SessionType
  <2>18. CASE ErrorText(c)
    BY <2>18 DEF ErrorText, QueueStep, Queue, SessionType
  <2>19. CASE Finally(c)
    BY <2>19 DEF Finally, HostRoomOpen, ResetVerification, LeaveRoom, ClearSlot,
       ForgetGuest, SessionType
  <2>20. CASE SessionClose(c)
    BY <2>20 DEF SessionClose, SessionType
  <2>21. CASE Notify(c)
    BY <2>21 DEF Notify, QueueStep, Queue, SessionType
  <2>. QED BY <1>1, <2>1, <2>2, <2>3, <2>4, <2>5, <2>6, <2>7, <2>8, <2>9, <2>10,
     <2>11, <2>12, <2>13, <2>14, <2>15, <2>16, <2>17, <2>18, <2>19, <2>20, <2>21
     DEF SessionStep
<1>2. ASSUME NEW r \in Rooms, ListenerStep(r) PROVE InHand'
  <2>1. CASE ListenerTop(r)
    BY <2>1 DEF ListenerTop, SessionType
  <2>2. CASE \E c \in Conns : Accept(r, c)
    BY <2>2 DEF Accept, SessionType, NetType, ListenerType
  <2>3. CASE ListenerClaim(r)
    BY <2>3 DEF ListenerClaim, Claimable, Claim, SessionType
  <2>4. CASE Refuse(r)
    BY <2>4 DEF Refuse, SessionType, ListenerType, CommandType
  <2>5. CASE StartHandler(r)
    BY <2>5 DEF StartHandler, SessionType, ListenerType, CommandType
  <2>6. CASE StartHandlerFails(r)
    BY <2>6 DEF StartHandlerFails, SessionType
  <2>7. CASE ListenerReleased(r)
    BY <2>7 DEF ListenerReleased, SessionType, ListenerType, CommandType
  <2>. QED BY <1>2, <2>1, <2>2, <2>3, <2>4, <2>5, <2>6, <2>7 DEF ListenerStep
<1>3. ASSUME Request \/ CommandStep PROVE InHand'
  <2>1. CASE CreateRoom
    BY <2>1 DEF CreateRoom, RoomInactive, SessionType
  <2>2. CASE CreateKey
    BY <2>2 DEF CreateKey, ResetVerification, SessionType
  <2>3. CASE CreatePublish
    BY <2>3 DEF CreatePublish, SessionType
  <2>4. CASE CreateStart
    BY <2>4 DEF CreateStart, SessionType
  <2>5. CASE CreateFails
    BY <2>5 DEF CreateFails, CallClose, SessionType
  <2>6. CASE JoinRoom
    BY <2>6 DEF JoinRoom, RoomInactive, SessionType
  <2>7. CASE JoinTorFails
    BY <2>7 DEF JoinTorFails, SessionType
  <2>8. CASE JoinKey
    BY <2>8 DEF JoinKey, ResetVerification, SessionType
  <2>9. CASE \E c \in Conns : JoinConnect(c)
    BY <2>9 DEF JoinConnect, SessionType, NetType
  <2>10. CASE JoinConnectFails
    BY <2>10 DEF JoinConnectFails, CallClose, SessionType
  <2>11. CASE JoinClaim
    BY <2>11 DEF JoinClaim, Claimable, Claim, CallClose, NetType, CommandType
  <2>12. CASE JoinSetup
    BY <2>12 DEF JoinSetup, CommandPhase, Closing, Revoked, Opening, HostRoomOpen,
       SessionType, CommandType, OwnerType, PlaceType
  <2>13. CASE JoinHandshakeRaised
    BY <2>13 DEF JoinHandshakeRaised, CallClose, CommandPhase, Closing, Revoked,
       Opening, HostRoomOpen, SessionType, CommandType, OwnerType, PlaceType
  <2>14. CASE JoinHandshakeDone
    BY <2>14 DEF JoinHandshakeDone, SessionType
  <2>15. CASE JoinStart
    BY <2>15 DEF JoinStart, SessionType
  <2>16. CASE JoinStartFails
    BY <2>16 DEF JoinStartFails, SessionType
  <2>17. CASE ConfirmVerification
    BY <2>17 DEF ConfirmVerification, Capture, Encrypted, OwnerType
  <2>18. CASE SendMessage
    BY <2>18 DEF SendMessage, Capture, Encrypted, OwnerType
  <2>19. CASE Send
    BY <2>19 DEF Send, SessionType
  <2>20. CASE SendFails
    BY <2>20 DEF SendFails, SessionType
  <2>21. CASE ConfirmSet
    BY <2>21 DEF ConfirmSet, SessionType
  <2>22. CASE ConfirmMark
    BY <2>22 DEF ConfirmMark, BecomesVerified, SessionType
  <2>23. CASE ConfirmAnnounce
    BY <2>23 DEF ConfirmAnnounce, Queue, SessionType
  <2>24. CASE FailChannel
    BY <2>24 DEF FailChannel, LeaveRoom, HostRoomOpen, ResetVerification,
       ClearSlot, ForgetGuest, SessionType
  <2>25. CASE FailClose
    BY <2>25 DEF FailClose, Queue, SessionType
  <2>26. CASE CloseRoom
    BY <2>26 DEF CloseRoom, RoomInactive, CallClose, SessionType
  <2>27. CASE CloseTake
    BY <2>27 DEF CloseTake, SessionType
  <2>28. CASE CloseSockets
    BY <2>28 DEF CloseSockets, SessionType
  <2>29. CASE CloseListener
    BY <2>29 DEF CloseListener, SessionType
  <2>30. CASE CloseClear
    BY <2>30 DEF CloseClear, LeaveRoom, ResetVerification, SessionType
  <2>31. CASE CloseInbox
    BY <2>31 DEF CloseInbox, ResetVerification, SessionType
  <2>32. CASE Poll
    BY <2>32 DEF Poll
  <2>. QED BY <1>3, <2>1, <2>2, <2>3, <2>4, <2>5, <2>6, <2>7, <2>8, <2>9, <2>10,
     <2>11, <2>12, <2>13, <2>14, <2>15, <2>16, <2>17, <2>18, <2>19, <2>20, <2>21,
     <2>22, <2>23, <2>24, <2>25, <2>26, <2>27, <2>28, <2>29, <2>30, <2>31, <2>32
     DEF Request, CommandStep
<1>4. CASE UNCHANGED vars
  BY <1>4 DEF vars
<1>. QED BY <1>1, <1>2, <1>3, <1>4 DEF Next

\* Every step keeps what a command's phase says about the slot and the room.
LEMMA CommandPhaseStep ==
  ASSUME IInv, [Next]_vars
  PROVE  CommandPhase'
<1>. USE ConnsAssumption, BoundsAssumption DEF IInv, TypeOK, CommandPhase, Closing,
   Revoked, Opening, HostRoomOpen, Joining, MaybeConn, Goto, Close, Owns, IsOwner,
   Continue, Return, owner, verify, place, listens, shared, net, tlocals, session,
   listener, clocals, command, history, world, threads
<1>1. ASSUME NEW c \in Conns, SessionStep(c) PROVE CommandPhase'
  <2>1. CASE Release(c)
    BY <2>1 DEF Release, ResetVerification, ClearSlot, HandshakeInOrder,
       GuestHandshake, SessionType, CommandType, OwnerType, PlaceType
  <2>2. CASE Finally(c)
    BY <2>2 DEF Finally, ResetVerification, LeaveRoom, ClearSlot, ForgetGuest,
       HandshakeInOrder, GuestHandshake, SessionType, CommandType, OwnerType,
       PlaceType
  <2>3. CASE HsStart(c) \/ HsExchange(c) \/ HsExchangeFails(c) \/ HsPromote(c) \/
     HsFail(c) \/ Joined(c) \/ Reader(c) \/ (\E kind \in FrameKinds : NextFrame(c,
     kind)) \/ PeerVerification(c) \/ PeerConfirm(c) \/ Mark(c) \/ Announce(c) \/
     Message(c) \/ Deliver(c) \/ ErrorStop(c) \/ ErrorReset(c) \/ ErrorText(c) \/
     SessionClose(c) \/ Notify(c)
    BY <2>3 DEF HsStart, ResetVerification, Raised, HsExchange, HsExchangeFails,
       HsPromote, HsFail, Joined, Queue, Reader, Move, NextFrame, PeerVerification,
       Encrypted, PeerConfirm, Mark, BecomesVerified, Announce, QueueStep, Message,
       Deliver, ErrorStop, ErrorReset, ErrorText, SessionClose, Notify
  <2>. QED BY <1>1, <2>1, <2>2, <2>3 DEF SessionStep
<1>2. ASSUME NEW r \in Rooms, ListenerStep(r) PROVE CommandPhase'
  <2>1. CASE ListenerClaim(r)
    BY <2>1 DEF ListenerClaim, Claimable, Claim, InHand, WithConn, Rooms,
       SessionType, CommandType, OwnerType, PlaceType
  <2>2. CASE ListenerTop(r) \/ (\E c \in Conns : Accept(r, c)) \/ Refuse(r) \/
     StartHandler(r) \/ StartHandlerFails(r) \/ ListenerReleased(r)
    BY <2>2 DEF ListenerTop, Accept, Refuse, StartHandler, StartHandlerFails,
       ListenerReleased
  <2>. QED BY <1>2, <2>1, <2>2 DEF ListenerStep
<1>3. ASSUME Request \/ CommandStep PROVE CommandPhase'
  <2>1. CASE CreateRoom
    BY <2>1 DEF CreateRoom, RoomInactive
  <2>2. CASE CreateKey
    BY <2>2 DEF CreateKey, ResetVerification
  <2>3. CASE CreatePublish
    BY <2>3 DEF CreatePublish, ListenerHasRoom, Rooms, SessionType, CommandType,
       OwnerType, PlaceType
  <2>4. CASE CreateStart
    BY <2>4 DEF CreateStart
  <2>5. CASE CreateFails
    BY <2>5 DEF CreateFails, CallClose
  <2>6. CASE JoinRoom
    BY <2>6 DEF JoinRoom, RoomInactive
  <2>7. CASE JoinTorFails
    BY <2>7 DEF JoinTorFails
  <2>8. CASE JoinKey
    BY <2>8 DEF JoinKey, ResetVerification
  <2>9. CASE \E c \in Conns : JoinConnect(c)
    BY <2>9 DEF JoinConnect
  <2>10. CASE JoinConnectFails
    BY <2>10 DEF JoinConnectFails, CallClose
  <2>11. CASE JoinClaim
    BY <2>11 DEF JoinClaim, Claimable, Claim, CallClose, InHand, WithConn, Rooms,
       SessionType, CommandType, OwnerType, PlaceType
  <2>12. CASE JoinSetup
    BY <2>12 DEF JoinSetup
  <2>13. CASE JoinHandshakeRaised
    BY <2>13 DEF JoinHandshakeRaised, CallClose
  <2>14. CASE JoinHandshakeDone
    BY <2>14 DEF JoinHandshakeDone
  <2>15. CASE JoinStart
    BY <2>15 DEF JoinStart
  <2>16. CASE JoinStartFails
    BY <2>16 DEF JoinStartFails
  <2>17. CASE ConfirmVerification
    BY <2>17 DEF ConfirmVerification, Capture, Encrypted
  <2>18. CASE SendMessage
    BY <2>18 DEF SendMessage, Capture, Encrypted
  <2>19. CASE Send
    BY <2>19 DEF Send
  <2>20. CASE SendFails
    BY <2>20 DEF SendFails
  <2>21. CASE ConfirmSet
    BY <2>21 DEF ConfirmSet
  <2>22. CASE ConfirmMark
    BY <2>22 DEF ConfirmMark, BecomesVerified
  <2>23. CASE ConfirmAnnounce
    BY <2>23 DEF ConfirmAnnounce, Queue
  <2>24. CASE FailChannel
    BY <2>24 DEF FailChannel, LeaveRoom, ResetVerification, ClearSlot, ForgetGuest
  <2>25. CASE FailClose
    BY <2>25 DEF FailClose, Queue
  <2>26. CASE CloseRoom
    BY <2>26 DEF CloseRoom, RoomInactive, CallClose
  <2>27. CASE CloseTake
    BY <2>27 DEF CloseTake
  <2>28. CASE CloseSockets
    BY <2>28 DEF CloseSockets
  <2>29. CASE CloseListener
    BY <2>29 DEF CloseListener
  <2>30. CASE CloseClear
    BY <2>30 DEF CloseClear, LeaveRoom, ResetVerification
  <2>31. CASE CloseInbox
    BY <2>31 DEF CloseInbox, ResetVerification
  <2>32. CASE Poll
    BY <2>32 DEF Poll
  <2>. QED BY <1>3, <2>1, <2>2, <2>3, <2>4, <2>5, <2>6, <2>7, <2>8, <2>9, <2>10,
     <2>11, <2>12, <2>13, <2>14, <2>15, <2>16, <2>17, <2>18, <2>19, <2>20, <2>21,
     <2>22, <2>23, <2>24, <2>25, <2>26, <2>27, <2>28, <2>29, <2>30, <2>31, <2>32
     DEF Request, CommandStep
<1>4. CASE UNCHANGED vars
  BY <1>4 DEF vars
<1>. QED BY <1>1, <1>2, <1>3, <1>4 DEF Next

\* Every step keeps the key of a served room while the room is open only.
LEMMA ListenerHasRoomStep ==
  ASSUME IInv, [Next]_vars
  PROVE  ListenerHasRoom'
<1>. USE ConnsAssumption, BoundsAssumption DEF IInv, TypeOK, ListenerHasRoom,
   Rooms, HostRoomOpen, MaybeConn, Goto, Close, Owns, IsOwner, Continue, Return,
   owner, verify, place, listens, shared, net, tlocals, session, listener, clocals,
   command, history, world, threads
<1>1. ASSUME NEW c \in Conns, SessionStep(c) PROVE ListenerHasRoom'
  <2>1. CASE Finally(c)
    BY <2>1 DEF Finally, ResetVerification, LeaveRoom, ClearSlot, ForgetGuest
  <2>2. CASE HsStart(c) \/ HsExchange(c) \/ HsExchangeFails(c) \/ HsPromote(c) \/
     HsFail(c) \/ Release(c) \/ Joined(c) \/ Reader(c) \/ (\E kind \in FrameKinds :
     NextFrame(c, kind)) \/ PeerVerification(c) \/ PeerConfirm(c) \/ Mark(c) \/
     Announce(c) \/ Message(c) \/ Deliver(c) \/ ErrorStop(c) \/ ErrorReset(c) \/
     ErrorText(c) \/ SessionClose(c) \/ Notify(c)
    BY <2>2 DEF HsStart, ResetVerification, Raised, HsExchange, HsExchangeFails,
       HsPromote, HsFail, Release, ClearSlot, Joined, Queue, Reader, Move,
       NextFrame, PeerVerification, Encrypted, PeerConfirm, Mark, BecomesVerified,
       Announce, QueueStep, Message, Deliver, ErrorStop, ErrorReset, ErrorText,
       SessionClose, Notify
  <2>. QED BY <1>1, <2>1, <2>2 DEF SessionStep
<1>2. ASSUME NEW r \in Rooms, ListenerStep(r) PROVE ListenerHasRoom'
  <2>1. CASE ListenerTop(r)
    BY <2>1 DEF ListenerTop
  <2>2. CASE \E c \in Conns : Accept(r, c)
    BY <2>2 DEF Accept, InHand, WithConn, Joining, NetType, SessionType,
       ListenerType
  <2>3. CASE ListenerClaim(r)
    BY <2>3 DEF ListenerClaim, Claimable, Claim
  <2>4. CASE Refuse(r)
    BY <2>4 DEF Refuse
  <2>5. CASE StartHandler(r)
    BY <2>5 DEF StartHandler
  <2>6. CASE StartHandlerFails(r)
    BY <2>6 DEF StartHandlerFails
  <2>7. CASE ListenerReleased(r)
    BY <2>7 DEF ListenerReleased
  <2>. QED BY <1>2, <2>1, <2>2, <2>3, <2>4, <2>5, <2>6, <2>7 DEF ListenerStep
<1>3. ASSUME Request \/ CommandStep PROVE ListenerHasRoom'
  <2>1. CASE CreateRoom
    BY <2>1 DEF CreateRoom, RoomInactive, CommandType, MaybeRoom, PlaceType,
       SessionType, NetType
  <2>2. CASE CreateKey
    BY <2>2 DEF CreateKey, ResetVerification
  <2>3. CASE CreatePublish
    BY <2>3 DEF CreatePublish
  <2>4. CASE CreateStart
    BY <2>4 DEF CreateStart, CommandPhase, Closing, Revoked, Opening, Joining,
       SessionType, CommandType, OwnerType, PlaceType
  <2>5. CASE CreateFails
    BY <2>5 DEF CreateFails, CallClose
  <2>6. CASE JoinRoom
    BY <2>6 DEF JoinRoom, RoomInactive
  <2>7. CASE JoinTorFails
    BY <2>7 DEF JoinTorFails
  <2>8. CASE JoinKey
    BY <2>8 DEF JoinKey, ResetVerification, CommandType, InHand, WithConn, Joining,
       MaybeRoom, PlaceType, SessionType, NetType
  <2>9. CASE \E c \in Conns : JoinConnect(c)
    BY <2>9 DEF JoinConnect, SessionType, ListenerType, CommandType
  <2>10. CASE JoinConnectFails
    BY <2>10 DEF JoinConnectFails, CallClose
  <2>11. CASE JoinClaim
    BY <2>11 DEF JoinClaim, Claimable, Claim, CallClose
  <2>12. CASE JoinSetup
    BY <2>12 DEF JoinSetup, CommandPhase, Closing, Revoked, Opening, Joining,
       SessionType, CommandType, OwnerType, PlaceType
  <2>13. CASE JoinHandshakeRaised
    BY <2>13 DEF JoinHandshakeRaised, CallClose
  <2>14. CASE JoinHandshakeDone
    BY <2>14 DEF JoinHandshakeDone
  <2>15. CASE JoinStart
    BY <2>15 DEF JoinStart
  <2>16. CASE JoinStartFails
    BY <2>16 DEF JoinStartFails
  <2>17. CASE ConfirmVerification
    BY <2>17 DEF ConfirmVerification, Capture, Encrypted
  <2>18. CASE SendMessage
    BY <2>18 DEF SendMessage, Capture, Encrypted
  <2>19. CASE Send
    BY <2>19 DEF Send
  <2>20. CASE SendFails
    BY <2>20 DEF SendFails
  <2>21. CASE ConfirmSet
    BY <2>21 DEF ConfirmSet
  <2>22. CASE ConfirmMark
    BY <2>22 DEF ConfirmMark, BecomesVerified
  <2>23. CASE ConfirmAnnounce
    BY <2>23 DEF ConfirmAnnounce, Queue
  <2>24. CASE FailChannel
    BY <2>24 DEF FailChannel, LeaveRoom, ResetVerification, ClearSlot, ForgetGuest
  <2>25. CASE FailClose
    BY <2>25 DEF FailClose, Queue
  <2>26. CASE CloseRoom
    BY <2>26 DEF CloseRoom, RoomInactive, CallClose
  <2>27. CASE CloseTake
    BY <2>27 DEF CloseTake
  <2>28. CASE CloseSockets
    BY <2>28 DEF CloseSockets
  <2>29. CASE CloseListener
    BY <2>29 DEF CloseListener
  <2>30. CASE CloseClear
    BY <2>30 DEF CloseClear, LeaveRoom, ResetVerification
  <2>31. CASE CloseInbox
    BY <2>31 DEF CloseInbox, ResetVerification
  <2>32. CASE Poll
    BY <2>32 DEF Poll
  <2>. QED BY <1>3, <2>1, <2>2, <2>3, <2>4, <2>5, <2>6, <2>7, <2>8, <2>9, <2>10,
     <2>11, <2>12, <2>13, <2>14, <2>15, <2>16, <2>17, <2>18, <2>19, <2>20, <2>21,
     <2>22, <2>23, <2>24, <2>25, <2>26, <2>27, <2>28, <2>29, <2>30, <2>31, <2>32
     DEF Request, CommandStep
<1>4. CASE UNCHANGED vars
  BY <1>4 DEF vars
<1>. QED BY <1>1, <1>2, <1>3, <1>4 DEF Next

\* Every step keeps handshakes in order and under the invitation's key.
LEMMA HandshakeInOrderStep ==
  ASSUME IInv, [Next]_vars
  PROVE  HandshakeInOrder'
<1>. USE ConnsAssumption, BoundsAssumption DEF IInv, TypeOK, HandshakeInOrder,
   GuestHandshake, MaybeConn, Goto, Close, Owns, IsOwner, Continue, Return, owner,
   verify, place, listens, shared, net, tlocals, session, listener, clocals,
   command, history, world, threads
<1>1. ASSUME NEW c \in Conns, SessionStep(c) PROVE HandshakeInOrder'
  <2>1. CASE HsStart(c)
    BY <2>1 DEF HsStart, ResetVerification, Raised, InHand, WithConn, Joining,
       Rooms, SessionType, CommandType, OwnerType, PlaceType
  <2>2. CASE HsExchange(c)
    BY <2>2 DEF HsExchange, SessionType
  <2>3. CASE HsExchangeFails(c)
    BY <2>3 DEF HsExchangeFails, SessionType
  <2>4. CASE HsPromote(c)
    BY <2>4 DEF HsPromote, InHand, WithConn, Joining, Rooms, SessionType,
       CommandType, OwnerType, PlaceType
  <2>5. CASE HsFail(c)
    BY <2>5 DEF HsFail, ResetVerification, Raised, InHand, WithConn, Joining,
       Rooms, SessionType, CommandType, OwnerType, PlaceType
  <2>6. CASE Release(c)
    BY <2>6 DEF Release, ResetVerification, HostRoomOpen, ClearSlot, SessionType
  <2>7. CASE Joined(c)
    BY <2>7 DEF Joined, Queue, InHand, WithConn, Joining, Rooms, SessionType,
       CommandType, OwnerType, PlaceType
  <2>8. CASE Reader(c)
    BY <2>8 DEF Reader, Move, InHand, WithConn, Joining, Rooms, SessionType,
       CommandType, OwnerType, PlaceType
  <2>9. CASE \E kind \in FrameKinds : NextFrame(c, kind)
    BY <2>9 DEF NextFrame, FrameKinds, SessionType
  <2>10. CASE PeerVerification(c)
    BY <2>10 DEF PeerVerification, Encrypted, InHand, WithConn, Joining, Rooms,
       SessionType, CommandType, OwnerType, PlaceType
  <2>11. CASE PeerConfirm(c)
    BY <2>11 DEF PeerConfirm, InHand, WithConn, Joining, Rooms, SessionType,
       CommandType, OwnerType, PlaceType
  <2>12. CASE Mark(c)
    BY <2>12 DEF Mark, BecomesVerified, InHand, WithConn, Joining, Rooms,
       SessionType, CommandType, OwnerType, PlaceType
  <2>13. CASE Announce(c)
    BY <2>13 DEF Announce, QueueStep, Queue, SessionType
  <2>14. CASE Message(c)
    BY <2>14 DEF Message, Encrypted, InHand, WithConn, Joining, Rooms, SessionType,
       CommandType, OwnerType, PlaceType
  <2>15. CASE Deliver(c)
    BY <2>15 DEF Deliver, Queue, SessionType
  <2>16. CASE ErrorStop(c)
    BY <2>16 DEF ErrorStop, Move, SessionType
  <2>17. CASE ErrorReset(c)
    BY <2>17 DEF ErrorReset, ResetVerification, InHand, WithConn, Joining, Rooms,
       SessionType, CommandType, OwnerType, PlaceType
  <2>18. CASE ErrorText(c)
    BY <2>18 DEF ErrorText, QueueStep, Queue, SessionType
  <2>19. CASE Finally(c)
    BY <2>19 DEF Finally, HostRoomOpen, ResetVerification, LeaveRoom, ClearSlot,
       ForgetGuest, SessionType
  <2>20. CASE SessionClose(c)
    BY <2>20 DEF SessionClose, SessionType
  <2>21. CASE Notify(c)
    BY <2>21 DEF Notify, QueueStep, Queue, SessionType
  <2>. QED BY <1>1, <2>1, <2>2, <2>3, <2>4, <2>5, <2>6, <2>7, <2>8, <2>9, <2>10,
     <2>11, <2>12, <2>13, <2>14, <2>15, <2>16, <2>17, <2>18, <2>19, <2>20, <2>21
     DEF SessionStep
<1>2. ASSUME NEW r \in Rooms, ListenerStep(r) PROVE HandshakeInOrder'
  <2>1. CASE \E c \in Conns : Accept(r, c)
    BY <2>1 DEF Accept, InHand, WithConn, Joining, Rooms, SessionType, CommandType,
       OwnerType, PlaceType
  <2>2. CASE StartHandler(r)
    BY <2>2 DEF StartHandler, InHand, WithConn, Joining, Rooms, SessionType,
       CommandType, OwnerType, PlaceType
  <2>3. CASE StartHandlerFails(r)
    BY <2>3 DEF StartHandlerFails, InHand, WithConn, Joining, Rooms, SessionType,
       CommandType, OwnerType, PlaceType
  <2>4. CASE ListenerTop(r) \/ ListenerClaim(r) \/ Refuse(r) \/ ListenerReleased(r)
    BY <2>4 DEF ListenerTop, ListenerClaim, Claimable, Claim, Refuse,
       ListenerReleased
  <2>. QED BY <1>2, <2>1, <2>2, <2>3, <2>4 DEF ListenerStep
<1>3. ASSUME Request \/ CommandStep PROVE HandshakeInOrder'
  <2>1. CASE CreateRoom
    BY <2>1 DEF CreateRoom, RoomInactive, SessionType
  <2>2. CASE CreateKey
    BY <2>2 DEF CreateKey, ResetVerification, SessionType
  <2>3. CASE CreatePublish
    BY <2>3 DEF CreatePublish, SessionType
  <2>4. CASE CreateStart
    BY <2>4 DEF CreateStart, SessionType
  <2>5. CASE CreateFails
    BY <2>5 DEF CreateFails, CallClose, SessionType
  <2>6. CASE JoinRoom
    BY <2>6 DEF JoinRoom, RoomInactive, SessionType
  <2>7. CASE JoinTorFails
    BY <2>7 DEF JoinTorFails, SessionType
  <2>8. CASE JoinKey
    BY <2>8 DEF JoinKey, ResetVerification, SessionType
  <2>9. CASE \E c \in Conns : JoinConnect(c)
    BY <2>9 DEF JoinConnect, InHand, WithConn, Joining, Rooms, SessionType,
       CommandType, OwnerType, PlaceType
  <2>10. CASE JoinConnectFails
    BY <2>10 DEF JoinConnectFails, CallClose, SessionType
  <2>11. CASE JoinClaim
    BY <2>11 DEF JoinClaim, Claimable, Claim, CallClose, SessionType
  <2>12. CASE JoinSetup
    BY <2>12 DEF JoinSetup, InHand, WithConn, Joining, Rooms, SessionType,
       CommandType, OwnerType, PlaceType
  <2>13. CASE JoinHandshakeRaised
    BY <2>13 DEF JoinHandshakeRaised, CallClose, SessionType
  <2>14. CASE JoinHandshakeDone
    BY <2>14 DEF JoinHandshakeDone, CommandPhase, Closing, Revoked, Opening,
       HostRoomOpen, Joining, SessionType, CommandType, OwnerType, PlaceType
  <2>15. CASE JoinStart
    BY <2>15 DEF JoinStart, SessionType
  <2>16. CASE JoinStartFails
    BY <2>16 DEF JoinStartFails, SessionType
  <2>17. CASE ConfirmVerification
    BY <2>17 DEF ConfirmVerification, Capture, Encrypted, SessionType
  <2>18. CASE SendMessage
    BY <2>18 DEF SendMessage, Capture, Encrypted, SessionType
  <2>19. CASE Send
    BY <2>19 DEF Send, SessionType
  <2>20. CASE SendFails
    BY <2>20 DEF SendFails, SessionType
  <2>21. CASE ConfirmSet
    BY <2>21 DEF ConfirmSet, SessionType
  <2>22. CASE ConfirmMark
    BY <2>22 DEF ConfirmMark, BecomesVerified, SessionType
  <2>23. CASE ConfirmAnnounce
    BY <2>23 DEF ConfirmAnnounce, Queue, SessionType
  <2>24. CASE FailChannel
    BY <2>24 DEF FailChannel, LeaveRoom, HostRoomOpen, ResetVerification,
       ClearSlot, ForgetGuest, SessionType
  <2>25. CASE FailClose
    BY <2>25 DEF FailClose, Queue, SessionType
  <2>26. CASE CloseRoom
    BY <2>26 DEF CloseRoom, RoomInactive, CallClose, SessionType
  <2>27. CASE CloseTake
    BY <2>27 DEF CloseTake, SessionType
  <2>28. CASE CloseSockets
    BY <2>28 DEF CloseSockets, SessionType
  <2>29. CASE CloseListener
    BY <2>29 DEF CloseListener, SessionType
  <2>30. CASE CloseClear
    BY <2>30 DEF CloseClear, LeaveRoom, ResetVerification, SessionType
  <2>31. CASE CloseInbox
    BY <2>31 DEF CloseInbox, ResetVerification, SessionType
  <2>32. CASE Poll
    BY <2>32 DEF Poll
  <2>. QED BY <1>3, <2>1, <2>2, <2>3, <2>4, <2>5, <2>6, <2>7, <2>8, <2>9, <2>10,
     <2>11, <2>12, <2>13, <2>14, <2>15, <2>16, <2>17, <2>18, <2>19, <2>20, <2>21,
     <2>22, <2>23, <2>24, <2>25, <2>26, <2>27, <2>28, <2>29, <2>30, <2>31, <2>32
     DEF Request, CommandStep
<1>4. CASE UNCHANGED vars
  BY <1>4 DEF vars
<1>. QED BY <1>1, <1>2, <1>3, <1>4 DEF Next

\* Every step leaves the session's cryptography with the owner of the slot.
LEMMA SessionBelongsToOwnerStep ==
  ASSUME IInv, [Next]_vars
  PROVE  SessionBelongsToOwner'
<1>. USE ConnsAssumption, BoundsAssumption DEF IInv, TypeOK, SessionBelongsToOwner,
   Revoked, MaybeConn, Goto, Close, Owns, IsOwner, Continue, Return, owner, verify,
   place, listens, shared, net, tlocals, session, listener, clocals, command,
   history, world, threads
<1>1. ASSUME NEW c \in Conns, SessionStep(c) PROVE SessionBelongsToOwner'
  <2>1. CASE HsStart(c)
    BY <2>1 DEF HsStart, ResetVerification, Raised
  <2>2. CASE HsPromote(c)
    BY <2>2 DEF HsPromote
  <2>3. CASE HsFail(c)
    BY <2>3 DEF HsFail, ResetVerification, Raised
  <2>4. CASE Release(c)
    BY <2>4 DEF Release, ResetVerification, HostRoomOpen, ClearSlot
  <2>5. CASE ErrorReset(c)
    BY <2>5 DEF ErrorReset, ResetVerification
  <2>6. CASE Finally(c)
    BY <2>6 DEF Finally, HostRoomOpen, ResetVerification, LeaveRoom, ClearSlot,
       ForgetGuest, SessionInRoom, InRoom, SessionType, CommandType, OwnerType,
       PlaceType
  <2>7. CASE HsExchange(c) \/ HsExchangeFails(c) \/ Joined(c) \/ Reader(c) \/ (\E
     kind \in FrameKinds : NextFrame(c, kind)) \/ PeerVerification(c) \/
     PeerConfirm(c) \/ Mark(c) \/ Announce(c) \/ Message(c) \/ Deliver(c) \/
     ErrorStop(c) \/ ErrorText(c) \/ SessionClose(c) \/ Notify(c)
    BY <2>7 DEF HsExchange, HsExchangeFails, Joined, Queue, Reader, Move,
       NextFrame, PeerVerification, Encrypted, PeerConfirm, Mark, BecomesVerified,
       Announce, QueueStep, Message, Deliver, ErrorStop, ErrorText, SessionClose,
       Notify
  <2>. QED BY <1>1, <2>1, <2>2, <2>3, <2>4, <2>5, <2>6, <2>7 DEF SessionStep
<1>2. ASSUME NEW r \in Rooms, ListenerStep(r) PROVE SessionBelongsToOwner'
  <2>1. CASE ListenerClaim(r)
    BY <2>1 DEF ListenerClaim, Claimable, Claim
  <2>2. CASE ListenerTop(r) \/ (\E c \in Conns : Accept(r, c)) \/ Refuse(r) \/
     StartHandler(r) \/ StartHandlerFails(r) \/ ListenerReleased(r)
    BY <2>2 DEF ListenerTop, Accept, Refuse, StartHandler, StartHandlerFails,
       ListenerReleased
  <2>. QED BY <1>2, <2>1, <2>2 DEF ListenerStep
<1>3. ASSUME Request \/ CommandStep PROVE SessionBelongsToOwner'
  <2>1. CASE CreateRoom
    BY <2>1 DEF CreateRoom, RoomInactive
  <2>2. CASE CreateKey
    BY <2>2 DEF CreateKey, ResetVerification
  <2>3. CASE CreatePublish
    BY <2>3 DEF CreatePublish
  <2>4. CASE CreateStart
    BY <2>4 DEF CreateStart
  <2>5. CASE CreateFails
    BY <2>5 DEF CreateFails, CallClose
  <2>6. CASE JoinRoom
    BY <2>6 DEF JoinRoom, RoomInactive
  <2>7. CASE JoinTorFails
    BY <2>7 DEF JoinTorFails
  <2>8. CASE JoinKey
    BY <2>8 DEF JoinKey, ResetVerification
  <2>9. CASE \E c \in Conns : JoinConnect(c)
    BY <2>9 DEF JoinConnect
  <2>10. CASE JoinConnectFails
    BY <2>10 DEF JoinConnectFails, CallClose
  <2>11. CASE JoinClaim
    BY <2>11 DEF JoinClaim, Claimable, Claim, CallClose
  <2>12. CASE JoinSetup
    BY <2>12 DEF JoinSetup
  <2>13. CASE JoinHandshakeRaised
    BY <2>13 DEF JoinHandshakeRaised, CallClose
  <2>14. CASE JoinHandshakeDone
    BY <2>14 DEF JoinHandshakeDone
  <2>15. CASE JoinStart
    BY <2>15 DEF JoinStart
  <2>16. CASE JoinStartFails
    BY <2>16 DEF JoinStartFails
  <2>17. CASE ConfirmVerification
    BY <2>17 DEF ConfirmVerification, Capture, Encrypted
  <2>18. CASE SendMessage
    BY <2>18 DEF SendMessage, Capture, Encrypted
  <2>19. CASE Send
    BY <2>19 DEF Send
  <2>20. CASE SendFails
    BY <2>20 DEF SendFails
  <2>21. CASE ConfirmSet
    BY <2>21 DEF ConfirmSet
  <2>22. CASE ConfirmMark
    BY <2>22 DEF ConfirmMark, BecomesVerified
  <2>23. CASE ConfirmAnnounce
    BY <2>23 DEF ConfirmAnnounce, Queue
  <2>24. CASE FailChannel
    BY <2>24 DEF FailChannel, LeaveRoom, HostRoomOpen, ResetVerification,
       ClearSlot, ForgetGuest
  <2>25. CASE FailClose
    BY <2>25 DEF FailClose, Queue
  <2>26. CASE CloseRoom
    BY <2>26 DEF CloseRoom, RoomInactive, CallClose
  <2>27. CASE CloseTake
    BY <2>27 DEF CloseTake
  <2>28. CASE CloseSockets
    BY <2>28 DEF CloseSockets
  <2>29. CASE CloseListener
    BY <2>29 DEF CloseListener
  <2>30. CASE CloseClear
    BY <2>30 DEF CloseClear, LeaveRoom, ResetVerification
  <2>31. CASE CloseInbox
    BY <2>31 DEF CloseInbox, ResetVerification
  <2>32. CASE Poll
    BY <2>32 DEF Poll
  <2>. QED BY <1>3, <2>1, <2>2, <2>3, <2>4, <2>5, <2>6, <2>7, <2>8, <2>9, <2>10,
     <2>11, <2>12, <2>13, <2>14, <2>15, <2>16, <2>17, <2>18, <2>19, <2>20, <2>21,
     <2>22, <2>23, <2>24, <2>25, <2>26, <2>27, <2>28, <2>29, <2>30, <2>31, <2>32
     DEF Request, CommandStep
<1>4. CASE UNCHANGED vars
  BY <1>4 DEF vars
<1>. QED BY <1>1, <1>2, <1>3, <1>4 DEF Next

\* Every step keeps confirmations those of the session they were made for.
LEMMA VerifiedByBothStep ==
  ASSUME IInv, [Next]_vars
  PROVE  VerifiedByBoth'
<1>. USE ConnsAssumption, BoundsAssumption DEF IInv, TypeOK, VerifiedByBoth,
   MaybeConn, Goto, Close, Owns, IsOwner, Continue, Return, owner, verify, place,
   listens, shared, net, tlocals, session, listener, clocals, command, history,
   world, threads
<1>1. ASSUME NEW c \in Conns, SessionStep(c) PROVE VerifiedByBoth'
  <2>1. CASE HsStart(c)
    BY <2>1 DEF HsStart, ResetVerification, Raised, SessionType, ListenerType,
       CommandType
  <2>2. CASE HsPromote(c)
    BY <2>2 DEF HsPromote, CommandPhase, Closing, Revoked, Opening, HostRoomOpen,
       Joining, SessionBelongsToOwner, SessionInRoom, InRoom, SessionType,
       CommandType, OwnerType, PlaceType
  <2>3. CASE HsFail(c)
    BY <2>3 DEF HsFail, ResetVerification, Raised
  <2>4. CASE Release(c)
    BY <2>4 DEF Release, ResetVerification, HostRoomOpen, ClearSlot
  <2>5. CASE \E kind \in FrameKinds : NextFrame(c, kind)
    BY <2>5 DEF NextFrame
  <2>6. CASE PeerConfirm(c)
    BY <2>6 DEF PeerConfirm, CapturedIsOwn, SessionType, CommandType, OwnerType,
       PlaceType
  <2>7. CASE Mark(c)
    BY <2>7 DEF Mark, BecomesVerified
  <2>8. CASE ErrorReset(c)
    BY <2>8 DEF ErrorReset, ResetVerification
  <2>9. CASE Finally(c)
    BY <2>9 DEF Finally, HostRoomOpen, ResetVerification, LeaveRoom, ClearSlot,
       ForgetGuest
  <2>10. CASE HsExchange(c) \/ HsExchangeFails(c) \/ Joined(c) \/ Reader(c) \/
     PeerVerification(c) \/ Announce(c) \/ Message(c) \/ Deliver(c) \/ ErrorStop(c)
     \/ ErrorText(c) \/ SessionClose(c) \/ Notify(c)
    BY <2>10 DEF HsExchange, HsExchangeFails, Joined, Queue, Reader, Move,
       PeerVerification, Encrypted, Announce, QueueStep, Message, Deliver,
       ErrorStop, ErrorText, SessionClose, Notify
  <2>. QED BY <1>1, <2>1, <2>2, <2>3, <2>4, <2>5, <2>6, <2>7, <2>8, <2>9, <2>10 DEF
     SessionStep
<1>2. ASSUME NEW r \in Rooms, ListenerStep(r) PROVE VerifiedByBoth'
  <2>1. CASE ListenerTop(r) \/ (\E c \in Conns : Accept(r, c)) \/ ListenerClaim(r)
     \/ Refuse(r) \/ StartHandler(r) \/ StartHandlerFails(r) \/ ListenerReleased(r)
    BY <2>1 DEF ListenerTop, Accept, ListenerClaim, Claimable, Claim, Refuse,
       StartHandler, StartHandlerFails, ListenerReleased
  <2>. QED BY <1>2, <2>1 DEF ListenerStep
<1>3. ASSUME Request \/ CommandStep PROVE VerifiedByBoth'
  <2>1. CASE CreateKey
    BY <2>1 DEF CreateKey, ResetVerification
  <2>2. CASE JoinKey
    BY <2>2 DEF JoinKey, ResetVerification
  <2>3. CASE ConfirmVerification
    BY <2>3 DEF ConfirmVerification, Capture, Encrypted
  <2>4. CASE ConfirmSet
    BY <2>4 DEF ConfirmSet, CapturedIsOwn, SessionType, CommandType, OwnerType,
       PlaceType
  <2>5. CASE ConfirmMark
    BY <2>5 DEF ConfirmMark, BecomesVerified
  <2>6. CASE FailChannel
    BY <2>6 DEF FailChannel, LeaveRoom, HostRoomOpen, ResetVerification, ClearSlot,
       ForgetGuest
  <2>7. CASE CloseClear
    BY <2>7 DEF CloseClear, LeaveRoom, ResetVerification
  <2>8. CASE CloseInbox
    BY <2>8 DEF CloseInbox, ResetVerification
  <2>9. CASE CreateRoom \/ CreatePublish \/ CreateStart \/ CreateFails \/ JoinRoom
     \/ JoinTorFails \/ (\E c \in Conns : JoinConnect(c)) \/ JoinConnectFails \/
     JoinClaim \/ JoinSetup \/ JoinHandshakeRaised \/ JoinHandshakeDone \/
     JoinStart \/ JoinStartFails \/ SendMessage \/ Send \/ SendFails \/
     ConfirmAnnounce \/ FailClose \/ CloseRoom \/ CloseTake \/ CloseSockets \/
     CloseListener \/ Poll
    BY <2>9 DEF CreateRoom, RoomInactive, CreatePublish, CreateStart, CreateFails,
       CallClose, JoinRoom, JoinTorFails, JoinConnect, JoinConnectFails, JoinClaim,
       Claimable, Claim, JoinSetup, JoinHandshakeRaised, JoinHandshakeDone,
       JoinStart, JoinStartFails, SendMessage, Capture, Encrypted, Send, SendFails,
       ConfirmAnnounce, Queue, FailClose, CloseRoom, CloseTake, CloseSockets,
       CloseListener, Poll
  <2>. QED BY <1>3, <2>1, <2>2, <2>3, <2>4, <2>5, <2>6, <2>7, <2>8, <2>9 DEF
     Request, CommandStep
<1>4. CASE UNCHANGED vars
  BY <1>4 DEF vars
<1>. QED BY <1>1, <1>2, <1>3, <1>4 DEF Next

\* Every step keeps the room in the mode its session was made for.
LEMMA SessionInRoomStep ==
  ASSUME IInv, [Next]_vars
  PROVE  SessionInRoom'
<1>. USE ConnsAssumption, BoundsAssumption DEF IInv, TypeOK, SessionInRoom,
   Revoked, InRoom, HostRoomOpen, MaybeConn, Goto, Close, Owns, IsOwner, Continue,
   Return, owner, verify, place, listens, shared, net, tlocals, session, listener,
   clocals, command, history, world, threads
<1>1. ASSUME NEW c \in Conns, SessionStep(c) PROVE SessionInRoom'
  <2>1. CASE HsStart(c)
    BY <2>1 DEF HsStart, ResetVerification, Raised
  <2>2. CASE HsPromote(c)
    BY <2>2 DEF HsPromote, InHand, WithConn, Joining, Rooms, CommandPhase, Closing,
       Opening, HandshakeInOrder, GuestHandshake, ListenerHasRoom,
       SessionBelongsToOwner, SessionType, PlaceType, OwnerType
  <2>3. CASE HsFail(c)
    BY <2>3 DEF HsFail, ResetVerification, Raised
  <2>4. CASE Release(c)
    BY <2>4 DEF Release, ResetVerification, ClearSlot
  <2>5. CASE PeerConfirm(c)
    BY <2>5 DEF PeerConfirm, CapturedIsOwn, SessionType, CommandType, OwnerType,
       PlaceType
  <2>6. CASE Mark(c)
    BY <2>6 DEF Mark, BecomesVerified
  <2>7. CASE ErrorReset(c)
    BY <2>7 DEF ErrorReset, ResetVerification
  <2>8. CASE Finally(c)
    BY <2>8 DEF Finally, ResetVerification, LeaveRoom, ClearSlot, ForgetGuest
  <2>9. CASE HsExchange(c) \/ HsExchangeFails(c) \/ Joined(c) \/ Reader(c) \/ (\E
     kind \in FrameKinds : NextFrame(c, kind)) \/ PeerVerification(c) \/
     Announce(c) \/ Message(c) \/ Deliver(c) \/ ErrorStop(c) \/ ErrorText(c) \/
     SessionClose(c) \/ Notify(c)
    BY <2>9 DEF HsExchange, HsExchangeFails, Joined, Queue, Reader, Move,
       NextFrame, PeerVerification, Encrypted, Announce, QueueStep, Message,
       Deliver, ErrorStop, ErrorText, SessionClose, Notify
  <2>. QED BY <1>1, <2>1, <2>2, <2>3, <2>4, <2>5, <2>6, <2>7, <2>8, <2>9 DEF
     SessionStep
<1>2. ASSUME NEW r \in Rooms, ListenerStep(r) PROVE SessionInRoom'
  <2>1. CASE \E c \in Conns : Accept(r, c)
    BY <2>1 DEF Accept, InHand, WithConn, Joining, Rooms, SessionType, CommandType,
       OwnerType, PlaceType
  <2>2. CASE ListenerTop(r) \/ ListenerClaim(r) \/ Refuse(r) \/ StartHandler(r) \/
     StartHandlerFails(r) \/ ListenerReleased(r)
    BY <2>2 DEF ListenerTop, ListenerClaim, Claimable, Claim, Refuse, StartHandler,
       StartHandlerFails, ListenerReleased
  <2>. QED BY <1>2, <2>1, <2>2 DEF ListenerStep
<1>3. ASSUME Request \/ CommandStep PROVE SessionInRoom'
  <2>1. CASE CreateRoom
    BY <2>1 DEF CreateRoom, RoomInactive
  <2>2. CASE CreateKey
    BY <2>2 DEF CreateKey, ResetVerification
  <2>3. CASE CreatePublish
    BY <2>3 DEF CreatePublish, CommandPhase, Closing, Opening, Joining,
       SessionType, CommandType, OwnerType, PlaceType
  <2>4. CASE CreateStart
    BY <2>4 DEF CreateStart
  <2>5. CASE CreateFails
    BY <2>5 DEF CreateFails, CallClose
  <2>6. CASE JoinRoom
    BY <2>6 DEF JoinRoom, RoomInactive
  <2>7. CASE JoinTorFails
    BY <2>7 DEF JoinTorFails
  <2>8. CASE JoinKey
    BY <2>8 DEF JoinKey, ResetVerification
  <2>9. CASE \E c \in Conns : JoinConnect(c)
    BY <2>9 DEF JoinConnect, InHand, WithConn, Joining, Rooms, SessionType,
       CommandType, OwnerType, PlaceType
  <2>10. CASE JoinConnectFails
    BY <2>10 DEF JoinConnectFails, CallClose
  <2>11. CASE JoinClaim
    BY <2>11 DEF JoinClaim, Claimable, Claim, CallClose
  <2>12. CASE JoinSetup
    BY <2>12 DEF JoinSetup, CommandPhase, Closing, Opening, Joining, SessionType,
       CommandType, OwnerType, PlaceType
  <2>13. CASE JoinHandshakeRaised
    BY <2>13 DEF JoinHandshakeRaised, CallClose
  <2>14. CASE JoinHandshakeDone
    BY <2>14 DEF JoinHandshakeDone
  <2>15. CASE JoinStart
    BY <2>15 DEF JoinStart
  <2>16. CASE JoinStartFails
    BY <2>16 DEF JoinStartFails
  <2>17. CASE ConfirmVerification
    BY <2>17 DEF ConfirmVerification, Capture, Encrypted
  <2>18. CASE SendMessage
    BY <2>18 DEF SendMessage, Capture, Encrypted
  <2>19. CASE Send
    BY <2>19 DEF Send
  <2>20. CASE SendFails
    BY <2>20 DEF SendFails
  <2>21. CASE ConfirmSet
    BY <2>21 DEF ConfirmSet, CapturedIsOwn, InHand, WithConn, Joining, Rooms,
       OwnerType
  <2>22. CASE ConfirmMark
    BY <2>22 DEF ConfirmMark, BecomesVerified
  <2>23. CASE ConfirmAnnounce
    BY <2>23 DEF ConfirmAnnounce, Queue
  <2>24. CASE FailChannel
    BY <2>24 DEF FailChannel, LeaveRoom, ResetVerification, ClearSlot, ForgetGuest
  <2>25. CASE FailClose
    BY <2>25 DEF FailClose, Queue
  <2>26. CASE CloseRoom
    BY <2>26 DEF CloseRoom, RoomInactive, CallClose
  <2>27. CASE CloseTake
    BY <2>27 DEF CloseTake
  <2>28. CASE CloseSockets
    BY <2>28 DEF CloseSockets
  <2>29. CASE CloseListener
    BY <2>29 DEF CloseListener
  <2>30. CASE CloseClear
    BY <2>30 DEF CloseClear, LeaveRoom, ResetVerification
  <2>31. CASE CloseInbox
    BY <2>31 DEF CloseInbox, ResetVerification
  <2>32. CASE Poll
    BY <2>32 DEF Poll
  <2>. QED BY <1>3, <2>1, <2>2, <2>3, <2>4, <2>5, <2>6, <2>7, <2>8, <2>9, <2>10,
     <2>11, <2>12, <2>13, <2>14, <2>15, <2>16, <2>17, <2>18, <2>19, <2>20, <2>21,
     <2>22, <2>23, <2>24, <2>25, <2>26, <2>27, <2>28, <2>29, <2>30, <2>31, <2>32
     DEF Request, CommandStep
<1>4. CASE UNCHANGED vars
  BY <1>4 DEF vars
<1>. QED BY <1>1, <1>2, <1>3, <1>4 DEF Next

\* Every step keeps what was read for a later lock block one session's.
LEMMA CapturedIsOwnStep ==
  ASSUME IInv, [Next]_vars
  PROVE  CapturedIsOwn'
<1>. USE ConnsAssumption, BoundsAssumption DEF IInv, TypeOK, CapturedIsOwn,
   MaybeConn, Goto, Close, Owns, IsOwner, Continue, Return, owner, verify, place,
   listens, shared, net, tlocals, session, listener, clocals, command, history,
   world, threads
<1>1. ASSUME NEW c \in Conns, SessionStep(c) PROVE CapturedIsOwn'
  <2>1. CASE HsStart(c)
    BY <2>1 DEF HsStart, ResetVerification, Raised, SessionType
  <2>2. CASE HsExchange(c)
    BY <2>2 DEF HsExchange, SessionType
  <2>3. CASE HsExchangeFails(c)
    BY <2>3 DEF HsExchangeFails, SessionType
  <2>4. CASE HsPromote(c)
    BY <2>4 DEF HsPromote, SessionType
  <2>5. CASE HsFail(c)
    BY <2>5 DEF HsFail, ResetVerification, Raised, SessionType
  <2>6. CASE Release(c)
    BY <2>6 DEF Release, ResetVerification, HostRoomOpen, ClearSlot, SessionType
  <2>7. CASE Joined(c)
    BY <2>7 DEF Joined, Queue, SessionType
  <2>8. CASE Reader(c)
    BY <2>8 DEF Reader, Move, SessionType
  <2>9. CASE \E kind \in FrameKinds : NextFrame(c, kind)
    BY <2>9 DEF NextFrame, FrameKinds, SessionType
  <2>10. CASE PeerVerification(c)
    BY <2>10 DEF PeerVerification, Encrypted, SessionType
  <2>11. CASE PeerConfirm(c)
    BY <2>11 DEF PeerConfirm, SessionType
  <2>12. CASE Mark(c)
    BY <2>12 DEF Mark, BecomesVerified, SessionType
  <2>13. CASE Announce(c)
    BY <2>13 DEF Announce, QueueStep, Queue, SessionType
  <2>14. CASE Message(c)
    BY <2>14 DEF Message, Encrypted, SessionType
  <2>15. CASE Deliver(c)
    BY <2>15 DEF Deliver, Queue, SessionType
  <2>16. CASE ErrorStop(c)
    BY <2>16 DEF ErrorStop, Move, SessionType
  <2>17. CASE ErrorReset(c)
    BY <2>17 DEF ErrorReset, ResetVerification, SessionType
  <2>18. CASE ErrorText(c)
    BY <2>18 DEF ErrorText, QueueStep, Queue, SessionType
  <2>19. CASE Finally(c)
    BY <2>19 DEF Finally, HostRoomOpen, ResetVerification, LeaveRoom, ClearSlot,
       ForgetGuest, SessionType
  <2>20. CASE SessionClose(c)
    BY <2>20 DEF SessionClose, SessionType
  <2>21. CASE Notify(c)
    BY <2>21 DEF Notify, QueueStep, Queue, SessionType
  <2>. QED BY <1>1, <2>1, <2>2, <2>3, <2>4, <2>5, <2>6, <2>7, <2>8, <2>9, <2>10,
     <2>11, <2>12, <2>13, <2>14, <2>15, <2>16, <2>17, <2>18, <2>19, <2>20, <2>21
     DEF SessionStep
<1>2. ASSUME NEW r \in Rooms, ListenerStep(r) PROVE CapturedIsOwn'
  <2>1. CASE StartHandler(r)
    BY <2>1 DEF StartHandler, SessionType
  <2>2. CASE StartHandlerFails(r)
    BY <2>2 DEF StartHandlerFails, SessionType
  <2>3. CASE ListenerTop(r) \/ (\E c \in Conns : Accept(r, c)) \/ ListenerClaim(r)
     \/ Refuse(r) \/ ListenerReleased(r)
    BY <2>3 DEF ListenerTop, Accept, ListenerClaim, Claimable, Claim, Refuse,
       ListenerReleased
  <2>. QED BY <1>2, <2>1, <2>2, <2>3 DEF ListenerStep
<1>3. ASSUME Request \/ CommandStep PROVE CapturedIsOwn'
  <2>1. CASE CreateRoom
    BY <2>1 DEF CreateRoom, RoomInactive, SessionType
  <2>2. CASE CreateKey
    BY <2>2 DEF CreateKey, ResetVerification, SessionType
  <2>3. CASE CreatePublish
    BY <2>3 DEF CreatePublish, SessionType
  <2>4. CASE CreateStart
    BY <2>4 DEF CreateStart, SessionType
  <2>5. CASE CreateFails
    BY <2>5 DEF CreateFails, CallClose, SessionType
  <2>6. CASE JoinRoom
    BY <2>6 DEF JoinRoom, RoomInactive, SessionType
  <2>7. CASE JoinTorFails
    BY <2>7 DEF JoinTorFails, SessionType
  <2>8. CASE JoinKey
    BY <2>8 DEF JoinKey, ResetVerification, SessionType
  <2>9. CASE \E c \in Conns : JoinConnect(c)
    BY <2>9 DEF JoinConnect, SessionType
  <2>10. CASE JoinConnectFails
    BY <2>10 DEF JoinConnectFails, CallClose, SessionType
  <2>11. CASE JoinClaim
    BY <2>11 DEF JoinClaim, Claimable, Claim, CallClose, SessionType
  <2>12. CASE JoinSetup
    BY <2>12 DEF JoinSetup, SessionType
  <2>13. CASE JoinHandshakeRaised
    BY <2>13 DEF JoinHandshakeRaised, CallClose, SessionType
  <2>14. CASE JoinHandshakeDone
    BY <2>14 DEF JoinHandshakeDone, SessionType
  <2>15. CASE JoinStart
    BY <2>15 DEF JoinStart, SessionType
  <2>16. CASE JoinStartFails
    BY <2>16 DEF JoinStartFails, SessionType
  <2>17. CASE ConfirmVerification
    BY <2>17 DEF ConfirmVerification, Capture, Encrypted, SessionBelongsToOwner,
       Revoked, SessionType, CommandType, OwnerType, PlaceType
  <2>18. CASE SendMessage
    BY <2>18 DEF SendMessage, Capture, Encrypted, SessionBelongsToOwner, Revoked,
       SessionType, CommandType, OwnerType, PlaceType
  <2>19. CASE Send
    BY <2>19 DEF Send, SessionType
  <2>20. CASE SendFails
    BY <2>20 DEF SendFails, SessionType
  <2>21. CASE ConfirmSet
    BY <2>21 DEF ConfirmSet, SessionType
  <2>22. CASE ConfirmMark
    BY <2>22 DEF ConfirmMark, BecomesVerified, SessionType
  <2>23. CASE ConfirmAnnounce
    BY <2>23 DEF ConfirmAnnounce, Queue, SessionType
  <2>24. CASE FailChannel
    BY <2>24 DEF FailChannel, LeaveRoom, HostRoomOpen, ResetVerification,
       ClearSlot, ForgetGuest, SessionType
  <2>25. CASE FailClose
    BY <2>25 DEF FailClose, Queue, SessionType
  <2>26. CASE CloseRoom
    BY <2>26 DEF CloseRoom, RoomInactive, CallClose, SessionType
  <2>27. CASE CloseTake
    BY <2>27 DEF CloseTake, SessionType
  <2>28. CASE CloseSockets
    BY <2>28 DEF CloseSockets, SessionType
  <2>29. CASE CloseListener
    BY <2>29 DEF CloseListener, SessionType
  <2>30. CASE CloseClear
    BY <2>30 DEF CloseClear, LeaveRoom, ResetVerification, SessionType
  <2>31. CASE CloseInbox
    BY <2>31 DEF CloseInbox, ResetVerification, SessionType
  <2>32. CASE Poll
    BY <2>32 DEF Poll
  <2>. QED BY <1>3, <2>1, <2>2, <2>3, <2>4, <2>5, <2>6, <2>7, <2>8, <2>9, <2>10,
     <2>11, <2>12, <2>13, <2>14, <2>15, <2>16, <2>17, <2>18, <2>19, <2>20, <2>21,
     <2>22, <2>23, <2>24, <2>25, <2>26, <2>27, <2>28, <2>29, <2>30, <2>31, <2>32
     DEF Request, CommandStep
<1>4. CASE UNCHANGED vars
  BY <1>4 DEF vars
<1>. QED BY <1>1, <1>2, <1>3, <1>4 DEF Next

-----------------------------------------------------------------------------
\* Every step keeps the types.
LEMMA TypeStep ==
  ASSUME TypeOK, InHand, [Next]_vars
  PROVE  TypeOK'
<1>1. ASSUME NEW c \in Conns, SessionStep(c) PROVE TypeOK'
  BY <1>1, SessionTypes
<1>2. ASSUME NEW r \in Rooms, ListenerStep(r) PROVE TypeOK'
  BY <1>2, ListenerTypes
<1>3. ASSUME Request \/ CommandStep PROVE TypeOK'
  BY <1>3, CommandTypes
<1>4. CASE UNCHANGED vars
  BY <1>4, TypeFrames DEF TypeOK, vars, shared
<1>. QED BY <1>1, <1>2, <1>3, <1>4 DEF Next

\* The invariant holds when the backend starts.
LEMMA InitInvariant == Init => IInv
<1>. SUFFICES ASSUME Init PROVE IInv
  OBVIOUS
<1>. USE ConnsAssumption, BoundsAssumption DEF Init
<1>1. OwnerType /\ VerifyType /\ PlaceType
  BY DEF OwnerType, VerifyType, PlaceType, MaybeConn, MaybeRoom
<1>2. HostingType
  <2>1. stop \in BOOLEAN
    OBVIOUS
  <2>2. peerCount \in 0..2 /\ listenerSocket \in MaybeRoom /\ listenerThread \in MaybeRoom
    BY DEF MaybeRoom
  <2>. QED BY <2>1, <2>2 DEF HostingType
<1>3. InboxType
  BY DEF InboxType
<1>4. NetType /\ SessionType
  BY DEF NetType, SessionType, MaybeConn, MaybeRoom, SessionLabels
<1>5. ListenerType /\ CommandType
  BY DEF ListenerType, CommandType, MaybeConn, MaybeRoom, ListenerLabels, CommandLabels
<1>6. HistoryType
  BY DEF HistoryType
<1>7. InHand /\ HandshakeInOrder
  BY DEF InHand, HandshakeInOrder, WithConn, Joining, GuestHandshake
<1>8. CommandPhase /\ ListenerHasRoom
  BY DEF CommandPhase, ListenerHasRoom, Opening, Closing, Joining, Revoked, Rooms
<1>9. SessionBelongsToOwner /\ VerifiedByBoth /\ SessionInRoom /\ CapturedIsOwn
  BY DEF SessionBelongsToOwner, VerifiedByBoth, SessionInRoom, CapturedIsOwn, Revoked
<1>. QED BY <1>1, <1>2, <1>3, <1>4, <1>5, <1>6, <1>7, <1>8, <1>9 DEF IInv, TypeOK

\* Every step of every thread keeps the invariant.
LEMMA InductiveStep == IInv /\ [Next]_vars => IInv'
<1>. SUFFICES ASSUME IInv, [Next]_vars PROVE IInv'
  OBVIOUS
<1>1. TypeOK'
  BY TypeStep DEF IInv
<1>2. InHand' /\ CommandPhase' /\ ListenerHasRoom' /\ HandshakeInOrder'
  BY InHandStep, CommandPhaseStep, ListenerHasRoomStep, HandshakeInOrderStep
<1>3. SessionBelongsToOwner' /\ VerifiedByBoth' /\ SessionInRoom' /\ CapturedIsOwn'
  BY SessionBelongsToOwnerStep, VerifiedByBothStep, SessionInRoomStep, CapturedIsOwnStep
<1>. QED BY <1>1, <1>2, <1>3 DEF IInv

\* The invariant holds throughout.
LEMMA Invariance == Spec => []IInv
  BY InitInvariant, InductiveStep, PTL DEF Spec

(* Every variable keeps to the program's values, the queue of frontend      *)
(* events to its limit, whatever the number of connections and rooms.       *)
THEOREM TypeCorrect == Spec => []TypeOK
<1>1. IInv => TypeOK
  BY DEF IInv
<1>. QED BY <1>1, Invariance, PTL

(* The ownership discipline of main.py is enough: with every lock block     *)
(* checking the slot's owner, the session's Box is always the owner's.      *)
THEOREM SessionIsOwners == Spec => []SessionBelongsToOwner
<1>1. IInv => SessionBelongsToOwner
  BY DEF IInv
<1>. QED BY <1>1, Invariance, PTL

(* No session is verified on the strength of another's confirmations.       *)
THEOREM VerifiedSessionIsConfirmed == Spec => []VerifiedByBoth
<1>1. IInv => VerifiedByBoth
  BY DEF IInv
<1>. QED BY <1>1, Invariance, PTL

(* A command that sends outside the lock holds the socket and the Box of    *)
(* one session, however the threads change the session meanwhile.           *)
THEOREM FramesUnderOwnBox == Spec => []SentUnderOwnBox
<1>1. IInv => SentUnderOwnBox
  BY DEF IInv, CapturedIsOwn, SentUnderOwnBox
<1>. QED BY <1>1, Invariance, PTL

(* A live session is ended by its own thread or by a command, never by a    *)
(* late thread of another connection.                                       *)
THEOREM OnlyOwnersEnd == Spec => OnlyOwnThreadEndsSession
<1>. DEFINE Ends(c) == box = c /\ (box' # c \/ (verification /\ ~verification'))
            Acts(c) == pc[c]' # pc[c] \/ cmd' # cmd
<1>. USE ConnsAssumption DEF IInv, SessionBelongsToOwner, CommandPhase, Revoked,
   TypeOK, SessionType, Owns, IsOwner, Goto, Continue, Return, MaybeConn, owner,
   verify, place, listens, shared, net, tlocals, session, listener, clocals,
   command, history, world, threads
<1>1. ASSUME IInv, NEW c \in Conns, Ends(c), NEW d \in Conns, SessionStep(d) PROVE
   Acts(c)
  <2>1. CASE HsStart(d)
    BY <1>1, <2>1 DEF HsStart, ResetVerification, Raised
  <2>2. CASE HsPromote(d)
    BY <1>1, <2>2 DEF HsPromote
  <2>3. CASE HsFail(d)
    BY <1>1, <2>3 DEF HsFail, ResetVerification, Raised
  <2>4. CASE Release(d)
    BY <1>1, <2>4 DEF Release, ResetVerification, HostRoomOpen, ClearSlot
  <2>5. CASE Mark(d)
    BY <1>1, <2>5 DEF Mark, BecomesVerified
  <2>6. CASE ErrorReset(d)
    BY <1>1, <2>6 DEF ErrorReset, ResetVerification
  <2>7. CASE Finally(d)
    BY <1>1, <2>7 DEF Finally, HostRoomOpen, ResetVerification, LeaveRoom,
       ClearSlot, ForgetGuest
  <2>8. CASE HsExchange(d) \/ HsExchangeFails(d) \/ Joined(d) \/ Reader(d) \/ (\E
     kind \in FrameKinds : NextFrame(d, kind)) \/ PeerVerification(d) \/
     PeerConfirm(d) \/ Announce(d) \/ Message(d) \/ Deliver(d) \/ ErrorStop(d) \/
     ErrorText(d) \/ SessionClose(d) \/ Notify(d)
    BY <1>1, <2>8 DEF HsExchange, HsExchangeFails, Joined, Queue, Close, Reader,
       Move, NextFrame, PeerVerification, Encrypted, PeerConfirm, Announce,
       QueueStep, Message, Deliver, ErrorStop, ErrorText, SessionClose, Notify
  <2>. QED BY <1>1, <2>1, <2>2, <2>3, <2>4, <2>5, <2>6, <2>7, <2>8 DEF SessionStep
<1>2. ASSUME IInv, NEW c \in Conns, Ends(c), NEW r \in Rooms, ListenerStep(r) PROVE
   Acts(c)
  <2>1. CASE ListenerTop(r) \/ (\E k \in Conns : Accept(r, k)) \/ ListenerClaim(r)
     \/ Refuse(r) \/ StartHandler(r) \/ StartHandlerFails(r) \/ ListenerReleased(r)
    BY <1>2, <2>1 DEF ListenerTop, Accept, ListenerClaim, Claimable, Claim, Refuse,
       Close, StartHandler, StartHandlerFails, ListenerReleased
  <2>. QED BY <1>2, <2>1 DEF ListenerStep
<1>3. ASSUME IInv, NEW c \in Conns, Ends(c), Request \/ CommandStep PROVE Acts(c)
  <2>1. CASE CreateKey
    BY <1>3, <2>1 DEF CreateKey, ResetVerification
  <2>2. CASE JoinKey
    BY <1>3, <2>2 DEF JoinKey, ResetVerification
  <2>3. CASE ConfirmMark
    BY <1>3, <2>3 DEF ConfirmMark, BecomesVerified
  <2>4. CASE FailChannel
    BY <1>3, <2>4 DEF FailChannel, LeaveRoom, HostRoomOpen, ResetVerification,
       ClearSlot, ForgetGuest
  <2>5. CASE CloseClear
    BY <1>3, <2>5 DEF CloseClear, LeaveRoom, ResetVerification
  <2>6. CASE CloseInbox
    BY <1>3, <2>6 DEF CloseInbox, ResetVerification
  <2>7. CASE CreateRoom \/ CreatePublish \/ CreateStart \/ CreateFails \/ JoinRoom
     \/ JoinTorFails \/ (\E k \in Conns : JoinConnect(k)) \/ JoinConnectFails \/
     JoinClaim \/ JoinSetup \/ JoinHandshakeRaised \/ JoinHandshakeDone \/
     JoinStart \/ JoinStartFails \/ ConfirmVerification \/ SendMessage \/ Send \/
     SendFails \/ ConfirmSet \/ ConfirmAnnounce \/ FailClose \/ CloseRoom \/
     CloseTake \/ CloseSockets \/ CloseListener \/ Poll
    BY <1>3, <2>7 DEF CreateRoom, RoomInactive, CreatePublish, CreateStart,
       CreateFails, CallClose, JoinRoom, JoinTorFails, JoinConnect,
       JoinConnectFails, JoinClaim, Claimable, Claim, Close, JoinSetup,
       JoinHandshakeRaised, JoinHandshakeDone, JoinStart, JoinStartFails,
       ConfirmVerification, Capture, Encrypted, SendMessage, Send, SendFails,
       ConfirmSet, ConfirmAnnounce, Queue, FailClose, CloseRoom, CloseTake,
       CloseSockets, CloseListener, Poll
  <2>. QED BY <1>3, <2>1, <2>2, <2>3, <2>4, <2>5, <2>6, <2>7 DEF Request,
     CommandStep
<1>4. ASSUME IInv, NEW c \in Conns, Ends(c), UNCHANGED vars PROVE Acts(c)
  BY <1>4 DEF vars
<1>5. IInv /\ [Next]_vars => [\A c \in Conns : Ends(c) => Acts(c)]_vars
  BY <1>1, <1>2, <1>3, <1>4 DEF Next
<1>. QED BY <1>5, Invariance, PTL DEF Spec, OnlyOwnThreadEndsSession
=============================================================================
