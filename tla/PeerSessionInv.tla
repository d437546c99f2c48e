--------------------------- MODULE PeerSessionInv ---------------------------
(* The inductive strengthening of PeerSession's ownership and verification  *)
(* invariants, in named parts; PeerSession_proofs shows that every step     *)
(* preserves it.                                                            *)
EXTENDS PeerSession

\* Where the command thread is opening a room, joining, or in close_room.
Opening  == {"create_key", "create_publish", "join_key", "join_connect",
             "join_claim", "join_setup"}
Closing  == {"close_take", "close_sockets", "close_listener", "close_join",
             "close_inbox"}
Joining  == {"join_setup", "join_handshake", "join_start"}
WithConn == {"join_claim", "confirm_send", "confirm_set", "confirm_mark",
             "confirm_announce", "send", "fail", "fail_close", "stale_close"} \cup Joining
GuestHandshake == {"hs_start", "hs_exchange", "hs_promote", "hs_fail", "hs_done",
                   "hs_raised"}

\* Beyond the types: a thread or command about to use a connection has one, a
\* thread about to queue its note has an event, and a join has a name for its key.
InHand ==
    /\ cmd = "join_key" => ops < MaxRooms
    /\ \A c \in Conns : pc[c] = "notify" => note[c] # "none"
    /\ cmd \in WithConn => cconn \in Conns
    /\ \A r \in Rooms : lpc[r] \in {"claim", "refuse", "start", "releasing"} =>
          /\ lconn[r] \in Conns
          /\ sock[lconn[r]] # "new" /\ role[lconn[r]] = "host"
    /\ cmd \in Joining \cup {"join_claim"} =>
          sock[cconn] # "new" /\ role[cconn] = "guest"
    /\ \A c \in Conns : /\ sock[c] = "new" => role[c] = "none"
                        /\ role[c] = "none" => pc[c] = "none"

\* close_room works under stop_event, and from its first lock block on nobody
\* owns the slot; a room is opened only where there is none.
CommandPhase ==
    /\ cmd \in Closing => stop
    /\ Revoked => active = NoConn
    /\ cmd \in Opening => mode = "none" /\ room = 0
    /\ cmd = "create_start" => HostRoomOpen
    /\ cmd \in Joining => active = cconn /\ activeGen = gen[cconn]
    /\ cmd \in {"join_handshake", "join_start"} => mode = "guest"

\* Listeners are started for published rooms only, and the key of a room whose
\* listener was started is gone when the room is.
ListenerHasRoom ==
    /\ \A r \in Rooms : r > ops => lpc[r] = "none"
    /\ cmd \in {"create_key", "create_publish", "create_start"} =>
          ops \in Rooms /\ lpc[ops] = "none"
    /\ \A r \in Rooms : key = r /\ lpc[r] # "none" => HostRoomOpen
    /\ \A c \in Conns : role[c] = "host" =>
          origin[c] \in Rooms /\ lpc[origin[c]] # "none"

\* A guest's connection is in its handshake only while join_room runs it, and
\* who is about to promote has been answered under the invitation's key.
HandshakeInOrder ==
    /\ \A c \in Conns : role[c] = "guest" /\ pc[c] \in GuestHandshake =>
          cmd \in {"join_handshake", "join_start"} /\ cconn = c
    /\ cmd \in {"join_claim", "join_setup"} => pc[cconn] = "none"
    /\ cmd = "join_handshake" => pc[cconn] \in GuestHandshake
    /\ cmd = "join_start" => pc[cconn] = "hs_done"
    /\ \A c \in Conns : pc[c] = "hs_promote" => hkey[c] = origin[c]

\* The mode the room is in is the role of the connection that has the session.
InRoom(c) ==
    \/ role[c] = "host" /\ HostRoomOpen
    \/ role[c] = "guest" /\ mode = "guest"

SessionInRoom ==
    /\ box # NoConn /\ ~Revoked => InRoom(box)
    /\ box = NoConn => ~localConfirmed /\ ~peerConfirmed /\ ~verification

\* What a thread read in its first lock block and uses in its second.
CapturedIsOwn ==
    /\ cmd \in {"confirm_send", "confirm_set", "send"} => cbox = cconn
    /\ cmd \in {"confirm_send", "confirm_set"} => cconn \in userConfirmed
    /\ \A c \in Conns :
          /\ pc[c] \in {"verification", "peer_confirm"} => c \in peerHasConfirmed
          /\ pc[c] = "peer_confirm" => sbox[c] = c

(* The session belongs to the slot's owner and is confirmed by the users of *)
(* that very session, with what makes both inductive.                       *)
IInv ==
    /\ TypeOK /\ InHand /\ CommandPhase /\ ListenerHasRoom /\ HandshakeInOrder
    /\ SessionBelongsToOwner /\ VerifiedByBoth /\ SessionInRoom /\ CapturedIsOwn

=============================================================================
