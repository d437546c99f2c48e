--------------------------- MODULE TorRoom_proofs ---------------------------
(***************************************************************************)
(* The invariants of TorRoom for any number of starts of Tor, of rooms and *)
(* of faults.  They speak of the moments between two commands; what a      *)
(* command relies on in its middle, and what the globals name of the world *)
(* at every moment, make them inductive.                                   *)
(***************************************************************************)
EXTENDS TorRoom, TLAPS

Closing  == {"close_take", "close_listener", "close_tor", "close_done"}
Starting == {"tor_prepare", "tor_resolve", "tor_launch"}
\* The steps of create_room and join_room before there is a room.
Preparing == Starting \cup {"bind", "tor", "tor_login", "publish", "connect"}

\* What runs, lies on disk, is linked and listens is what the globals name, or what
\* survived its clean-up.
WorldIsKnown ==
    /\ controller \in {0, process}
    /\ running \subseteq {process} \cup unstopped
    /\ linked \subseteq {controller} \cup unstopped
    /\ dirs \subseteq {dataDir} \cup undeleted
    /\ listening \subseteq {listenerSocket}
    /\ listenerSocket # 0 => listenerSocket \in listening
    /\ \A s \in published : s[1] \in linked
    /\ cmd \notin Closing => \A s \in published : s[2] = serviceId \/ s[1] \in unstopped

\* What a command has established when it is at a step.
StepIsDue ==
    /\ cmd \in Starting => process = 0 /\ controller = 0
    /\ cmd = "tor_prepare" => dataDir = 0
    /\ cmd \in {"tor_resolve", "tor_launch", "tor_login"} => generation < tors
    /\ cmd \in {"bind", "publish", "serve"} => want = "create"
    /\ cmd \in {"connect", "join"} => want = "join"
    /\ cmd \in Preparing => want \in {"start_tor", "create", "join"}
    /\ cmd \notin {"idle", "ended"} /\ want \in {"create", "join"} => rooms >= 1
    /\ cmd \in Preparing /\ want \in {"create", "join"} =>
            room = NoRoom /\ guestSocket = 0 /\ serviceId = 0
    /\ cmd = "bind" => listenerSocket = 0
    /\ cmd = "serve" => /\ serviceId = rooms
                        /\ controller \in linked => <<controller, rooms>> \in published

\* A room of the Tor that was last started: a host's service is published as long
\* as the control connection is up, a guest's connection runs through it.
RouteIsCurrent ==
    room.generation = generation =>
        /\ room.mode = "host" /\ controller \in linked /\ serviceId = room.id
              => <<controller, serviceId>> \in published
        /\ room.mode = "guest" /\ controller # 0 /\ cmd \notin Closing => guestSocket = process

\* How far close_room has come.
CloseIsDone ==
    /\ cmd \in {"close_listener", "close_tor", "close_done"} => guestSocket = 0
    /\ cmd \in {"close_tor", "close_done"} => listenerSocket = 0 /\ listenerThread = 0
    /\ cmd = "close_done" => Nothing

\* The inductive invariant.
IInv == TypeOK /\ WorldIsKnown /\ StepIsDue /\ RouteIsCurrent /\ CloseIsDone /\ NothingIsLeft

-----------------------------------------------------------------------------
\* After the clean-up of the Tor that the globals name there is only what survived
\* this clean-up or an earlier one.
LEMMA OnlyResidueIsLeft ==
    ASSUME TypeOK, WorldIsKnown, CleanUp(process, dataDir)
    PROVE  /\ running' \subseteq unstopped' /\ linked' \subseteq unstopped'
           /\ dirs' \subseteq undeleted'
           /\ \A s \in published' : s[1] \in linked'
           /\ running' \cup linked' \cup dirs' \cup unstopped' \cup undeleted' \subseteq 1..tors
           /\ published' \subseteq published
           /\ faults' \in 0..MaxFaults
<1>1. running' \subseteq running /\ linked' \subseteq linked /\ dirs' \subseteq dirs
  BY DEF CleanUp
<1>2. running' \subseteq unstopped' /\ dirs' \subseteq undeleted'
  BY <1>1 DEF CleanUp, WorldIsKnown
<1>3. linked' \subseteq unstopped'
  <2>. SUFFICES ASSUME NEW t \in linked', t \notin unstopped PROVE t \in unstopped'
    BY DEF CleanUp
  <2>1. t = process
    BY <1>1 DEF WorldIsKnown, TypeOK
  <2>2. t \in running'
    BY <2>1 DEF CleanUp
  <2>. QED BY <2>1, <2>2 DEF CleanUp
<1>4. published' \subseteq published /\ \A s \in published' : s[1] \in linked'
  BY DEF CleanUp, WorldIsKnown
<1>5. unstopped' \subseteq unstopped \cup running /\ undeleted' \subseteq undeleted \cup dirs
  BY <1>1 DEF CleanUp
<1>6. faults' \in 0..MaxFaults
  BY BoundsAssumption DEF CleanUp, TypeOK
<1>. QED BY <1>1, <1>2, <1>3, <1>4, <1>5, <1>6 DEF TypeOK

\* The invariant holds when the backend starts.
LEMMA InitInvariant == Init => IInv
<1>. SUFFICES ASSUME Init PROVE IInv
  OBVIOUS
<1>. USE DEF Init
<1>1. TypeOK
  <2>1. room \in [mode : {"none", "host", "guest"}, id : 0..rooms, generation : 0..generation]
    BY DEF NoRoom
  <2>2. /\ generation \in 0..tors /\ tors \in 0..MaxTors /\ rooms \in 0..MaxRooms
        /\ faults \in 0..MaxFaults
    BY BoundsAssumption
  <2>3. /\ {controller, process, socksPort, dataDir, guestSocket} \subseteq Tors \cup {0}
        /\ {serviceId, localPort, listenerSocket, listenerThread} \subseteq Rooms \cup {0}
    OBVIOUS
  <2>4. /\ running \cup linked \cup dirs \cup unstopped \cup undeleted \subseteq 1..tors
        /\ listening \cup alive \subseteq 1..rooms
        /\ published \subseteq (1..tors) \X (1..rooms)
    OBVIOUS
  <2>. QED BY <2>1, <2>2, <2>3, <2>4 DEF TypeOK
<1>2. WorldIsKnown /\ StepIsDue /\ RouteIsCurrent /\ CloseIsDone /\ NothingIsLeft
  BY
  DEF WorldIsKnown, StepIsDue, RouteIsCurrent, CloseIsDone, NothingIsLeft, Starting,
      Preparing, NoRoom, Closing
<1>. QED BY <1>1, <1>2 DEF IInv

\* A request begins a command, or is refused.
LEMMA RequestStep ==
    ASSUME IInv, StartTor \/ Refused \/ CreateRoom \/ JoinRoom \/ CloseRoom \/ EndOfInput
    PROVE  IInv'
<1>. USE DEF IInv, globals, hosting, joined, world, residue, threads, counts
<1>1. CASE StartTor
  <2>1. TypeOK'
    BY <1>1 DEF StartTor, Begin, TypeOK
  <2>2. WorldIsKnown'
    BY <1>1 DEF StartTor, Begin, WorldIsKnown, Closing
  <2>3. StepIsDue'
    BY <1>1 DEF StartTor, Begin, StepIsDue, Starting
  <2>4. RouteIsCurrent'
    BY <1>1 DEF StartTor, Begin, RouteIsCurrent, Closing
  <2>5. CloseIsDone'
    BY <1>1 DEF StartTor, Begin, CloseIsDone
  <2>6. NothingIsLeft'
    BY <1>1 DEF StartTor, Begin, NothingIsLeft
  <2>. QED BY <2>1, <2>2, <2>3, <2>4, <2>5, <2>6
<1>2. CASE Refused
  <2>1. TypeOK'
    BY <1>2 DEF Refused, TypeOK
  <2>2. WorldIsKnown'
    BY <1>2 DEF Refused, WorldIsKnown
  <2>3. StepIsDue'
    BY <1>2 DEF Refused, StepIsDue, Starting, Preparing
  <2>4. RouteIsCurrent'
    BY <1>2 DEF Refused, RouteIsCurrent
  <2>5. CloseIsDone'
    BY <1>2 DEF Refused, Begin, RoomInactive, CloseIsDone
  <2>6. NothingIsLeft'
    BY <1>2 DEF Refused, NothingIsLeft
  <2>. QED BY <2>1, <2>2, <2>3, <2>4, <2>5, <2>6
<1>3. CASE CreateRoom
  <2>1. TypeOK'
    BY <1>3, BoundsAssumption DEF CreateRoom, Begin, TypeOK
  <2>2. WorldIsKnown'
    BY <1>3 DEF CreateRoom, Begin, WorldIsKnown, Closing
  <2>3. StepIsDue'
    BY <1>3 DEF CreateRoom, Begin, RoomInactive, TypeOK, StepIsDue, Starting
  <2>4. RouteIsCurrent'
    BY <1>3 DEF CreateRoom, Begin, RouteIsCurrent, Closing
  <2>5. CloseIsDone'
    BY <1>3 DEF CreateRoom, Begin, CloseIsDone
  <2>6. NothingIsLeft'
    BY <1>3 DEF CreateRoom, Begin, NothingIsLeft
  <2>. QED BY <2>1, <2>2, <2>3, <2>4, <2>5, <2>6
<1>4. CASE JoinRoom
  <2>1. TypeOK'
    BY <1>4, BoundsAssumption DEF JoinRoom, Begin, TypeOK
  <2>2. WorldIsKnown'
    BY <1>4 DEF JoinRoom, Begin, WorldIsKnown, Closing
  <2>3. StepIsDue'
    BY <1>4 DEF JoinRoom, Begin, RoomInactive, TypeOK, StepIsDue, Starting
  <2>4. RouteIsCurrent'
    BY <1>4 DEF JoinRoom, Begin, RouteIsCurrent, Closing
  <2>5. CloseIsDone'
    BY <1>4 DEF JoinRoom, Begin, CloseIsDone
  <2>6. NothingIsLeft'
    BY <1>4 DEF JoinRoom, Begin, NothingIsLeft
  <2>. QED BY <2>1, <2>2, <2>3, <2>4, <2>5, <2>6
<1>5. CASE CloseRoom
  <2>1. TypeOK'
    BY <1>5 DEF CloseRoom, Begin, TypeOK
  <2>2. WorldIsKnown'
    BY <1>5 DEF CloseRoom, Begin, WorldIsKnown, Closing
  <2>3. StepIsDue'
    BY <1>5 DEF CloseRoom, Begin, StepIsDue, Starting, Preparing
  <2>4. RouteIsCurrent'
    BY <1>5 DEF CloseRoom, Begin, RouteIsCurrent, Closing
  <2>5. CloseIsDone'
    BY <1>5 DEF CloseRoom, Begin, CloseIsDone
  <2>6. NothingIsLeft'
    BY <1>5 DEF CloseRoom, Begin, NothingIsLeft
  <2>. QED BY <2>1, <2>2, <2>3, <2>4, <2>5, <2>6
<1>6. CASE EndOfInput
  <2>1. TypeOK'
    BY <1>6 DEF EndOfInput, Begin, TypeOK
  <2>2. WorldIsKnown'
    BY <1>6 DEF EndOfInput, Begin, WorldIsKnown, Closing
  <2>3. StepIsDue'
    BY <1>6 DEF EndOfInput, Begin, StepIsDue, Starting, Preparing
  <2>4. RouteIsCurrent'
    BY <1>6 DEF EndOfInput, Begin, RouteIsCurrent, Closing
  <2>5. CloseIsDone'
    BY <1>6 DEF EndOfInput, Begin, CloseIsDone
  <2>6. NothingIsLeft'
    BY <1>6 DEF EndOfInput, Begin, NothingIsLeft
  <2>. QED BY <2>1, <2>2, <2>3, <2>4, <2>5, <2>6
<1>. QED BY <1>1, <1>2, <1>3, <1>4, <1>5, <1>6

\* The steps of start_tor.
LEMMA RuntimeStep ==
    ASSUME IInv,
           \/ TorIsReady \/ DropStaleTor \/ PrepareTor \/ ResolveTor
           \/ LaunchTor \/ LoginTor \/ LaunchFails
    PROVE  IInv'
<1>. USE DEF IInv, globals, hosting, joined, world, residue, threads, counts
<1>1. CASE TorIsReady
  <2>1. TypeOK'
    BY <1>1 DEF TorIsReady, Step, End, TypeOK, StepIsDue, Preparing
  <2>2. WorldIsKnown'
    BY <1>1 DEF TorIsReady, WorldIsKnown, Closing
  <2>3. StepIsDue'
    BY <1>1 DEF TorIsReady, Step, End, StepIsDue, Starting, Preparing
  <2>4. RouteIsCurrent'
    BY <1>1 DEF TorIsReady, RouteIsCurrent, Closing
  <2>5. CloseIsDone'
    BY <1>1 DEF TorIsReady, Step, End, CloseIsDone, StepIsDue, Preparing
  <2>6. NothingIsLeft'
    BY <1>1 DEF TorIsReady, Step, End, NothingIsLeft, StepIsDue, Preparing
  <2>. QED BY <2>1, <2>2, <2>3, <2>4, <2>5, <2>6
<1>2. CASE DropStaleTor
  <2>0. /\ running' \subseteq unstopped' /\ linked' \subseteq unstopped'
        /\ dirs' \subseteq undeleted'
        /\ \A s \in published' : s[1] \in linked'
        /\ running' \cup linked' \cup dirs' \cup unstopped' \cup undeleted' \subseteq 1..tors
        /\ published' \subseteq published /\ faults' \in 0..MaxFaults
    BY <1>2, OnlyResidueIsLeft DEF DropStaleTor
  <2>1. TypeOK'
    BY <1>2, <2>0 DEF DropStaleTor, Step, TypeOK
  <2>2. WorldIsKnown'
    BY <1>2, <2>0 DEF DropStaleTor, WorldIsKnown
  <2>3. StepIsDue'
    BY <1>2, <2>0 DEF DropStaleTor, Step, StepIsDue, Preparing
  <2>4. RouteIsCurrent'
    BY <1>2, <2>0 DEF DropStaleTor, RouteIsCurrent
  <2>5. CloseIsDone'
    BY <1>2, <2>0 DEF DropStaleTor, Step, CloseIsDone
  <2>6. NothingIsLeft'
    BY <1>2, <2>0 DEF DropStaleTor, Step, NothingIsLeft
  <2>. QED BY <2>1, <2>2, <2>3, <2>4, <2>5, <2>6
<1>3. CASE PrepareTor
  <2>1. TypeOK'
    BY <1>3, BoundsAssumption DEF PrepareTor, Step, TorRaises, End, TypeOK, Tors, NoRoom
  <2>2. WorldIsKnown'
    BY <1>3 DEF PrepareTor, TypeOK, WorldIsKnown, StepIsDue, Starting
  <2>3. StepIsDue'
    BY <1>3 DEF PrepareTor, Step, TorRaises, End, TypeOK, StepIsDue, Starting, Preparing
  <2>4. RouteIsCurrent'
    BY <1>3 DEF PrepareTor, RouteIsCurrent, StepIsDue, Starting
  <2>5. CloseIsDone'
    BY <1>3 DEF PrepareTor, Step, TorRaises, End, CloseIsDone
  <2>6. NothingIsLeft'
    BY <1>3 DEF PrepareTor, Step, TorRaises, End, NothingIsLeft
  <2>. QED BY <2>1, <2>2, <2>3, <2>4, <2>5, <2>6
<1>4. CASE ResolveTor
  <2>1. TypeOK'
    BY <1>4 DEF ResolveTor, Step, TorRaises, End, TypeOK
  <2>2. WorldIsKnown'
    BY <1>4 DEF ResolveTor, TypeOK, WorldIsKnown, StepIsDue, Starting
  <2>3. StepIsDue'
    BY <1>4 DEF ResolveTor, Step, TorRaises, End, StepIsDue, Starting, Preparing
  <2>4. RouteIsCurrent'
    BY <1>4 DEF ResolveTor, RouteIsCurrent, StepIsDue, Starting
  <2>5. CloseIsDone'
    BY <1>4 DEF ResolveTor, Step, TorRaises, End, CloseIsDone
  <2>6. NothingIsLeft'
    BY <1>4 DEF ResolveTor, Step, TorRaises, End, NothingIsLeft
  <2>. QED BY <2>1, <2>2, <2>3, <2>4, <2>5, <2>6
<1>5. CASE LaunchTor
  <2>1. TypeOK'
    BY <1>5 DEF LaunchTor, Step, TypeOK, Tors, StepIsDue
  <2>2. WorldIsKnown'
    BY <1>5 DEF LaunchTor, TypeOK, WorldIsKnown, StepIsDue, Starting
  <2>3. StepIsDue'
    BY <1>5 DEF LaunchTor, Step, StepIsDue, Starting, Preparing
  <2>4. RouteIsCurrent'
    BY <1>5 DEF LaunchTor, RouteIsCurrent, StepIsDue, Starting
  <2>5. CloseIsDone'
    BY <1>5 DEF LaunchTor, Step, CloseIsDone
  <2>6. NothingIsLeft'
    BY <1>5 DEF LaunchTor, Step, NothingIsLeft
  <2>. QED BY <2>1, <2>2, <2>3, <2>4, <2>5, <2>6
<1>6. CASE LoginTor
  <2>1. TypeOK'
    <3>1. generation \in Nat /\ tors \in Nat /\ generation' = generation + 1 /\ generation < tors
      BY <1>6, BoundsAssumption DEF LoginTor, TypeOK, StepIsDue
    <3>2. generation' \in 0..tors' /\ 0..generation \subseteq 0..generation'
      BY <1>6, <3>1 DEF LoginTor, counts
    <3>3. room' \in [mode : {"none", "host", "guest"}, id : 0..rooms', generation : 0..generation']
      BY <1>6, <3>2 DEF LoginTor, TypeOK
    <3>4. process \in 1..tors
      BY <1>6 DEF LoginTor, TypeOK
    <3>. QED BY <1>6, <3>2, <3>3, <3>4 DEF LoginTor, Step, End, TypeOK, StepIsDue, Preparing
  <2>2. WorldIsKnown'
    BY <1>6 DEF LoginTor, TypeOK, WorldIsKnown, Closing
  <2>3. StepIsDue'
    BY <1>6, BoundsAssumption
    DEF LoginTor, Step, End, TypeOK, StepIsDue, Starting, Preparing, Closing
  <2>4. RouteIsCurrent'
    BY <1>6, BoundsAssumption
    DEF LoginTor, Step, End, TypeOK, RouteIsCurrent, StepIsDue, Preparing, Closing, NoRoom
  <2>5. CloseIsDone'
    BY <1>6 DEF LoginTor, Step, End, CloseIsDone, StepIsDue, Preparing
  <2>6. NothingIsLeft'
    BY <1>6 DEF LoginTor, Step, End, NothingIsLeft, StepIsDue, Preparing
  <2>. QED BY <2>1, <2>2, <2>3, <2>4, <2>5, <2>6
<1>7. CASE LaunchFails
  <2>0. /\ running' \subseteq unstopped' /\ linked' \subseteq unstopped'
        /\ dirs' \subseteq undeleted'
        /\ \A s \in published' : s[1] \in linked'
        /\ running' \cup linked' \cup dirs' \cup unstopped' \cup undeleted' \subseteq 1..tors
        /\ published' \subseteq published /\ faults' \in 0..MaxFaults
    BY <1>7, OnlyResidueIsLeft DEF LaunchFails
  <2>1. TypeOK'
    BY <1>7, <2>0, BoundsAssumption
    DEF LaunchFails, Step, TorRaises, End, TypeOK, Tors, Rooms, NoRoom
  <2>2. WorldIsKnown'
    BY <1>7, <2>0 DEF LaunchFails, WorldIsKnown
  <2>3. StepIsDue'
    BY <1>7, <2>0 DEF LaunchFails, Step, TorRaises, End, StepIsDue, Starting, Preparing
  <2>4. RouteIsCurrent'
    BY <1>7, <2>0 DEF LaunchFails, RouteIsCurrent
  <2>5. CloseIsDone'
    BY <1>7, <2>0 DEF LaunchFails, Step, TorRaises, End, CloseIsDone
  <2>6. NothingIsLeft'
    BY <1>7, <2>0 DEF LaunchFails, Step, TorRaises, End, NothingIsLeft
  <2>. QED BY <2>1, <2>2, <2>3, <2>4, <2>5, <2>6
<1>. QED BY <1>1, <1>2, <1>3, <1>4, <1>5, <1>6, <1>7

\* The steps of build_room_response and join_room.
LEMMA RoomKeeps ==
    ASSUME IInv, BindListener \/ Publish \/ Serve \/ Connect \/ JoinEnds
    PROVE  IInv'
<1>. USE DEF IInv, globals, hosting, joined, world, residue, threads, counts
<1>1. CASE BindListener
  <2>1. TypeOK'
    BY <1>1 DEF BindListener, Step, TypeOK, Rooms, StepIsDue
  <2>2. WorldIsKnown'
    BY <1>1 DEF BindListener, TypeOK, WorldIsKnown, StepIsDue, Closing
  <2>3. StepIsDue'
    BY <1>1 DEF BindListener, Step, StepIsDue, Starting, Preparing
  <2>4. RouteIsCurrent'
    BY <1>1 DEF BindListener, RouteIsCurrent, Closing
  <2>5. CloseIsDone'
    BY <1>1 DEF BindListener, Step, CloseIsDone
  <2>6. NothingIsLeft'
    BY <1>1 DEF BindListener, Step, NothingIsLeft
  <2>. QED BY <2>1, <2>2, <2>3, <2>4, <2>5, <2>6
<1>2. CASE Publish
  <2>1. TypeOK'
    BY <1>2 DEF Publish, Step, TypeOK, Rooms, StepIsDue
  <2>2. WorldIsKnown'
    BY <1>2 DEF Publish, Step, TypeOK, WorldIsKnown, StepIsDue, Preparing, Closing
  <2>3. StepIsDue'
    BY <1>2 DEF Publish, Step, StepIsDue, Starting, Preparing
  <2>4. RouteIsCurrent'
    BY <1>2 DEF Publish, RouteIsCurrent, Closing
  <2>5. CloseIsDone'
    BY <1>2 DEF Publish, Step, CloseIsDone
  <2>6. NothingIsLeft'
    BY <1>2 DEF Publish, Step, NothingIsLeft
  <2>. QED BY <2>1, <2>2, <2>3, <2>4, <2>5, <2>6
<1>3. CASE Serve
  <2>1. TypeOK'
    <3>1. rooms \in Rooms /\ rooms \in 1..rooms /\ generation \in 0..generation
      BY <1>3, BoundsAssumption DEF Serve, TypeOK, StepIsDue, Rooms
    <3>2. room' \in [mode : {"none", "host", "guest"}, id : 0..rooms', generation : 0..generation']
      BY <1>3, <3>1 DEF Serve
    <3>. QED BY <1>3, <3>1, <3>2 DEF Serve, Step, End, TypeOK
  <2>2. WorldIsKnown'
    BY <1>3 DEF Serve, WorldIsKnown, Closing
  <2>3. StepIsDue'
    BY <1>3 DEF Serve, Step, End, StepIsDue, Starting, Preparing
  <2>4. RouteIsCurrent'
    BY <1>3 DEF Serve, RouteIsCurrent, StepIsDue
  <2>5. CloseIsDone'
    BY <1>3 DEF Serve, Step, End, CloseIsDone
  <2>6. NothingIsLeft'
    BY <1>3 DEF Serve, Step, End, NothingIsLeft
  <2>. QED BY <2>1, <2>2, <2>3, <2>4, <2>5, <2>6
<1>4. CASE Connect
  <2>1. TypeOK'
    <3>1. rooms \in 0..rooms /\ generation \in 0..generation
      BY BoundsAssumption DEF TypeOK
    <3>2. room' \in [mode : {"none", "host", "guest"}, id : 0..rooms', generation : 0..generation']
      BY <1>4, <3>1 DEF Connect, TypeOK
    <3>. QED BY <1>4, <3>2 DEF Connect, Step, TypeOK
  <2>2. WorldIsKnown'
    BY <1>4 DEF Connect, WorldIsKnown, Closing
  <2>3. StepIsDue'
    BY <1>4 DEF Connect, Step, StepIsDue, Starting, Preparing
  <2>4. RouteIsCurrent'
    BY <1>4 DEF Connect, RouteIsCurrent, Closing
  <2>5. CloseIsDone'
    BY <1>4 DEF Connect, Step, CloseIsDone
  <2>6. NothingIsLeft'
    BY <1>4 DEF Connect, Step, NothingIsLeft
  <2>. QED BY <2>1, <2>2, <2>3, <2>4, <2>5, <2>6
<1>5. CASE JoinEnds
  <2>1. TypeOK'
    BY <1>5 DEF JoinEnds, Step, End, TypeOK
  <2>2. WorldIsKnown'
    BY <1>5 DEF JoinEnds, WorldIsKnown, Closing
  <2>3. StepIsDue'
    BY <1>5 DEF JoinEnds, Step, End, StepIsDue, Starting, Preparing
  <2>4. RouteIsCurrent'
    BY <1>5 DEF JoinEnds, RouteIsCurrent, Closing
  <2>5. CloseIsDone'
    BY <1>5 DEF JoinEnds, Step, End, CloseIsDone
  <2>6. NothingIsLeft'
    BY <1>5 DEF JoinEnds, Step, End, StepIsDue, NothingIsLeft
  <2>. QED BY <2>1, <2>2, <2>3, <2>4, <2>5, <2>6
<1>. QED BY <1>1, <1>2, <1>3, <1>4, <1>5

\* The steps of close_room.
LEMMA CloseKeeps ==
    ASSUME IInv, CloseTake \/ CloseListener \/ CloseTor \/ CloseDone
    PROVE  IInv'
<1>. USE DEF IInv, globals, hosting, joined, world, residue, threads, counts
<1>1. CASE CloseTake
  <2>1. TypeOK'
    BY <1>1 DEF CloseTake, Step, TypeOK
  <2>2. WorldIsKnown'
    BY <1>1 DEF CloseTake, Step, WorldIsKnown, Closing
  <2>3. StepIsDue'
    BY <1>1 DEF CloseTake, Step, StepIsDue, Starting, Preparing
  <2>4. RouteIsCurrent'
    BY <1>1 DEF CloseTake, Step, RouteIsCurrent, Closing
  <2>5. CloseIsDone'
    BY <1>1 DEF CloseTake, Step, CloseIsDone
  <2>6. NothingIsLeft'
    BY <1>1 DEF CloseTake, Step, NothingIsLeft
  <2>. QED BY <2>1, <2>2, <2>3, <2>4, <2>5, <2>6
<1>2. CASE CloseListener
  <2>1. TypeOK'
    BY <1>2 DEF CloseListener, Step, TypeOK
  <2>2. WorldIsKnown'
    BY <1>2 DEF CloseListener, Step, WorldIsKnown, Closing
  <2>3. StepIsDue'
    BY <1>2 DEF CloseListener, Step, StepIsDue, Starting, Preparing
  <2>4. RouteIsCurrent'
    BY <1>2 DEF CloseListener, Step, RouteIsCurrent, Closing
  <2>5. CloseIsDone'
    BY <1>2 DEF CloseListener, Step, CloseIsDone
  <2>6. NothingIsLeft'
    BY <1>2 DEF CloseListener, Step, NothingIsLeft
  <2>. QED BY <2>1, <2>2, <2>3, <2>4, <2>5, <2>6
<1>3. CASE CloseTor
  <2>0. /\ running' \subseteq unstopped' /\ linked' \subseteq unstopped'
        /\ dirs' \subseteq undeleted'
        /\ \A s \in published' : s[1] \in linked'
        /\ running' \cup linked' \cup dirs' \cup unstopped' \cup undeleted' \subseteq 1..tors
        /\ published' \subseteq published /\ faults' \in 0..MaxFaults
    BY <1>3, OnlyResidueIsLeft DEF CloseTor
  <2>1. TypeOK'
    BY <1>3, <2>0 DEF CloseTor, Step, TypeOK, NoRoom
  <2>2. WorldIsKnown'
    BY <1>3, <2>0 DEF CloseTor, WorldIsKnown
  <2>3. StepIsDue'
    BY <1>3, <2>0 DEF CloseTor, Step, StepIsDue, Starting, Preparing
  <2>4. RouteIsCurrent'
    BY <1>3, <2>0 DEF CloseTor, RouteIsCurrent
  <2>5. CloseIsDone'
    BY <1>3, <2>0
    DEF CloseTor, CloseIsDone, WorldIsKnown, TypeOK, Nothing, RoomInactive, Status
  <2>6. NothingIsLeft'
    BY <1>3, <2>0 DEF CloseTor, Step, NothingIsLeft
  <2>. QED BY <2>1, <2>2, <2>3, <2>4, <2>5, <2>6
<1>4. CASE CloseDone
  <2>1. TypeOK'
    BY <1>4 DEF CloseDone, End, TypeOK
  <2>2. WorldIsKnown'
    BY <1>4 DEF CloseDone, WorldIsKnown, CloseIsDone, Nothing
  <2>3. StepIsDue'
    BY <1>4 DEF CloseDone, End, StepIsDue, Starting, Preparing
  <2>4. RouteIsCurrent'
    BY <1>4 DEF CloseDone, RouteIsCurrent, CloseIsDone, Nothing, RoomInactive, NoRoom
  <2>5. CloseIsDone'
    BY <1>4 DEF CloseDone, End, CloseIsDone
  <2>6. NothingIsLeft'
    BY <1>4 DEF CloseDone, NothingIsLeft, CloseIsDone, Nothing, RoomInactive, Status
  <2>. QED BY <2>1, <2>2, <2>3, <2>4, <2>5, <2>6
<1>. QED BY <1>1, <1>2, <1>3, <1>4

\* What happens by itself.
LEMMA WorldStep ==
    ASSUME IInv,
           \/ GuestSessionEnds
           \/ \E t \in Tors : TorDies(t) \/ ControlConnectionBreaks(t)
           \/ \E r \in Rooms : ListenerEnds(r) \/ AcceptFails(r)
    PROVE  IInv'
<1>. USE DEF IInv, globals, hosting, joined, world, residue, threads, counts
<1>1. CASE GuestSessionEnds
  <2>1. TypeOK'
    <3>1. room' \in [mode : {"none", "host", "guest"}, id : 0..rooms, generation : 0..generation]
      BY <1>1, BoundsAssumption DEF GuestSessionEnds, NoRoom, TypeOK
    <3>. QED BY <1>1, <3>1 DEF GuestSessionEnds, TypeOK
  <2>2. WorldIsKnown' /\ StepIsDue'
    BY <1>1 DEF GuestSessionEnds, WorldIsKnown, StepIsDue
  <2>3. RouteIsCurrent'
    BY <1>1 DEF GuestSessionEnds, RouteIsCurrent, NoRoom
  <2>4. CloseIsDone' /\ NothingIsLeft'
    BY <1>1 DEF GuestSessionEnds, CloseIsDone, NothingIsLeft, Nothing, RoomInactive
  <2>. QED BY <2>1, <2>2, <2>3, <2>4
<1>2. ASSUME NEW t \in Tors, TorDies(t) \/ ControlConnectionBreaks(t) PROVE IInv'
  <2>1. /\ UNCHANGED <<globals, hosting, joined, stop, dirs, residue, threads, cmd, want, reply,
                       tors, rooms>>
        /\ running' \subseteq running /\ linked' = linked \ {t}
        /\ published' = {s \in published : s[1] # t}
        /\ faults' \in 0..MaxFaults
    BY <1>2, BoundsAssumption
    DEF TorDies, ControlConnectionBreaks, StopTor, UnlinkOnly, TypeOK
  <2>2. TypeOK'
    BY <2>1 DEF TypeOK
  <2>3. WorldIsKnown'
    BY <2>1 DEF WorldIsKnown
  <2>4. StepIsDue'
    BY <2>1 DEF StepIsDue
  <2>5. RouteIsCurrent'
    BY <2>1 DEF RouteIsCurrent
  <2>6. Nothing => Nothing'
    BY <2>1 DEF Nothing, RoomInactive, Status, Ready
  <2>7. CloseIsDone' /\ NothingIsLeft'
    BY <2>1, <2>6 DEF CloseIsDone, NothingIsLeft
  <2>. QED BY <2>2, <2>3, <2>4, <2>5, <2>7
<1>3. ASSUME NEW r \in Rooms, ListenerEnds(r) \/ AcceptFails(r) PROVE IInv'
  <2>1. /\ UNCHANGED <<globals, hosting, joined, stop, world, listening, cmd, want, reply, tors, rooms>>
        /\ alive' \subseteq alive /\ faults' \in 0..MaxFaults
    BY <1>3, BoundsAssumption DEF ListenerEnds, AcceptFails, TypeOK
  <2>2. TypeOK'
    BY <2>1 DEF TypeOK
  <2>3. WorldIsKnown' /\ StepIsDue' /\ RouteIsCurrent'
    BY <2>1 DEF WorldIsKnown, StepIsDue, RouteIsCurrent
  <2>4. CloseIsDone' /\ NothingIsLeft'
    BY <2>1 DEF CloseIsDone, NothingIsLeft, Nothing, RoomInactive, Status, Ready
  <2>. QED BY <2>2, <2>3, <2>4
<1>. QED BY <1>1, <1>2, <1>3

\* The invariant is inductive.
LEMMA InductiveStep == IInv /\ [Next]_vars => IInv'
<1>. SUFFICES ASSUME IInv, [Next]_vars PROVE IInv'
  OBVIOUS
<1>1. CASE UNCHANGED vars
  <2>. USE <1>1 DEF IInv, vars, globals, hosting, joined, world, residue, threads, counts
  <2>1. TypeOK'
    BY DEF TypeOK
  <2>2. WorldIsKnown' /\ StepIsDue' /\ RouteIsCurrent'
    BY DEF WorldIsKnown, StepIsDue, RouteIsCurrent
  <2>3. CloseIsDone' /\ NothingIsLeft'
    BY DEF CloseIsDone, NothingIsLeft, Nothing, RoomInactive, Status, Ready
  <2>. QED BY <2>1, <2>2, <2>3 DEF IInv
<1>2. CASE Next
  BY <1>2, RequestStep, RuntimeStep, RoomKeeps, CloseKeeps, WorldStep
  DEF Next, Request, CommandStep, StartTorStep, RoomStep, CloseStep
<1>. QED BY <1>1, <1>2

-----------------------------------------------------------------------------
\* However often Tor dies under a room and is started again, poll_messages reports
\* an active route only for a room that the running Tor serves.
THEOREM RouteIsReportedTruly == Spec => []RouteIsTrue
<1>1. IInv => RouteIsTrue
  <2>. SUFFICES ASSUME IInv, cmd = "idle", RouteActive
                PROVE  /\ process \in running
                       /\ room.mode = "host" => /\ <<process, room.id>> \in published
                                                /\ room.id \in listening
                       /\ room.mode = "guest" => guestSocket = process
    BY DEF RouteIsTrue
  <2>1. /\ controller # 0 /\ process \in running /\ controller \in linked
        /\ room.generation = generation
    BY DEF RouteActive, Status, Ready
  <2>2. controller = process
    BY <2>1 DEF IInv, WorldIsKnown
  <2>3. ASSUME room.mode = "host"
        PROVE  <<process, room.id>> \in published /\ room.id \in listening
    <3>1. /\ listenerSocket = room.id /\ serviceId = room.id /\ listenerThread = room.id
          /\ listenerThread \in alive
      BY <2>3 DEF RouteActive, HostListenerActive
    <3>2. room.id # 0
      BY <3>1 DEF IInv, TypeOK
    <3>3. room.id \in listening
      BY <3>1, <3>2 DEF IInv, WorldIsKnown
    <3>4. <<process, room.id>> \in published
      BY <2>1, <2>2, <2>3, <3>1 DEF IInv, RouteIsCurrent
    <3>. QED BY <3>3, <3>4
  <2>4. room.mode = "guest" => guestSocket = process
    BY <2>1 DEF IInv, RouteIsCurrent, Closing
  <2>. QED BY <2>1, <2>3, <2>4
<1>. QED BY <1>1, InitInvariant, InductiveStep, PTL DEF Spec

\* Whichever step of start_tor, build_room_response or join_room fails: between
\* commands nothing runs, lies on disk, listens or is published that close_room
\* would not find, except what survived its clean-up.
THEOREM NothingIsLost == Spec => []NothingLeaks
<1>1. IInv => NothingLeaks
  <2>. SUFFICES ASSUME IInv, cmd = "idle" PROVE NothingLeaks
    BY DEF NothingLeaks
  <2>1. ASSUME NEW s \in published PROVE s = <<controller, serviceId>> \/ s[1] \in unstopped
    BY <2>1 DEF IInv, TypeOK, WorldIsKnown, Closing
  <2>. QED BY <2>1 DEF IInv, WorldIsKnown, NothingLeaks
<1>. QED BY <1>1, InitInvariant, InductiveStep, PTL DEF Spec

\* After close_room, once the input has ended, and when create_room has failed,
\* nothing of the room and its Tor is left, at whatever step it failed, except what
\* survived its clean-up.
THEOREM NothingStays == Spec => []NothingIsLeft
<1>1. IInv => NothingIsLeft
  BY DEF IInv
<1>. QED BY <1>1, InitInvariant, InductiveStep, PTL DEF Spec

-----------------------------------------------------------------------------
\* Whose room there is at a step: a command that made none, or fails, has none but
\* its own.
RoomIsOwned ==
    /\ guestSocket # 0 => room.mode = "guest"
    /\ cmd = "serve" => room = NoRoom /\ guestSocket = 0
    /\ cmd \in Closing => want \in {"create", "join", "close", "end"}
    /\ cmd \in Closing \cup {"join"} /\ want \in {"create", "join"} =>
            room = NoRoom \/ room.id = rooms

\* The ownership of the room is kept by every step.
LEMMA RoomStaysOwned == IInv /\ RoomIsOwned /\ [Next]_vars => RoomIsOwned'
<1>. SUFFICES ASSUME StepIsDue, CloseIsDone, RoomIsOwned, [Next]_vars
             PROVE  RoomIsOwned'
  BY DEF IInv
<1>. USE DEF RoomIsOwned, globals, hosting, joined, counts
<1>1. CASE UNCHANGED vars
  BY <1>1 DEF vars
<1>2. CASE Request
  BY <1>2
  DEF Request, StartTor, Refused, CreateRoom, JoinRoom, CloseRoom, EndOfInput, Begin,
      Closing, RoomInactive
<1>3. CASE StartTorStep
  <2>1. ASSUME TorRaises, UNCHANGED <<joined, rooms>>, cmd \in Preparing, cmd # "connect"
        PROVE  RoomIsOwned'
    BY <2>1 DEF TorRaises, Step, End, StepIsDue, Preparing, Starting, Closing
  <2>2. ASSUME cmd \in Preparing, Step(cmd') \/ End("ready"), UNCHANGED <<joined, rooms>>,
               cmd' \in Preparing \cup {"idle"}
        PROVE  RoomIsOwned'
    BY <2>2 DEF Step, End, StepIsDue, Preparing, Starting, Closing
  <2>3. CASE TorIsReady \/ DropStaleTor \/ LaunchTor \/ LoginTor
    BY <2>2, <2>3
    DEF TorIsReady, DropStaleTor, LaunchTor, LoginTor, Step, End, StepIsDue, Preparing,
        Starting
  <2>4. CASE PrepareTor \/ ResolveTor \/ LaunchFails
    BY <2>1, <2>2, <2>4 DEF PrepareTor, ResolveTor, LaunchFails, Step, Preparing, Starting
  <2>. QED BY <1>3, <2>3, <2>4 DEF StartTorStep
<1>4. CASE RoomStep
  <2>1. CASE BindListener
    BY <2>1 DEF BindListener, Step, StepIsDue, Preparing, Closing
  <2>2. CASE Publish
    BY <2>2 DEF Publish, Step, StepIsDue, Preparing, Closing
  <2>3. CASE Serve
    BY <2>3 DEF Serve, Step, End, StepIsDue, Closing
  <2>4. CASE Connect
    BY <2>4 DEF Connect, Step, StepIsDue, Preparing, Closing
  <2>5. CASE JoinEnds
    BY <2>5 DEF JoinEnds, Step, End, StepIsDue, Closing
  <2>. QED BY <1>4, <2>1, <2>2, <2>3, <2>4, <2>5 DEF RoomStep
<1>5. CASE CloseStep
  <2>1. CASE CloseTake \/ CloseListener
    BY <2>1 DEF CloseTake, CloseListener, Step, Closing
  <2>2. CASE CloseTor
    BY <2>2 DEF CloseTor, Step, Closing, NoRoom, CloseIsDone
  <2>3. CASE CloseDone
    BY <2>3 DEF CloseDone, End, Closing
  <2>. QED BY <1>5, <2>1, <2>2, <2>3 DEF CloseStep
<1>6. CASE GuestSessionEnds
  BY <1>6 DEF GuestSessionEnds
<1>7. CASE \/ \E t \in Tors : TorDies(t) \/ ControlConnectionBreaks(t)
           \/ \E r \in Rooms : ListenerEnds(r) \/ AcceptFails(r)
  BY <1>7 DEF TorDies, ControlConnectionBreaks, ListenerEnds, AcceptFails
<1>. QED BY <1>1, <1>2, <1>3, <1>4, <1>5, <1>6, <1>7 DEF Next, CommandStep

\* No room is replaced: it ends through close_room, the end of the input, the end of
\* the guest's session or the failure of the command that made it.
THEOREM RoomsAreNotReplaced == Spec => RoomIsNotReplaced
<1>1. Init => RoomIsOwned
  BY DEF Init, RoomIsOwned, NoRoom, Closing
<1>2. IInv /\ RoomIsOwned /\ [Next]_vars =>
        [room # NoRoom /\ room' # room =>
            /\ room' = NoRoom
            /\ \/ /\ cmd = "close_tor"
                  /\ want \in {"close", "end"} \/ room.id = rooms
               \/ guestSocket # 0 /\ guestSocket' = 0]_vars
  <2>. SUFFICES ASSUME StepIsDue, RoomIsOwned, Next, room # NoRoom, room' # room
                PROVE  /\ room' = NoRoom
                       /\ \/ /\ cmd = "close_tor"
                             /\ want \in {"close", "end"} \/ room.id = rooms
                          \/ guestSocket # 0 /\ guestSocket' = 0
    BY DEF IInv
  <2>1. Serve \/ Connect \/ GuestSessionEnds \/ CloseTor
    BY DEF Next, Request, CommandStep, StartTorStep, RoomStep, CloseStep, StartTor, Refused,
           CreateRoom, JoinRoom, CloseRoom, EndOfInput, TorIsReady, DropStaleTor, PrepareTor,
           ResolveTor, LaunchTor, LoginTor, LaunchFails, BindListener, Publish, JoinEnds,
           CloseTake, CloseListener, CloseDone, TorDies, ControlConnectionBreaks, ListenerEnds,
           AcceptFails, joined
  <2>2. CASE Serve \/ Connect
    BY <2>2 DEF Serve, Connect, RoomIsOwned, StepIsDue, Preparing
  <2>3. CASE GuestSessionEnds
    BY <2>3 DEF GuestSessionEnds
  <2>4. CASE CloseTor
    BY <2>4 DEF CloseTor, RoomIsOwned, Closing
  <2>. QED BY <2>1, <2>2, <2>3, <2>4
<1>. QED BY <1>1, <1>2, InitInvariant, InductiveStep, RoomStaysOwned, PTL
         DEF Spec, RoomIsNotReplaced

=============================================================================
