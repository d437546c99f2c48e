--------------------- MODULE InvitationClipboard_proofs ---------------------
(***************************************************************************)
(* InvitationIsTracked for any number of rooms and copies.  With the types *)
(* it is nearly inductive: what takes an invitation out of the memory      *)
(* starts a cleanup for it, and a cleanup ends when the invitation is off  *)
(* the clipboard or the clipboard has refused.                             *)
(***************************************************************************)
EXTENDS InvitationClipboard, TLAPS, SequenceTheorems

\* What a copy writes is an invitation.
InProgress ==
    \A c \in DOMAIN copies : copies[c].stage = "writing" => copies[c].value \in Invitations

IInv == TypeOK /\ InProgress /\ InvitationIsTracked

\* A new cleanup leaves the calls before it as they are.
LEMMA CleanupAdds ==
    ASSUME TypeOK, NEW i \in Invitations, Cleanup(i)
    PROVE  /\ cleanups' \in Seq(Calls) /\ latest' = Len(cleanups')
           /\ Len(cleanups') = Len(cleanups) + 1
           /\ Cleaning(i)'
           /\ \A j \in Invitations : Cleaning(j) => Cleaning(j)'
<1>. DEFINE new == [target |-> i, stage |-> "read"]
<1>1. new \in Calls /\ cleanups \in Seq(Calls) /\ cleanups' = Append(cleanups, new)
  BY DEF TypeOK, Calls, Cleanup
<1>2. /\ cleanups' \in Seq(Calls) /\ Len(cleanups') = Len(cleanups) + 1
      /\ \A k \in 1..Len(cleanups) : cleanups'[k] = cleanups[k]
      /\ cleanups'[Len(cleanups) + 1] = new
      /\ Len(cleanups) \in Nat
  BY <1>1, AppendProperties, LenProperties
<1>3. /\ DOMAIN cleanups = 1..Len(cleanups)
      /\ DOMAIN cleanups' = 1..(Len(cleanups) + 1)
  BY <1>1, <1>2, LenProperties
<1>4. Cleaning(i)'
  BY <1>2, <1>3 DEF Cleaning, Settled, Nothing
<1>5. ASSUME NEW j \in Invitations, Cleaning(j) PROVE Cleaning(j)'
  <2>1. PICK k \in DOMAIN cleanups : ~Settled(k) /\ cleanups[k].target = j
    BY <1>5 DEF Cleaning
  <2>2. k \in DOMAIN cleanups' /\ cleanups'[k] = cleanups[k]
    BY <1>2, <1>3
  <2>. QED BY <2>1, <2>2 DEF Cleaning, Settled
<1>. QED BY <1>2, <1>4, <1>5 DEF Cleanup

\* clearCopiedInvitation keeps the types, forgets the copied invitation and
\* leaves a cleanup for it.
LEMMA ClearLeavesCleanup ==
    ASSUME TypeOK, ClearCopiedInvitation
    PROVE  /\ copiedInvitation' = Nothing /\ timer' = Nothing
           /\ timeouts' \subseteq (1..MaxCopies) \X Invitations
           /\ cleanups' \in Seq(Calls) /\ latest' \in 0..Len(cleanups')
           /\ Len(cleanups) \in Nat /\ Len(cleanups') \in Nat
           /\ Len(cleanups) <= Len(cleanups')
           /\ \A j \in Invitations :
                 copiedInvitation = j \/ Cleaning(j) => Cleaning(j)'
<1>1. /\ copiedInvitation' = Nothing /\ timer' = Nothing
      /\ timeouts' \subseteq (1..MaxCopies) \X Invitations
      /\ cleanups \in Seq(Calls) /\ Len(cleanups) \in Nat
  BY LenProperties DEF TypeOK, ClearCopiedInvitation
<1>2. CASE copiedInvitation = Nothing
  <2>1. UNCHANGED <<cleanups, latest>>
    BY <1>2 DEF ClearCopiedInvitation
  <2>2. \A j \in Invitations : copiedInvitation # j /\ (Cleaning(j) => Cleaning(j)')
    BY <1>2, <2>1, BoundsAssumption DEF Invitations, Nothing, Cleaning, Settled
  <2>. QED BY <1>1, <2>1, <2>2 DEF TypeOK
<1>3. CASE copiedInvitation # Nothing
  <2>1. PICK i \in Invitations : i = copiedInvitation /\ Cleanup(i)
    BY <1>3 DEF TypeOK, ClearCopiedInvitation
  <2>2. /\ cleanups' \in Seq(Calls) /\ latest' = Len(cleanups')
        /\ Len(cleanups') = Len(cleanups) + 1
        /\ Cleaning(i)'
        /\ \A j \in Invitations : Cleaning(j) => Cleaning(j)'
    BY <2>1, CleanupAdds
  <2>3. Len(cleanups') \in Nat /\ Len(cleanups) \in Nat
    BY <1>1, <2>2, LenProperties
  <2>4. Len(cleanups) <= Len(cleanups') /\ latest' \in 0..Len(cleanups')
    BY <2>2, <2>3
  <2>. QED BY <1>1, <2>1, <2>2, <2>3, <2>4
<1>. QED BY <1>2, <1>3

\* A cleanup that goes on keeps the types and the other calls, and its own while
\* the clipboard holds what it is to remove.
LEMMA CleanupGoesOn ==
    ASSUME TypeOK, NEW k \in DOMAIN cleanups,
           NEW stage \in {"read", "write", "done"}, Become(k, stage)
    PROVE  /\ cleanups' \in Seq(Calls) /\ Len(cleanups') = Len(cleanups)
           /\ \A j \in Invitations :
                 Cleaning(j) /\ (stage = "done" => cleanups[k].target # j) => Cleaning(j)'
<1>1. /\ cleanups \in Seq(Calls) /\ cleanups[k] \in Calls
      /\ k \in 1..Len(cleanups) /\ Len(cleanups) \in Nat
  BY LenProperties, ElementOfSeq DEF TypeOK
<1>2. /\ cleanups' = [cleanups EXCEPT ![k] = [cleanups[k] EXCEPT !.stage = stage]]
      /\ [cleanups[k] EXCEPT !.stage = stage] \in Calls
  BY <1>1 DEF Become, Calls
<1>3. cleanups' \in Seq(Calls) /\ Len(cleanups') = Len(cleanups)
  BY <1>1, <1>2, ExceptSeq
<1>4. DOMAIN cleanups' = DOMAIN cleanups
  BY <1>2
<1>5. ASSUME NEW j \in Invitations, Cleaning(j),
             stage = "done" => cleanups[k].target # j
      PROVE  Cleaning(j)'
  <2>1. PICK m \in DOMAIN cleanups : ~Settled(m) /\ cleanups[m].target = j
    BY <1>5 DEF Cleaning
  <2>2. CASE m # k
    BY <1>2, <1>4, <2>1, <2>2 DEF Cleaning, Settled
  <2>3. CASE m = k
    <3>1. stage # "done" /\ k # Nothing
      BY <1>1, <1>5, <2>1, <2>3 DEF Nothing
    <3>2. cleanups'[k].stage = stage /\ cleanups'[k].target = j
      BY <1>1, <1>2, <2>1, <2>3 DEF Calls
    <3>. QED BY <1>4, <3>1, <3>2 DEF Cleaning, Settled
  <2>. QED BY <2>2, <2>3
<1>. QED BY <1>3, <1>5

\* The invariant holds when the interface starts.
LEMMA InitInvariant == Init => IInv
<1>. SUFFICES ASSUME Init PROVE IInv
  OBVIOUS
<1>1. TypeOK
  <2>1. /\ cleanups \in Seq(Calls) /\ copies \in Seq(Copies) /\ Len(cleanups) = 0
        /\ creates \in Seq(Creations)
    BY EmptySeq DEF Init
  <2>2. latest \in 0..Len(cleanups)
    BY <2>1 DEF Init, Nothing
  <2>3. /\ closes \in 0..MaxCloses /\ timer \in 0..MaxCopies
        /\ timeouts \subseteq (1..MaxCopies) \X Invitations
    BY BoundsAssumption DEF Init, Nothing
  <2>. QED BY <2>1, <2>2, <2>3 DEF Init, TypeOK
<1>2. InProgress /\ InvitationIsTracked
  BY BoundsAssumption DEF Init, InProgress, InvitationIsTracked, Invitations, Nothing
<1>. QED BY <1>1, <1>2 DEF IInv

\* The steps of the copies.
LEMMA CopyStep ==
    ASSUME IInv, PageRuns, Copy \/ \E c \in 1..MaxCopies : Copying(c)
    PROVE  IInv'
<1>. USE DEF IInv, PageRuns
<1>0. copies \in Seq(Copies) /\ Len(copies) \in Nat /\ DOMAIN copies = 1..Len(copies)
      /\ cleanups \in Seq(Calls) /\ Len(cleanups) \in Nat
  BY LenProperties DEF TypeOK
<1>1. CASE Copy
  <2>. DEFINE new == [stage |-> "clearing", waits |-> latest', value |-> Nothing]
  <2>1. ClearCopiedInvitation /\ copies' = Append(copies, new)
        /\ UNCHANGED <<clipboard, place, shutdownRequested, denied>>
    BY <1>1 DEF Copy
  <2>2. /\ copiedInvitation' = Nothing /\ timer' = Nothing
        /\ timeouts' \subseteq (1..MaxCopies) \X Invitations
        /\ cleanups' \in Seq(Calls) /\ latest' \in 0..Len(cleanups')
        /\ Len(cleanups') \in Nat /\ Len(cleanups) <= Len(cleanups')
        /\ \A j \in Invitations : copiedInvitation = j \/ Cleaning(j) => Cleaning(j)'
    BY <2>1, ClearLeavesCleanup
  <2>3. new \in Copies
    BY <2>2 DEF Copies
  <2>4. /\ copies' \in Seq(Copies)
        /\ DOMAIN copies' = 1..(Len(copies) + 1)
        /\ \A c \in 1..Len(copies) : copies'[c] = copies[c]
        /\ copies'[Len(copies) + 1].stage = "clearing"
    BY <1>0, <2>1, <2>3, AppendProperties, LenProperties
  <2>5. TypeOK'
    BY <1>0, <2>1, <2>2, <2>4, BoundsAssumption DEF TypeOK, place, Nothing
  <2>6. InProgress'
    BY <1>0, <2>1, <2>4 DEF InProgress, place
  <2>7. InvitationIsTracked'
    BY <2>1, <2>2 DEF InvitationIsTracked
  <2>. QED BY <2>5, <2>6, <2>7
<1>2. ASSUME NEW c \in 1..MaxCopies, Copying(c) PROVE IInv'
  <2>1. /\ c \in DOMAIN copies /\ copies[c] \in Copies
        /\ UNCHANGED <<place, shutdownRequested, cleanups, latest, denied>>
    BY <1>0, <1>2, ElementOfSeq
    DEF Copying, CopyWrites, CopyWritten, CopyFails, At, memory
  <2>2. PICK r \in Copies :
          /\ copies' = [copies EXCEPT ![c] = r]
          /\ r.stage = "writing" => r.value \in Invitations
    <3>1. CASE CopyWrites(c)
      <4>. DEFINE r == [copies[c] EXCEPT !.value = shareLink,
                           !.stage = IF shareLink = Nothing THEN "done" ELSE "writing"]
      <4>1. copies' = [copies EXCEPT ![c] = r]
        BY <2>1, <3>1 DEF CopyWrites, Copies
      <4>2. r \in Copies /\ (r.stage = "writing" => r.value \in Invitations)
        BY <2>1 DEF Copies, TypeOK
      <4>. QED BY <4>1, <4>2
    <3>2. CASE CopyWritten(c) \/ CopyFails(c)
      <4>. DEFINE r == [copies[c] EXCEPT !.stage = "done"]
      <4>1. copies' = [copies EXCEPT ![c] = r]
        BY <3>2 DEF CopyWritten, CopyFails
      <4>2. r \in Copies /\ r.stage = "done"
        BY <2>1 DEF Copies
      <4>. QED BY <4>1, <4>2
    <3>. QED BY <1>2, <3>1, <3>2 DEF Copying
  <2>3. copies' \in Seq(Copies) /\ DOMAIN copies' = DOMAIN copies
    BY <1>0, <2>1, <2>2, ExceptSeq
  <2>4. InProgress'
    BY <2>1, <2>2, <2>3 DEF InProgress, place
  <2>5. CASE CopyWritten(c)
    <3>1. PICK i \in Invitations : i = copies[c].value
      BY <2>1, <2>5 DEF CopyWritten, At, InProgress
    <3>2. /\ clipboard' = i /\ copiedInvitation' = i /\ timer' = c
          /\ timeouts' = timeouts \cup {<<c, i>>}
      BY <2>5, <3>1 DEF CopyWritten
    <3>3. TypeOK'
      BY <2>1, <2>3, <3>2 DEF TypeOK, place
    <3>4. HasTimer(copiedInvitation)'
      <4>1. <<c, i>> \in timeouts' /\ <<c, i>>[2] = i
        BY <3>2
      <4>. QED BY <3>2, <4>1 DEF HasTimer
    <3>. QED BY <2>4, <3>2, <3>3, <3>4 DEF InvitationIsTracked
  <2>6. CASE CopyWrites(c) \/ CopyFails(c)
    <3>1. UNCHANGED <<clipboard, memory>>
      BY <2>6 DEF CopyWrites, CopyFails
    <3>2. TypeOK'
      BY <2>1, <2>3, <3>1 DEF TypeOK, place, memory
    <3>3. InvitationIsTracked'
      BY <2>1, <3>1 DEF memory, InvitationIsTracked, Cleaning, Settled, HasTimer
    <3>. QED BY <2>4, <3>2, <3>3
  <2>. QED BY <1>2, <2>5, <2>6 DEF Copying
<1>. QED BY <1>1, <1>2

\* The timers, and the steps of the cleanups.
LEMMA CleanupStep ==
    ASSUME IInv, PageRuns,
           \/ \E t \in timeouts : TimerFires(t)
           \/ \E k \in 1..MaxCopies : CleaningUp(k)
    PROVE  IInv'
<1>. USE DEF IInv, PageRuns
<1>0. cleanups \in Seq(Calls) /\ Len(cleanups) \in Nat
  BY LenProperties DEF TypeOK
<1>1. ASSUME NEW t \in timeouts, TimerFires(t) PROVE IInv'
  <2>1. /\ timeouts' = timeouts \ {t} /\ timer' = Nothing
        /\ t[2] \in Invitations
        /\ UNCHANGED <<clipboard, place, shutdownRequested, copies, denied>>
    BY <1>1 DEF TypeOK, TimerFires
  <2>2. InProgress'
    BY <2>1 DEF InProgress, place
  <2>3. CASE copiedInvitation = t[2]
    <3>1. PICK i \in Invitations : i = copiedInvitation /\ Cleanup(i)
      BY <1>1, <2>1, <2>3 DEF TimerFires
    <3>2. /\ cleanups' \in Seq(Calls) /\ latest' = Len(cleanups')
          /\ Len(cleanups') = Len(cleanups) + 1
          /\ Cleaning(i)' /\ \A j \in Invitations : Cleaning(j) => Cleaning(j)'
      BY <3>1, CleanupAdds
    <3>3. copiedInvitation' = Nothing
      BY <1>1, <2>3 DEF TimerFires
    <3>4. latest' \in 0..Len(cleanups')
      BY <1>0, <3>2
    <3>5. TypeOK'
      BY <2>1, <3>2, <3>3, <3>4, BoundsAssumption DEF TypeOK, place, Nothing
    <3>6. InvitationIsTracked'
      BY <2>1, <3>1, <3>2, <3>3 DEF InvitationIsTracked
    <3>. QED BY <2>2, <3>5, <3>6
  <2>4. CASE copiedInvitation # t[2]
    <3>1. UNCHANGED <<copiedInvitation, cleanups, latest>>
      BY <1>1, <2>4 DEF TimerFires
    <3>2. TypeOK'
      BY <2>1, <3>1, BoundsAssumption DEF TypeOK, place, Nothing
    <3>3. HasTimer(copiedInvitation) => HasTimer(copiedInvitation)'
      BY <2>1, <2>4, <3>1 DEF HasTimer
    <3>4. InvitationIsTracked'
      BY <2>1, <3>1, <3>3 DEF InvitationIsTracked, Cleaning, Settled
    <3>. QED BY <2>2, <3>2, <3>4
  <2>. QED BY <2>3, <2>4
<1>2. ASSUME NEW k \in 1..MaxCopies, CleaningUp(k) PROVE IInv'
  <2>1. /\ k \in DOMAIN cleanups /\ k # Nothing /\ cleanups[k] \in Calls
        /\ UNCHANGED <<place, shutdownRequested, copiedInvitation, timer,
                       timeouts, latest, copies>>
    BY <1>0, <1>2, ElementOfSeq
    DEF CleaningUp, CleanupReads, CleanupWrites, CleanupDenied, Nothing
  <2>2. PICK stage \in {"read", "write", "done"} :
          /\ Become(k, stage)
          /\ \/ clipboard' = clipboard /\ denied' = denied
                /\ (stage = "done" => cleanups[k].target # clipboard)
             \/ clipboard' = Nothing /\ denied' = denied
             \/ clipboard' = clipboard /\ denied' = TRUE
    <3>1. CASE CleanupReads(k)
      BY <3>1 DEF CleanupReads
    <3>2. CASE CleanupWrites(k)
      BY <3>2 DEF CleanupWrites
    <3>3. CASE CleanupDenied(k)
      BY <3>3 DEF CleanupDenied
    <3>. QED BY <1>2, <3>1, <3>2, <3>3 DEF CleaningUp
  <2>3. /\ cleanups' \in Seq(Calls) /\ Len(cleanups') = Len(cleanups)
        /\ \A j \in Invitations :
              Cleaning(j) /\ (stage = "done" => cleanups[k].target # j) => Cleaning(j)'
    BY <2>1, <2>2, CleanupGoesOn
  <2>4. TypeOK'
    BY <2>1, <2>2, <2>3 DEF TypeOK, place
  <2>5. InProgress'
    BY <2>1 DEF InProgress, place
  <2>6. copiedInvitation' # Nothing => HasTimer(copiedInvitation)'
    BY <2>1 DEF InvitationIsTracked, HasTimer
  <2>7. clipboard' \in Invitations /\ ~denied' =>
            copiedInvitation' = clipboard' \/ Cleaning(clipboard)'
    <3>1. SUFFICES ASSUME clipboard' \in Invitations, ~denied', copiedInvitation' # clipboard'
                   PROVE  Cleaning(clipboard)'
      OBVIOUS
    <3>2. /\ clipboard' = clipboard /\ denied' = denied
          /\ stage = "done" => cleanups[k].target # clipboard
      BY <2>2, <3>1 DEF Invitations, Nothing
    <3>3. PICK j \in Invitations : j = clipboard
      BY <3>1, <3>2
    <3>4. Cleaning(j)
      BY <2>1, <3>1, <3>2, <3>3 DEF InvitationIsTracked
    <3>5. Cleaning(j)'
      BY <2>3, <3>2, <3>3, <3>4
    <3>. QED BY <3>2, <3>3, <3>5
  <2>8. InvitationIsTracked'
    BY <2>6, <2>7 DEF InvitationIsTracked, Invitations
  <2>. QED BY <2>4, <2>5, <2>8
<1>. QED BY <1>1, <1>2

\* The steps of the room, and the shutdown.
LEMMA RoomStep ==
    ASSUME IInv, PageRuns,
           \/ CreateRoom \/ \E n \in Invitations : CreateCalls(n) \/ Created(n)
           \/ CloseRoom \/ Closed \/ Shutdown
    PROVE  IInv'
<1>. USE DEF IInv, PageRuns
<1>0. creates \in Seq(Creations) /\ DOMAIN creates = 1..Len(creates)
  BY LenProperties DEF TypeOK
<1>. closes \in 0..MaxCloses /\ MaxCloses \in Nat
  BY BoundsAssumption DEF TypeOK
<1>1. CASE CreateRoom \/ CloseRoom \/ Shutdown
  <2>1. ClearCopiedInvitation /\ UNCHANGED <<clipboard, shareLink, copies, denied>>
    BY <1>1 DEF CreateRoom, CloseRoom, Shutdown, place
  <2>2. /\ copiedInvitation' = Nothing /\ timer' = Nothing
        /\ timeouts' \subseteq (1..MaxCopies) \X Invitations
        /\ cleanups' \in Seq(Calls) /\ latest' \in 0..Len(cleanups')
        /\ Len(cleanups') \in Nat
        /\ \A j \in Invitations : copiedInvitation = j \/ Cleaning(j) => Cleaning(j)'
    BY <2>1, ClearLeavesCleanup
  <2>3. creates' \in Seq(Creations)
    <3>1. [stage |-> "clearing", waits |-> latest'] \in Creations
      BY <2>2 DEF Creations
    <3>. QED BY <1>0, <1>1, <3>1, AppendProperties DEF CreateRoom, CloseRoom, Shutdown, place
  <2>4. closes' \in 0..MaxCloses
    <3>1. CASE CloseRoom
      <4>1. closes < MaxCloses /\ closes' = closes + 1
        BY <3>1 DEF CloseRoom
      <4>. QED BY <4>1
    <3>. QED BY <1>1, <3>1 DEF CreateRoom, Shutdown, place
  <2>. shutdownRequested' \in BOOLEAN
    BY <1>1 DEF CreateRoom, CloseRoom, Shutdown, TypeOK
  <2>5. TypeOK'
    BY <2>1, <2>2, <2>3, <2>4, BoundsAssumption DEF TypeOK, Nothing
  <2>6. InProgress' /\ InvitationIsTracked'
    BY <2>1, <2>2 DEF InProgress, InvitationIsTracked
  <2>. QED BY <2>5, <2>6
<1>2. ASSUME NEW n \in Invitations, CreateCalls(n) \/ Created(n) PROVE IInv'
  <2>1. /\ n \in 1..Len(creates) /\ shareLink' \in Invitations \cup {Nothing}
        /\ UNCHANGED <<clipboard, closes, shutdownRequested, memory, copies, denied>>
    BY <1>0, <1>2 DEF CreateCalls, Created, Creating, TypeOK
  <2>2. creates[n] \in Creations
    BY <1>0, <2>1, ElementOfSeq
  <2>3. PICK r \in Creations : creates' = [creates EXCEPT ![n] = r]
    <3>1. CASE CreateCalls(n)
      <4>1. [creates[n] EXCEPT !.stage = "creating"] \in Creations
        BY <2>2 DEF Creations
      <4>. QED BY <3>1, <4>1 DEF CreateCalls
    <3>2. CASE Created(n)
      <4>1. [creates[n] EXCEPT !.stage = "done"] \in Creations
        BY <2>2 DEF Creations
      <4>. QED BY <3>2, <4>1 DEF Created
    <3>. QED BY <1>2, <3>1, <3>2
  <2>4. creates' \in Seq(Creations)
    BY <1>0, <2>1, <2>3, ExceptSeq
  <2>5. TypeOK' /\ InProgress'
    BY <2>1, <2>4 DEF TypeOK, InProgress, memory
  <2>6. InvitationIsTracked'
    BY <2>1 DEF InvitationIsTracked, Cleaning, Settled, HasTimer, memory
  <2>. QED BY <2>5, <2>6
<1>3. CASE Closed
  <2>1. /\ UNCHANGED <<clipboard, creates, memory, copies, denied>>
        /\ shareLink' = Nothing /\ shutdownRequested' = FALSE
        /\ closes > 0 /\ closes' = closes - 1
    BY <1>3 DEF Closed
  <2>. closes' \in 0..MaxCloses
    BY <2>1
  <2>2. TypeOK' /\ InProgress'
    BY <2>1 DEF TypeOK, InProgress, memory
  <2>3. InvitationIsTracked'
    BY <2>1 DEF InvitationIsTracked, Cleaning, Settled, HasTimer, memory
  <2>. QED BY <2>2, <2>3
<1>. QED BY <1>1, <1>2, <1>3

\* What happens outside the page's handlers: other programs, and its end.
LEMMA OutsideStep ==
    ASSUME IInv, OtherCopies \/ PageEnds
    PROVE  IInv'
<1>. USE DEF IInv
<1>1. CASE OtherCopies
  <2>1. clipboard' = Other /\ UNCHANGED <<page, place, shutdownRequested, memory, copies, denied>>
    BY <1>1 DEF OtherCopies
  <2>2. Other \notin Invitations
    BY BoundsAssumption DEF Other, Invitations
  <2>3. TypeOK' /\ InProgress'
    BY <2>1 DEF TypeOK, InProgress, place, memory
  <2>4. InvitationIsTracked'
    BY <2>1, <2>2 DEF InvitationIsTracked, HasTimer, memory, Invitations
  <2>. QED BY <2>3, <2>4
<1>2. CASE PageEnds
  <2>1. page' = "ended" /\ UNCHANGED <<place, shutdownRequested, memory, copies, denied>>
    BY <1>2 DEF PageEnds
  <2>2. clipboard' \in Invitations \cup {Nothing, Other}
    BY <1>2 DEF PageEnds, At, InProgress, TypeOK
  <2>3. TypeOK' /\ InProgress'
    BY <2>1, <2>2 DEF TypeOK, InProgress, place, memory
  <2>. QED BY <2>1, <2>3 DEF InvitationIsTracked
<1>. QED BY <1>1, <1>2

\* Every step of copies, timers, cleanups, the room and the page keeps the
\* invariant.
LEMMA InductiveStep == IInv /\ [Next]_vars => IInv'
<1>. SUFFICES ASSUME IInv, [Next]_vars PROVE IInv'
  OBVIOUS
<1>1. CASE UNCHANGED vars
  <2>1. TypeOK' /\ InProgress'
    BY <1>1 DEF IInv, TypeOK, InProgress, vars, place, memory
  <2>2. InvitationIsTracked'
    BY <1>1 DEF IInv, InvitationIsTracked, Cleaning, Settled, HasTimer, vars, memory
  <2>. QED BY <2>1, <2>2 DEF IInv
<1>2. CASE Handler /\ PageRuns
  BY <1>2, CopyStep, CleanupStep, RoomStep DEF Handler
<1>3. CASE OtherCopies \/ PageEnds
  BY <1>3, OutsideStep
<1>. QED BY <1>1, <1>2, <1>3 DEF Next

\* Whatever copies, timers, closed rooms and other programs do, for any number
\* of rooms and copies: as long as the page runs, a copied invitation on the clipboard is remembered, with a
\* timer that will clear it, or a cleanup for it is under way.
THEOREM InvitationTracked == Spec => []InvitationIsTracked
<1>1. IInv => InvitationIsTracked
  BY DEF IInv
<1>. QED BY <1>1, InitInvariant, InductiveStep, PTL DEF Spec

=============================================================================
