------------------------ MODULE InvitationClipboard ------------------------
(***************************************************************************)
(* The invitation on the clipboard: copyShareLink, clearCopiedInvitation   *)
(* and the timer of App.svelte with lib/invitationClipboard.js, around the *)
(* room's creation and its close.                                          *)
(*                                                                         *)
(* The interface has one thread, but every access to the clipboard is      *)
(* awaited, and other handlers, timers and programs come in between: the   *)
(* button may be pressed again while a copy is under way, and the room may *)
(* be closed.  An access takes effect when its promise settles.  A timer   *)
(* fires at any time after it was set.                                     *)
(*                                                                         *)
(* Timers and promises live in the page.  It may end at any moment, with   *)
(* the window or by a crash, and nothing waits for a cleanup then.         *)
(***************************************************************************)
EXTENDS Naturals, Sequences

CONSTANTS
    MaxRooms,   \* bound: presses of the create button
    MaxCopies,  \* bound: presses of the copy button
    MaxCloses   \* bound: presses of the close button not yet answered

ASSUME BoundsAssumption ==
    MaxRooms \in Nat /\ MaxCopies \in Nat /\ MaxCloses \in Nat

Invitations == 1..MaxRooms  \* a room's is the number of the call that made it
Nothing == 0                \* the empty string; null; no promise
Other == MaxRooms + 1       \* what another program has copied

VARIABLES
    clipboard,
    page,        \* whether the WebView's page runs
    creates,     \* the calls of createRoomFromFrontend so far
    closes,      \* the calls of closeRoomFromFrontend that await an answer
    shareLink, shutdownRequested,
    copiedInvitation,
    timer,       \* invitationClipboardTimer, the copy whose timer it is
    timeouts,    \* the timers that are set: <<copy, invitation>>
    cleanups,    \* the calls of clearInvitationFromClipboard so far
    latest,      \* invitationClipboardCleanup, the number of its call
    copies,      \* the calls of copyShareLink so far
    denied       \* history: a cleanup was refused by the clipboard

place == <<creates, closes, shareLink>>
memory == <<copiedInvitation, timer, timeouts, cleanups, latest>>
vars == <<clipboard, page, place, shutdownRequested, memory, copies, denied>>

Init ==
    /\ clipboard = Nothing /\ page = "running" /\ creates = <<>> /\ closes = 0
    /\ shareLink = Nothing /\ shutdownRequested = FALSE
    /\ copiedInvitation = Nothing /\ timer = Nothing /\ timeouts = {}
    /\ cleanups = <<>> /\ latest = Nothing /\ copies = <<>>
    /\ denied = FALSE

Settled(k) == k # Nothing => cleanups[k].stage = "done"
Cleaning(target) == \E k \in DOMAIN cleanups : ~Settled(k) /\ cleanups[k].target = target
HasTimer(i) == \E t \in timeouts : t[2] = i

\* invitationClipboardCleanup = clearInvitationFromClipboard(...)
Cleanup(i) ==
    /\ cleanups' = Append(cleanups, [target |-> i, stage |-> "read"])
    /\ latest' = Len(cleanups')

\* (Seeded bug: the timer is stopped and the invitation is forgotten.)
ClearForgets ==
    /\ timeouts' = {t \in timeouts : t[1] # timer} /\ timer' = Nothing
    /\ copiedInvitation' = Nothing
    /\ UNCHANGED <<cleanups, latest>>

\* clearCopiedInvitation up to its return of the latest cleanup
ClearCopiedInvitation ==
    /\ timeouts' = {t \in timeouts : t[1] # timer} /\ timer' = Nothing
    /\ copiedInvitation' = Nothing
    /\ IF copiedInvitation = Nothing THEN UNCHANGED <<cleanups, latest>>
       ELSE Cleanup(copiedInvitation)

-----------------------------------------------------------------------------
(* copyShareLink *)
Copy ==
    /\ shareLink # Nothing /\ Len(copies) < MaxCopies
    /\ ClearCopiedInvitation
    /\ copies' = Append(copies, [stage |-> "clearing", waits |-> latest', value |-> Nothing])
    /\ UNCHANGED <<clipboard, place, shutdownRequested, denied>>

At(c, stage) == c \in DOMAIN copies /\ copies[c].stage = stage

\* The link is read again, and may have become empty: then the copy throws.
CopyWrites(c) ==
    /\ At(c, "clearing") /\ Settled(copies[c].waits)
    /\ copies' = [copies EXCEPT ![c].value = shareLink,
                                ![c].stage = IF shareLink = Nothing THEN "done" ELSE "writing"]
    /\ UNCHANGED <<clipboard, place, shutdownRequested, memory, denied>>

\* (Seeded bug: a timer of this invitation that is already set is enough.)
CopyWrittenOnce(c) ==
    /\ At(c, "writing") /\ copies' = [copies EXCEPT ![c].stage = "done"]
    /\ clipboard' = copies[c].value /\ copiedInvitation' = copies[c].value
    /\ timeouts' = IF timer = Nothing THEN timeouts \cup {<<c, copies[c].value>>} ELSE timeouts
    /\ timer' = IF timer = Nothing THEN c ELSE timer
    /\ UNCHANGED <<place, shutdownRequested, cleanups, latest, denied>>

CopyWritten(c) ==
    /\ At(c, "writing") /\ copies' = [copies EXCEPT ![c].stage = "done"]
    /\ clipboard' = copies[c].value /\ copiedInvitation' = copies[c].value
    /\ timeouts' = timeouts \cup {<<c, copies[c].value>>} /\ timer' = c
    /\ UNCHANGED <<place, shutdownRequested, cleanups, latest, denied>>

CopyFails(c) ==
    /\ At(c, "writing") /\ copies' = [copies EXCEPT ![c].stage = "done"]
    /\ UNCHANGED <<clipboard, place, shutdownRequested, memory, denied>>

\* The timer of a copy, after INVITATION_CLIPBOARD_TTL_MS: only the invitation
\* that is still the copied one is cleared.
TimerFires(t) ==
    /\ t \in timeouts /\ timeouts' = timeouts \ {t} /\ timer' = Nothing
    /\ IF copiedInvitation = t[2]
       THEN copiedInvitation' = Nothing /\ Cleanup(t[2])
       ELSE UNCHANGED <<copiedInvitation, cleanups, latest>>
    /\ UNCHANGED <<clipboard, place, shutdownRequested, copies, denied>>

-----------------------------------------------------------------------------
(* clearInvitationFromClipboard: the clipboard is read, and emptied if it    *)
(* still holds the invitation.                                              *)
Become(k, stage) == cleanups' = [cleanups EXCEPT ![k].stage = stage]

CleanupReads(k) ==
    /\ cleanups[k].stage = "read"
    /\ Become(k, IF clipboard = cleanups[k].target THEN "write" ELSE "done")
    /\ UNCHANGED <<clipboard, place, shutdownRequested, copiedInvitation, timer,
                   timeouts, latest, copies, denied>>

CleanupWrites(k) ==
    /\ cleanups[k].stage = "write" /\ Become(k, "done")
    /\ clipboard' = Nothing
    /\ UNCHANGED <<place, shutdownRequested, copiedInvitation, timer,
                   timeouts, latest, copies, denied>>

CleanupDenied(k) ==
    /\ ~Settled(k) /\ Become(k, "done") /\ denied' = TRUE
    /\ UNCHANGED <<clipboard, place, shutdownRequested, copiedInvitation, timer,
                   timeouts, latest, copies>>

OtherCopies ==
    /\ clipboard' = Other
    /\ UNCHANGED <<page, place, shutdownRequested, memory, copies, denied>>

-----------------------------------------------------------------------------
(* createRoomFromFrontend, closeRoomFromFrontend, requestGracefulShutdown: *)
(* their buttons are enabled all the time, and their calls overlap.        *)
CreateRoom ==
    /\ Len(creates) < MaxRooms
    /\ ClearCopiedInvitation
    /\ creates' = Append(creates, [stage |-> "clearing", waits |-> latest'])
    /\ UNCHANGED <<clipboard, closes, shareLink, shutdownRequested, copies, denied>>

Creating(n, stage) == n \in DOMAIN creates /\ creates[n].stage = stage

CreateCalls(n) ==
    /\ Creating(n, "clearing") /\ Settled(creates[n].waits)
    /\ creates' = [creates EXCEPT ![n].stage = "creating"]
    /\ UNCHANGED <<clipboard, closes, shareLink, shutdownRequested, memory, copies,
                   denied>>

\* The backend has made a room, or the call has failed: also because there is
\* a room already, or the backend is busy with another call.
Created(n) ==
    /\ Creating(n, "creating")
    /\ creates' = [creates EXCEPT ![n].stage = "done"]
    /\ shareLink' \in {shareLink, n}
    /\ UNCHANGED <<clipboard, closes, shutdownRequested, memory, copies, denied>>

CloseRoom ==
    /\ closes < MaxCloses /\ closes' = closes + 1
    /\ ClearCopiedInvitation
    /\ UNCHANGED <<clipboard, creates, shareLink, shutdownRequested, copies, denied>>

Closed ==
    /\ closes > 0 /\ closes' = closes - 1
    /\ shareLink' = Nothing /\ shutdownRequested' = FALSE
    /\ UNCHANGED <<clipboard, creates, memory, copies, denied>>

Shutdown ==
    /\ ~shutdownRequested /\ shutdownRequested' = TRUE
    /\ ClearCopiedInvitation
    /\ UNCHANGED <<clipboard, place, copies, denied>>

\* The page is gone, with its timers and promises.  A write that was under way
\* takes effect or not.
PageEnds ==
    /\ page = "running" /\ page' = "ended"
    /\ \/ UNCHANGED clipboard
       \/ \E c \in DOMAIN copies : At(c, "writing") /\ clipboard' = copies[c].value
       \/ /\ \E k \in DOMAIN cleanups : cleanups[k].stage = "write"
          /\ clipboard' = Nothing
    /\ UNCHANGED <<place, shutdownRequested, memory, copies, denied>>

-----------------------------------------------------------------------------
Copying(c) == CopyWrites(c) \/ CopyWritten(c) \/ CopyFails(c)
CleaningUp(k) ==
    k \in DOMAIN cleanups /\ (CleanupReads(k) \/ CleanupWrites(k) \/ CleanupDenied(k))

Handler ==
    \/ Copy
    \/ \E c \in 1..MaxCopies : Copying(c) \/ CleaningUp(c)
    \/ \E t \in timeouts : TimerFires(t)
    \/ CreateRoom
    \/ \E n \in Invitations : CreateCalls(n) \/ Created(n)
    \/ CloseRoom \/ Closed \/ Shutdown

PageRuns == page = "running" /\ UNCHANGED page

Next == (Handler /\ PageRuns) \/ OtherCopies \/ PageEnds

Spec == Init /\ [][Next]_vars

\* As long as there is the page, promises settle and timers fire.
FairSpec ==
    /\ Spec
    /\ \A k \in 1..MaxCopies :
         /\ WF_vars(CleaningUp(k) /\ PageRuns)
         /\ \A i \in Invitations : WF_vars(TimerFires(<<k, i>>) /\ PageRuns)

-----------------------------------------------------------------------------
Calls == [target : Invitations, stage : {"read", "write", "done"}]
Copies == [stage : {"clearing", "writing", "done"}, waits : Nat,
           value : Invitations \cup {Nothing}]
Creations == [stage : {"clearing", "creating", "done"}, waits : Nat]

\* Every variable has its type.
TypeOK ==
    /\ clipboard \in Invitations \cup {Nothing, Other}
    /\ page \in {"running", "ended"} /\ closes \in 0..MaxCloses
    /\ creates \in Seq(Creations) /\ shareLink \in Invitations \cup {Nothing}
    /\ shutdownRequested \in BOOLEAN /\ denied \in BOOLEAN
    /\ copiedInvitation \in Invitations \cup {Nothing}
    /\ timer \in 0..MaxCopies /\ timeouts \subseteq (1..MaxCopies) \X Invitations
    /\ cleanups \in Seq(Calls) /\ copies \in Seq(Copies)
    /\ latest \in 0..Len(cleanups)

\* As long as the page runs, an invitation that the interface has put on the
\* clipboard is never just left there: it is remembered as the copied one, or a
\* cleanup for it is under way, however copies, late timers and closed rooms
\* overlap.  And what is remembered has a timer that will clear it, although a
\* late timer of another copy erases the only handle.
InvitationIsTracked ==
    page = "running" =>
        /\ clipboard \in Invitations /\ ~denied =>
              copiedInvitation = clipboard \/ Cleaning(clipboard)
        /\ copiedInvitation # Nothing => HasTimer(copiedInvitation)

\* README.md:238: the application tries to remove the value after a time.  It
\* does, unless the clipboard refuses the access or the page ends before:
\* requestGracefulShutdown starts a cleanup then, and does not wait for it.
InvitationLeaves ==
    clipboard \in Invitations ~>
        (clipboard \notin Invitations \/ denied \/ page = "ended")

=============================================================================
