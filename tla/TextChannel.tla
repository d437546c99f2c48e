---------------------------- MODULE TextChannel ----------------------------
(* What the way from the peer to the interface promises: texts come out in  *)
(* the order they were sent, each whole and at most once, none is skipped,  *)
(* and after the pending ones have been dropped nothing more comes out.     *)
EXTENDS Naturals, Sequences, SequencesExt

CONSTANT Texts  \* what may be sent

VARIABLES
    sent,      \* the texts the peer has sent
    received,  \* the texts the interface has been given
    dropped    \* have pending texts been dropped?

Init == sent = <<>> /\ received = <<>> /\ dropped = FALSE

Send ==
    /\ \E t \in Texts : sent' = Append(sent, t)
    /\ UNCHANGED <<received, dropped>>

Receive ==
    /\ ~dropped
    /\ \E n \in Len(received) + 1 .. Len(sent) : received' = SubSeq(sent, 1, n)
    /\ UNCHANGED <<sent, dropped>>

Drop == dropped' = TRUE /\ UNCHANGED <<sent, received>>

Next == Send \/ Receive \/ Drop

Spec == Init /\ [][Next]_<<sent, received, dropped>>

=============================================================================
