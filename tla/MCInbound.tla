------------------------------ MODULE MCInbound -----------------------------
(* Inbound for TLC: limits in the proportions of the code's, scaled down.    *)
EXTENDS Inbound

SmallKinds == {[raw |-> 0, event |-> 0], [raw |-> 1, event |-> 2], 
               [raw |-> 3, event |-> 3], [raw |-> 5, event |-> 1]}

=============================================================================
