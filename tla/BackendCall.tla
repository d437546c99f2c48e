---------------------------- MODULE BackendCall ----------------------------
(* What src-tauri/src/lib.rs promises of backend_ipc: one command at a      *)
(* time; a command runs in the backend at most once; an answer means that   *)
(* it ran; and once the caller has been told of a failure the command will  *)
(* not run any more, so that a fresh state can be asked for.                *)
EXTENDS Naturals

CONSTANT Requests

VARIABLES
    outcome,  \* what the caller knows: "none", "pending", "ok" or "error"
    runs      \* how often the backend has run the request

Init == outcome = [q \in Requests |-> "none"] /\ runs = [q \in Requests |-> 0]

Pending(q) == outcome[q] = "pending"
Become(q, o) == outcome' = [outcome EXCEPT ![q] = o] /\ UNCHANGED runs

Call(q) ==
    /\ outcome[q] = "none" /\ \A p \in Requests : ~Pending(p)
    /\ Become(q, "pending")

Run(q) ==
    /\ Pending(q) /\ runs[q] = 0
    /\ runs' = [runs EXCEPT ![q] = 1] /\ UNCHANGED outcome

Succeed(q) == Pending(q) /\ runs[q] = 1 /\ Become(q, "ok")
Fail(q)    == Pending(q) /\ Become(q, "error")

Next == \E q \in Requests : Call(q) \/ Run(q) \/ Succeed(q) \/ Fail(q)

Spec == Init /\ [][Next]_<<outcome, runs>>

=============================================================================
