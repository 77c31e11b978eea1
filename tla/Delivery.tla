------------------------------- MODULE Delivery -------------------------------
(***************************************************************************)
(* What transferAsyncStart and waitTransfer promise their callers.  Each   *)
(* transfer has one outcome, which is decided once: a success only after   *)
(* every part of it was delivered, a failure at any time before, perhaps   *)
(* of several transfers together.  A wait answers with the outcome of its  *)
(* own transfer, or gives up while there is none.  Handles, queues,        *)
(* workers, work requests and NICs are TransferEngine's way of keeping it. *)
(***************************************************************************)
CONSTANTS
    Xfers,      \* the transfers
    Parts       \* pairs of a transfer and a piece of its data

VARIABLES
    outcome,    \* "pending", "success" or "failed"
    delivered,  \* the parts known to have reached the other side
    told        \* the last answer of a wait: "none", "timeout" or an outcome

Init ==
    /\ outcome = [x \in Xfers |-> "pending"]
    /\ delivered = {}
    /\ told = [x \in Xfers |-> "none"]

Pending == {x \in Xfers : outcome[x] = "pending"}

Deliver(p) ==
    /\ p \notin delivered
    /\ delivered' = delivered \cup {p}
    /\ UNCHANGED <<outcome, told>>

Succeed(x) ==
    /\ x \in Pending
    /\ \A p \in Parts : p[1] = x => p \in delivered
    /\ outcome' = [outcome EXCEPT ![x] = "success"]
    /\ UNCHANGED <<delivered, told>>

Fail(X) ==
    /\ outcome' = [x \in Xfers |-> IF x \in X THEN "failed" ELSE outcome[x]]
    /\ UNCHANGED <<delivered, told>>

Waits(x) == told[x] \in {"none", "timeout"}

GiveUp(x) ==
    /\ x \in Pending /\ Waits(x)
    /\ told' = [told EXCEPT ![x] = "timeout"]
    /\ UNCHANGED <<outcome, delivered>>

Answer(x) ==
    /\ x \notin Pending /\ Waits(x)
    /\ told' = [told EXCEPT ![x] = outcome[x]]
    /\ UNCHANGED <<outcome, delivered>>

Next ==
    \/ \E p \in Parts : Deliver(p)
    \/ \E x \in Xfers : Succeed(x) \/ GiveUp(x) \/ Answer(x)
    \/ \E X \in SUBSET Pending : Fail(X)

Spec == Init /\ [][Next]_<<outcome, delivered, told>>
=============================================================================
