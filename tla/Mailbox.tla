-------------------------------- MODULE Mailbox --------------------------------
(***************************************************************************)
(* What a worker's submission queue promises to transferAsyncStart and to  *)
(* workerThreadLoop: a bounded first-in first-out mailbox.  This is the    *)
(* queue as TransferEngine uses it; SubmitQueue implements it.             *)
(***************************************************************************)
EXTENDS Naturals, Sequences

CONSTANTS
    Items,      \* what may be pushed
    Capacity    \* how many the mailbox holds

VARIABLES
    box,        \* pushed and not yet popped, oldest first
    popped      \* everything popped, oldest first

Init == box = <<>> /\ popped = <<>>

Push(x) ==
    /\ Len(box) < Capacity
    /\ box' = Append(box, x)
    /\ UNCHANGED popped

Pop ==
    /\ box # <<>>
    /\ popped' = Append(popped, Head(box))
    /\ box' = Tail(box)

Next == Pop \/ \E x \in Items : Push(x)

Spec == Init /\ [][Next]_<<box, popped>>
=============================================================================
