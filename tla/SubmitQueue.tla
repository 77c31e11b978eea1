------------------------------ MODULE SubmitQueue ------------------------------
(***************************************************************************)
(* LockFreeQueue of src/src/mpcomm.cpp, one atomic access per step: client *)
(* threads push transfer handles (transferAsyncStart spins on tryPush),    *)
(* one worker pops them (Phase 1).  The queue is a ring of Size slots; a   *)
(* producer claims a slot by moving head with a compare-and-swap and fills *)
(* it afterwards, and the consumer waits for the fill.                     *)
(*                                                                         *)
(* The accesses are taken in program order: on the x86 machines the code   *)
(* is for (_mm_pause), the stores involved are not reordered, and a load   *)
(* of head that runs early only returns a staler value, which is a load    *)
(* that the model makes earlier.                                           *)
(***************************************************************************)
EXTENDS Naturals, Sequences

CONSTANTS
    Size,        \* kLockFreeQueueSize
    Producers,   \* client threads
    Work,        \* the handles each of them pushes, in this order
    Lap          \* may a producer sleep through a whole turn of the ring?

INVALID == 0     \* INVALID_TRANSFER_HANDLE

Handles == UNION {{Work[p][i] : i \in 1..Len(Work[p])} : p \in Producers}

ASSUME RingConstants ==
    /\ Size \in Nat \ {0, 1}
    /\ Lap \in BOOLEAN
    /\ \A p \in Producers : Work[p] \in Seq(Nat \ {INVALID})

VARIABLES
    buffer, head, tail,     \* the queue
    pc, current_head, next, \* producers: place, local copy of head, work done
    cpc, taken,             \* consumer: place, the handle it has read
    popped                  \* what tryPop has returned, oldest first

queueVars    == <<buffer, head, tail>>
producerVars == <<pc, current_head, next>>
consumerVars == <<cpc, taken, popped>>
vars == <<queueVars, producerVars, consumerVars>>

Slots == 0..(Size - 1)

\* Mutant: the index does not wrap.
SuccNoWrap(i) == i + 1

Succ(i) == (i + 1) % Size

Init ==
    /\ buffer = [i \in Slots |-> INVALID] /\ head = 0 /\ tail = 0
    /\ pc = [p \in Producers |-> "start"]
    /\ current_head = [p \in Producers |-> 0]
    /\ next = [p \in Producers |-> 1]
    /\ cpc = "idle" /\ taken = INVALID /\ popped = <<>>

-----------------------------------------------------------------------------
(* tryPush, by producer p.                                                  *)

HandleOf(p) == Work[p][next[p]]

LoadHead(p) ==
    /\ pc[p] = "start" /\ next[p] <= Len(Work[p])
    /\ current_head' = [current_head EXCEPT ![p] = head]
    /\ pc' = [pc EXCEPT ![p] = "loaded"]
    /\ UNCHANGED <<queueVars, next, consumerVars>>

\* Mutant: the ring is filled to the last slot, head meets tail.
NoRoomAtTail(p) == current_head[p] = tail /\ buffer[tail] # INVALID

NoRoom(p) == Succ(current_head[p]) = tail

\* The load of tail: tryPush returns false, and the caller tries again, or
\* the compare-and-swap follows.
CheckRoom(p) ==
    /\ pc[p] = "loaded"
    /\ pc' = [pc EXCEPT ![p] = IF NoRoom(p) THEN "start" ELSE "checked"]
    /\ UNCHANGED <<queueVars, current_head, next, consumerVars>>

\* Unless Lap, head does not come back to where a producer that has checked
\* the room saw it: that producer would have to be off the processor while
\* Size handles are pushed and almost as many popped.
NoLap(p) == Lap \/ \A q \in Producers \ {p} :
                      pc[q] = "checked" => Succ(head) # current_head[q]

\* Mutant: head is stored without comparing it to what was loaded.
StoreHead(p) ==
    /\ pc[p] = "checked" /\ NoLap(p)
    /\ head' = Succ(current_head[p])
    /\ pc' = [pc EXCEPT ![p] = "claimed"]
    /\ UNCHANGED <<buffer, tail, current_head, next, consumerVars>>

\* compare_exchange_weak succeeds: slot current_head is this producer's.
Claim(p) ==
    /\ pc[p] = "checked" /\ head = current_head[p] /\ NoLap(p)
    /\ head' = Succ(current_head[p])
    /\ pc' = [pc EXCEPT ![p] = "claimed"]
    /\ UNCHANGED <<buffer, tail, current_head, next, consumerVars>>

\* It fails, because head has moved or spuriously, and the loop starts again.
ClaimFails(p) ==
    /\ pc[p] = "checked"
    /\ pc' = [pc EXCEPT ![p] = "start"]
    /\ UNCHANGED <<queueVars, current_head, next, consumerVars>>

Fill(p) ==
    /\ pc[p] = "claimed"
    /\ buffer' = [buffer EXCEPT ![current_head[p]] = HandleOf(p)]
    /\ pc' = [pc EXCEPT ![p] = "start"]
    /\ next' = [next EXCEPT ![p] = @ + 1]
    /\ UNCHANGED <<head, tail, current_head, consumerVars>>

TryPush(p) == LoadHead(p) \/ CheckRoom(p) \/ Claim(p) \/ ClaimFails(p) \/ Fill(p)

-----------------------------------------------------------------------------
(* tryPop, by the worker.                                                   *)

\* Not empty: the worker stays in tryPop until the slot at tail is filled.
PopStart ==
    /\ cpc = "idle" /\ tail # head
    /\ cpc' = "spin"
    /\ UNCHANGED <<queueVars, producerVars, taken, popped>>

PopRead ==
    /\ cpc = "spin" /\ buffer[tail] # INVALID
    /\ taken' = buffer[tail]
    /\ cpc' = "taken"
    /\ UNCHANGED <<queueVars, producerVars, popped>>

\* Mutant: the slot keeps its handle.
PopKeep ==
    /\ cpc = "taken"
    /\ cpc' = "cleared"
    /\ UNCHANGED <<queueVars, producerVars, taken, popped>>

PopClear ==
    /\ cpc = "taken"
    /\ buffer' = [buffer EXCEPT ![tail] = INVALID]
    /\ cpc' = "cleared"
    /\ UNCHANGED <<head, tail, producerVars, taken, popped>>

PopAdvance ==
    /\ cpc = "cleared"
    /\ tail' = Succ(tail)
    /\ popped' = Append(popped, taken)
    /\ cpc' = "idle" /\ taken' = INVALID
    /\ UNCHANGED <<buffer, head, producerVars>>

TryPop == PopStart \/ PopRead \/ PopClear \/ PopAdvance

Next == TryPop \/ \E p \in Producers : TryPush(p)

Spec == Init /\ [][Next]_vars

(***************************************************************************)
(* Fairness.  The worker polls its queue for as long as it runs; client    *)
(* threads are scheduled.  A compare-and-swap that could succeed again and *)
(* again does not fail for ever: it fails because another succeeded, of    *)
(* which there are finitely many, or spuriously.                           *)
(***************************************************************************)
FairSpec ==
    /\ Spec /\ WF_vars(TryPop)
    /\ \A p \in Producers : /\ WF_vars(LoadHead(p)) /\ WF_vars(CheckRoom(p))
                            /\ WF_vars(ClaimFails(p) \/ Claim(p)) /\ SF_vars(Claim(p))
                            /\ WF_vars(Fill(p))

-----------------------------------------------------------------------------
(* Properties.                                                              *)

\* The indices stay in the ring, whatever the threads do.
TypeOK ==
    /\ buffer \in [Slots -> Nat] /\ head \in Slots /\ tail \in Slots
    /\ pc \in [Producers -> {"start", "loaded", "checked", "claimed"}]
    /\ current_head \in [Producers -> Slots]
    /\ next \in [Producers -> Nat \ {0}]
    /\ cpc \in {"idle", "spin", "taken", "cleared"}
    /\ taken \in Nat /\ popped \in Seq(Nat)

\* The slots between tail and head, oldest first.
Used == (head + Size - tail) % Size
SlotAt(i) == (tail + i - 1) % Size

\* What a used slot holds, or will hold: the worker may have cleared it, its
\* producer may not have filled it yet.
Content(i) ==
    LET filling == {p \in Producers : pc[p] = "claimed" /\ current_head[p] = i}
    IN  IF i = tail /\ cpc \in {"taken", "cleared"} THEN taken
        ELSE IF buffer[i] # INVALID \/ filling = {} THEN buffer[i]
        ELSE HandleOf(CHOOSE p \in filling : TRUE)

box == [i \in 1..Used |-> Content(SlotAt(i))]

Mail == INSTANCE Mailbox WITH Items <- Handles, Capacity <- Size - 1

\* The queue implements the mailbox that TransferEngine assumes: nothing is
\* lost, duplicated, invented or reordered, a push claims its place with the
\* compare-and-swap, and at most Size - 1 handles are inside.
MailboxSpec == Mail!Spec

\* Nobody writes over a handle that the worker has not read: a producer fills
\* an empty slot, and no two producers have claimed the same one.
SlotsExclusive ==
    \A p \in Producers : pc[p] = "claimed" =>
        /\ buffer[current_head[p]] = INVALID
        /\ \A q \in Producers \ {p} :
             pc[q] = "claimed" => current_head[q] # current_head[p]

\* Every handle a client wants to push reaches the worker.
EveryHandleArrives ==
    \A h \in Handles : <>(\E i \in 1..Len(popped) : popped[i] = h)
=============================================================================
