--------------------------- MODULE SubmitQueueProofs ---------------------------
(***************************************************************************)
(* Proofs about SubmitQueue, for every size of the ring, any number of     *)
(* clients and whatever they push.                                         *)
(***************************************************************************)
EXTENDS SubmitQueue, Integers, SequenceTheorems, TLAPS

-----------------------------------------------------------------------------
(* Indices of the ring.                                                     *)

\* The next slot, without a remainder.
LEMMA SuccIs ==
    ASSUME NEW i \in Slots
    PROVE  /\ Succ(i) \in Slots
           /\ Succ(i) = IF i = Size - 1 THEN 0 ELSE i + 1
<1>1. Size \in Nat /\ Size >= 2 /\ i \in Nat /\ i < Size
  BY RingConstants DEF Slots
<1>2. CASE i = Size - 1
  <2>1. (i + 1) % Size = 0
    BY <1>1, <1>2
  <2> QED BY <1>1, <1>2, <2>1 DEF Succ, Slots
<1>3. CASE i # Size - 1
  <2>1. (i + 1) % Size = i + 1
    BY <1>1, <1>3
  <2> QED BY <1>1, <1>3, <2>1 DEF Succ, Slots
<1> QED BY <1>2, <1>3

-----------------------------------------------------------------------------
(* TypeOK: a producer on its way has a handle to push.                      *)

OnItsWay == \A p \in Producers : pc[p] # "start" => next[p] <= Len(Work[p])

\* What a producer on its way pushes is a handle.
LEMMA HandleOfProducer ==
    ASSUME NEW p \in Producers, next[p] \in Nat \ {0}, next[p] <= Len(Work[p])
    PROVE  HandleOf(p) \in Nat \ {INVALID} /\ HandleOf(p) \in Handles
<1>1. Work[p] \in Seq(Nat \ {INVALID})
  BY RingConstants
<1>2. Len(Work[p]) \in Nat /\ next[p] \in 1..Len(Work[p])
  BY <1>1
<1>3. Work[p][next[p]] \in Nat \ {INVALID}
  BY <1>1, <1>2
<1> QED BY <1>2, <1>3 DEF HandleOf, Handles

TypeInv == TypeOK /\ OnItsWay

LEMMA InitType == Init => TypeInv
BY RingConstants DEF Init, TypeInv, TypeOK, OnItsWay, Slots, INVALID

LEMMA StepType == TypeInv /\ [Next]_vars => TypeInv'
<1> SUFFICES ASSUME TypeInv, [Next]_vars PROVE TypeInv'
  OBVIOUS
<1> USE DEF TypeInv, TypeOK, OnItsWay, INVALID
<1>1. ASSUME NEW p \in Producers, LoadHead(p) PROVE TypeInv'
  BY <1>1 DEF LoadHead, queueVars, consumerVars
<1>2. ASSUME NEW p \in Producers, CheckRoom(p) PROVE TypeInv'
  BY <1>2 DEF CheckRoom, queueVars, consumerVars
<1>3. ASSUME NEW p \in Producers, Claim(p) PROVE TypeInv'
  BY <1>3, SuccIs DEF Claim, consumerVars
<1>4. ASSUME NEW p \in Producers, ClaimFails(p) PROVE TypeInv'
  BY <1>4 DEF ClaimFails, queueVars, consumerVars
<1>5. ASSUME NEW p \in Producers, Fill(p) PROVE TypeInv'
  <2>1. HandleOf(p) \in Nat
    BY <1>5, HandleOfProducer DEF Fill
  <2> QED BY <1>5, <2>1 DEF Fill, consumerVars
<1>6. CASE PopStart
  BY <1>6 DEF PopStart, queueVars, producerVars
<1>7. CASE PopRead
  BY <1>7 DEF PopRead, queueVars, producerVars
<1>8. CASE PopClear
  BY <1>8 DEF PopClear, producerVars
<1>9. CASE PopAdvance
  BY <1>9, SuccIs DEF PopAdvance, producerVars
<1>10. CASE UNCHANGED vars
  BY <1>10 DEF vars, queueVars, producerVars, consumerVars
<1> QED BY <1>1, <1>2, <1>3, <1>4, <1>5, <1>6, <1>7, <1>8, <1>9, <1>10
        DEF Next, TryPush, TryPop

\* The indices stay in the ring and the slots hold handles, laps or no laps.
THEOREM QueueTypeCorrect == Spec => []TypeOK
<1>1. TypeInv => TypeOK
  BY DEF TypeInv
<1> QED BY <1>1, InitType, StepType, PTL DEF Spec

-----------------------------------------------------------------------------
(* SlotsExclusive: what it needs to know of the slots.                      *)

\* The slots between tail and head.
InUse(i) == IF tail <= head THEN tail <= i /\ i < head ELSE tail <= i \/ i < head

\* A slot outside is empty and nobody's.
OutsideEmpty ==
    \A i \in Slots : ~InUse(i) =>
        /\ buffer[i] = INVALID
        /\ \A p \in Producers : pc[p] = "claimed" => current_head[p] # i

\* A claim that may succeed leaves a slot free: as nobody sleeps through a turn
\* of the ring, head is where the producer has seen it only if it has not moved.
RoomChecked ==
    \A p \in Producers : pc[p] = "checked" /\ current_head[p] = head => Succ(head) # tail

\* The worker in tryPop has the slot at tail to itself.
PopHolds ==
    /\ cpc # "idle" => tail # head
    /\ cpc = "taken" => buffer[tail] = taken /\ taken # INVALID
    /\ cpc = "cleared" => /\ buffer[tail] = INVALID /\ taken # INVALID
                          /\ \A p \in Producers : pc[p] = "claimed" => current_head[p] # tail

RingInv == TypeInv /\ SlotsExclusive /\ OutsideEmpty /\ RoomChecked /\ PopHolds

LEMMA InitRing == Init => RingInv
<1> SUFFICES ASSUME Init PROVE RingInv
  OBVIOUS
<1>1. TypeInv
  BY InitType
<1> QED BY <1>1 DEF Init, RingInv, SlotsExclusive, OutsideEmpty, RoomChecked, PopHolds, INVALID

LEMMA StepRing == ASSUME ~Lap, RingInv, [Next]_vars PROVE RingInv'
<1>0. TypeInv'
  BY StepType DEF RingInv
<1> USE DEF RingInv, SlotsExclusive, OutsideEmpty, RoomChecked, PopHolds, InUse
<1>t. /\ buffer \in [Slots -> Nat] /\ head \in Slots /\ tail \in Slots
      /\ pc \in [Producers -> {"start", "loaded", "checked", "claimed"}]
      /\ current_head \in [Producers -> Slots]
      /\ next \in [Producers -> Nat \ {0}] /\ taken \in Nat
  BY DEF TypeInv, TypeOK
<1>s. Size \in Nat /\ Size >= 2 /\ Slots = 0..(Size - 1)
  BY RingConstants DEF Slots
<1>1. ASSUME NEW p \in Producers, LoadHead(p) PROVE RingInv'
  BY <1>0, <1>1, <1>t DEF LoadHead, queueVars, consumerVars
<1>2. ASSUME NEW p \in Producers, CheckRoom(p) PROVE RingInv'
  BY <1>0, <1>2, <1>t DEF CheckRoom, NoRoom, queueVars, consumerVars
<1>3. ASSUME NEW p \in Producers, Claim(p) PROVE RingInv'
  <2>1. /\ head' = Succ(head) /\ Succ(head) # tail /\ current_head[p] = head
        /\ pc' = [pc EXCEPT ![p] = "claimed"] /\ pc[p] = "checked"
        /\ UNCHANGED <<buffer, tail, current_head, cpc, taken>>
    BY <1>3, <1>t DEF Claim, consumerVars
  <2>2. Succ(head) \in Slots /\ Succ(head) = IF head = Size - 1 THEN 0 ELSE head + 1
    BY <1>t, SuccIs
  <2>3. \A i \in Slots : InUse(i)' <=> InUse(i) \/ i = head
    BY <1>t, <1>s, <2>1, <2>2
  <2>4. ~InUse(head)
    BY <1>t, <1>s
  <2>5. SlotsExclusive'
    BY <1>t, <2>1, <2>4
  <2>6. OutsideEmpty'
    BY <1>t, <2>1, <2>3
  <2>7. RoomChecked'
    BY <1>3, <1>t, <2>1 DEF Claim, NoLap
  <2>8. PopHolds'
    BY <1>t, <2>1
  <2> QED BY <1>0, <2>5, <2>6, <2>7, <2>8
<1>4. ASSUME NEW p \in Producers, ClaimFails(p) PROVE RingInv'
  BY <1>0, <1>4, <1>t DEF ClaimFails, queueVars, consumerVars
<1>5. ASSUME NEW p \in Producers, Fill(p) PROVE RingInv'
  <2>1. /\ pc[p] = "claimed" /\ pc' = [pc EXCEPT ![p] = "start"]
        /\ buffer' = [buffer EXCEPT ![current_head[p]] = HandleOf(p)]
        /\ UNCHANGED <<head, tail, current_head, cpc, taken>>
    BY <1>5 DEF Fill, consumerVars
  <2>2. HandleOf(p) # INVALID
    BY <1>5, <1>t, HandleOfProducer DEF Fill, TypeInv, OnItsWay
  <2>3. SlotsExclusive'
    BY <1>t, <2>1
  <2>4. OutsideEmpty'
    BY <1>t, <2>1
  <2>5. RoomChecked'
    BY <1>t, <2>1
  <2>6. PopHolds'
    BY <1>t, <2>1, <2>2
  <2> QED BY <1>0, <2>3, <2>4, <2>5, <2>6
<1>6. CASE PopStart
  BY <1>0, <1>6, <1>t DEF PopStart, queueVars, producerVars
<1>7. CASE PopRead
  BY <1>0, <1>7, <1>t DEF PopRead, queueVars, producerVars
<1>8. CASE PopClear
  <2>1. /\ cpc = "taken" /\ cpc' = "cleared" /\ buffer' = [buffer EXCEPT ![tail] = INVALID]
        /\ UNCHANGED <<head, tail, pc, current_head, taken>>
    BY <1>8 DEF PopClear, producerVars
  <2> QED BY <1>0, <1>t, <2>1
<1>9. CASE PopAdvance
  <2>1. /\ cpc = "cleared" /\ cpc' = "idle" /\ tail' = Succ(tail)
        /\ UNCHANGED <<buffer, head, pc, current_head>>
    BY <1>9 DEF PopAdvance, producerVars
  <2>2. /\ Succ(tail) \in Slots /\ Succ(tail) = IF tail = Size - 1 THEN 0 ELSE tail + 1
        /\ Succ(head) \in Slots /\ Succ(head) = IF head = Size - 1 THEN 0 ELSE head + 1
    BY <1>t, SuccIs
  <2>3. \A i \in Slots : InUse(i)' <=> InUse(i) /\ i # tail
    BY <1>t, <1>s, <2>1, <2>2
  <2>4. SlotsExclusive'
    BY <1>t, <2>1
  <2>5. OutsideEmpty'
    BY <1>t, <2>1, <2>3
  <2>6. RoomChecked'
    <3>1. Succ(head) # Succ(tail)
      BY <1>t, <1>s, <2>1, <2>2
    <3> QED BY <2>1, <3>1 DEF Succ
  <2> QED BY <1>0, <2>1, <2>4, <2>5, <2>6
<1>10. CASE UNCHANGED vars
  BY <1>0, <1>10 DEF vars, queueVars, producerVars, consumerVars, Succ
<1> QED BY <1>1, <1>2, <1>3, <1>4, <1>5, <1>6, <1>7, <1>8, <1>9, <1>10
        DEF Next, TryPush, TryPop

\* No client writes over a handle the worker has not read and no two clients have
\* the same slot, as long as none sleeps through a turn of the ring.
THEOREM SlotsAlwaysExclusive == ASSUME ~Lap PROVE Spec => []SlotsExclusive
<1>1. RingInv /\ [Next]_vars => RingInv'
  BY StepRing
<1>2. RingInv => SlotsExclusive
  BY DEF RingInv
<1> QED BY <1>1, <1>2, InitRing, PTL DEF Spec

-----------------------------------------------------------------------------
(* MailboxSpec: the ring is read as a sequence.                             *)

\* The i-th slot from t on, without a remainder.
Place(t, i) == IF t + i - 1 < Size THEN t + i - 1 ELSE t + i - 1 - Size

LEMMA PlaceIs ==
    ASSUME NEW t \in Slots, NEW i \in 1..Size
    PROVE  Place(t, i) \in Slots /\ (t + i - 1) % Size = Place(t, i)
<1>1. Size \in Nat /\ Size >= 2 /\ t \in Nat /\ t < Size /\ i \in 1..Size
  BY RingConstants DEF Slots
<1>2. CASE t + i - 1 < Size
  BY <1>1, <1>2 DEF Place, Slots
<1>3. CASE ~(t + i - 1 < Size)
  <2>1. (t + i - 1) % Size = t + i - 1 - Size
    BY <1>1, <1>3
  <2> QED BY <1>1, <1>3, <2>1 DEF Place, Slots
<1> QED BY <1>2, <1>3

\* How far head is ahead of tail.
Ahead == IF tail <= head THEN head - tail ELSE head + Size - tail

LEMMA UsedIs ==
    ASSUME head \in Slots, tail \in Slots
    PROVE  Used = Ahead /\ Ahead \in 0..(Size - 1)
<1>1. Size \in Nat /\ Size >= 2 /\ head \in 0..(Size - 1) /\ tail \in 0..(Size - 1)
  BY RingConstants DEF Slots
<1>2. CASE tail <= head
  <2>1. (head + Size - tail) % Size = head - tail
    BY <1>1, <1>2
  <2> QED BY <1>1, <1>2, <2>1 DEF Used, Ahead
<1>3. CASE ~(tail <= head)
  <2>1. (head + Size - tail) % Size = head + Size - tail
    BY <1>1, <1>3
  <2> QED BY <1>1, <1>3, <2>1 DEF Used, Ahead
<1> QED BY <1>2, <1>3

\* What a place of the mailbox holds, by the slot behind it.
BoxHolds ==
    \A i \in 1..Ahead :
        LET slot == Place(tail, i)
        IN  /\ slot = tail /\ cpc \in {"taken", "cleared"} => box[i] = taken
            /\ ~(slot = tail /\ cpc \in {"taken", "cleared"}) =>
                 /\ \A p \in Producers :
                      pc[p] = "claimed" /\ current_head[p] = slot => box[i] = Work[p][next[p]]
                 /\ (\A p \in Producers : ~(pc[p] = "claimed" /\ current_head[p] = slot))
                      => box[i] = buffer[slot]

BoxInv == Ahead \in 0..(Size - 1) /\ box \in Seq(Nat) /\ Len(box) = Ahead /\ BoxHolds

LEMMA BoxIs == RingInv => BoxInv
<1> SUFFICES ASSUME RingInv PROVE BoxInv
  OBVIOUS
<1>1. /\ buffer \in [Slots -> Nat] /\ head \in Slots /\ tail \in Slots
      /\ taken \in Nat /\ next \in [Producers -> Nat \ {0}]
      /\ OnItsWay /\ SlotsExclusive
  BY DEF RingInv, TypeInv, TypeOK
<1>2. Ahead \in 0..(Size - 1) /\ Used = Ahead /\ Size \in Nat
  BY <1>1, UsedIs, RingConstants
<1>3. box = [i \in 1..Ahead |-> Content(SlotAt(i))]
  BY <1>2 DEF box
<1>4. ASSUME NEW i \in 1..Ahead
      PROVE  SlotAt(i) = Place(tail, i) /\ Place(tail, i) \in Slots
  BY <1>1, <1>2, PlaceIs DEF SlotAt
<1>5. ASSUME NEW slot \in Slots
      PROVE  /\ Content(slot) \in Nat
             /\ slot = tail /\ cpc \in {"taken", "cleared"} => Content(slot) = taken
             /\ ~(slot = tail /\ cpc \in {"taken", "cleared"}) =>
                  /\ \A p \in Producers :
                       pc[p] = "claimed" /\ current_head[p] = slot => Content(slot) = Work[p][next[p]]
                  /\ (\A p \in Producers : ~(pc[p] = "claimed" /\ current_head[p] = slot))
                       => Content(slot) = buffer[slot]
  <2> DEFINE filling == {p \in Producers : pc[p] = "claimed" /\ current_head[p] = slot}
  <2>1. CASE slot = tail /\ cpc \in {"taken", "cleared"}
    BY <1>1, <2>1 DEF Content
  <2>2. CASE ~(slot = tail /\ cpc \in {"taken", "cleared"}) /\ filling = {}
    <3>1. Content(slot) = buffer[slot]
      BY <2>2 DEF Content
    <3> QED BY <1>1, <2>2, <3>1
  <2>3. ASSUME ~(slot = tail /\ cpc \in {"taken", "cleared"}), NEW p \in filling
        PROVE  /\ Content(slot) = Work[p][next[p]] /\ Content(slot) \in Nat
               /\ filling = {p}
    <3>1. filling = {p}
      BY <1>1, <2>3 DEF SlotsExclusive
    <3>2. buffer[slot] = INVALID
      BY <1>1, <2>3 DEF SlotsExclusive
    <3>3. (CHOOSE q \in filling : TRUE) = p
      BY <3>1
    <3>4. Content(slot) = HandleOf(p)
      BY <2>3, <3>1, <3>2, <3>3 DEF Content
    <3>5. HandleOf(p) \in Nat
      BY <1>1, <2>3, HandleOfProducer DEF OnItsWay
    <3> QED BY <3>1, <3>4, <3>5 DEF HandleOf
  <2> QED BY <2>1, <2>2, <2>3
<1>6. ASSUME NEW i \in 1..Ahead PROVE box[i] = Content(Place(tail, i)) /\ box[i] \in Nat
  BY <1>3, <1>4, <1>5
<1>7. box \in [1..Ahead -> Nat] /\ Ahead \in Nat
  BY <1>2, <1>3, <1>6
<1>8. box \in Seq(Nat) /\ Len(box) = Ahead
  BY <1>7
<1>9. BoxHolds
  BY <1>4, <1>5, <1>6 DEF BoxHolds
<1> QED BY <1>2, <1>8, <1>9 DEF BoxInv

\* The first n places of the mailbox are as they were.
Keeps(n) == \A i \in 1..n : box'[i] = box[i]

LEMMA BoxUnchanged ==
    ASSUME BoxInv, BoxInv', Ahead' = Ahead, Keeps(Ahead)
    PROVE  box' = box
BY SeqEqual DEF BoxInv, Keeps

LEMMA BoxPushed ==
    ASSUME BoxInv, BoxInv', Ahead' = Ahead + 1, Keeps(Ahead), NEW x \in Nat, box'[Ahead + 1] = x
    PROVE  box' = Append(box, x)
<1>1. box \in Seq(Nat) /\ box' \in Seq(Nat) /\ Len(box) = Ahead /\ Ahead \in Nat /\ Len(box') = Ahead + 1
  BY DEF BoxInv
<1>2. /\ Append(box, x) \in Seq(Nat) /\ Len(Append(box, x)) = Ahead + 1
      /\ \A i \in 1..Ahead : Append(box, x)[i] = box[i]
      /\ Append(box, x)[Ahead + 1] = x
  BY <1>1, AppendProperties
<1>3. \A i \in 1..(Ahead + 1) : box'[i] = Append(box, x)[i]
  BY <1>1, <1>2 DEF Keeps
<1> QED BY <1>1, <1>2, <1>3, SeqEqual

LEMMA BoxPopped ==
    ASSUME BoxInv, BoxInv', Ahead' = Ahead - 1, Ahead > 0,
           \A i \in 1..(Ahead - 1) : box'[i] = box[i + 1]
    PROVE  box # <<>> /\ Head(box) = box[1] /\ box' = Tail(box)
<1>1. box \in Seq(Nat) /\ box' \in Seq(Nat) /\ Len(box) = Ahead /\ Ahead \in Nat /\ Len(box') = Ahead - 1
  BY DEF BoxInv
<1>2. box # <<>>
  BY <1>1
<1>3. /\ Tail(box) \in Seq(Nat) /\ Len(Tail(box)) = Ahead - 1
      /\ \A i \in 1..(Ahead - 1) : Tail(box)[i] = box[i + 1]
  BY <1>1, <1>2, HeadTailProperties
<1>4. box' = Tail(box)
  BY <1>1, <1>3, SeqEqual
<1> QED BY <1>1, <1>2, <1>4

LEMMA InitMail == Init => Mail!Init
<1> SUFFICES ASSUME Init PROVE Mail!Init
  OBVIOUS
<1>1. BoxInv /\ Ahead = 0
  BY InitRing, BoxIs DEF Init, Ahead
<1>2. box = <<>>
  BY <1>1 DEF BoxInv
<1> QED BY <1>2 DEF Init, Mail!Init

LEMMA StepMail ==
    ASSUME ~Lap, RingInv, BoxInv, BoxInv', [Next]_vars
    PROVE  [Mail!Next]_<<box, popped>>
<1>t. /\ buffer \in [Slots -> Nat] /\ head \in Slots /\ tail \in Slots
      /\ pc \in [Producers -> {"start", "loaded", "checked", "claimed"}]
      /\ current_head \in [Producers -> Slots]
      /\ next \in [Producers -> Nat \ {0}] /\ taken \in Nat
      /\ cpc \in {"idle", "spin", "taken", "cleared"}
      /\ OnItsWay /\ OutsideEmpty /\ RoomChecked /\ PopHolds /\ SlotsExclusive
  BY DEF RingInv, TypeInv, TypeOK
<1>s. Size \in Nat /\ Size >= 2 /\ Slots = 0..(Size - 1)
  BY RingConstants DEF Slots
<1>b. Ahead \in 0..(Size - 1) /\ BoxHolds /\ BoxHolds'
  BY DEF BoxInv
<1>p. \A i \in 1..Ahead : Place(tail, i) \in Slots
  <2>1. \A i \in 1..Ahead : i \in 1..Size
    BY <1>s, <1>b
  <2> QED BY <1>t, <2>1, PlaceIs
<1> DEFINE Stutters == box' = box /\ popped' = popped
<1>1. ASSUME NEW p \in Producers, LoadHead(p) \/ CheckRoom(p) \/ ClaimFails(p) PROVE Stutters
  <2>1. /\ pc[p] # "claimed" /\ pc'[p] # "claimed"
        /\ \A q \in Producers \ {p} : pc'[q] = pc[q] /\ current_head'[q] = current_head[q]
        /\ UNCHANGED <<buffer, head, tail, next, cpc, taken, popped>>
    BY <1>1, <1>t DEF LoadHead, CheckRoom, ClaimFails, queueVars, consumerVars
  <2>2. Ahead' = Ahead
    BY <2>1 DEF Ahead
  <2>3. Keeps(Ahead)
    BY <1>t, <1>b, <2>1, <2>2 DEF Keeps, BoxHolds
  <2> QED BY <2>1, <2>2, <2>3, BoxUnchanged
<1>2. ASSUME NEW p \in Producers, Claim(p) PROVE Mail!Push(HandleOf(p))
  <2>1. /\ head' = Succ(head) /\ Succ(head) # tail /\ current_head[p] = head
        /\ pc' = [pc EXCEPT ![p] = "claimed"] /\ pc[p] = "checked"
        /\ UNCHANGED <<buffer, tail, current_head, next, cpc, taken, popped>>
    BY <1>2, <1>t DEF Claim, consumerVars, RoomChecked
  <2>2. Succ(head) \in Slots /\ Succ(head) = IF head = Size - 1 THEN 0 ELSE head + 1
    BY <1>t, SuccIs
  <2>3. Ahead' = Ahead + 1 /\ Ahead < Size - 1
    BY <1>t, <1>s, <2>1, <2>2 DEF Ahead
  <2>4. /\ Place(tail, Ahead + 1) = head
        /\ \A i \in 1..Ahead : Place(tail, i) # head
    BY <1>t, <1>s DEF Ahead, Place
  <2>5. Keeps(Ahead)
    <3> SUFFICES ASSUME NEW i \in 1..Ahead PROVE box'[i] = box[i]
      BY DEF Keeps
    <3>1. i \in 1..Ahead' /\ Place(tail, i) # head
      BY <1>b, <2>3, <2>4
    <3> QED BY <1>t, <1>b, <2>1, <3>1 DEF BoxHolds
  <2>6. ~(head = tail /\ cpc \in {"taken", "cleared"})
    BY <1>t DEF PopHolds
  <2>7. box'[Ahead + 1] = HandleOf(p)
    <3>1. Ahead + 1 \in 1..Ahead'
      BY <1>b, <2>3
    <3>2. pc'[p] = "claimed" /\ current_head'[p] = Place(tail', Ahead + 1)
      BY <1>t, <2>1, <2>4
    <3>3. box'[Ahead + 1] = Work[p][next'[p]]
      BY <1>b, <2>1, <2>4, <2>6, <3>1, <3>2 DEF BoxHolds
    <3> QED BY <2>1, <3>3 DEF HandleOf
  <2>8. HandleOf(p) \in Nat /\ HandleOf(p) \in Handles
    BY <1>t, <2>1, HandleOfProducer DEF OnItsWay
  <2>9. box' = Append(box, HandleOf(p))
    BY <2>3, <2>5, <2>7, <2>8, BoxPushed
  <2> QED BY <2>1, <2>3, <2>9 DEF Mail!Push, BoxInv
<1>3. ASSUME NEW p \in Producers, Fill(p) PROVE Stutters
  <2>1. /\ pc[p] = "claimed" /\ pc' = [pc EXCEPT ![p] = "start"]
        /\ buffer' = [buffer EXCEPT ![current_head[p]] = HandleOf(p)]
        /\ \A q \in Producers \ {p} : next'[q] = next[q]
        /\ UNCHANGED <<head, tail, current_head, cpc, taken, popped>>
    BY <1>3, <1>t DEF Fill, consumerVars
  <2>2. Ahead' = Ahead
    BY <2>1 DEF Ahead
  <2>3. Keeps(Ahead)
    <3> SUFFICES ASSUME NEW i \in 1..Ahead PROVE box'[i] = box[i]
      BY DEF Keeps
    <3> DEFINE slot == Place(tail, i)
    <3>0. slot \in Slots /\ i \in 1..Ahead' /\ Place(tail', i) = slot
      BY <1>p, <2>1, <2>2
    <3> HIDE DEF slot
    <3>1. CASE slot = tail /\ cpc \in {"taken", "cleared"}
      BY <1>b, <2>1, <3>0, <3>1 DEF BoxHolds, slot
    <3>2. CASE ~(slot = tail /\ cpc \in {"taken", "cleared"}) /\ slot = current_head[p]
      <4>1. box[i] = HandleOf(p)
        BY <1>b, <2>1, <3>0, <3>2 DEF BoxHolds, HandleOf, slot
      <4>2. \A q \in Producers : ~(pc'[q] = "claimed" /\ current_head'[q] = slot)
        BY <1>t, <2>1, <3>2 DEF SlotsExclusive
      <4>3. box'[i] = buffer'[slot]
        BY <1>b, <2>1, <3>0, <3>2, <4>2 DEF BoxHolds
      <4> QED BY <1>t, <2>1, <3>0, <3>2, <4>1, <4>3
    <3>3. CASE ~(slot = tail /\ cpc \in {"taken", "cleared"}) /\ slot # current_head[p]
      <4>1. buffer'[slot] = buffer[slot]
        BY <1>t, <2>1, <3>0, <3>3
      <4>2. \A q \in Producers :
              pc'[q] = "claimed" /\ current_head'[q] = slot
                <=> pc[q] = "claimed" /\ current_head[q] = slot
        BY <1>t, <2>1, <3>3
      <4>3. CASE \A q \in Producers : ~(pc[q] = "claimed" /\ current_head[q] = slot)
        BY <1>b, <2>1, <3>0, <3>3, <4>1, <4>2, <4>3 DEF BoxHolds, slot
      <4>4. ASSUME NEW q \in Producers, pc[q] = "claimed", current_head[q] = slot
            PROVE  box'[i] = box[i]
        <5>1. box[i] = Work[q][next[q]]
          BY <1>b, <3>3, <4>4 DEF BoxHolds, slot
        <5>2. box'[i] = Work[q][next'[q]]
          BY <1>b, <2>1, <3>0, <3>3, <4>2, <4>4 DEF BoxHolds
        <5> QED BY <2>1, <3>3, <4>4, <5>1, <5>2
      <4> QED BY <4>3, <4>4
    <3> QED BY <3>1, <3>2, <3>3
  <2> QED BY <2>1, <2>2, <2>3, BoxUnchanged
<1>4. CASE PopStart \/ UNCHANGED vars
  <2>1. /\ cpc \in {"taken", "cleared"} <=> cpc' \in {"taken", "cleared"}
        /\ UNCHANGED <<buffer, head, tail, pc, current_head, next, taken, popped>>
    BY <1>4 DEF PopStart, vars, queueVars, producerVars, consumerVars
  <2>2. Ahead' = Ahead
    BY <2>1 DEF Ahead
  <2>3. Keeps(Ahead)
    BY <1>t, <1>b, <2>1, <2>2 DEF Keeps, BoxHolds
  <2>4. Stutters
    BY <2>1, <2>2, <2>3, BoxUnchanged
  <2> QED BY <2>4
<1>5. CASE PopRead \/ PopClear
  <2>1. /\ cpc' \in {"taken", "cleared"}
        /\ cpc = "spin" => buffer[tail] # INVALID /\ taken' = buffer[tail] /\ buffer' = buffer
        /\ cpc # "spin" => cpc = "taken" /\ taken' = taken /\ buffer' = [buffer EXCEPT ![tail] = INVALID]
        /\ UNCHANGED <<head, tail, pc, current_head, next, popped>>
    BY <1>5 DEF PopRead, PopClear, queueVars, producerVars
  <2>2. Ahead' = Ahead
    BY <2>1 DEF Ahead
  <2>3. Keeps(Ahead)
    <3> SUFFICES ASSUME NEW i \in 1..Ahead PROVE box'[i] = box[i]
      BY DEF Keeps
    <3> DEFINE slot == Place(tail, i)
    <3>0. slot \in Slots /\ i \in 1..Ahead' /\ Place(tail', i) = slot
      BY <1>p, <2>1, <2>2
    <3> HIDE DEF slot
    <3>1. CASE slot = tail
      <4>1. box'[i] = taken'
        BY <1>b, <2>1, <3>0, <3>1 DEF BoxHolds
      <4>2. CASE cpc = "spin"
        <5>1. \A q \in Producers : ~(pc[q] = "claimed" /\ current_head[q] = slot)
          BY <1>t, <2>1, <3>1, <4>2 DEF SlotsExclusive
        <5>2. box[i] = buffer[slot]
          BY <1>b, <3>0, <4>2, <5>1 DEF BoxHolds, slot
        <5> QED BY <2>1, <3>1, <4>1, <4>2, <5>2
      <4>3. CASE cpc # "spin"
        <5>1. box[i] = taken
          BY <1>b, <2>1, <3>1, <4>3 DEF BoxHolds, slot
        <5> QED BY <2>1, <4>1, <4>3, <5>1
      <4> QED BY <4>2, <4>3
    <3>2. CASE slot # tail
      <4>1. buffer'[slot] = buffer[slot]
        BY <1>t, <2>1, <3>0, <3>2
      <4> QED BY <1>b, <2>1, <3>0, <3>2, <4>1 DEF BoxHolds, slot
    <3> QED BY <3>1, <3>2
  <2>4. Stutters
    BY <2>1, <2>2, <2>3, BoxUnchanged
  <2> QED BY <2>4
<1>6. CASE PopAdvance
  <2>1. /\ cpc = "cleared" /\ cpc' = "idle" /\ tail' = Succ(tail) /\ tail # head
        /\ popped' = Append(popped, taken)
        /\ UNCHANGED <<buffer, head, pc, current_head, next>>
    BY <1>6, <1>t DEF PopAdvance, producerVars, PopHolds
  <2>2. Succ(tail) \in Slots /\ Succ(tail) = IF tail = Size - 1 THEN 0 ELSE tail + 1
    BY <1>t, SuccIs
  <2>3. Ahead' = Ahead - 1 /\ Ahead > 0
    BY <1>t, <1>s, <2>1, <2>2 DEF Ahead
  <2>4. /\ Place(tail, 1) = tail
        /\ \A i \in 1..(Ahead - 1) : Place(tail', i) = Place(tail, i + 1) /\ Place(tail, i + 1) # tail
    BY <1>t, <1>s, <1>b, <2>1, <2>2, <2>3 DEF Place
  <2>5. box[1] = taken
    BY <1>b, <2>1, <2>3, <2>4 DEF BoxHolds
  <2>6. ASSUME NEW i \in 1..(Ahead - 1) PROVE box'[i] = box[i + 1]
    <3>1. i \in 1..Ahead' /\ i + 1 \in 1..Ahead
      BY <1>b, <2>3
    <3> QED BY <1>b, <2>1, <2>4, <3>1 DEF BoxHolds
  <2>7. box # <<>> /\ Head(box) = box[1] /\ box' = Tail(box)
    BY <2>3, <2>6, BoxPopped
  <2>8. Mail!Pop
    BY <2>1, <2>5, <2>7 DEF Mail!Pop
  <2> QED BY <2>8 DEF Mail!Next
<1> QED
  <2>1. ASSUME NEW p \in Producers, TryPush(p) PROVE [Mail!Next]_<<box, popped>>
    <3>1. CASE Claim(p)
      <4>1. HandleOf(p) \in Handles
        BY <1>t, <3>1, HandleOfProducer DEF OnItsWay, Claim
      <4> QED BY <1>2, <3>1, <4>1 DEF Mail!Next
    <3>2. CASE ~Claim(p)
      BY <1>1, <1>3, <2>1, <3>2 DEF TryPush
    <3> QED BY <3>1, <3>2
  <2> QED BY <1>4, <1>5, <1>6, <2>1 DEF Next, TryPop

\* LockFreeQueue is the bounded first-in first-out mailbox that the transfer engine
\* takes it for: for every size, any clients and whatever they push, nothing is
\* lost, duplicated, invented or reordered, as long as no client sleeps through a
\* turn of the ring between its look at tail and its compare-and-swap.
THEOREM QueueImplementsMailbox == ASSUME ~Lap PROVE Spec => MailboxSpec
<1>1. RingInv /\ [Next]_vars => RingInv'
  BY StepRing
<1>2. RingInv /\ RingInv' /\ [Next]_vars => [Mail!Next]_<<box, popped>>
  <2>1. (RingInv => BoxInv) /\ (RingInv' => BoxInv')
    BY BoxIs, PTL
  <2> QED BY <2>1, StepMail
<1> QED BY <1>1, <1>2, InitRing, InitMail, PTL DEF Spec, MailboxSpec, Mail!Spec
=============================================================================
