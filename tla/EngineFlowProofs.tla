---------------------------- MODULE EngineFlowProofs ----------------------------
(***************************************************************************)
(* Proofs about TransferEngine, for any number of transfers, workers, NICs *)
(* and QPs.  While no NIC fails and none is a candidate on two NUMA nodes: *)
(* a worker's counters are what its NICs hold and stay within their        *)
(* limits, whatever clients release; and, as long as nothing fails, what   *)
(* transfers report was delivered.  With every fault, for clients that     *)
(* keep to Drained: what transfers report, success or failure, is of their *)
(* own, and the engine implements Delivery.                                *)
(***************************************************************************)
EXTENDS TransferEngineProofs, FiniteSetTheorems

\* The NICs that transfers of node w may use.
NodeNics(w) == {n \in Nics : \E x \in Xfers : Home[x] = w /\ n \in CandNics[x]}

\* No NIC is borrowed by another node.
NicsApart == \A x, y \in Xfers : Home[x] # Home[y] => CandNics[x] \cap CandNics[y] = {}

\* What a worker finds and visits is of its own node.
Local ==
    /\ \A w \in Workers, h \in Handles :
         active_transfers[w][h] # None => Home[active_transfers[w][h]] = w
    /\ \A w \in Workers : \A x \in active_contexts[w] : Home[x] = w
    /\ \A w \in Workers : pc[w] = "post" => \A x \in todo[w] : Home[x] = w
    /\ \A w \in Workers : pc[w] = "poll" => todo[w] \subseteq NodeNics(w)
    /\ \A x \in Xfers : candidates[x] \subseteq CandNics[x]
    /\ \A r \in Wrs : wr[r] # "todo" => wr_at[r][1] \in CandNics[r[1]]

\* Chunks are posted in order, each once.
Fresh ==
    \A x \in Xfers : \A c \in 0..(TotalChunks[x] - 1) :
        next_chunk_idx[x] <= c => wr[<<x, c>>] = "todo"

Mine(w, n) == {r \in WrsOn(n) : Home[r[1]] = w}
MineAt(w, n, q) == {r \in Mine(w, n) : wr_at[r][2] = q}

\* The counters are what the NICs hold, and within their limits.
CountedOn(w, n) ==
    /\ IsFiniteSet(Mine(w, n)) /\ nic_out[w][n] = Cardinality(Mine(w, n))
    /\ nic_out[w][n] <= MaxOutstandingPerNic
    /\ \A q \in Qps : /\ IsFiniteSet(MineAt(w, n, q))
                      /\ qp_out[w][n][q] = Cardinality(MineAt(w, n, q))
                      /\ qp_out[w][n][q] <= MaxOutstandingPerQp

Counted == \A w \in Workers, n \in Nics : CountedOn(w, n)

NoQuarantine == \A n \in Nics : ~ in_quarantine[n]

FInv == Calm /\ NoQuarantine /\ Local /\ Fresh /\ Counted

LEMMA MaxPerNicNat == MaxOutstandingPerNic \in Nat
<1>1. \A a, b \in Nat : a * b \in Nat
  OBVIOUS
<1> QED BY <1>1, LimitConstants DEF MaxOutstandingPerNic

\* What the invariant says.
LEMMA CountedHolds ==
    ASSUME IInv, FInv
    PROVE  CapacityAccounted /\ FlowControl
<1>1. CapacityAccounted
  <2> SUFFICES ASSUME NEW w \in Workers, NEW n \in Nics, NEW q \in Qps
               PROVE  qp_out[w][n][q] =
                        Cardinality({r \in WrsOn(n) : Home[r[1]] = w /\ wr_at[r][2] = q})
    BY DEF CapacityAccounted
  <2>1. {r \in WrsOn(n) : Home[r[1]] = w /\ wr_at[r][2] = q} = MineAt(w, n, q)
    BY DEF Mine, MineAt
  <2>2. qp_out[w][n][q] = Cardinality(MineAt(w, n, q))
    BY DEF FInv, Counted, CountedOn
  <2> QED BY <2>1, <2>2
<1>2. FlowControl
  <2> SUFFICES ASSUME NEW w \in Workers, NEW n \in Nics
               PROVE  /\ Cardinality(Mine(w, n)) <= MaxOutstandingPerNic
                      /\ \A q \in Qps : Cardinality(MineAt(w, n, q)) <= MaxOutstandingPerQp
    BY Zenon DEF FlowControl, Mine, MineAt
  <2> QED BY DEF FInv, Counted, CountedOn
<1> QED BY <1>1, <1>2

-----------------------------------------------------------------------------
(* The counters.                                                            *)

\* Steps that neither post nor poll.
LEMMA CountSame ==
    ASSUME Counted, UNCHANGED <<countVars, wr_at>>,
           \A r \in Wrs : wr'[r] \in InFlight <=> wr[r] \in InFlight
    PROVE  Counted'
<1>1. \A n : WrsOn(n)' = WrsOn(n)
  BY DEF WrsOn
<1>2. \A w, n : Mine(w, n)' = Mine(w, n)
  BY <1>1 DEF Mine
<1>3. \A w, n, q : MineAt(w, n, q)' = MineAt(w, n, q)
  BY <1>2 DEF MineAt
<1> QED BY <1>2, <1>3 DEF Counted, CountedOn, countVars

\* A chunk is posted to QP q of NIC n, where the worker has room.
LEMMA CountPost ==
    ASSUME IInv, Counted, NEW w \in Workers, NEW n \in Nics, NEW q \in Qps,
           NEW r \in Wrs, wr[r] = "todo", Home[r[1]] = w,
           wr' = [wr EXCEPT ![r] = "sent"], wr_at' = [wr_at EXCEPT ![r] = <<n, q>>],
           nic_out' = [nic_out EXCEPT ![w][n] = @ + 1],
           qp_out' = [qp_out EXCEPT ![w][n][q] = @ + 1],
           nic_out[w][n] < MaxOutstandingPerNic, qp_out[w][n][q] < MaxOutstandingPerQp
    PROVE  Counted'
<1>1. /\ wr \in [Wrs -> WrStates] /\ wr_at \in [Wrs -> (Nics \X Qps) \cup {None}]
      /\ nic_out \in [Workers -> [Nics -> Int]]
      /\ qp_out \in [Workers -> [Nics -> [Qps -> Int]]]
  BY DEF IInv, TypeOK
<1>2. \A s \in Wrs : /\ s # r => wr'[s] = wr[s] /\ wr_at'[s] = wr_at[s]
                     /\ wr'[r] = "sent" /\ wr_at'[r] = <<n, q>>
  BY <1>1
<1>3. \A m : WrsOn(m)' = IF m = n THEN WrsOn(n) \cup {r} ELSE WrsOn(m)
  BY <1>2 DEF WrsOn, InFlight, InCq
<1>4. \A m : r \notin WrsOn(m)
  BY DEF WrsOn, InFlight, InCq
<1>5. \A v, m : /\ Mine(v, m)' = IF v = w /\ m = n THEN Mine(v, m) \cup {r} ELSE Mine(v, m)
                /\ r \notin Mine(v, m)
  BY <1>3, <1>4 DEF Mine
<1>6. \A v, m, p : /\ MineAt(v, m, p)' = IF v = w /\ m = n /\ p = q
                                           THEN MineAt(v, m, p) \cup {r} ELSE MineAt(v, m, p)
                   /\ r \notin MineAt(v, m, p)
  <2>1. \A v, m : \A s \in Mine(v, m) : s \in Wrs /\ s # r
    BY <1>5 DEF Mine, WrsOn
  <2> QED BY <1>2, <1>5, <2>1 DEF MineAt
<1>7. \A v \in Workers, m \in Nics :
        /\ nic_out'[v][m] = IF v = w /\ m = n THEN nic_out[v][m] + 1 ELSE nic_out[v][m]
        /\ \A p \in Qps : qp_out'[v][m][p] = IF v = w /\ m = n /\ p = q
                                               THEN qp_out[v][m][p] + 1 ELSE qp_out[v][m][p]
  BY <1>1
<1>8. /\ IsFiniteSet(Mine(w, n) \cup {r})
      /\ Cardinality(Mine(w, n) \cup {r}) = Cardinality(Mine(w, n)) + 1
      /\ IsFiniteSet(MineAt(w, n, q) \cup {r})
      /\ Cardinality(MineAt(w, n, q) \cup {r}) = Cardinality(MineAt(w, n, q)) + 1
  BY <1>5, <1>6, FS_AddElement DEF Counted, CountedOn
<1>9. /\ nic_out[w][n] + 1 <= MaxOutstandingPerNic /\ qp_out[w][n][q] + 1 <= MaxOutstandingPerQp
  BY <1>1, MaxPerNicNat, LimitConstants
<1> SUFFICES ASSUME NEW v \in Workers, NEW m \in Nics
             PROVE  CountedOn(v, m)'
  BY Zenon DEF Counted
<1>10. /\ IsFiniteSet(Mine(v, m)') /\ nic_out'[v][m] = Cardinality(Mine(v, m)')
       /\ nic_out'[v][m] <= MaxOutstandingPerNic
  <2>1. CASE v = w /\ m = n
    <3>1. Mine(v, m)' = Mine(w, n) \cup {r} /\ nic_out'[v][m] = nic_out[w][n] + 1
      BY <1>5, <1>7, <2>1
    <3>2. nic_out[w][n] = Cardinality(Mine(w, n))
      BY <1>1 DEF Counted, CountedOn
    <3> QED BY <1>8, <1>9, <3>1, <3>2
  <2>2. CASE ~ (v = w /\ m = n)
    <3>1. Mine(v, m)' = Mine(v, m) /\ nic_out'[v][m] = nic_out[v][m]
      BY <1>5, <1>7, <2>2
    <3> QED BY <3>1 DEF Counted, CountedOn
  <2> QED BY <2>1, <2>2
<1>11. ASSUME NEW p \in Qps
       PROVE  /\ IsFiniteSet(MineAt(v, m, p)')
              /\ qp_out'[v][m][p] = Cardinality(MineAt(v, m, p)')
              /\ qp_out'[v][m][p] <= MaxOutstandingPerQp
  <2>1. CASE v = w /\ m = n /\ p = q
    <3>1. /\ MineAt(v, m, p)' = MineAt(w, n, q) \cup {r}
          /\ qp_out'[v][m][p] = qp_out[w][n][q] + 1
      BY <1>6, <1>7, <2>1
    <3>2. qp_out[w][n][q] = Cardinality(MineAt(w, n, q))
      BY <1>1 DEF Counted, CountedOn
    <3> QED BY <1>8, <1>9, <3>1, <3>2
  <2>2. CASE ~ (v = w /\ m = n /\ p = q)
    <3>1. MineAt(v, m, p)' = MineAt(v, m, p) /\ qp_out'[v][m][p] = qp_out[v][m][p]
      BY <1>6, <1>7, <2>2
    <3>2. CountedOn(v, m)
      BY DEF Counted
    <3> QED BY <3>1, <3>2, Zenon DEF CountedOn
  <2> QED BY <2>1, <2>2
<1> QED BY <1>10, <1>11 DEF CountedOn

\* The completion of one of its own work requests is polled by a worker.
LEMMA CountPoll ==
    ASSUME IInv, Counted, NEW w \in Workers, NEW r \in Wrs, NEW state \in {"failed", "done"},
           wr[r] \in InCq, Home[r[1]] = w,
           wr' = [wr EXCEPT ![r] = state], UNCHANGED wr_at, CountCompletion(w, r)
    PROVE  Counted'
<1> DEFINE n == wr_at[r][1]
           q == wr_at[r][2]
<1>1. /\ wr \in [Wrs -> WrStates]
      /\ nic_out \in [Workers -> [Nics -> Int]]
      /\ qp_out \in [Workers -> [Nics -> [Qps -> Int]]]
      /\ n \in Nics /\ q \in Qps
  BY DEF IInv, TypeOK, WrsPlaced, InCq
<1>2. /\ \A s \in Wrs : s # r => wr'[s] = wr[s]
      /\ wr'[r] \notin InFlight /\ wr[r] \in InFlight
  BY <1>1 DEF InFlight, InCq
<1>3. \A m : WrsOn(m)' = IF m = n THEN WrsOn(n) \ {r} ELSE WrsOn(m)
  BY <1>2 DEF WrsOn
<1>4. \A m : r \in WrsOn(m) <=> m = n
  BY <1>2 DEF WrsOn
<1>5. \A v, m : /\ Mine(v, m)' = IF v = w /\ m = n THEN Mine(v, m) \ {r} ELSE Mine(v, m)
                /\ r \in Mine(v, m) <=> v = w /\ m = n
  BY <1>3, <1>4 DEF Mine
<1>6. \A v, m, p : /\ MineAt(v, m, p)' = IF v = w /\ m = n /\ p = q
                                           THEN MineAt(v, m, p) \ {r} ELSE MineAt(v, m, p)
                   /\ r \in MineAt(v, m, p) <=> v = w /\ m = n /\ p = q
  BY <1>5 DEF MineAt
<1>7. \A v \in Workers, m \in Nics :
        /\ nic_out'[v][m] = IF v = w /\ m = n THEN nic_out[v][m] - 1 ELSE nic_out[v][m]
        /\ \A p \in Qps : qp_out'[v][m][p] = IF v = w /\ m = n /\ p = q
                                               THEN qp_out[v][m][p] - 1 ELSE qp_out[v][m][p]
  BY <1>1 DEF CountCompletion
<1> HIDE DEF n, q
<1>8. /\ IsFiniteSet(Mine(w, n) \ {r})
      /\ Cardinality(Mine(w, n) \ {r}) = Cardinality(Mine(w, n)) - 1
      /\ IsFiniteSet(MineAt(w, n, q) \ {r})
      /\ Cardinality(MineAt(w, n, q) \ {r}) = Cardinality(MineAt(w, n, q)) - 1
  <2>1. IsFiniteSet(Mine(w, n)) /\ IsFiniteSet(MineAt(w, n, q))
    BY <1>1 DEF Counted, CountedOn
  <2>2. r \in Mine(w, n) /\ r \in MineAt(w, n, q)
    BY <1>5, <1>6
  <2> QED BY <2>1, <2>2, FS_RemoveElement
<1>9. /\ nic_out[w][n] - 1 <= MaxOutstandingPerNic /\ qp_out[w][n][q] - 1 <= MaxOutstandingPerQp
  BY <1>1, MaxPerNicNat, LimitConstants DEF Counted, CountedOn
<1> SUFFICES ASSUME NEW v \in Workers, NEW m \in Nics
             PROVE  CountedOn(v, m)'
  BY Zenon DEF Counted
<1>10. /\ IsFiniteSet(Mine(v, m)') /\ nic_out'[v][m] = Cardinality(Mine(v, m)')
       /\ nic_out'[v][m] <= MaxOutstandingPerNic
  <2>1. CASE v = w /\ m = n
    <3>1. Mine(v, m)' = Mine(w, n) \ {r} /\ nic_out'[v][m] = nic_out[w][n] - 1
      BY <1>5, <1>7, <2>1
    <3>2. nic_out[w][n] = Cardinality(Mine(w, n))
      BY <1>1 DEF Counted, CountedOn
    <3> QED BY <1>8, <1>9, <3>1, <3>2
  <2>2. CASE ~ (v = w /\ m = n)
    <3>1. Mine(v, m)' = Mine(v, m) /\ nic_out'[v][m] = nic_out[v][m]
      BY <1>5, <1>7, <2>2
    <3> QED BY <3>1 DEF Counted, CountedOn
  <2> QED BY <2>1, <2>2
<1>11. ASSUME NEW p \in Qps
       PROVE  /\ IsFiniteSet(MineAt(v, m, p)')
              /\ qp_out'[v][m][p] = Cardinality(MineAt(v, m, p)')
              /\ qp_out'[v][m][p] <= MaxOutstandingPerQp
  <2>1. CASE v = w /\ m = n /\ p = q
    <3>1. /\ MineAt(v, m, p)' = MineAt(w, n, q) \ {r}
          /\ qp_out'[v][m][p] = qp_out[w][n][q] - 1
      BY <1>6, <1>7, <2>1
    <3>2. qp_out[w][n][q] = Cardinality(MineAt(w, n, q))
      BY <1>1 DEF Counted, CountedOn
    <3> QED BY <1>8, <1>9, <3>1, <3>2
  <2>2. CASE ~ (v = w /\ m = n /\ p = q)
    <3>1. MineAt(v, m, p)' = MineAt(v, m, p) /\ qp_out'[v][m][p] = qp_out[v][m][p]
      BY <1>6, <1>7, <2>2
    <3>2. CountedOn(v, m)
      BY DEF Counted
    <3> QED BY <3>1, <3>2, Zenon DEF CountedOn
  <2> QED BY <2>1, <2>2
<1> QED BY <1>10, <1>11 DEF CountedOn

-----------------------------------------------------------------------------
(* The clients.                                                             *)

LEMMA FlowClient ==
    ASSUME IInv, FInv, NEW x \in Xfers, Client(x)
    PROVE  FInv'
<1>1. /\ active_transfers \in [Workers -> [Handles -> Xfers \cup {None}]]
      /\ candidates \in [Xfers -> SUBSET Nics]
  BY DEF IInv, TypeOK
<1>2. UNCHANGED <<next_chunk_idx, workerVars, countVars, wrVars, linkVars, quarVars, faults>>
  BY DEF Client, StartAllocate, StartStore, StartRoute, StartSubmit, WaitReturn,
         WaitTimeout, ReleaseRoute, ReleaseContext, ReleaseUnknown, ctxVars
<1>3. Calm' /\ NoQuarantine' /\ Fresh'
  BY <1>2 DEF FInv, Calm, NoQuarantine, Fresh, wrVars, linkVars, quarVars
<1>4. Counted'
  BY <1>2, CountSame DEF FInv, wrVars
<1>5. ASSUME \A y \in Xfers : candidates'[y] \subseteq CandNics[y],
             \A w \in Workers, h \in Handles :
                active_transfers'[w][h] # None => Home[active_transfers'[w][h]] = w
      PROVE  Local'
  BY <1>2, <1>5 DEF FInv, Local, workerVars, wrVars
<1>6. CASE StartStore(x)
  <2>1. HealthyCandidates(x) \subseteq CandNics[x]
    BY DEF HealthyCandidates
  <2>2. /\ candidates' = [candidates EXCEPT ![x] = HealthyCandidates(x)]
        /\ active_transfers' = [active_transfers EXCEPT ![Home[x]][handle[x]] = x]
    BY <1>6 DEF StartStore
  <2>3. \A y \in Xfers : candidates'[y] \subseteq CandNics[y]
    BY <1>1, <2>1, <2>2 DEF FInv, Local
  <2>4. ASSUME NEW w \in Workers, NEW h \in Handles
        PROVE  \/ active_transfers'[w][h] = active_transfers[w][h]
               \/ w = Home[x] /\ active_transfers'[w][h] = x
    <3>1. CASE w = Home[x]
      BY <1>1, <2>2, <3>1
    <3>2. CASE w # Home[x]
      BY <1>1, <2>2, <3>2
    <3> QED BY <3>1, <3>2
  <2> QED BY <1>3, <1>4, <1>5, <2>3, <2>4 DEF FInv, Local
<1>7. CASE ReleaseContext(x)
  <2>1. /\ UNCHANGED candidates
        /\ active_transfers' = [active_transfers EXCEPT ![Home[x]][handle[x]] = None]
    BY <1>7 DEF ReleaseContext, ctxVars
  <2>2. \A w \in Workers, h \in Handles :
           active_transfers'[w][h] \in {active_transfers[w][h], None}
    BY <1>1, <2>1
  <2> QED BY <1>3, <1>4, <1>5, <2>1, <2>2 DEF FInv, Local
<1>8. CASE ~ StartStore(x) /\ ~ ReleaseContext(x)
  <2>1. UNCHANGED <<active_transfers, candidates>>
    BY <1>8 DEF Client, StartAllocate, StartRoute, StartSubmit, WaitReturn, WaitTimeout,
                ReleaseRoute, ReleaseUnknown, mapVars, ctxVars
  <2> QED BY <1>3, <1>4, <1>5, <2>1 DEF FInv, Local
<1> QED BY <1>6, <1>7, <1>8

-----------------------------------------------------------------------------
(* The engine.                                                              *)

\* A worker posts the next chunk of one of its contexts.
LEMMA FlowPost ==
    ASSUME IInv, FInv, NEW w \in Workers, NEW x \in Xfers, PostChunk(w, x)
    PROVE  NoQuarantine' /\ Local' /\ Fresh' /\ Counted'
<1> DEFINE r == <<x, next_chunk_idx[x]>>
<1>1. /\ wr \in [Wrs -> WrStates] /\ wr_at \in [Wrs -> (Nics \X Qps) \cup {None}]
      /\ next_chunk_idx \in [Xfers -> Nat] /\ TotalChunks[x] \in Nat
      /\ candidates \in [Xfers -> SUBSET Nics]
  BY XferConstants DEF IInv, TypeOK
<1>2. pc[w] = "post" /\ x \in todo[w] /\ next_chunk_idx[x] < TotalChunks[x]
  BY DEF PostChunk, Posting
<1>3. next_chunk_idx[x] \in 0..(TotalChunks[x] - 1)
  BY <1>1, <1>2
<1>4. r \in Wrs /\ wr[r] = "todo" /\ r[1] = x
  BY <1>1, <1>3, WrParts DEF FInv, Fresh
<1>5. PICK s \in Slots(w, x) :
         /\ nic_out' = [nic_out EXCEPT ![w][s[1]] = @ + 1]
         /\ qp_out' = [qp_out EXCEPT ![w][s[1]][s[2]] = @ + 1]
         /\ wr_at' = [wr_at EXCEPT ![r] = s]
  BY DEF PostChunk
<1>6. /\ s[1] \in candidates[x] /\ s[1] \in Nics /\ s[2] \in Qps /\ s = <<s[1], s[2]>>
      /\ nic_out[w][s[1]] \in 0..(MaxOutstandingPerNic - 1)
      /\ qp_out[w][s[1]][s[2]] \in 0..(MaxOutstandingPerQp - 1)
  BY <1>1 DEF Slots, OpenNics, OpenQps
<1>7. /\ wr' = [wr EXCEPT ![r] = "sent"]
      /\ next_chunk_idx' = [next_chunk_idx EXCEPT ![x] = @ + 1]
      /\ UNCHANGED <<in_quarantine, active_transfers, candidates, pc, todo, active_contexts>>
  BY DEF PostChunk, quarVars, startVars, mapVars, workerVars
<1>8. Home[x] = w /\ s[1] \in CandNics[x]
  BY <1>2, <1>6 DEF FInv, Local
<1> HIDE DEF r
<1>9. /\ \A t \in Wrs : t # r => wr'[t] = wr[t] /\ wr_at'[t] = wr_at[t]
      /\ wr_at'[r] = s
  BY <1>1, <1>4, <1>5, <1>6, <1>7
<1>10. NoQuarantine'
  BY <1>7 DEF FInv, NoQuarantine
<1>11. Local'
  BY <1>4, <1>7, <1>8, <1>9 DEF FInv, Local
<1>12. Fresh'
  <2> SUFFICES ASSUME NEW y \in Xfers, NEW c \in 0..(TotalChunks[y] - 1),
                      next_chunk_idx'[y] <= c
               PROVE  wr'[<<y, c>>] = "todo"
    BY DEF Fresh
  <2>1. next_chunk_idx[y] <= c /\ <<y, c>> # r
    BY <1>1, <1>7, XferConstants DEF r
  <2> QED BY <1>9, <2>1, WrParts DEF FInv, Fresh
<1>13. Counted'
  <2> DEFINE n == s[1]
             q == s[2]
  <2>1. /\ nic_out[w][n] < MaxOutstandingPerNic /\ qp_out[w][n][q] < MaxOutstandingPerQp
    BY <1>6, MaxPerNicNat, LimitConstants
  <2>2. /\ wr_at' = [wr_at EXCEPT ![r] = <<n, q>>] /\ wr' = [wr EXCEPT ![r] = "sent"]
        /\ nic_out' = [nic_out EXCEPT ![w][n] = @ + 1]
        /\ qp_out' = [qp_out EXCEPT ![w][n][q] = @ + 1]
    BY <1>5, <1>6, <1>7
  <2>3. n \in Nics /\ q \in Qps /\ Home[r[1]] = w
    BY <1>4, <1>6, <1>8
  <2>4. Counted
    BY DEF FInv
  <2> HIDE DEF n, q
  <2> QED BY <1>4, <2>1, <2>2, <2>3, <2>4, CountPost
<1> QED BY <1>10, <1>11, <1>12, <1>13

\* A worker polls a completion: of a chunk of its own node, as NICs are apart.
LEMMA FlowPoll ==
    ASSUME NicsApart, IInv, FInv, NEW w \in Workers, NEW n \in Nics, PollWc(w, n)
    PROVE  NoQuarantine' /\ Local' /\ Fresh' /\ Counted'
<1>1. PICK r \in Completions(n), stay \in BOOLEAN :
         /\ wr' = [wr EXCEPT ![r] = IF wr[r] = "error" THEN "failed" ELSE "done"]
         /\ CountCompletion(w, r)
         /\ wr[r] # "error" => UNCHANGED quarVars
         /\ todo' = [todo EXCEPT ![w] = IF stay THEN @ ELSE @ \ {n}]
  BY DEF PollWc
<1>2. /\ r \in Wrs /\ wr[r] \in InCq /\ wr_at[r][1] = n /\ wr[r] # "error" /\ r[1] \in Xfers
  BY <1>1, WrParts DEF Completions, FInv, Calm
<1>3. /\ pc[w] = "poll" /\ n \in todo[w]
      /\ UNCHANGED <<next_chunk_idx, active_transfers, candidates, pc, active_contexts, wr_at>>
  BY DEF PollWc, startVars, mapVars
<1>4. Home[r[1]] = w
  <2>1. n \in CandNics[r[1]]
    BY <1>2 DEF FInv, Local, InCq
  <2>2. PICK y \in Xfers : Home[y] = w /\ n \in CandNics[y]
    BY <1>3 DEF FInv, Local, NodeNics
  <2> QED BY <1>2, <2>1, <2>2 DEF NicsApart
<1>5. /\ todo \in [Workers -> SUBSET (Xfers \cup Nics)] /\ wr \in [Wrs -> WrStates]
      /\ next_chunk_idx \in [Xfers -> Nat]
  BY DEF IInv, TypeOK
<1>6. /\ \A v \in Workers : todo'[v] \subseteq todo[v]
      /\ \A t \in Wrs : t # r => wr'[t] = wr[t]
  BY <1>1, <1>5
<1>7. NoQuarantine' /\ Local'
  BY <1>1, <1>2, <1>3, <1>6 DEF FInv, NoQuarantine, Local, quarVars, InCq
<1>8. Fresh'
  BY <1>2, <1>3, <1>6, WrParts DEF FInv, Fresh, InCq
<1>9. Counted'
  BY <1>1, <1>2, <1>3, <1>4, CountPoll DEF FInv
<1> QED BY <1>7, <1>8, <1>9

\* What a worker's other steps do to its contexts and its loops.
LEMMA LocalWork ==
    ASSUME IInv, FInv, NEW w \in Workers,
           UNCHANGED <<active_transfers, candidates, wrVars>>,
           \/ Drain(w) \/ StartPass(w) \/ StartPoll(w) \/ StartRetire(w)
           \/ EndPass(w) \/ EndProbe(w)
           \/ \E x \in Xfers : \/ PostUnroutable(w, x) \/ PostRejected(w, x)
                               \/ PostBreak(w, x) \/ Retire(w, x)
           \/ \E n \in Nics : PollEmpty(w, n)
    PROVE  Local'
<1>1. /\ pc \in [Workers -> {"drain", "post", "poll", "retire", "probe"}]
      /\ todo \in [Workers -> SUBSET (Xfers \cup Nics)]
      /\ active_contexts \in [Workers -> SUBSET Xfers]
      /\ candidates \in [Xfers -> SUBSET Nics]
  BY DEF IInv, TypeOK
<1>2. Local
  BY DEF FInv
<1>3. ASSUME /\ \A v \in Workers : \A x \in active_contexts'[v] : Home[x] = v
             /\ \A v \in Workers : pc'[v] = "post" => \A x \in todo'[v] : Home[x] = v
             /\ \A v \in Workers : pc'[v] = "poll" => todo'[v] \subseteq NodeNics(v)
      PROVE  Local'
  BY <1>2, <1>3 DEF Local, wrVars, NodeNics
<1>4. CASE Drain(w)
  <2> DEFINE h == Head(queue[w])
  <2>1. h \in Handles
    <3>1. queue[w] \in Seq(Handles) /\ queue[w] # <<>>
      BY <1>4 DEF Drain, IInv, TypeOK
    <3> QED BY <3>1, HeadTailProperties
  <2> HIDE DEF h
  <2>2. active_transfers[w][h] # None => Home[active_transfers[w][h]] = w
    BY <1>2, <2>1 DEF Local
  <2>3. /\ active_contexts' = [active_contexts EXCEPT
                                 ![w] = @ \cup ({active_transfers[w][h]} \ {None})]
        /\ UNCHANGED <<pc, todo>>
    BY <1>4 DEF Drain, h
  <2>4. ASSUME NEW v \in Workers, NEW x \in active_contexts'[v]
        PROVE  \/ x \in active_contexts[v]
               \/ v = w /\ x = active_transfers[w][h] /\ x # None
    <3>1. CASE v = w
      BY <1>1, <2>3, <3>1
    <3>2. CASE v # w
      BY <1>1, <2>3, <3>2
    <3> QED BY <3>1, <3>2
  <2> QED BY <1>2, <1>3, <2>2, <2>3, <2>4 DEF Local
<1>5. CASE StartPass(w) \/ StartPoll(w) \/ StartRetire(w) \/ EndPass(w) \/ EndProbe(w)
  <2>1. PollNics(w) \subseteq NodeNics(w)
    BY <1>1, <1>2 DEF PollNics, NodeNics, Local
  <2>2. /\ UNCHANGED active_contexts
        /\ \E phase \in {"post", "poll", "retire", "probe", "drain"} :
             \E work : /\ pc' = [pc EXCEPT ![w] = phase]
                       /\ todo' = [todo EXCEPT ![w] = work]
                       /\ phase = "post" => work = active_contexts[w]
                       /\ phase = "poll" => work = PollNics(w)
    BY <1>5 DEF StartPass, StartPoll, StartRetire, EndPass, EndProbe, ToPhase
  <2> QED BY <1>1, <1>2, <1>3, <2>1, <2>2 DEF Local
<1>6. ASSUME UNCHANGED pc, \A v \in Workers : todo'[v] \subseteq todo[v],
             \A v \in Workers : active_contexts'[v] \subseteq active_contexts[v]
      PROVE  Local'
  BY <1>2, <1>3, <1>6 DEF Local
<1>7. ASSUME NEW item,
             UNCHANGED pc /\ todo' = [todo EXCEPT ![w] = @ \ {item}],
             \/ UNCHANGED active_contexts
             \/ \E x : active_contexts' = [active_contexts EXCEPT ![w] = @ \ {x}]
      PROVE  Local'
  BY <1>1, <1>6, <1>7
<1>8. ASSUME NEW x \in Xfers,
             PostUnroutable(w, x) \/ PostRejected(w, x) \/ PostBreak(w, x)
      PROVE  Local'
  BY <1>7, <1>8 DEF PostUnroutable, PostRejected, PostBreak, PostUnchanged, Visited
<1>9. ASSUME NEW x \in Xfers, Retire(w, x)
      PROVE  Local'
  <2>1. /\ UNCHANGED pc /\ todo' = [todo EXCEPT ![w] = @ \ {x}]
        /\ active_contexts' = [active_contexts EXCEPT
                                 ![w] = IF Leaves(x) THEN @ \ {x} ELSE @]
    BY <1>9 DEF Retire, Visited
  <2>2. \A v \in Workers : /\ todo'[v] \subseteq todo[v]
                           /\ active_contexts'[v] \subseteq active_contexts[v]
    BY <1>1, <2>1
  <2> QED BY <1>6, <2>1, <2>2
<1>10. ASSUME NEW n \in Nics, PollEmpty(w, n)
       PROVE  Local'
  BY <1>7, <1>10 DEF PollEmpty, Visited
<1> QED BY <1>4, <1>5, <1>8, <1>9, <1>10

LEMMA FlowEngine ==
    ASSUME NicsApart, IInv, FInv, Engine
    PROVE  FInv'
<1>1. Calm'
  BY CalmStep DEF FInv
<1>2. UNCHANGED active_transfers /\ faults = 0
  BY EngineKeepsStart DEF startVars, mapVars, FInv, Calm
<1>3. ASSUME UNCHANGED <<next_chunk_idx, wrVars, countVars, quarVars>>
      PROVE  NoQuarantine' /\ Fresh' /\ Counted'
  BY <1>3, CountSame DEF FInv, NoQuarantine, Fresh, wrVars, quarVars
<1>4. ASSUME NEW w \in Workers, Work(w),
             ~ \E x \in Xfers : PostChunk(w, x), ~ \E n \in Nics : PollWc(w, n)
      PROVE  NoQuarantine' /\ Local' /\ Fresh' /\ Counted'
  <2>1. ~ \E n \in Nics : ProbeDown(w, n) \/ ProbeUp(w, n) \/ ProbeRefused(w, n)
    BY DEF ProbeDown, ProbeUp, ProbeRefused, DueNics, FInv, NoQuarantine
  <2>2. UNCHANGED <<next_chunk_idx, candidates, wrVars, countVars, quarVars>>
    BY <1>4, <2>1 DEF Work, Drain, StartPass, StartPoll, StartRetire, EndPass, EndProbe,
       PostUnroutable, PostRejected, PostBreak, PostUnchanged, Retire, PollEmpty, ctxVars
  <2>3. \/ Drain(w) \/ StartPass(w) \/ StartPoll(w) \/ StartRetire(w)
        \/ EndPass(w) \/ EndProbe(w)
        \/ \E x \in Xfers : \/ PostUnroutable(w, x) \/ PostRejected(w, x)
                            \/ PostBreak(w, x) \/ Retire(w, x)
        \/ \E n \in Nics : PollEmpty(w, n)
    BY <1>4, <2>1 DEF Work
  <2>4. Local'
    BY <1>2, <2>2, <2>3, LocalWork
  <2> QED BY <1>3, <2>2, <2>4
<1>5. ASSUME NEW r \in Wrs, NicStep(r) \/ NicFault(r)
      PROVE  NoQuarantine' /\ Local' /\ Fresh' /\ Counted'
  <2>1. wr \in [Wrs -> WrStates]
    BY DEF IInv, TypeOK
  <2>2. /\ wr[r] = "sent" /\ \E state \in InCq : wr' = [wr EXCEPT ![r] = state]
        /\ UNCHANGED <<ctxVars, workerVars, countVars, wr_at, quarVars>>
    BY <1>5 DEF NicStep, NicFault, NicDeliver, NicFlush, NicRetriesExhausted, FailWr,
                NicUnchanged, InCq
  <2>3. \A s \in Wrs : /\ wr'[s] \in InFlight <=> wr[s] \in InFlight
                       /\ wr'[s] = "todo" <=> wr[s] = "todo"
    BY <2>1, <2>2 DEF InFlight, InCq
  <2>4. Counted'
    BY <2>2, <2>3, CountSame DEF FInv
  <2>5. NoQuarantine' /\ Fresh'
    BY <2>2, <2>3, WrParts DEF FInv, NoQuarantine, Fresh, ctxVars, quarVars
  <2>6. Local'
    BY <1>2, <2>2, <2>3 DEF FInv, Local, ctxVars, workerVars
  <2> QED BY <2>4, <2>5, <2>6
<1>6. ASSUME NEW n \in Nics, PortChange(n)
      PROVE  NoQuarantine' /\ Local' /\ Fresh' /\ Counted'
  <2>1. UNCHANGED <<ctxVars, workerVars, wrVars, countVars, quarVars>>
    BY <1>6 DEF PortChange
  <2>2. Local'
    BY <1>2, <2>1 DEF FInv, Local, ctxVars, workerVars, wrVars
  <2> QED BY <1>3, <2>1, <2>2 DEF ctxVars
<1>7. ASSUME NEW n \in Nics, QuarantineElapses(n)
      PROVE  FALSE
  BY <1>7 DEF QuarantineElapses, FInv, NoQuarantine
<1>8. ASSUME NEW w \in Workers, NEW n \in Nics, PollFatal(w, n)
      PROVE  FALSE
  BY <1>2, <1>8 DEF PollFatal
<1>9. NoQuarantine' /\ Local' /\ Fresh' /\ Counted'
  BY <1>4, <1>5, <1>6, <1>7, <1>8, FlowPost, FlowPoll DEF Engine, Fault
<1> QED BY <1>1, <1>9 DEF FInv

-----------------------------------------------------------------------------
(* The invariant, and the theorems.                                         *)

LEMMA InitFlow ==
    ASSUME MaxFaults = 0
    PROVE  Init => FInv
<1> SUFFICES ASSUME Init PROVE FInv
  OBVIOUS
<1>1. Calm /\ NoQuarantine /\ Fresh
  BY WrParts DEF Init, Calm, NoQuarantine, Fresh
<1>2. Local
  BY DEF Init, Local
<1>3. \A n : WrsOn(n) = {}
  BY DEF Init, WrsOn, InFlight, InCq
<1>4. \A w, n : Mine(w, n) = {} /\ \A q : MineAt(w, n, q) = {}
  BY <1>3 DEF Mine, MineAt
<1>5. Counted
  <2> SUFFICES ASSUME NEW w \in Workers, NEW n \in Nics
               PROVE  CountedOn(w, n)
    BY DEF Counted
  <2>1. nic_out[w][n] = 0 /\ \A q \in Qps : qp_out[w][n][q] = 0
    BY DEF Init
  <2>2. 0 <= MaxOutstandingPerNic /\ 0 <= MaxOutstandingPerQp
    BY MaxPerNicNat, LimitConstants
  <2> QED BY <1>4, <2>1, <2>2, FS_EmptySet DEF CountedOn
<1> QED BY <1>1, <1>2, <1>5 DEF FInv

LEMMA StepFlow ==
    ASSUME NicsApart, IInv, FInv, [Next]_vars
    PROVE  FInv'
<1>1. CASE UNCHANGED vars
  <2>1. /\ UNCHANGED <<active_transfers, ctxVars, workerVars, wrVars, countVars>>
        /\ UNCHANGED <<linkVars, quarVars, faults>>
    BY <1>1 DEF vars, startVars, mapVars
  <2>2. Calm' /\ NoQuarantine' /\ Fresh' /\ Local'
    BY <2>1 DEF FInv, Calm, NoQuarantine, Fresh, Local, ctxVars, workerVars, wrVars,
                linkVars, quarVars
  <2>3. Counted'
    BY <2>1, CountSame DEF FInv, wrVars
  <2> QED BY <2>2, <2>3 DEF FInv
<1> QED BY <1>1, FlowClient, FlowEngine, NextIsClientOrEngine

LEMMA FlowAlways ==
    ASSUME MaxFaults = 0, NicsApart
    PROVE  Spec => [](CapacityAccounted /\ FlowControl)
<1>1. Init => IInv /\ FInv
  BY InitInvariant, InitFlow
<1>2. IInv /\ FInv /\ [Next]_vars => (IInv /\ FInv)'
  BY StepInvariant, StepFlow
<1>3. IInv /\ FInv => CapacityAccounted /\ FlowControl
  BY CountedHolds
<1> QED BY <1>1, <1>2, <1>3, PTL DEF Spec

\* Whatever clients release, while no NIC fails and none serves two nodes: the
\* counters of a worker are what its NICs hold for it, so no capacity leaks.
THEOREM CapacityAlwaysAccounted ==
    ASSUME MaxFaults = 0, NicsApart
    PROVE  Spec => []CapacityAccounted
BY FlowAlways, PTL

\* Under the same hypotheses no worker ever has more in flight than
\* max_outstanding_per_qp_ on a QP, and that times the number of QPs on a NIC.
THEOREM FlowAlwaysControlled ==
    ASSUME MaxFaults = 0, NicsApart
    PROVE  Spec => []FlowControl
BY FlowAlways, PTL

-----------------------------------------------------------------------------
(* What transfers report, as long as nothing fails: a success was           *)
(* delivered, every completion is credited to the transfer that posted it   *)
(* and workers hold no context whose memory was returned.                   *)

\* Nothing fails: no fault of the environment, a route for every chunk, a NIC for
\* one node only, send queues as deep as flow control lets workers fill them, and
\* clients that release after their wait.
NothingFails ==
    /\ MaxFaults = 0 /\ NoRoute = {} /\ NicsApart
    /\ MaxOutstandingPerNic <= MaxSendWr
    /\ ReleasePolicy # "any"

Chunks(x) == 0..(TotalChunks[x] - 1)
DoneOf(x) == {c \in Chunks(x) : wr[<<x, c>>] = "done"}

\* An active transfer is live and not finished, and what is in flight is active.
Busy ==
    /\ \A w \in Workers : \A x \in active_contexts[w] : cpc[x] = "live" /\ ~ finished[x]
    /\ \A r \in Wrs : wr[r] \in InFlight => r[1] \in active_contexts[Home[r[1]]]

\* The counter of completed chunks counts the chunks that completed.
Tally == \A x \in Xfers : total_completed[x] = Cardinality(DoneOf(x))

\* Only a transfer between its store and its release is in a map; only a released
\* one was destroyed.
Destroyed ==
    /\ \A w \in Workers, h \in Handles : active_transfers[w][h] # None =>
         cpc[active_transfers[w][h]] \in {"stored", "routed", "live", "waited", "unrouted"}
    /\ \A x \in freed : cpc[x] = "released"

RInv == Busy /\ Tally /\ Destroyed /\ SuccessMeansDelivered

AllInv == IInv /\ QInv /\ FInv /\ RInv

LEMMA DanglingHolds == ASSUME RInv PROVE NoDanglingContext
BY DEF RInv, Busy, Destroyed, NoDanglingContext

LEMMA DoneFinite ==
    ASSUME NEW x \in Xfers
    PROVE  /\ IsFiniteSet(DoneOf(x)) /\ Cardinality(DoneOf(x)) \in Nat
           /\ Cardinality(DoneOf(x)) >= TotalChunks[x] => DoneOf(x) = Chunks(x)
<1>1. TotalChunks[x] \in Nat
  BY XferConstants
<1>2. IsFiniteSet(Chunks(x)) /\ Cardinality(Chunks(x)) = TotalChunks[x]
  BY <1>1, FS_Interval, SMTT(30) DEF Chunks
<1>3. DoneOf(x) \in SUBSET Chunks(x)
  BY DEF DoneOf
<1>4. /\ IsFiniteSet(DoneOf(x)) /\ Cardinality(DoneOf(x)) <= Cardinality(Chunks(x))
      /\ Cardinality(Chunks(x)) = Cardinality(DoneOf(x)) => Chunks(x) = DoneOf(x)
  BY <1>2, <1>3, FS_Subset
<1>5. Cardinality(DoneOf(x)) \in Nat
  BY <1>4, FS_CardinalityType
<1> QED BY <1>1, <1>2, <1>4, <1>5

\* Nothing is done or undone: the tallies stand.
LEMMA TallySame ==
    ASSUME RInv, UNCHANGED total_completed,
           \A r \in Wrs : wr'[r] = "done" <=> wr[r] = "done",
           \A x \in Xfers : error_code'[x] = "success" =>
               error_code[x] = "success" \/ TotalChunks[x] = 0
    PROVE  Tally' /\ SuccessMeansDelivered'
<1>1. \A x \in Xfers : DoneOf(x)' = DoneOf(x)
  BY WrParts DEF DoneOf, Chunks
<1>2. Tally'
  BY <1>1 DEF RInv, Tally
<1>3. SuccessMeansDelivered'
  BY WrParts, XferConstants DEF RInv, SuccessMeansDelivered
<1> QED BY <1>2, <1>3

-----------------------------------------------------------------------------
(* The clients.                                                             *)

LEMMA ResultClient ==
    ASSUME AllInv, ReleasePolicy # "any", NEW x \in Xfers, Client(x)
    PROVE  RInv'
<1>1. /\ cpc \in [Xfers -> Places] /\ finished \in [Xfers -> BOOLEAN]
      /\ active_transfers \in [Workers -> [Handles -> Xfers \cup {None}]]
      /\ error_code \in [Xfers -> Codes] /\ active_contexts \in [Workers -> SUBSET Xfers]
      /\ handle \in [Xfers -> Handles \cup {0}] /\ freed \in SUBSET Xfers
  BY DEF AllInv, IInv, TypeOK
<1>2. UNCHANGED <<total_completed, active_contexts, wr>>
  BY DEF Client, StartAllocate, StartStore, StartRoute, StartSubmit, WaitReturn,
         WaitTimeout, ReleaseRoute, ReleaseContext, ReleaseUnknown, ctxVars, workerVars,
         wrVars
<1>3. ASSUME cpc[x] = "live", ~ finished[x]
      PROVE  cpc'[x] = "live" /\ ~ finished'[x]
  <2>1. ~ WaitReturn(x)
    BY <1>3, LookupOwn, XferConstants DEF WaitReturn, AllInv
  <2>2. WaitTimeout(x)
    BY <1>3, <2>1 DEF Client, StartAllocate, StartStore, StartRoute, StartSubmit,
       ReleaseRoute, ReleaseContext, ReleaseUnknown, MayRelease
  <2> QED BY <1>3, <2>2 DEF WaitTimeout, ctxVars
<1>4. \A y \in Xfers \ {x} : cpc'[y] = cpc[y] /\ finished'[y] = finished[y]
  BY <1>1 DEF Client, StartAllocate, StartStore, StartRoute, StartSubmit, WaitReturn,
     WaitTimeout, ReleaseRoute, ReleaseContext, ReleaseUnknown, ctxVars
<1>5. Busy'
  BY <1>1, <1>2, <1>3, <1>4 DEF AllInv, RInv, Busy
<1>6. \A y \in Xfers : error_code'[y] = "success" =>
          error_code[y] = "success" \/ TotalChunks[y] = 0
  BY <1>1 DEF Client, StartAllocate, StartStore, StartRoute, StartSubmit, WaitReturn,
     WaitTimeout, ReleaseRoute, ReleaseContext, ReleaseUnknown, ctxVars
<1>7. Tally' /\ SuccessMeansDelivered'
  BY <1>2, <1>6, TallySame DEF AllInv
<1>8. Destroyed'
  <2>1. CASE StartStore(x)
    <3>1. active_transfers[Home[x]][handle[x]] = None
      <4> DEFINE y == active_transfers[Home[x]][handle[x]]
      <4>1. SUFFICES ASSUME y # None PROVE FALSE
        OBVIOUS
      <4>2. cpc[x] = "allocated" /\ handle[x] \in Handles /\ Home[x] \in Workers
        BY <2>1, HolderHasHandle, XferConstants DEF StartStore, AllInv
      <4>3. /\ y \in Xfers /\ handle[y] = handle[x]
            /\ cpc[y] \in {"stored", "routed", "live", "waited", "unrouted"}
        BY <1>1, <4>1, <4>2 DEF AllInv, IInv, WorkNamed, RInv, Destroyed
      <4> QED BY <4>2, <4>3, HoldersDiffer DEF AllInv
    <3>2. /\ freed' = freed /\ cpc[x] = "allocated" /\ cpc' = [cpc EXCEPT ![x] = "stored"]
          /\ active_transfers' = [active_transfers EXCEPT ![Home[x]][handle[x]] = x]
      BY <2>1, <3>1 DEF StartStore
    <3>3. ASSUME NEW w \in Workers, NEW h \in Handles
          PROVE  active_transfers'[w][h] \in {active_transfers[w][h], x}
      BY <1>1, <3>2
    <3> QED BY <1>1, <3>2, <3>3 DEF AllInv, RInv, Destroyed
  <2>2. CASE ReleaseContext(x)
    <3>1. /\ cpc[x] = "unrouted" /\ cpc' = [cpc EXCEPT ![x] = "released"]
          /\ active_transfers' = [active_transfers EXCEPT ![Home[x]][handle[x]] = None]
          /\ freed' = freed \cup ({active_transfers[Home[x]][handle[x]]} \ {None})
      BY <2>2 DEF ReleaseContext
    <3>2. /\ active_transfers[Home[x]][handle[x]] = x
          /\ handle[x] \in Handles /\ Home[x] \in Workers
      BY <3>1, HolderHasHandle, XferConstants DEF AllInv, QInv, Filed
    <3>3. ASSUME NEW w \in Workers, NEW h \in Handles, active_transfers'[w][h] # None
          PROVE  active_transfers'[w][h] = active_transfers[w][h]
                 /\ active_transfers[w][h] # x
      <4>1. active_transfers'[w][h] = active_transfers[w][h]
            /\ ~ (w = Home[x] /\ h = handle[x])
        BY <1>1, <3>1, <3>2, <3>3
      <4>2. active_transfers[w][h] # x
        BY <3>3, <4>1 DEF AllInv, IInv, WorkNamed, FInv, Local
      <4> QED BY <4>1, <4>2
    <3> QED BY <1>1, <3>1, <3>2, <3>3 DEF AllInv, RInv, Destroyed
  <2>3. CASE ~ StartStore(x) /\ ~ ReleaseContext(x)
    <3>1. UNCHANGED <<active_transfers, freed>>
      BY <2>3 DEF Client, StartAllocate, StartRoute, StartSubmit, WaitReturn, WaitTimeout,
                  ReleaseRoute, ReleaseUnknown, mapVars
    <3>2. /\ cpc[x] \in {"stored", "routed", "live", "waited", "unrouted"} =>
               cpc'[x] \in {"stored", "routed", "live", "waited", "unrouted"}
          /\ cpc[x] # "released"
      <4>1. ~ (MayRelease(x) /\ handle[x] \notin Routed)
        BY LookupOwn DEF MayRelease, AllInv
      <4>2. CASE ReleaseUnknown(x)
        BY <4>1, <4>2 DEF ReleaseUnknown
      <4>3. CASE ~ ReleaseUnknown(x)
        BY <1>1, <2>3, <4>3 DEF Client, StartAllocate, StartRoute, StartSubmit, WaitReturn,
           WaitTimeout, ReleaseRoute, MayRelease
      <4> QED BY <4>2, <4>3
    <3> QED BY <1>1, <1>4, <3>1, <3>2 DEF AllInv, RInv, Destroyed
  <2> QED BY <2>1, <2>2, <2>3
<1> QED BY <1>5, <1>7, <1>8 DEF RInv

-----------------------------------------------------------------------------
(* The engine.                                                              *)

\* The send queue of a QP has room whenever flow control lets a worker post.
LEMMA NoRejection ==
    ASSUME AllInv, NothingFails, NEW w \in Workers, NEW x \in Xfers
    PROVE  ~ PostUnroutable(w, x) /\ ~ PostRejected(w, x)
<1>1. ~ PostUnroutable(w, x)
  BY DEF PostUnroutable, NothingFails
<1>2. ASSUME PostRejected(w, x)
      PROVE  FALSE
  <2>1. PICK s \in Slots(w, x) : Cardinality(SendQueue(s[1], s[2])) >= MaxSendWr
    BY <1>2 DEF PostRejected
  <2> DEFINE n == s[1]
             q == s[2]
  <2>2. /\ n \in candidates[x] /\ nic_out[w][n] \in 0..(MaxOutstandingPerNic - 1)
        /\ n \in CandNics[x] /\ n \in Nics /\ Home[x] = w
    <3>1. n \in OpenNics(w, x) /\ x \in todo[w] /\ pc[w] = "post"
      BY <1>2, <2>1 DEF Slots, PostRejected, Posting
    <3>2. candidates[x] \subseteq Nics
      BY DEF AllInv, IInv, TypeOK
    <3> QED BY <3>1, <3>2 DEF OpenNics, AllInv, FInv, Local
  <2> HIDE DEF n
  <2>3. \A r \in WrsOn(n) : r \in Wrs /\ r[1] \in Xfers /\ wr[r] # "todo" /\ wr_at[r][1] = n
    BY WrParts DEF WrsOn, InFlight, InCq
  <2>4. \A r \in WrsOn(n) : Home[r[1]] = w
    BY <2>2, <2>3 DEF AllInv, FInv, Local, NothingFails, NicsApart
  <2>5. SendQueue(n, q) \in SUBSET Mine(w, n)
    BY <2>4 DEF SendQueue, Mine
  <2>6. IsFiniteSet(Mine(w, n)) /\ nic_out[w][n] = Cardinality(Mine(w, n))
    BY <2>2 DEF AllInv, FInv, Counted, CountedOn
  <2>7. /\ IsFiniteSet(SendQueue(n, q))
        /\ Cardinality(SendQueue(n, q)) <= Cardinality(Mine(w, n))
    BY <2>5, <2>6, FS_Subset
  <2>8. Cardinality(SendQueue(n, q)) \in Nat
    BY <2>7, FS_CardinalityType
  <2>9. Cardinality(SendQueue(n, q)) >= MaxSendWr
    BY <2>1 DEF n
  <2>10. MaxOutstandingPerNic <= MaxSendWr
    BY DEF NothingFails
  <2> QED BY <2>2, <2>6, <2>7, <2>8, <2>9, <2>10, MaxPerNicNat, LimitConstants
<1> QED BY <1>1, <1>2

\* A completion that worker w polls from NIC n is found to be of its poster.
LEMMA OwnerPosted ==
    ASSUME AllInv, NicsApart, NEW w \in Workers, NEW n \in Nics,
           pc[w] = "poll", n \in todo[w], NEW r \in Completions(n)
    PROVE  /\ Owner(w, handle[r[1]]) = r[1] /\ r[1] \in Xfers /\ r \in Wrs
           /\ wr[r] = "ok"
<1>1. /\ r \in Wrs /\ wr[r] \in InCq /\ wr_at[r][1] = n /\ r[1] \in Xfers
      /\ wr[r] # "error"
  BY WrParts DEF Completions, AllInv, QInv, Calm
<1>2. Home[r[1]] = w
  <2>1. n \in CandNics[r[1]]
    BY <1>1 DEF AllInv, FInv, Local, InCq
  <2>2. PICK y \in Xfers : Home[y] = w /\ n \in CandNics[y]
    BY DEF AllInv, FInv, Local, NodeNics
  <2> QED BY <1>1, <2>1, <2>2 DEF NicsApart
<1>3. r[1] \in active_contexts[w]
  BY <1>1, <1>2 DEF AllInv, RInv, Busy, InFlight
<1>4. \A x \in active_contexts[w] : x \in Xfers /\ cpc[x] = "live"
  BY DEF AllInv, IInv, TypeOK, RInv, Busy
<1>5. {x \in active_contexts[w] : handle[x] = handle[r[1]]} = {r[1]}
  BY <1>3, <1>4, HoldersDiffer DEF AllInv
<1>6. Owner(w, handle[r[1]]) = r[1]
  <2> DEFINE mine == {x \in active_contexts[w] : handle[x] = handle[r[1]]}
  <2>1. mine # {} /\ (CHOOSE x \in mine : TRUE) = r[1]
    BY <1>5
  <2> QED BY <2>1 DEF Owner
<1> QED BY <1>1, <1>6 DEF InCq

\* A completion that is polled is credited to its poster.
LEMMA PollCredits ==
    ASSUME AllInv, NicsApart, NEW w \in Workers, NEW n \in Nics, PollWc(w, n)
    PROVE  \E r \in Wrs :
             /\ wr[r] = "ok" /\ r[1] \in Xfers /\ wr' = [wr EXCEPT ![r] = "done"]
             /\ total_completed' = [total_completed EXCEPT ![r[1]] = @ + 1]
             /\ UNCHANGED <<error_code, finished>>
<1>1. pc[w] = "poll" /\ n \in todo[w]
  BY DEF PollWc
<1>2. PICK r \in Completions(n) :
         LET x == Owner(w, handle[r[1]])
             bad == wr[r] = "error"
         IN  /\ wr' = [wr EXCEPT ![r] = IF bad THEN "failed" ELSE "done"]
             /\ ~ (x # None /\ bad) => UNCHANGED <<error_code, finished>>
             /\ total_completed' = IF x # None /\ ~bad
                                     THEN [total_completed EXCEPT ![x] = @ + 1]
                                     ELSE total_completed
  BY DEF PollWc
<1>3. Owner(w, handle[r[1]]) = r[1] /\ r[1] \in Xfers /\ r \in Wrs /\ wr[r] = "ok"
  BY <1>1, OwnerPosted
<1>4. /\ wr' = [wr EXCEPT ![r] = "done"] /\ UNCHANGED <<error_code, finished>>
      /\ total_completed' = [total_completed EXCEPT ![r[1]] = @ + 1]
  BY <1>2, <1>3, XferConstants
<1> QED BY <1>3, <1>4

LEMMA ResultPoll ==
    ASSUME AllInv, NicsApart, NEW w \in Workers, NEW n \in Nics, PollWc(w, n)
    PROVE  Busy' /\ Tally' /\ SuccessMeansDelivered'
<1>1. PICK r \in Wrs :
        /\ wr[r] = "ok" /\ r[1] \in Xfers /\ wr' = [wr EXCEPT ![r] = "done"]
        /\ total_completed' = [total_completed EXCEPT ![r[1]] = @ + 1]
        /\ UNCHANGED <<error_code, finished>>
  BY PollCredits
<1>2. UNCHANGED <<active_contexts, cpc>>
  BY DEF PollWc, startVars, clientVars
<1>3. wr \in [Wrs -> WrStates] /\ total_completed \in [Xfers -> Nat]
  BY DEF AllInv, IInv, TypeOK
<1>4. /\ wr'[r] = "done" /\ \A t \in Wrs : t # r => wr'[t] = wr[t]
  BY <1>1, <1>3
<1>5. Busy'
  BY <1>1, <1>2, <1>4 DEF AllInv, RInv, Busy, InFlight, InCq
<1>6. SuccessMeansDelivered'
  BY <1>1, <1>4, WrParts DEF AllInv, RInv, SuccessMeansDelivered
<1>7. Tally'
  <2> SUFFICES ASSUME NEW x \in Xfers
               PROVE  total_completed'[x] = Cardinality(DoneOf(x)')
    BY DEF Tally
  <2>1. total_completed[x] = Cardinality(DoneOf(x))
    BY DEF AllInv, RInv, Tally
  <2>2. CASE x # r[1]
    <3>1. \A c \in Chunks(x) : <<x, c>> \in Wrs /\ <<x, c>> # r
      BY <2>2, WrParts DEF Chunks
    <3>2. DoneOf(x)' = DoneOf(x)
      BY <1>4, <3>1 DEF DoneOf, Chunks
    <3> QED BY <1>1, <1>3, <2>1, <2>2, <3>2
  <2>3. CASE x = r[1]
    <3>1. PICK c \in Chunks(x) : r = <<x, c>>
      BY <1>1, <2>3 DEF Wrs, Chunks
    <3>2. \A d \in Chunks(x) : <<x, d>> \in Wrs /\ (d # c => <<x, d>> # r)
      BY <3>1, WrParts DEF Chunks
    <3>3. DoneOf(x)' = DoneOf(x) \cup {c} /\ c \notin DoneOf(x)
      BY <1>1, <1>4, <3>1, <3>2 DEF DoneOf, Chunks
    <3>4. Cardinality(DoneOf(x) \cup {c}) = Cardinality(DoneOf(x)) + 1
      BY <3>3, DoneFinite, FS_AddElement
    <3> QED BY <1>1, <1>3, <2>1, <2>3, <3>3, <3>4
  <2> QED BY <2>2, <2>3
<1> QED BY <1>5, <1>6, <1>7

\* A context leaves the active list when all of its chunks are done.
LEMMA ResultRetire ==
    ASSUME AllInv, NEW w \in Workers, NEW x \in Xfers, Retire(w, x)
    PROVE  Busy' /\ Tally' /\ SuccessMeansDelivered'
<1>1. /\ x \in todo[w] /\ pc[w] = "retire"
      /\ finished' = [finished EXCEPT ![x] = @ \/ AllCompleted(x)]
      /\ error_code' = [error_code EXCEPT
                          ![x] = IF ~finished[x] /\ AllCompleted(x) THEN "success" ELSE @]
      /\ active_contexts' = [active_contexts EXCEPT ![w] = IF Leaves(x) THEN @ \ {x} ELSE @]
      /\ UNCHANGED <<total_completed, wr, cpc>>
  BY DEF Retire, startVars, clientVars, wrVars
<1>2. /\ active_contexts \in [Workers -> SUBSET Xfers] /\ finished \in [Xfers -> BOOLEAN]
      /\ error_code \in [Xfers -> Codes] /\ wr \in [Wrs -> WrStates]
  BY DEF AllInv, IInv, TypeOK
<1>3. x \in active_contexts[w] /\ ~ finished[x] /\ Home[x] = w
  BY <1>1 DEF AllInv, QInv, LoopsActive, RInv, Busy, FInv, Local
<1>4. ASSUME AllCompleted(x)
      PROVE  \A c \in Chunks(x) : wr[<<x, c>>] = "done"
  <2>1. Cardinality(DoneOf(x)) >= TotalChunks[x]
    BY <1>4 DEF AllCompleted, AllInv, RInv, Tally
  <2>2. DoneOf(x) = Chunks(x)
    BY <2>1, DoneFinite
  <2> QED BY <2>2 DEF DoneOf
<1>5. CASE AllCompleted(x)
  <2>1. \A r \in Wrs : wr[r] \in InFlight => r[1] # x
    BY <1>4, <1>5 DEF Wrs, Chunks, InFlight, InCq
  <2>2. \A v \in Workers : /\ active_contexts'[v] \subseteq active_contexts[v]
                           /\ \A y \in active_contexts[v] : y # x => y \in active_contexts'[v]
    BY <1>1, <1>2
  <2>3. \A v \in Workers : x \notin active_contexts'[v]
    <3>1. \A v \in Workers : v # w => x \notin active_contexts[v]
      BY <1>3 DEF AllInv, FInv, Local
    <3>2. x \notin active_contexts'[w]
      BY <1>1, <1>2, <1>5 DEF Leaves
    <3> QED BY <2>2, <3>1, <3>2
  <2>4. \A y \in Xfers : y # x => finished'[y] = finished[y] /\ error_code'[y] = error_code[y]
    BY <1>1, <1>2
  <2>5. Busy'
    BY <1>1, <1>2, <2>1, <2>2, <2>3, <2>4, WrParts, XferConstants DEF AllInv, RInv, Busy
  <2>6. SuccessMeansDelivered'
    BY <1>1, <1>4, <1>5, <2>4 DEF AllInv, RInv, SuccessMeansDelivered, Chunks
  <2>7. Tally'
    BY <1>1 DEF AllInv, RInv, Tally, DoneOf
  <2> QED BY <2>5, <2>6, <2>7
<1>6. CASE ~ AllCompleted(x)
  <2>1. UNCHANGED <<finished, error_code, active_contexts>>
    BY <1>1, <1>2, <1>3, <1>6 DEF Leaves
  <2>2. Busy'
    BY <1>1, <2>1 DEF AllInv, RInv, Busy
  <2> QED BY <1>1, <2>1, <2>2, TallySame DEF AllInv
<1> QED BY <1>5, <1>6

LEMMA ResultWork ==
    ASSUME AllInv, NothingFails, NEW w \in Workers, Work(w)
    PROVE  Busy' /\ Tally' /\ SuccessMeansDelivered'
<1>1. /\ wr \in [Wrs -> WrStates] /\ active_contexts \in [Workers -> SUBSET Xfers]
      /\ next_chunk_idx \in [Xfers -> Nat]
  BY DEF AllInv, IInv, TypeOK
<1>2. UNCHANGED cpc
  BY EngineKeepsStart DEF Engine, startVars, clientVars
<1>3. NicsApart
  BY DEF NothingFails
<1>4. CASE Drain(w)
  <2>1. UNCHANGED <<total_completed, error_code, finished, wr>>
    BY <1>4 DEF Drain, ctxVars, wrVars
  <2>2. active_contexts' = [active_contexts EXCEPT
                              ![w] = @ \cup ({active_transfers[w][Head(queue[w])]} \ {None})]
    BY <1>4 DEF Drain
  <2>3. cpc[active_transfers[w][Head(queue[w])]] = "live"
        /\ ~ finished[active_transfers[w][Head(queue[w])]]
    <3>1. queue[w] \in Seq(Handles) /\ queue[w] # <<>>
      BY <1>4 DEF Drain, AllInv, IInv, TypeOK
    <3>2. Len(queue[w]) \in Nat \ {0} /\ Head(queue[w]) = queue[w][1]
      BY <3>1, EmptySeq, HeadTailProperties
    <3>3. PICK x \in Xfers : Waiting(x, w, queue[w][1])
      BY <3>2 DEF AllInv, QInv, Queued
    <3> QED BY <3>2, <3>3 DEF Waiting, AllInv, QInv, Filed
  <2> DEFINE y == active_transfers[w][Head(queue[w])]
  <2> HIDE DEF y
  <2>4. ASSUME NEW v \in Workers
        PROVE  /\ active_contexts[v] \subseteq active_contexts'[v]
               /\ \A x \in active_contexts'[v] : x \in active_contexts[v] \/ x = y
    <3>1. active_contexts' = [active_contexts EXCEPT ![w] = @ \cup ({y} \ {None})]
      BY <2>2 DEF y
    <3> QED BY <1>1, <3>1
  <2>5. cpc[y] = "live" /\ ~ finished[y]
    BY <2>3 DEF y
  <2>6. Busy'
    BY <1>2, <2>1, <2>4, <2>5, WrParts, XferConstants DEF AllInv, RInv, Busy
  <2> QED BY <2>1, <2>6, TallySame DEF AllInv
<1>5. ASSUME NEW x \in Xfers, PostChunk(w, x)
      PROVE  Busy' /\ Tally' /\ SuccessMeansDelivered'
  <2> DEFINE r == <<x, next_chunk_idx[x]>>
  <2>1. /\ wr' = [wr EXCEPT ![r] = "sent"] /\ pc[w] = "post" /\ x \in todo[w]
        /\ next_chunk_idx[x] < TotalChunks[x]
        /\ UNCHANGED <<total_completed, error_code, finished, active_contexts>>
    BY <1>5 DEF PostChunk, Posting, workerVars
  <2>2. next_chunk_idx[x] \in 0..(TotalChunks[x] - 1)
    BY <1>1, <2>1, XferConstants
  <2>3. r \in Wrs /\ wr[r] = "todo" /\ r[1] = x
    BY <1>1, <2>2, WrParts DEF AllInv, FInv, Fresh
  <2>4. x \in active_contexts[w] /\ Home[x] = w
    BY <2>1 DEF AllInv, QInv, LoopsActive, FInv, Local
  <2> HIDE DEF r
  <2>5. /\ wr'[r] = "sent" /\ \A t \in Wrs : t # r => wr'[t] = wr[t]
    BY <1>1, <2>1, <2>3
  <2>6. Busy'
    BY <1>2, <2>1, <2>3, <2>4, <2>5 DEF AllInv, RInv, Busy
  <2>7. \A t \in Wrs : wr'[t] = "done" <=> wr[t] = "done"
    BY <2>3, <2>5
  <2> QED BY <2>1, <2>6, <2>7, TallySame DEF AllInv
<1>6. ASSUME UNCHANGED <<total_completed, error_code, finished, active_contexts, wr>>
      PROVE  Busy' /\ Tally' /\ SuccessMeansDelivered'
  BY <1>2, <1>6, TallySame DEF AllInv, RInv, Busy
<1>7. CASE StartPass(w) \/ StartPoll(w) \/ StartRetire(w) \/ EndPass(w) \/ EndProbe(w)
  BY <1>6, <1>7 DEF StartPass, StartPoll, StartRetire, EndPass, EndProbe, ctxVars, wrVars
<1>8. ASSUME NEW x \in Xfers, PostBreak(w, x)
      PROVE  Busy' /\ Tally' /\ SuccessMeansDelivered'
  BY <1>6, <1>8 DEF PostBreak, PostUnchanged, wrVars
<1>9. ASSUME NEW n \in Nics, PollEmpty(w, n)
      PROVE  Busy' /\ Tally' /\ SuccessMeansDelivered'
  BY <1>6, <1>9 DEF PollEmpty, ctxVars, wrVars
<1>10. ASSUME NEW n \in Nics, ProbeDown(w, n) \/ ProbeUp(w, n) \/ ProbeRefused(w, n)
       PROVE  FALSE
  BY <1>10 DEF ProbeDown, ProbeUp, ProbeRefused, DueNics, AllInv, FInv, NoQuarantine
<1> QED BY <1>3, <1>4, <1>5, <1>7, <1>8, <1>9, <1>10, NoRejection, ResultPoll, ResultRetire
       DEF Work

LEMMA ResultEngine ==
    ASSUME AllInv, NothingFails, Engine
    PROVE  RInv'
<1>1. UNCHANGED <<cpc, active_transfers, freed>>
  BY EngineKeepsStart DEF startVars, clientVars, mapVars
<1>2. Destroyed'
  BY <1>1 DEF AllInv, RInv, Destroyed
<1>3. ASSUME NEW r \in Wrs, NicStep(r) \/ NicFault(r)
      PROVE  Busy' /\ Tally' /\ SuccessMeansDelivered'
  <2>1. wr \in [Wrs -> WrStates]
    BY DEF AllInv, IInv, TypeOK
  <2>2. /\ wr[r] = "sent" /\ \E state \in InCq : wr' = [wr EXCEPT ![r] = state]
        /\ UNCHANGED <<total_completed, error_code, finished, active_contexts>>
    BY <1>3 DEF NicStep, NicFault, NicDeliver, NicFlush, NicRetriesExhausted, FailWr,
                NicUnchanged, InCq, ctxVars, workerVars
  <2>3. \A s \in Wrs : /\ wr'[s] \in InFlight <=> wr[s] \in InFlight
                       /\ wr'[s] = "done" <=> wr[s] = "done"
    BY <2>1, <2>2 DEF InFlight, InCq
  <2>4. Busy'
    BY <1>1, <2>2, <2>3 DEF AllInv, RInv, Busy
  <2> QED BY <2>2, <2>3, <2>4, TallySame DEF AllInv
<1>4. ASSUME NEW n \in Nics, PortChange(n) \/ QuarantineElapses(n)
      PROVE  Busy' /\ Tally' /\ SuccessMeansDelivered'
  <2>1. UNCHANGED <<total_completed, error_code, finished, active_contexts, wr>>
    BY <1>4 DEF PortChange, QuarantineElapses, ctxVars, workerVars, wrVars
  <2>2. Busy'
    BY <1>1, <2>1 DEF AllInv, RInv, Busy
  <2> QED BY <2>1, <2>2, TallySame DEF AllInv
<1>5. ASSUME NEW w \in Workers, NEW n \in Nics, PollFatal(w, n)
      PROVE  FALSE
  BY <1>5 DEF PollFatal, AllInv, FInv, Calm
<1>6. Busy' /\ Tally' /\ SuccessMeansDelivered'
  BY <1>3, <1>4, <1>5, ResultWork DEF Engine, Fault
<1> QED BY <1>2, <1>6 DEF RInv

-----------------------------------------------------------------------------
(* The invariant, and the theorems.                                         *)

LEMMA InitResult ==
    ASSUME NothingFails
    PROVE  Init => AllInv
<1> SUFFICES ASSUME Init PROVE AllInv
  OBVIOUS
<1>1. IInv /\ QInv /\ FInv
  BY InitInvariant, InitQueue, InitFlow DEF NothingFails
<1>2. Busy /\ Destroyed /\ SuccessMeansDelivered
  BY WrParts DEF Init, Busy, Destroyed, SuccessMeansDelivered, InFlight, InCq
<1>3. Tally
  <2> SUFFICES ASSUME NEW x \in Xfers
               PROVE  total_completed[x] = Cardinality(DoneOf(x))
    BY DEF Tally
  <2>1. DoneOf(x) = {}
    BY WrParts DEF Init, DoneOf, Chunks
  <2> QED BY <2>1, FS_EmptySet DEF Init
<1> QED BY <1>1, <1>2, <1>3 DEF AllInv, RInv

LEMMA StepResult ==
    ASSUME NothingFails, AllInv, [Next]_vars
    PROVE  AllInv'
<1>1. IInv' /\ QInv' /\ FInv'
  BY StepInvariant, StepQueue, StepFlow DEF AllInv, NothingFails
<1>2. CASE UNCHANGED vars
  <2>1. /\ UNCHANGED <<cpc, active_transfers, freed, active_contexts, wr>>
        /\ UNCHANGED <<total_completed, error_code, finished>>
    BY <1>2 DEF vars, startVars, clientVars, mapVars, ctxVars, workerVars, wrVars
  <2>2. Busy' /\ Destroyed'
    BY <2>1 DEF AllInv, RInv, Busy, Destroyed
  <2> QED BY <1>1, <2>1, <2>2, TallySame DEF AllInv, RInv
<1>3. CASE (\E x \in Xfers : Client(x)) \/ Engine
  <2>1. RInv'
    BY <1>3, ResultClient, ResultEngine DEF NothingFails
  <2> QED BY <1>1, <2>1 DEF AllInv
<1> QED BY <1>2, <1>3, NextIsClientOrEngine

LEMMA ResultsAlways == ASSUME NothingFails PROVE Spec => []AllInv
<1>1. Init => AllInv
  BY InitResult
<1>2. AllInv /\ [Next]_vars => AllInv'
  BY StepResult
<1> QED BY <1>1, <1>2, PTL DEF Spec

\* As long as nothing fails, a transfer that is reported as MPCOMM_SUCCESS had all
\* of its chunks delivered, however often its handle was used before.
THEOREM SuccessAlwaysDelivered ==
    ASSUME NothingFails
    PROVE  Spec => []SuccessMeansDelivered
<1>1. AllInv => SuccessMeansDelivered
  BY DEF AllInv, RInv
<1> QED BY <1>1, ResultsAlways, PTL

\* As long as nothing fails, no worker keeps the pointer of a destroyed context.
THEOREM NeverDangling ==
    ASSUME NothingFails
    PROVE  Spec => []NoDanglingContext
<1>1. AllInv => NoDanglingContext
  BY DanglingHolds DEF AllInv
<1> QED BY <1>1, ResultsAlways, PTL

\* Only a poll turns a completion in a queue into one that is done.
LEMMA DoneIsPolled ==
    ASSUME IInv, [Next]_vars, NEW r \in Wrs, wr[r] \in InCq, wr'[r] = "done"
    PROVE  \E w \in Workers, n \in Nics : PollWc(w, n)
<1> SUFFICES ASSUME ~ \E w \in Workers, n \in Nics : PollWc(w, n)
             PROVE  FALSE
  OBVIOUS
<1>1. wr \in [Wrs -> WrStates] /\ wr'[r] # wr[r]
  BY DEF IInv, TypeOK, InCq
<1>2. ASSUME NEW x \in Xfers, Client(x)
      PROVE  UNCHANGED wr
  BY <1>2 DEF Client, StartAllocate, StartStore, StartRoute, StartSubmit, WaitReturn,
              WaitTimeout, ReleaseRoute, ReleaseContext, ReleaseUnknown, wrVars
<1>3. ASSUME NEW w \in Workers, Work(w)
      PROVE  wr'[r] \in {wr[r], "sent", "lost"}
  <2>1. CASE \E x \in Xfers : PostChunk(w, x)
    BY <1>1, <2>1 DEF PostChunk
  <2>2. CASE \E n \in Nics : ProbeUp(w, n) \/ ProbeRefused(w, n)
    BY <1>1, <2>2 DEF ProbeUp, ProbeRefused
  <2>3. CASE /\ ~ \E x \in Xfers : PostChunk(w, x)
             /\ ~ \E n \in Nics : ProbeUp(w, n) \/ ProbeRefused(w, n)
    <3>1. UNCHANGED wrVars
      BY <1>3, <2>3 DEF Work, Drain, StartPass, StartPoll, StartRetire, EndPass, EndProbe,
         PostUnroutable, PostRejected, PostBreak, PostUnchanged, Retire, PollEmpty, ProbeDown
    <3> QED BY <3>1 DEF wrVars
  <2> QED BY <2>1, <2>2, <2>3
<1>4. ASSUME NEW s \in Wrs, NicStep(s) \/ NicFault(s)
      PROVE  wr'[r] \in {wr[r], "ok", "error"}
  BY <1>1, <1>4 DEF NicStep, NicFault, NicDeliver, NicFlush, NicRetriesExhausted, FailWr
<1>5. ASSUME NEW n \in Nics, PortChange(n) \/ QuarantineElapses(n)
      PROVE  UNCHANGED wr
  BY <1>5 DEF PortChange, QuarantineElapses, wrVars
<1>6. ASSUME NEW w \in Workers, NEW n \in Nics, PollFatal(w, n)
      PROVE  UNCHANGED wr
  BY <1>6 DEF PollFatal, wrVars
<1>7. CASE UNCHANGED vars
  BY <1>1, <1>7 DEF vars, wrVars
<1> QED BY <1>1, <1>2, <1>3, <1>4, <1>5, <1>6, <1>7 DEF Next, Fault

\* As long as nothing fails, each completion that is polled is credited to the
\* transfer that posted it, also when two workers poll at once.
THEOREM CompletionsAlwaysReachOwner ==
    ASSUME NothingFails
    PROVE  Spec => CompletionsReachOwner
<1>1. AllInv /\ [Next]_vars =>
             [\A r \in Wrs : wr[r] \in InCq /\ wr'[r] = "done" /\ r[1] \notin freed =>
                total_completed'[r[1]] = total_completed[r[1]] + 1]_vars
  <2> SUFFICES ASSUME AllInv, [Next]_vars, NEW r \in Wrs, wr[r] \in InCq, wr'[r] = "done"
               PROVE  total_completed'[r[1]] = total_completed[r[1]] + 1
    OBVIOUS
  <2>1. /\ wr \in [Wrs -> WrStates] /\ total_completed \in [Xfers -> Nat]
        /\ wr[r] # "done" /\ NicsApart
    BY DEF AllInv, IInv, TypeOK, InCq, NothingFails
  <2>2. PICK w \in Workers, n \in Nics : PollWc(w, n)
    BY DoneIsPolled DEF AllInv
  <2>3. PICK s \in Wrs :
          /\ wr[s] = "ok" /\ s[1] \in Xfers /\ wr' = [wr EXCEPT ![s] = "done"]
          /\ total_completed' = [total_completed EXCEPT ![s[1]] = @ + 1]
    BY <2>1, <2>2, PollCredits
  <2>4. s = r
    BY <2>1, <2>3
  <2> QED BY <2>1, <2>3, <2>4
<1> QED BY <1>1, ResultsAlways, PTL DEF Spec, CompletionsReachOwner

-----------------------------------------------------------------------------
(* With faults, borrowed NICs and missing routes: what is counted, and what *)
(* a NIC holds.                                                             *)

\* The counter of a transfer never runs ahead of what was delivered.
Credited == \A x \in Xfers : total_completed[x] <= Cardinality(DoneOf(x))

\* A transfer that failed for a chunk has that chunk.
Blamed ==
    \A x \in Xfers :
        /\ error_code[x] = "connection" => \E r \in NoRoute : r[1] = x
        /\ error_code[x] = "completion" => \E c \in Chunks(x) : wr[<<x, c>>] = "failed"

KInv == Fresh /\ Credited /\ SuccessMeansDelivered /\ Blamed

\* The places below the limits of the workers on NIC n: one for every request a
\* worker may still post before its counter is full.
Room(n) == UNION {{w} \X ((nic_out[w][n] + 1)..MaxOutstandingPerNic) : w \in Workers}

\* What a NIC holds and what the workers may still post to it are together no more
\* than the sum of their limits, although a worker's counter alone may be wrong.
RoomLeft ==
    \A n \in Nics :
        /\ IsFiniteSet(WrsOn(n)) /\ IsFiniteSet(Room(n))
        /\ Cardinality(WrsOn(n)) + Cardinality(Room(n))
             <= MaxOutstandingPerNic * Cardinality(Workers)

\* A post is rejected only by a send queue that is shallower than those limits.
ShallowQueue ==
    \A x \in Xfers : error_code[x] = "post" =>
        MaxSendWr < MaxOutstandingPerNic * Cardinality(Workers)

Posts == \E w \in Workers, x \in Xfers : PostChunk(w, x)
Polls == \E w \in Workers, n \in Nics : PollWc(w, n)

\* What a step that neither posts nor polls does to the work requests: they advance
\* on the NIC, or are lost in a reset.
LEMMA WrFrame ==
    ASSUME IInv, [Next]_vars, ~ Posts, ~ Polls
    PROVE  /\ UNCHANGED <<next_chunk_idx, total_completed, nic_out, wr_at>>
           /\ \A r \in Wrs : \/ wr'[r] = wr[r]
                             \/ wr[r] \in InFlight /\ wr'[r] \in InFlight \cup {"lost"}
<1>1. wr \in [Wrs -> WrStates]
  BY DEF IInv, TypeOK
<1>2. ASSUME NEW x \in Xfers, Client(x)
      PROVE  UNCHANGED <<next_chunk_idx, total_completed, nic_out, wr_at, wr>>
  BY <1>2 DEF Client, StartAllocate, StartStore, StartRoute, StartSubmit, WaitReturn,
              WaitTimeout, ReleaseRoute, ReleaseContext, ReleaseUnknown, wrVars,
              countVars, ctxVars
<1>3. ASSUME NEW w \in Workers, Work(w)
      PROVE  /\ UNCHANGED <<next_chunk_idx, total_completed, nic_out, wr_at>>
             /\ \A r \in Wrs : wr'[r] = wr[r] \/ (wr[r] \in InFlight /\ wr'[r] = "lost")
  <2>1. CASE \E n \in Nics : ProbeUp(w, n) \/ ProbeRefused(w, n)
    <3>1. UNCHANGED <<next_chunk_idx, total_completed, nic_out, wr_at>>
      BY <2>1 DEF ProbeUp, ProbeRefused, ctxVars, countVars
    <3>2. \A r \in Wrs : wr'[r] = wr[r] \/ (wr[r] \in InFlight /\ wr'[r] = "lost")
      <4>1. PICK n \in Nics : ProbeUp(w, n) \/ ProbeRefused(w, n)
        BY <2>1
      <4>2. \E S \in SUBSET WrsOn(n) :
               wr' = [r \in Wrs |-> IF r \in S THEN "lost" ELSE wr[r]]
        <5>1. CASE ProbeUp(w, n)
          BY <5>1 DEF ProbeUp
        <5>2. CASE ProbeRefused(w, n)
          <6>1. PICK reset \in SUBSET Qps :
                  wr' = [r \in Wrs |-> IF r \in WrsOn(n) /\ PhysQp(wr_at[r][2]) \in reset
                                          THEN "lost" ELSE wr[r]]
            BY <5>2 DEF ProbeRefused
          <6> DEFINE S == {r \in WrsOn(n) : PhysQp(wr_at[r][2]) \in reset}
          <6>2. wr' = [r \in Wrs |-> IF r \in S THEN "lost" ELSE wr[r]] /\ S \in SUBSET WrsOn(n)
            BY <6>1
          <6> QED BY <6>2
        <5> QED BY <4>1, <5>1, <5>2
      <4>3. \A r \in WrsOn(n) : wr[r] \in InFlight
        BY DEF WrsOn
      <4> QED BY <4>2, <4>3
    <3> QED BY <3>1, <3>2
  <2>2. CASE ~ \E n \in Nics : ProbeUp(w, n) \/ ProbeRefused(w, n)
    <3>1. UNCHANGED <<next_chunk_idx, total_completed, countVars, wrVars>>
      BY <1>3, <2>2 DEF Posts, Polls, Work, Drain, StartPass, StartPoll, StartRetire,
         EndPass, EndProbe, PostUnroutable, PostRejected, PostBreak, PostUnchanged, Retire,
         PollEmpty, ProbeDown, ctxVars
    <3>2. UNCHANGED <<next_chunk_idx, total_completed, nic_out, wr_at>>
      BY <3>1 DEF countVars, wrVars
    <3>3. UNCHANGED wr
      BY <3>1 DEF wrVars
    <3> QED BY <3>2, <3>3
  <2> QED BY <2>1, <2>2
<1>4. ASSUME NEW s \in Wrs, NicStep(s) \/ NicFault(s)
      PROVE  /\ UNCHANGED <<next_chunk_idx, total_completed, nic_out, wr_at>>
             /\ \A r \in Wrs : wr'[r] = wr[r] \/ (wr[r] \in InFlight /\ wr'[r] \in InFlight)
  <2>1. UNCHANGED <<next_chunk_idx, total_completed, nic_out, wr_at>>
    BY <1>4 DEF NicStep, NicFault, NicDeliver, NicFlush, NicRetriesExhausted, FailWr,
                NicUnchanged, ctxVars, countVars
  <2>2. wr[s] = "sent" /\ \E state \in InCq : wr' = [wr EXCEPT ![s] = state]
    BY <1>4 DEF NicStep, NicFault, NicDeliver, NicFlush, NicRetriesExhausted, FailWr, InCq
  <2>3. \A r \in Wrs : wr'[r] = wr[r] \/ (wr[r] \in InFlight /\ wr'[r] \in InFlight)
    <3>1. PICK state \in InCq : wr' = [wr EXCEPT ![s] = state]
      BY <2>2
    <3>2. wr'[s] = state /\ \A r \in Wrs : r # s => wr'[r] = wr[r]
      BY <1>1, <3>1
    <3> QED BY <2>2, <3>1, <3>2 DEF InFlight
  <2> QED BY <2>1, <2>3
<1>5. ASSUME NEW n \in Nics, PortChange(n) \/ QuarantineElapses(n)
      PROVE  UNCHANGED <<next_chunk_idx, total_completed, nic_out, wr_at, wr>>
  BY <1>5 DEF PortChange, QuarantineElapses, wrVars, countVars, ctxVars
<1>6. ASSUME NEW w \in Workers, NEW n \in Nics, PollFatal(w, n)
      PROVE  UNCHANGED <<next_chunk_idx, total_completed, nic_out, wr_at, wr>>
  BY <1>6 DEF PollFatal, wrVars, countVars
<1>7. CASE UNCHANGED vars
  BY <1>7 DEF vars, wrVars, countVars, ctxVars
<1> QED BY <1>2, <1>3, <1>4, <1>5, <1>6, <1>7 DEF Next, Fault

\* Who may change the code of a transfer, besides a completion.
LEMMA CodeFrame ==
    ASSUME IInv, [Next]_vars, ~ Polls, NEW x \in Xfers, error_code'[x] # error_code[x]
    PROVE  \/ error_code'[x] = "success" /\ (TotalChunks[x] = 0 \/ AllCompleted(x))
           \/ error_code'[x] = "connection" /\ <<x, next_chunk_idx[x]>> \in NoRoute
           \/ error_code'[x] = "post" /\ \E w \in Workers : PostRejected(w, x)
           \/ error_code'[x] = "poll"
<1>1. error_code \in [Xfers -> Codes]
  BY DEF IInv, TypeOK
<1>2. ASSUME NEW y \in Xfers, Client(y)
      PROVE  error_code'[x] = "success" /\ TotalChunks[x] = 0
  BY <1>1, <1>2 DEF Client, StartAllocate, StartStore, StartRoute, StartSubmit, WaitReturn,
              WaitTimeout, ReleaseRoute, ReleaseContext, ReleaseUnknown, ctxVars
<1>3. ASSUME NEW w \in Workers, Work(w)
      PROVE  \E y \in Xfers : PostUnroutable(w, y) \/ PostRejected(w, y) \/ Retire(w, y)
  <2> SUFFICES ASSUME ~ \E y \in Xfers : \/ PostUnroutable(w, y) \/ PostRejected(w, y)
                                         \/ Retire(w, y)
               PROVE  UNCHANGED error_code
    OBVIOUS
  <2> QED
    BY <1>3 DEF Polls, Work, Drain, StartPass, StartPoll, StartRetire, EndPass, EndProbe,
       PostChunk, PostBreak, PollEmpty, ProbeDown, ProbeUp, ProbeRefused, ctxVars
<1>4. ASSUME NEW w \in Workers, NEW y \in Xfers, PostUnroutable(w, y)
      PROVE  error_code'[x] = "connection" /\ <<x, next_chunk_idx[x]>> \in NoRoute
  BY <1>1, <1>4 DEF PostUnroutable, Fail
<1>5. ASSUME NEW w \in Workers, NEW y \in Xfers, PostRejected(w, y)
      PROVE  error_code'[x] = "post" /\ PostRejected(w, x)
  <2>1. error_code' = [error_code EXCEPT ![y] = "post"]
    BY <1>5 DEF PostRejected, Fail
  <2>2. x = y /\ error_code'[x] = "post"
    BY <1>1, <2>1
  <2> QED BY <1>5, <2>2
<1>6. ASSUME NEW w \in Workers, NEW y \in Xfers, Retire(w, y)
      PROVE  error_code'[x] = "success" /\ AllCompleted(x)
  <2>1. error_code' = [error_code EXCEPT
                         ![y] = IF ~finished[y] /\ AllCompleted(y) THEN "success" ELSE @]
    BY <1>6 DEF Retire
  <2> QED BY <1>1, <2>1
<1>7. ASSUME NEW r \in Wrs, NicStep(r) \/ NicFault(r)
      PROVE  UNCHANGED error_code
  BY <1>7 DEF NicStep, NicFault, NicDeliver, NicFlush, NicRetriesExhausted, FailWr,
              NicUnchanged, ctxVars
<1>8. ASSUME NEW n \in Nics, PortChange(n) \/ QuarantineElapses(n)
      PROVE  UNCHANGED error_code
  BY <1>8 DEF PortChange, QuarantineElapses, ctxVars
<1>9. ASSUME NEW w \in Workers, NEW n \in Nics, PollFatal(w, n)
      PROVE  error_code'[x] = "poll"
  BY <1>9 DEF PollFatal
<1>10. CASE UNCHANGED vars
  BY <1>10 DEF vars, ctxVars
<1> QED BY <1>2, <1>3, <1>4, <1>5, <1>6, <1>7, <1>8, <1>9, <1>10 DEF Next, Fault

\* The chunk that is posted was never posted before.
LEMMA PostsNext ==
    ASSUME IInv, Fresh, Posts
    PROVE  \E w \in Workers, x \in Xfers, s \in Nics \X Qps :
             LET r == <<x, next_chunk_idx[x]>>
             IN  /\ next_chunk_idx[x] \in Chunks(x) /\ r \in Wrs /\ wr[r] = "todo"
                 /\ wr' = [wr EXCEPT ![r] = "sent"] /\ wr_at' = [wr_at EXCEPT ![r] = s]
                 /\ next_chunk_idx' = [next_chunk_idx EXCEPT ![x] = @ + 1]
                 /\ nic_out' = [nic_out EXCEPT ![w][s[1]] = @ + 1]
                 /\ nic_out[w][s[1]] \in 0..(MaxOutstandingPerNic - 1)
                 /\ UNCHANGED total_completed
<1>1. PICK w \in Workers, x \in Xfers : PostChunk(w, x)
  BY DEF Posts
<1>2. next_chunk_idx[x] \in Nat /\ TotalChunks[x] \in Nat /\ CtxType
  BY XferConstants, TypeParts DEF IInv, TypeOK
<1>3. next_chunk_idx[x] < TotalChunks[x]
  BY <1>1 DEF PostChunk, Posting
<1>4. next_chunk_idx[x] \in 0..(TotalChunks[x] - 1)
  BY <1>2, <1>3
<1>5. <<x, next_chunk_idx[x]>> \in Wrs /\ wr[<<x, next_chunk_idx[x]>>] = "todo"
  BY <1>2, <1>4, WrParts DEF Fresh
<1>6. PICK s \in Slots(w, x) :
         /\ wr_at' = [wr_at EXCEPT ![<<x, next_chunk_idx[x]>>] = s]
         /\ nic_out' = [nic_out EXCEPT ![w][s[1]] = @ + 1]
  BY <1>1 DEF PostChunk
<1>7. s \in Nics \X Qps /\ nic_out[w][s[1]] \in 0..(MaxOutstandingPerNic - 1)
  BY <1>2, SlotsArePlaces DEF Slots, OpenNics
<1>8. /\ wr' = [wr EXCEPT ![<<x, next_chunk_idx[x]>>] = "sent"]
      /\ next_chunk_idx' = [next_chunk_idx EXCEPT ![x] = @ + 1]
      /\ UNCHANGED total_completed
  BY <1>1 DEF PostChunk
<1> QED BY <1>4, <1>5, <1>6, <1>7, <1>8 DEF Chunks

\* A completion that is polled was in a queue, and is then done or failed.
LEMMA PollsOne ==
    ASSUME IInv, Polls
    PROVE  \E w \in Workers, r \in Wrs :
             LET x == Owner(w, handle[r[1]])
                 bad == wr[r] = "error"
             IN  /\ wr[r] \in InCq /\ wr_at[r][1] \in Nics
                 /\ wr' = [wr EXCEPT ![r] = IF bad THEN "failed" ELSE "done"]
                 /\ nic_out' = [nic_out EXCEPT ![w][wr_at[r][1]] = @ - 1]
                 /\ IF x # None /\ bad THEN Fail(x, "completion")
                                       ELSE UNCHANGED error_code
                 /\ total_completed' = IF x # None /\ ~bad
                                         THEN [total_completed EXCEPT ![x] = @ + 1]
                                         ELSE total_completed
                 /\ UNCHANGED <<wr_at, next_chunk_idx>>
<1>1. PICK w \in Workers, n \in Nics : PollWc(w, n)
  BY DEF Polls
<1>2. PICK r \in Completions(n) :
         LET x == Owner(w, handle[r[1]])
             bad == wr[r] = "error"
         IN  /\ wr' = [wr EXCEPT ![r] = IF bad THEN "failed" ELSE "done"]
             /\ nic_out' = [nic_out EXCEPT ![w][wr_at[r][1]] = @ - 1]
             /\ IF x # None /\ bad THEN Fail(x, "completion")
                                   ELSE UNCHANGED error_code
             /\ total_completed' = IF x # None /\ ~bad
                                     THEN [total_completed EXCEPT ![x] = @ + 1]
                                     ELSE total_completed
  BY <1>1 DEF PollWc, CountCompletion
<1>3. r \in Wrs /\ wr[r] \in InCq /\ wr_at[r][1] = n
  BY DEF Completions
<1>4. UNCHANGED <<wr_at, next_chunk_idx>>
  BY <1>1 DEF PollWc
<1> QED BY <1>2, <1>3, <1>4, Zenon

\* Chunks are posted in order, each once, whatever fails.
LEMMA FreshStep ==
    ASSUME IInv, Fresh, [Next]_vars
    PROVE  Fresh'
<1>1. wr \in [Wrs -> WrStates] /\ next_chunk_idx \in [Xfers -> Nat]
  BY DEF IInv, TypeOK
<1>2. CASE Posts
  <2>1. PICK x \in Xfers :
          /\ next_chunk_idx[x] \in Chunks(x) /\ <<x, next_chunk_idx[x]>> \in Wrs
          /\ wr' = [wr EXCEPT ![<<x, next_chunk_idx[x]>>] = "sent"]
          /\ next_chunk_idx' = [next_chunk_idx EXCEPT ![x] = @ + 1]
    BY <1>2, PostsNext
  <2> SUFFICES ASSUME NEW y \in Xfers, NEW c \in 0..(TotalChunks[y] - 1),
                      next_chunk_idx'[y] <= c
               PROVE  wr'[<<y, c>>] = "todo"
    BY DEF Fresh
  <2>2. next_chunk_idx[y] <= c /\ <<y, c>> # <<x, next_chunk_idx[x]>>
    <3>1. CASE y = x
      <4>1. next_chunk_idx'[y] = next_chunk_idx[x] + 1
        BY <1>1, <2>1, <3>1
      <4>2. c \in Int /\ next_chunk_idx[x] \in Nat
        BY <1>1
      <4>3. next_chunk_idx[x] + 1 <= c
        BY <4>1
      <4>4. next_chunk_idx[y] <= c /\ c # next_chunk_idx[x]
        BY <3>1, <4>2, <4>3
      <4> QED BY <4>4
    <3>2. CASE y # x
      BY <1>1, <2>1, <3>2
    <3> QED BY <3>1, <3>2
  <2>3. <<y, c>> \in Wrs /\ wr[<<y, c>>] = "todo"
    BY <2>2, WrParts DEF Fresh
  <2> QED BY <1>1, <2>1, <2>2, <2>3
<1>3. CASE Polls
  <2>1. PICK r \in Wrs :
          /\ wr[r] \in InCq /\ UNCHANGED next_chunk_idx
          /\ wr' = [wr EXCEPT ![r] = IF wr[r] = "error" THEN "failed" ELSE "done"]
    BY <1>3, PollsOne
  <2>2. \A s \in Wrs : wr[s] = "todo" => wr'[s] = "todo"
    BY <1>1, <2>1 DEF InCq
  <2> QED BY <2>1, <2>2, WrParts DEF Fresh
<1>4. CASE ~ Posts /\ ~ Polls
  <2>1. UNCHANGED next_chunk_idx /\ \A s \in Wrs : wr[s] = "todo" => wr'[s] = "todo"
    BY <1>4, WrFrame DEF InFlight, InCq
  <2> QED BY <2>1, WrParts DEF Fresh
<1> QED BY <1>2, <1>3, <1>4

-----------------------------------------------------------------------------
(* The limits of all the workers on a NIC.                                  *)

\* The members of Room: where a worker's counter stands, and below the limit.
LEMMA RoomParts ==
    /\ \A n, p : p \in Room(n) <=>
         \E w \in Workers : \E k \in (nic_out[w][n] + 1)..MaxOutstandingPerNic : p = <<w, k>>
    /\ \A n, w, k : <<w, k>> \in Room(n) <=>
         w \in Workers /\ k \in (nic_out[w][n] + 1)..MaxOutstandingPerNic
BY DEF Room

\* A post takes one place, a poll gives one back.
LEMMA RoomMoves ==
    ASSUME IInv, NEW w \in Workers, NEW n \in Nics
    PROVE  /\ /\ nic_out' = [nic_out EXCEPT ![w][n] = @ + 1]
              /\ nic_out[w][n] \in 0..(MaxOutstandingPerNic - 1)
              => /\ <<w, nic_out[w][n] + 1>> \in Room(n)
                 /\ Room(n)' = Room(n) \ {<<w, nic_out[w][n] + 1>>}
                 /\ \A m \in Nics : m # n => Room(m)' = Room(m)
           /\ nic_out' = [nic_out EXCEPT ![w][n] = @ - 1]
              => /\ Room(n)' \in SUBSET (Room(n) \cup {<<w, nic_out[w][n]>>})
                 /\ \A m \in Nics : m # n => Room(m)' = Room(m)
<1>1. /\ nic_out \in [Workers -> [Nics -> Int]] /\ MaxOutstandingPerNic \in Nat
      /\ nic_out[w][n] \in Int
  BY MaxPerNicNat DEF IInv, TypeOK
<1>2. ASSUME NEW d \in {1, -1}, nic_out' = [nic_out EXCEPT ![w][n] = @ + d]
      PROVE  \A v \in Workers, m \in Nics :
               nic_out'[v][m] = IF v = w /\ m = n THEN nic_out[v][m] + d ELSE nic_out[v][m]
  BY <1>1, <1>2
<1>3. ASSUME NEW d \in {1, -1}, nic_out' = [nic_out EXCEPT ![w][n] = @ + d],
             NEW m \in Nics, m # n
      PROVE  Room(m)' = Room(m)
  <2>1. \A v \in Workers : nic_out'[v][m] = nic_out[v][m]
    BY <1>2, <1>3
  <2> QED BY <2>1 DEF Room
<1>4. ASSUME nic_out' = [nic_out EXCEPT ![w][n] = @ + 1],
             nic_out[w][n] \in 0..(MaxOutstandingPerNic - 1)
      PROVE  /\ <<w, nic_out[w][n] + 1>> \in Room(n)
             /\ Room(n)' = Room(n) \ {<<w, nic_out[w][n] + 1>>}
  <2>1. \A v \in Workers : nic_out'[v][n] = IF v = w THEN nic_out[v][n] + 1 ELSE nic_out[v][n]
    BY <1>2, <1>4
  <2>2. <<w, nic_out[w][n] + 1>> \in Room(n)
    <3>1. nic_out[w][n] + 1 \in (nic_out[w][n] + 1)..MaxOutstandingPerNic
      BY <1>1, <1>4
    <3> QED BY <3>1, RoomParts
  <2>3. ASSUME NEW v \in Workers, NEW k
        PROVE  k \in (nic_out'[v][n] + 1)..MaxOutstandingPerNic <=>
                 /\ k \in (nic_out[v][n] + 1)..MaxOutstandingPerNic
                 /\ <<v, k>> # <<w, nic_out[w][n] + 1>>
    <3>1. nic_out[v][n] \in Int
      BY <1>1
    <3>2. CASE v = w
      BY <1>1, <2>1, <3>2
    <3>3. CASE v # w
      BY <2>1, <3>3
    <3> QED BY <3>2, <3>3
  <2>4. \A p : p \in Room(n)' <=> p \in Room(n) /\ p # <<w, nic_out[w][n] + 1>>
    BY <2>3 DEF Room
  <2> QED BY <2>2, <2>4
<1>5. ASSUME nic_out' = [nic_out EXCEPT ![w][n] = @ - 1]
      PROVE  Room(n)' \in SUBSET (Room(n) \cup {<<w, nic_out[w][n]>>})
  <2>1. \A v \in Workers : nic_out'[v][n] = IF v = w THEN nic_out[v][n] - 1 ELSE nic_out[v][n]
    BY <1>1, <1>5
  <2>2. ASSUME NEW v \in Workers, NEW k \in (nic_out'[v][n] + 1)..MaxOutstandingPerNic
        PROVE  \/ k \in (nic_out[v][n] + 1)..MaxOutstandingPerNic
               \/ v = w /\ k = nic_out[w][n]
    <3>1. CASE v = w
      BY <1>1, <2>1, <3>1
    <3>2. CASE v # w
      BY <2>1, <3>2
    <3> QED BY <3>1, <3>2
  <2>3. \A p \in Room(n)' : p \in Room(n) \/ p = <<w, nic_out[w][n]>>
    BY <2>2 DEF Room
  <2> QED BY <2>3
<1>6. (nic_out' = [nic_out EXCEPT ![w][n] = @ - 1]) =>
        nic_out' = [nic_out EXCEPT ![w][n] = @ + (-1)]
  BY <1>1
<1> QED BY <1>3, <1>4, <1>5, <1>6

\* The sum of the limits is kept: a request on the NIC has its place, whoever polled
\* the completions of whom.
LEMMA RoomStep ==
    ASSUME IsFiniteSet(Workers), IInv, Fresh, RoomLeft, [Next]_vars
    PROVE  RoomLeft'
<1> DEFINE limit == MaxOutstandingPerNic * Cardinality(Workers)
<1>1. /\ wr \in [Wrs -> WrStates] /\ wr_at \in [Wrs -> (Nics \X Qps) \cup {None}]
      /\ nic_out \in [Workers -> [Nics -> Int]]
  BY DEF IInv, TypeOK
<1>2. \A n \in Nics : /\ IsFiniteSet(WrsOn(n)) /\ IsFiniteSet(Room(n))
                      /\ Cardinality(WrsOn(n)) + Cardinality(Room(n)) <= limit
                      /\ Cardinality(WrsOn(n)) \in Nat /\ Cardinality(Room(n)) \in Nat
  BY FS_CardinalityType DEF RoomLeft
<1>3. limit \in Nat
  <2>1. Cardinality(Workers) \in Nat
    BY FS_CardinalityType
  <2>2. \A a, b \in Nat : a * b \in Nat
    OBVIOUS
  <2> QED BY <2>1, <2>2, MaxPerNicNat
<1> HIDE DEF limit
<1> SUFFICES ASSUME NEW m \in Nics
             PROVE  /\ IsFiniteSet(WrsOn(m)') /\ IsFiniteSet(Room(m)')
                    /\ Cardinality(WrsOn(m)') + Cardinality(Room(m)') <= limit
  BY DEF RoomLeft, limit
<1>4. CASE Posts
  <2>1. PICK w \in Workers, x \in Xfers, s \in Nics \X Qps :
          LET r == <<x, next_chunk_idx[x]>>
          IN  /\ r \in Wrs /\ wr[r] = "todo"
              /\ wr' = [wr EXCEPT ![r] = "sent"] /\ wr_at' = [wr_at EXCEPT ![r] = s]
              /\ nic_out' = [nic_out EXCEPT ![w][s[1]] = @ + 1]
              /\ nic_out[w][s[1]] \in 0..(MaxOutstandingPerNic - 1)
    BY <1>4, PostsNext
  <2> DEFINE r == <<x, next_chunk_idx[x]>>
             n == s[1]
             p == <<w, nic_out[w][n] + 1>>
  <2>2. /\ r \in Wrs /\ wr[r] = "todo" /\ wr' = [wr EXCEPT ![r] = "sent"]
        /\ wr_at' = [wr_at EXCEPT ![r] = s] /\ n \in Nics
    BY <2>1
  <2>3. /\ p \in Room(n) /\ Room(n)' = Room(n) \ {p}
        /\ \A l \in Nics : l # n => Room(l)' = Room(l)
    BY <2>1, <2>2, RoomMoves
  <2>4. /\ WrsOn(n)' = WrsOn(n) \cup {r} /\ r \notin WrsOn(n)
        /\ \A l \in Nics : l # n => WrsOn(l)' = WrsOn(l)
    <3> HIDE DEF r
    <3>1. /\ wr'[r] = "sent" /\ wr_at'[r] = s /\ s[1] = n
          /\ \A t \in Wrs : t # r => wr'[t] = wr[t] /\ wr_at'[t] = wr_at[t]
      BY <1>1, <2>2
    <3> HIDE DEF n
    <3> QED BY <2>2, <3>1 DEF WrsOn, InFlight, InCq
  <2> HIDE DEF r, n, p
  <2>5. CASE m = n
    <3>1. /\ IsFiniteSet(WrsOn(n) \cup {r}) /\ IsFiniteSet(Room(n) \ {p})
          /\ Cardinality(WrsOn(n) \cup {r}) = Cardinality(WrsOn(n)) + 1
          /\ Cardinality(Room(n) \ {p}) = Cardinality(Room(n)) - 1
      BY <1>2, <2>2, <2>3, <2>4, FS_AddElement, FS_RemoveElement
    <3>2. WrsOn(m)' = WrsOn(n) \cup {r} /\ Room(m)' = Room(n) \ {p}
      BY <2>3, <2>4, <2>5
    <3>3. /\ Cardinality(WrsOn(n)) \in Nat /\ Cardinality(Room(n)) \in Nat
          /\ Cardinality(WrsOn(n)) + Cardinality(Room(n)) <= limit
      BY <1>2, <2>2
    <3> QED BY <1>3, <3>1, <3>2, <3>3
  <2>6. CASE m # n
    BY <1>2, <2>3, <2>4, <2>6
  <2> QED BY <2>5, <2>6
<1>5. CASE Polls
  <2>1. PICK w \in Workers, r \in Wrs, n \in Nics :
          /\ wr[r] \in InCq /\ wr_at[r][1] = n
          /\ wr' = [wr EXCEPT ![r] = IF wr[r] = "error" THEN "failed" ELSE "done"]
          /\ nic_out' = [nic_out EXCEPT ![w][n] = @ - 1]
          /\ UNCHANGED wr_at
    BY <1>5, PollsOne
  <2> DEFINE p == <<w, nic_out[w][n]>>
  <2>2. /\ Room(n)' \in SUBSET (Room(n) \cup {p})
        /\ \A l \in Nics : l # n => Room(l)' = Room(l)
    BY <2>1, RoomMoves
  <2>3. /\ WrsOn(n)' = WrsOn(n) \ {r} /\ r \in WrsOn(n)
        /\ \A l \in Nics : l # n => WrsOn(l)' = WrsOn(l)
    <3>1. /\ wr'[r] \notin InFlight /\ wr[r] \in InFlight
          /\ \A t \in Wrs : t # r => wr'[t] = wr[t]
      BY <1>1, <2>1 DEF InFlight, InCq
    <3> QED BY <2>1, <3>1 DEF WrsOn
  <2> HIDE DEF p
  <2>4. CASE m = n
    <3>1. /\ IsFiniteSet(WrsOn(n) \ {r})
          /\ Cardinality(WrsOn(n) \ {r}) = Cardinality(WrsOn(n)) - 1
      BY <1>2, <2>3, FS_RemoveElement
    <3>2. /\ IsFiniteSet(Room(n) \cup {p})
          /\ Cardinality(Room(n) \cup {p}) <= Cardinality(Room(n)) + 1
      <4>1. /\ IsFiniteSet(Room(n) \cup {p})
            /\ Cardinality(Room(n) \cup {p}) = IF p \in Room(n) THEN Cardinality(Room(n))
                                                                ELSE Cardinality(Room(n)) + 1
        BY <1>2, FS_AddElement
      <4>2. Cardinality(Room(n)) \in Nat
        BY <1>2
      <4> QED BY <4>1, <4>2
    <3>3. /\ IsFiniteSet(Room(n)')
          /\ Cardinality(Room(n)') <= Cardinality(Room(n) \cup {p})
      BY <2>2, <3>2, FS_Subset
    <3>4. Cardinality(Room(n)') \in Nat /\ Cardinality(Room(n) \cup {p}) \in Nat
      BY <3>2, <3>3, FS_CardinalityType
    <3>5. /\ Cardinality(WrsOn(n)) \in Nat /\ Cardinality(Room(n)) \in Nat
          /\ Cardinality(WrsOn(n)) + Cardinality(Room(n)) <= limit
      BY <1>2
    <3>6. WrsOn(m)' = WrsOn(n) \ {r} /\ Room(m)' = Room(n)'
      BY <2>3, <2>4
    <3> QED BY <1>3, <3>1, <3>2, <3>3, <3>4, <3>5, <3>6
  <2>5. CASE m # n
    BY <1>2, <2>2, <2>3, <2>5
  <2> QED BY <2>4, <2>5
<1>6. CASE ~ Posts /\ ~ Polls
  <2>1. /\ UNCHANGED <<nic_out, wr_at>>
        /\ \A r \in Wrs : wr'[r] \in InFlight => wr[r] \in InFlight
    BY <1>6, WrFrame
  <2>2. Room(m)' = Room(m)
    BY <2>1 DEF Room
  <2>3. WrsOn(m)' \in SUBSET WrsOn(m)
    BY <2>1 DEF WrsOn
  <2>4. IsFiniteSet(WrsOn(m)') /\ Cardinality(WrsOn(m)') <= Cardinality(WrsOn(m))
    BY <1>2, <2>3, FS_Subset
  <2>5. Cardinality(WrsOn(m)') \in Nat
    BY <2>4, FS_CardinalityType
  <2> QED BY <1>2, <1>3, <2>2, <2>4, <2>5
<1> QED BY <1>4, <1>5, <1>6

\* Whoever is rejected still had room, so the full send queue is shallower than the
\* limits of the workers together.
LEMMA ShallowStep ==
    ASSUME IsFiniteSet(Workers), IInv, RoomLeft, ShallowQueue, [Next]_vars
    PROVE  ShallowQueue'
<1> SUFFICES ASSUME NEW x \in Xfers, error_code'[x] = "post"
             PROVE  MaxSendWr < MaxOutstandingPerNic * Cardinality(Workers)
  BY DEF ShallowQueue
<1>1. CASE error_code[x] = "post"
  BY <1>1 DEF ShallowQueue
<1>2. CASE error_code[x] # "post" /\ Polls
  <2>1. \/ UNCHANGED error_code
        \/ \E z : error_code' = [error_code EXCEPT ![z] = "completion"]
    BY <1>2, PollsOne DEF Fail
  <2>2. error_code \in [Xfers -> Codes]
    BY DEF IInv, TypeOK
  <2> QED BY <1>2, <2>1, <2>2
<1>3. CASE error_code[x] # "post" /\ ~ Polls
  <2>1. PICK w \in Workers : PostRejected(w, x)
    BY <1>3, CodeFrame
  <2>2. PICK s \in Slots(w, x) : Cardinality(SendQueue(s[1], s[2])) >= MaxSendWr
    BY <2>1 DEF PostRejected
  <2> DEFINE n == s[1]
             q == s[2]
             p == <<w, nic_out[w][n] + 1>>
             limit == MaxOutstandingPerNic * Cardinality(Workers)
  <2>3. n \in Nics /\ nic_out[w][n] \in 0..(MaxOutstandingPerNic - 1)
    BY SlotsArePlaces, TypeParts DEF Slots, OpenNics, IInv
  <2>4. p \in Room(n)
    <3>1. nic_out[w][n] + 1 \in (nic_out[w][n] + 1)..MaxOutstandingPerNic
      BY <2>3, MaxPerNicNat
    <3> QED BY <3>1, RoomParts
  <2>5. SendQueue(n, q) \in SUBSET WrsOn(n)
    BY DEF SendQueue
  <2>6. Cardinality(SendQueue(n, q)) >= MaxSendWr
    BY <2>2
  <2> HIDE DEF n, q, p
  <2>7. /\ IsFiniteSet(WrsOn(n)) /\ IsFiniteSet(Room(n))
        /\ Cardinality(WrsOn(n)) + Cardinality(Room(n)) <= limit
    BY <2>3 DEF RoomLeft
  <2>8. /\ IsFiniteSet(SendQueue(n, q))
        /\ Cardinality(SendQueue(n, q)) <= Cardinality(WrsOn(n))
    BY <2>5, <2>7, FS_Subset
  <2>9. Cardinality(Room(n)) # 0
    BY <2>4, <2>7, FS_EmptySet
  <2>10. /\ Cardinality(SendQueue(n, q)) \in Nat /\ Cardinality(WrsOn(n)) \in Nat
         /\ Cardinality(Room(n)) \in Nat
    BY <2>7, <2>8, FS_CardinalityType
  <2>11. limit \in Nat
    <3>1. Cardinality(Workers) \in Nat
      BY FS_CardinalityType
    <3>2. \A a, b \in Nat : a * b \in Nat
      OBVIOUS
    <3> QED BY <3>1, <3>2, MaxPerNicNat
  <2>12. MaxSendWr < limit
    <3> HIDE DEF limit
    <3> QED BY <2>6, <2>7, <2>8, <2>9, <2>10, <2>11, LimitConstants
  <2> QED BY <2>12
<1> QED BY <1>1, <1>2, <1>3

FaultInv == IInv /\ Fresh /\ RoomLeft /\ ShallowQueue

LEMMA FaultsAlways == ASSUME IsFiniteSet(Workers) PROVE Spec => []FaultInv
<1>1. Init => FaultInv
  <2> SUFFICES ASSUME Init PROVE FaultInv
    OBVIOUS
  <2>1. IInv
    BY InitInvariant
  <2>2. Fresh
    BY WrParts DEF Init, Fresh
  <2>3. ShallowQueue
    BY DEF Init, ShallowQueue
  <2>4. RoomLeft
    <3> SUFFICES ASSUME NEW n \in Nics
                 PROVE  /\ IsFiniteSet(WrsOn(n)) /\ IsFiniteSet(Room(n))
                        /\ Cardinality(WrsOn(n)) + Cardinality(Room(n))
                             <= MaxOutstandingPerNic * Cardinality(Workers)
      BY DEF RoomLeft
    <3>1. WrsOn(n) = {}
      BY DEF Init, WrsOn, InFlight, InCq
    <3>2. Room(n) = Workers \X (1..MaxOutstandingPerNic)
      <4>1. \A w \in Workers : nic_out[w][n] + 1 = 1
        BY DEF Init
      <4> QED BY <4>1 DEF Room
    <3>3. /\ IsFiniteSet(1..MaxOutstandingPerNic)
          /\ Cardinality(1..MaxOutstandingPerNic) = MaxOutstandingPerNic
      <4> DEFINE k == MaxOutstandingPerNic
      <4>1. k \in Nat
        BY MaxPerNicNat
      <4> HIDE DEF k
      <4>2. IsFiniteSet(1..k) /\ Cardinality(1..k) = IF 1 > k THEN 0 ELSE k - 1 + 1
        BY <4>1, FS_Interval
      <4>3. IsFiniteSet(1..k) /\ Cardinality(1..k) = k
        BY <4>1, <4>2
      <4> QED BY <4>3 DEF k
    <3>4. /\ IsFiniteSet(Room(n))
          /\ Cardinality(Room(n)) = Cardinality(Workers) * MaxOutstandingPerNic
      BY <3>2, <3>3, FS_Product
    <3>5. IsFiniteSet(WrsOn(n)) /\ Cardinality(WrsOn(n)) = 0
      BY <3>1, FS_EmptySet
    <3>6. \A a, b \in Nat : 0 + a * b <= b * a
      OBVIOUS
    <3>7. Cardinality(Workers) \in Nat
      BY FS_CardinalityType
    <3> QED BY <3>4, <3>5, <3>6, <3>7, MaxPerNicNat
  <2> QED BY <2>1, <2>2, <2>3, <2>4 DEF FaultInv
<1>2. FaultInv /\ [Next]_vars => FaultInv'
  BY StepInvariant, FreshStep, RoomStep, ShallowStep DEF FaultInv
<1> QED BY <1>1, <1>2, PTL DEF Spec

\* Whatever fails and whichever workers borrow a NIC, all of them together never have
\* more on it than the sum of their limits, although a worker that polls the completion
\* of another's request counts its own counter down.
THEOREM NicWithinLimits ==
    ASSUME IsFiniteSet(Workers)
    PROVE  Spec => [](\A n \in Nics :
                        Cardinality(WrsOn(n)) <= MaxOutstandingPerNic * Cardinality(Workers))
<1>1. FaultInv => \A n \in Nics :
                    Cardinality(WrsOn(n)) <= MaxOutstandingPerNic * Cardinality(Workers)
  <2> SUFFICES ASSUME FaultInv, NEW n \in Nics
               PROVE  Cardinality(WrsOn(n)) <= MaxOutstandingPerNic * Cardinality(Workers)
    OBVIOUS
  <2>1. /\ IsFiniteSet(WrsOn(n)) /\ IsFiniteSet(Room(n))
        /\ Cardinality(WrsOn(n)) + Cardinality(Room(n))
             <= MaxOutstandingPerNic * Cardinality(Workers)
    BY DEF FaultInv, RoomLeft
  <2>2. /\ Cardinality(WrsOn(n)) \in Nat /\ Cardinality(Room(n)) \in Nat
        /\ Cardinality(Workers) \in Nat
    BY <2>1, FS_CardinalityType
  <2>3. MaxOutstandingPerNic * Cardinality(Workers) \in Nat
    BY <2>2, MaxPerNicNat
  <2> QED BY <2>1, <2>2, <2>3
<1> QED BY <1>1, FaultsAlways, PTL

\* What was delivered or failed stays so, and only polls add to it.
LEMMA PolledStays ==
    ASSUME IInv, Fresh, [Next]_vars, NEW r \in Wrs
    PROVE  /\ wr[r] \in {"done", "failed"} => wr'[r] = wr[r]
           /\ ~ Polls /\ wr'[r] = "done" => wr[r] = "done"
<1>1. wr \in [Wrs -> WrStates]
  BY DEF IInv, TypeOK
<1>2. CASE Posts /\ ~ Polls
  <2>1. PICK s \in Wrs : wr[s] = "todo" /\ wr' = [wr EXCEPT ![s] = "sent"]
    BY <1>2, PostsNext
  <2> QED BY <1>1, <2>1
<1>3. CASE Polls
  <2>1. PICK s \in Wrs :
          /\ wr[s] \in InCq
          /\ wr' = [wr EXCEPT ![s] = IF wr[s] = "error" THEN "failed" ELSE "done"]
    BY <1>3, PollsOne
  <2> QED BY <1>1, <1>3, <2>1 DEF InCq
<1>4. CASE ~ Posts /\ ~ Polls
  BY <1>4, WrFrame DEF InFlight, InCq
<1> QED BY <1>2, <1>3, <1>4

-----------------------------------------------------------------------------
(* What holds under every release policy and every fault: the maps, and     *)
(* when a transfer has an outcome and its caller an answer.                 *)

\* A context is in the map of the NUMA node of its buffer.
AtHome ==
    \A w \in Workers, h \in Handles :
        active_transfers[w][h] # None => Home[active_transfers[w][h]] = w

\* A transfer whose context was stored.
Begun(x) == cpc[x] \notin {"new", "refused", "allocated"}

\* Active lists and loops hold only transfers whose context was stored.
Known ==
    /\ \A w \in Workers : \A x \in active_contexts[w] : Begun(x)
    /\ \A w \in Workers : pc[w] \in {"post", "retire"} => \A x \in todo[w] : Begun(x)

\* A transfer is finished from the moment it has an error code, and not before its
\* context exists.
Decided ==
    \A x \in Xfers : /\ finished[x] <=> error_code[x] # "pending"
                     /\ finished[x] => Begun(x)

\* A wait has given its answer only when the caller has gone on.
Unanswered ==
    \A x \in Xfers : cpc[x] \in {"new", "refused", "allocated", "stored", "routed", "live"} =>
        result[x] \in {"none", "timeout"}

OInv == Filed /\ AtHome /\ Destroyed /\ Known /\ Decided /\ Unanswered

\* releaseTransfer misses a handle in the NUMA map only for a call that was refused.
LEMMA OnlyRefused ==
    ASSUME IInv, Filed, NEW x \in Xfers, ReleaseUnknown(x)
    PROVE  cpc[x] = "refused"
<1>1. handle[x] \notin Routed /\ (cpc[x] = "refused" \/ cpc[x] \in {"live", "waited"})
  BY DEF ReleaseUnknown, MayRelease
<1>2. ASSUME cpc[x] \in {"live", "waited"}
      PROVE  FALSE
  <2>1. handle[x] \in Handles
    BY <1>2, HolderHasHandle
  <2>2. handle_numa_map[handle[x]] = Home[x] /\ Home[x] # None
    BY <1>2, XferConstants DEF Filed
  <2> QED BY <1>1, <2>1, <2>2 DEF Routed
<1> QED BY <1>1, <1>2

\* The maps lead from a handle to its transfer until it is released.
LEMMA FiledStep ==
    ASSUME IInv, Filed, [Next]_vars
    PROVE  Filed'
<1>1. /\ cpc \in [Xfers -> Places] /\ handle \in [Xfers -> Handles \cup {0}]
      /\ active_transfers \in [Workers -> [Handles -> Xfers \cup {None}]]
      /\ handle_numa_map \in [Handles -> Workers \cup {None}]
  BY DEF IInv, TypeOK
<1>2. ASSUME NEW x \in Xfers, Client(x)
      PROVE  Filed'
  <2>2. CASE StartAllocate(x)
    <3>1. /\ cpc[x] = "new" /\ UNCHANGED <<active_transfers, handle_numa_map>>
          /\ cpc'[x] \in {"refused", "allocated"}
          /\ \A y \in Xfers \ {x} : cpc'[y] = cpc[y] /\ handle'[y] = handle[y]
      BY <1>1, <2>2 DEF StartAllocate, mapVars
    <3> QED BY <3>1 DEF Filed
  <2>3. CASE StartStore(x)
    <3>1. /\ cpc[x] = "allocated" /\ cpc' = [cpc EXCEPT ![x] = "stored"]
          /\ active_transfers' = [active_transfers EXCEPT ![Home[x]][handle[x]] = x]
          /\ UNCHANGED <<handle, handle_numa_map>>
      BY <2>3 DEF StartStore
    <3>2. handle[x] \in Handles /\ Home[x] \in Workers
      BY <3>1, HolderHasHandle, XferConstants
    <3>3. /\ active_transfers'[Home[x]][handle[x]] = x
          /\ \A h \in Handles \ {handle[x]} : \A w \in Workers :
               active_transfers'[w][h] = active_transfers[w][h]
      BY <1>1, <3>1, <3>2
    <3> QED BY <3>1, <3>3, FiledKept
  <2>4. CASE StartRoute(x)
    <3>1. /\ cpc[x] = "stored" /\ UNCHANGED <<handle, active_transfers>>
          /\ handle_numa_map' = [handle_numa_map EXCEPT ![handle[x]] = Home[x]]
      BY <2>4 DEF StartRoute
    <3>2. PICK place \in {"live", "routed"} : cpc' = [cpc EXCEPT ![x] = place]
      BY <2>4 DEF StartRoute
    <3>3. handle[x] \in Handles /\ active_transfers[Home[x]][handle[x]] = x
      BY <3>1, HolderHasHandle DEF Filed
    <3>4. /\ handle_numa_map'[handle[x]] = Home[x]
          /\ \A h \in Handles \ {handle[x]} : handle_numa_map'[h] = handle_numa_map[h]
      BY <1>1, <3>1, <3>3
    <3> QED BY <3>1, <3>2, <3>3, <3>4, FiledKept
  <2>5. CASE StartSubmit(x) \/ WaitReturn(x) \/ WaitTimeout(x)
    <3>1. cpc[x] \in {"routed", "live"} /\ UNCHANGED <<handle, active_transfers, handle_numa_map>>
      BY <2>5 DEF StartSubmit, WaitReturn, WaitTimeout, mapVars
    <3>2. \A y \in Xfers : cpc'[y] = cpc[y] \/ (y = x /\ cpc'[y] \in {"live", "waited"})
      BY <1>1, <2>5 DEF StartSubmit, WaitReturn, WaitTimeout
    <3> QED BY <3>1, <3>2 DEF Filed
  <2>6. CASE ReleaseRoute(x)
    <3>1. /\ cpc[x] \in {"live", "waited"} /\ cpc' = [cpc EXCEPT ![x] = "unrouted"]
          /\ handle_numa_map' = [handle_numa_map EXCEPT ![handle[x]] = None]
          /\ UNCHANGED <<handle, active_transfers>>
      BY <2>6 DEF ReleaseRoute, MayRelease
    <3>2. /\ active_transfers[Home[x]][handle[x]] = x
          /\ \A h \in Handles \ {handle[x]} : handle_numa_map'[h] = handle_numa_map[h]
      BY <1>1, <3>1 DEF Filed
    <3> QED BY <3>1, <3>2, FiledKept
  <2>7. CASE ReleaseContext(x)
    <3>1. /\ cpc[x] = "unrouted" /\ cpc' = [cpc EXCEPT ![x] = "released"]
          /\ active_transfers' = [active_transfers EXCEPT ![Home[x]][handle[x]] = None]
          /\ UNCHANGED <<handle, handle_numa_map>>
      BY <2>7 DEF ReleaseContext
    <3>2. \A h \in Handles \ {handle[x]} : \A w \in Workers :
            active_transfers'[w][h] = active_transfers[w][h]
      BY <1>1, <3>1
    <3> QED BY <3>1, <3>2, FiledKept
  <2>8. CASE ReleaseUnknown(x)
    <3>1. cpc' = [cpc EXCEPT ![x] = "released"] /\ UNCHANGED <<handle, mapVars>>
      BY <2>8 DEF ReleaseUnknown
    <3>2. \A y \in Xfers : cpc'[y] = cpc[y] \/ cpc'[y] = "released"
      BY <1>1, <3>1
    <3> QED BY <3>1, <3>2 DEF Filed, mapVars
  <2> QED BY <1>2, <2>2, <2>3, <2>4, <2>5, <2>6, <2>7, <2>8 DEF Client
<1>3. CASE Engine \/ UNCHANGED vars
  <2>1. UNCHANGED startVars
    BY <1>3, EngineKeepsStart DEF vars
  <2> QED BY <2>1 DEF Filed, startVars, clientVars, mapVars
<1> QED BY <1>2, <1>3, NextIsClientOrEngine

\* A step of a client at place cpc[x] that leaves the maps alone.
LEMMA MapsKept ==
    ASSUME IInv, AtHome, Destroyed, NEW x \in Xfers, NEW place,
           cpc' = [cpc EXCEPT ![x] = place], UNCHANGED <<active_transfers, freed>>,
           cpc[x] # "released",
           \/ cpc[x] \notin {"stored", "routed", "live", "waited", "unrouted"}
           \/ place \in {"stored", "routed", "live", "waited", "unrouted"}
    PROVE  AtHome' /\ Destroyed'
<1>1. \A y \in Xfers : cpc'[y] = IF y = x THEN place ELSE cpc[y]
  BY DEF IInv, TypeOK
<1>2. /\ \A w \in Workers, h \in Handles : active_transfers[w][h] \in Xfers \cup {None}
      /\ freed \subseteq Xfers
  BY DEF IInv, TypeOK
<1> QED BY <1>1, <1>2 DEF AtHome, Destroyed

\* Only stored and not yet released contexts are in the maps, at home, and only
\* released ones were destroyed.
LEMMA MapsStep ==
    ASSUME IInv, Filed, AtHome, Destroyed, [Next]_vars
    PROVE  AtHome' /\ Destroyed'
<1>1. /\ cpc \in [Xfers -> Places] /\ freed \subseteq Xfers /\ None \notin Xfers
      /\ active_transfers \in [Workers -> [Handles -> Xfers \cup {None}]]
  BY XferConstants DEF IInv, TypeOK
<1>2. ASSUME NEW x \in Xfers, StartStore(x)
      PROVE  AtHome' /\ Destroyed'
  <2> DEFINE old == active_transfers[Home[x]][handle[x]]
  <2>1. /\ active_transfers' = [active_transfers EXCEPT ![Home[x]][handle[x]] = x]
        /\ cpc[x] = "allocated" /\ cpc' = [cpc EXCEPT ![x] = "stored"]
        /\ freed' = freed \cup ({old} \ {None})
    BY <1>2 DEF StartStore
  <2>2. handle[x] \in Handles /\ Home[x] \in Workers
    BY <2>1, HolderHasHandle, XferConstants
  <2>3. old = None
    <3> SUFFICES ASSUME old # None PROVE FALSE
      OBVIOUS
    <3>1. old \in Xfers /\ handle[old] = handle[x]
      BY <1>1, <2>2 DEF IInv, WorkNamed
    <3>2. cpc[old] \in {"stored", "routed", "live", "waited", "unrouted"}
      BY <2>2 DEF Destroyed
    <3> QED BY <2>1, <3>1, <3>2, HoldersDiffer
  <2>4. \A w \in Workers, h \in Handles :
          \/ active_transfers'[w][h] = active_transfers[w][h]
          \/ active_transfers'[w][h] = x /\ w = Home[x]
    BY <1>1, <2>1
  <2>5. \A y \in Xfers : cpc'[y] = IF y = x THEN "stored" ELSE cpc[y]
    BY <1>1, <2>1
  <2>6. freed' = freed
    BY <2>1, <2>3
  <2> HIDE DEF old
  <2>7. AtHome'
    BY <2>4 DEF AtHome
  <2>8. Destroyed'
    BY <1>1, <2>1, <2>4, <2>5, <2>6 DEF Destroyed
  <2> QED BY <2>7, <2>8
<1>3. ASSUME NEW x \in Xfers, ReleaseContext(x)
      PROVE  AtHome' /\ Destroyed'
  <2>1. /\ active_transfers' = [active_transfers EXCEPT ![Home[x]][handle[x]] = None]
        /\ cpc[x] = "unrouted" /\ cpc' = [cpc EXCEPT ![x] = "released"]
        /\ freed' = freed \cup ({active_transfers[Home[x]][handle[x]]} \ {None})
    BY <1>3 DEF ReleaseContext
  <2>2. active_transfers[Home[x]][handle[x]] = x
    BY <2>1 DEF Filed
  <2>3. \A y \in Xfers : cpc'[y] = IF y = x THEN "released" ELSE cpc[y]
    BY <1>1, <2>1
  <2>4. \A w \in Workers, h \in Handles : active_transfers'[w][h] # None =>
          active_transfers'[w][h] = active_transfers[w][h] /\ (w # Home[x] \/ h # handle[x])
    BY <1>1, <2>1
  <2>5. \A w \in Workers, h \in Handles : active_transfers[w][h] = x =>
          w = Home[x] /\ h = handle[x]
    BY <1>1 DEF AtHome, IInv, WorkNamed
  <2>6. AtHome'
    BY <2>4 DEF AtHome
  <2>7. Destroyed'
    BY <1>1, <2>1, <2>2, <2>3, <2>4, <2>5 DEF Destroyed
  <2> QED BY <2>6, <2>7
<1>4. ASSUME NEW x \in Xfers, Client(x), ~ StartStore(x), ~ ReleaseContext(x)
      PROVE  AtHome' /\ Destroyed'
  <2>1. CASE StartAllocate(x)
    BY <2>1, MapsKept DEF StartAllocate, mapVars
  <2>2. CASE StartRoute(x)
    BY <2>2, MapsKept DEF StartRoute
  <2>3. CASE StartSubmit(x) \/ WaitReturn(x)
    BY <2>3, MapsKept DEF StartSubmit, WaitReturn, mapVars
  <2>4. CASE WaitTimeout(x)
    BY <2>4 DEF WaitTimeout, mapVars, AtHome, Destroyed
  <2>5. CASE ReleaseRoute(x)
    BY <2>5, MapsKept DEF ReleaseRoute, MayRelease
  <2>6. CASE ReleaseUnknown(x)
    BY <2>6, MapsKept, OnlyRefused DEF ReleaseUnknown, mapVars
  <2> QED BY <1>4, <2>1, <2>2, <2>3, <2>4, <2>5, <2>6 DEF Client
<1>5. CASE Engine \/ UNCHANGED vars
  <2>1. UNCHANGED startVars
    BY <1>5, EngineKeepsStart DEF vars
  <2> QED BY <2>1 DEF AtHome, Destroyed, startVars, clientVars, mapVars
<1> QED BY <1>2, <1>3, <1>4, <1>5, NextIsClientOrEngine

\* A stored context was stored for ever.
LEMMA BegunStays ==
    ASSUME IInv, [Next]_vars, NEW x \in Xfers, Begun(x)
    PROVE  Begun(x)'
<1>1. cpc \in [Xfers -> Places]
  BY DEF IInv, TypeOK
<1>2. ASSUME NEW y \in Xfers, Client(y)
      PROVE  Begun(x)'
  <2>1. CASE StartAllocate(y)
    BY <1>1, <2>1 DEF StartAllocate, Begun
  <2>2. CASE StartStore(y) \/ StartRoute(y) \/ StartSubmit(y)
    BY <1>1, <2>2 DEF StartStore, StartRoute, StartSubmit, Begun
  <2>3. CASE WaitReturn(y) \/ WaitTimeout(y)
    BY <1>1, <2>3 DEF WaitReturn, WaitTimeout, Begun
  <2>4. CASE ReleaseRoute(y) \/ ReleaseContext(y) \/ ReleaseUnknown(y)
    BY <1>1, <2>4 DEF ReleaseRoute, ReleaseContext, ReleaseUnknown, Begun
  <2> QED BY <1>2, <2>1, <2>2, <2>3, <2>4 DEF Client
<1>3. CASE Engine \/ UNCHANGED vars
  <2>1. UNCHANGED startVars
    BY <1>3, EngineKeepsStart DEF vars
  <2> QED BY <2>1 DEF Begun, startVars, clientVars
<1> QED BY <1>2, <1>3, NextIsClientOrEngine

\* The lists: workers take contexts from the maps and from their active lists.
LEMMA KnownLists ==
    ASSUME IInv, Destroyed, Known, NEW v \in Workers, Work(v) \/ \E n \in Nics : PollFatal(v, n)
    PROVE  /\ \A w \in Workers : \A x \in active_contexts'[w] : Begun(x)
           /\ \A w \in Workers : pc'[w] \in {"post", "retire"} =>
                \A x \in todo'[w] : Begun(x)
<1>1. WorkerType
  BY TypeParts DEF IInv
<1>2. /\ pc \in [Workers -> {"drain", "post", "poll", "retire", "probe"}]
      /\ todo \in [Workers -> SUBSET (Xfers \cup Nics)]
      /\ active_contexts \in [Workers -> SUBSET Xfers]
  BY <1>1 DEF WorkerType
<1>3. /\ \A w \in Workers : \A x \in active_contexts[w] : Begun(x)
      /\ \A w \in Workers : pc[w] \in {"post", "retire"} => \A x \in todo[w] : Begun(x)
  BY DEF Known
<1>4. CASE Drain(v)
  <2> DEFINE h == Head(queue[v])
  <2>1. h \in Handles
    <3>1. queue[v] \in Seq(Handles) /\ queue[v] # <<>>
      BY <1>1, <1>4 DEF Drain, WorkerType
    <3> QED BY <3>1, HeadTailProperties
  <2> HIDE DEF h
  <2>2. active_transfers[v][h] # None => Begun(active_transfers[v][h])
    BY <2>1 DEF Destroyed, Begun
  <2>3. /\ active_contexts' = [active_contexts EXCEPT
                                 ![v] = @ \cup ({active_transfers[v][h]} \ {None})]
        /\ UNCHANGED <<pc, todo>>
    BY <1>4 DEF Drain, h
  <2> QED BY <1>2, <1>3, <2>1, <2>2, <2>3
<1>5. CASE StartPass(v) \/ StartRetire(v) \/ EndPass(v) \/ EndProbe(v) \/ StartPoll(v)
  <2>1. PICK phase \in {"post", "poll", "retire", "probe", "drain"},
             work \in {active_contexts[v], PollNics(v), {}} :
          ToPhase(v, phase, work) /\ (phase \in {"post", "retire"} => work = active_contexts[v])
    BY <1>5 DEF StartPass, StartRetire, EndPass, EndProbe, StartPoll
  <2>2. UNCHANGED active_contexts
    BY <1>5 DEF StartPass, StartRetire, EndPass, EndProbe, StartPoll
  <2> QED BY <1>2, <1>3, <2>1, <2>2 DEF ToPhase
<1>6. ASSUME UNCHANGED pc, \A w \in Workers : todo'[w] \subseteq todo[w],
             \A w \in Workers : active_contexts'[w] \subseteq active_contexts[w]
      PROVE  /\ \A w \in Workers : \A x \in active_contexts'[w] : Begun(x)
             /\ \A w \in Workers : pc'[w] \in {"post", "retire"} =>
                  \A x \in todo'[w] : Begun(x)
  BY <1>3, <1>6
<1>7. ASSUME NEW x \in Xfers,
             PostChunk(v, x) \/ PostUnroutable(v, x) \/ PostRejected(v, x)
             \/ PostBreak(v, x) \/ Retire(v, x)
      PROVE  /\ UNCHANGED pc /\ \A w \in Workers : todo'[w] \subseteq todo[w]
             /\ \A w \in Workers : active_contexts'[w] \subseteq active_contexts[w]
  BY <1>2, <1>7 DEF PostChunk, PostUnroutable, PostRejected, PostBreak, PostUnchanged,
                    Retire, Visited, workerVars
<1>8. ASSUME NEW n \in Nics,
             PollWc(v, n) \/ PollEmpty(v, n) \/ ProbeDown(v, n) \/ ProbeUp(v, n)
             \/ ProbeRefused(v, n)
      PROVE  /\ UNCHANGED pc /\ \A w \in Workers : todo'[w] \subseteq todo[w]
             /\ \A w \in Workers : active_contexts'[w] \subseteq active_contexts[w]
  BY <1>2, <1>8 DEF PollWc, PollEmpty, ProbeDown, ProbeUp, ProbeRefused, Visited,
                    workerVars
<1>9. ASSUME NEW n \in Nics, PollFatal(v, n)
       PROVE  /\ active_contexts' = [active_contexts EXCEPT ![v] = {}]
              /\ ToPhase(v, "drain", {})
  BY <1>9 DEF PollFatal
<1>10. CASE \E n \in Nics : PollFatal(v, n)
  BY <1>2, <1>3, <1>9, <1>10 DEF ToPhase
<1> QED BY <1>4, <1>5, <1>6, <1>7, <1>8, <1>10 DEF Work

LEMMA KnownStep ==
    ASSUME IInv, Destroyed, Known, [Next]_vars
    PROVE  Known'
<1>1. /\ \A w \in Workers : active_contexts[w] \subseteq Xfers
      /\ \A w \in Workers : pc[w] \in {"post", "retire"} => todo[w] \subseteq Xfers
  BY DEF IInv, TypeOK, WorkNamed
<1>2. CASE \/ \E w \in Workers : Work(w)
           \/ \E w \in Workers, n \in Nics : PollFatal(w, n)
  <2>1. UNCHANGED cpc
    BY <1>2, EngineKeepsStart DEF Engine, Fault, startVars, clientVars
  <2>2. \A x : Begun(x)' <=> Begun(x)
    BY <2>1 DEF Begun
  <2> QED BY <1>2, <2>2, KnownLists DEF Known
<1>3. CASE UNCHANGED workerVars
  <2>1. UNCHANGED <<pc, todo, active_contexts>>
    BY <1>3 DEF workerVars
  <2>2. \A x \in Xfers : Begun(x) => Begun(x)'
    BY BegunStays
  <2> QED BY <1>1, <2>1, <2>2 DEF Known
<1>4. ASSUME NEW x \in Xfers, Client(x)
      PROVE  UNCHANGED workerVars
  BY <1>4 DEF Client, StartAllocate, StartStore, StartRoute, StartSubmit, WaitReturn,
              WaitTimeout, ReleaseRoute, ReleaseContext, ReleaseUnknown
<1>5. ASSUME NEW r \in Wrs, NicStep(r) \/ NicFault(r)
      PROVE  UNCHANGED workerVars
  BY <1>5 DEF NicStep, NicFault, NicDeliver, NicFlush, NicRetriesExhausted, FailWr,
              NicUnchanged
<1>6. ASSUME NEW n \in Nics, PortChange(n) \/ QuarantineElapses(n)
      PROVE  UNCHANGED workerVars
  BY <1>6 DEF PortChange, QuarantineElapses
<1>7. CASE UNCHANGED vars
  BY <1>3, <1>7 DEF vars
<1> QED BY <1>2, <1>3, <1>4, <1>5, <1>6, <1>7 DEF Next, Fault

\* The steps that may finish a transfer or set its error code.
LEMMA Decides ==
    ASSUME [Next]_vars
    PROVE  \/ UNCHANGED <<finished, error_code>>
           \/ \E x \in Xfers : StartStore(x)
           \/ \E w \in Workers, x \in Xfers :
                PostUnroutable(w, x) \/ PostRejected(w, x) \/ Retire(w, x)
           \/ \E w \in Workers, n \in Nics : PollWc(w, n) \/ PollFatal(w, n)
<1>1. ASSUME NEW x \in Xfers, Client(x), ~ StartStore(x)
      PROVE  UNCHANGED <<finished, error_code>>
  BY <1>1 DEF Client, StartAllocate, StartRoute, StartSubmit, WaitReturn, WaitTimeout,
              ReleaseRoute, ReleaseContext, ReleaseUnknown, ctxVars
<1>2. ASSUME NEW w \in Workers, Work(w), ~ \E n \in Nics : PollWc(w, n),
             ~ \E x \in Xfers : PostUnroutable(w, x) \/ PostRejected(w, x) \/ Retire(w, x)
      PROVE  UNCHANGED <<finished, error_code>>
  BY <1>2 DEF Work, Drain, StartPass, StartPoll, StartRetire, EndPass, EndProbe,
              PostChunk, PostBreak, PollEmpty, ProbeDown, ProbeUp, ProbeRefused, ctxVars
<1>3. ASSUME NEW r \in Wrs, NicStep(r) \/ NicFault(r)
      PROVE  UNCHANGED <<finished, error_code>>
  BY <1>3 DEF NicStep, NicFault, NicDeliver, NicFlush, NicRetriesExhausted, FailWr,
              NicUnchanged, ctxVars
<1>4. ASSUME NEW n \in Nics, PortChange(n) \/ QuarantineElapses(n)
      PROVE  UNCHANGED <<finished, error_code>>
  BY <1>4 DEF PortChange, QuarantineElapses, ctxVars
<1>5. CASE UNCHANGED vars
  BY <1>5 DEF vars, ctxVars
<1> QED BY <1>1, <1>2, <1>3, <1>4, <1>5 DEF Next, Fault

\* A polled completion changes the transfer the worker takes for its owner, if any.
LEMMA PollDecides ==
    ASSUME IInv, NEW w \in Workers, NEW n \in Nics, PollWc(w, n)
    PROVE  \E r \in Wrs :
             /\ wr[r] \in InCq /\ UNCHANGED result
             /\ wr' = [wr EXCEPT ![r] = IF wr[r] = "error" THEN "failed" ELSE "done"]
             /\ \/ UNCHANGED <<finished, error_code>>
                \/ /\ wr[r] = "error" /\ Owner(w, handle[r[1]]) \in Xfers
                   /\ Fail(Owner(w, handle[r[1]]), "completion")
<1>1. pc[w] = "poll" /\ n \in todo[w] /\ UNCHANGED result
  BY DEF PollWc, startVars, clientVars
<1>2. PICK r \in Completions(n) :
         LET x == Owner(w, handle[r[1]])
             bad == wr[r] = "error"
         IN  /\ wr' = [wr EXCEPT ![r] = IF bad THEN "failed" ELSE "done"]
             /\ IF x # None /\ bad THEN Fail(x, "completion")
                                   ELSE UNCHANGED <<error_code, finished>>
  BY DEF PollWc
<1>3. r \in Wrs /\ wr[r] \in InCq /\ r[1] \in Xfers
  BY WrParts DEF Completions
<1>4. handle[r[1]] \in Handles
  BY <1>3 DEF IInv, WrsPlaced, InCq
<1>5. Owner(w, handle[r[1]]) \in Xfers \cup {None}
  BY <1>4, OwnerIsXfer, TypeParts DEF IInv
<1> QED BY <1>1, <1>2, <1>3, <1>5

\* The owner of a completion is a transfer whose context was stored.
LEMMA OwnerBegun ==
    ASSUME IInv, Destroyed, Known, NEW w \in Workers, NEW h \in Handles,
           Owner(w, h) \in Xfers
    PROVE  Begun(Owner(w, h))
<1> DEFINE mine == {x \in active_contexts[w] : handle[x] = h}
<1>1. CASE mine = {}
  <2>1. Owner(w, h) = active_transfers[w][h]
    BY <1>1 DEF Owner
  <2> QED BY <2>1, XferConstants DEF Destroyed, Begun
<1>2. CASE mine # {}
  <2>1. (CHOOSE x \in mine : TRUE) \in mine
    BY <1>2
  <2>2. Owner(w, h) \in mine
    BY <1>2, <2>1 DEF Owner
  <2> QED BY <2>2 DEF Known
<1> QED BY <1>1, <1>2

\* A transfer is finished exactly when it has an error code.
LEMMA DecidedStep ==
    ASSUME IInv, Destroyed, Known, Decided, [Next]_vars
    PROVE  Decided'
<1>1. error_code \in [Xfers -> Codes] /\ finished \in [Xfers -> BOOLEAN]
  BY DEF IInv, TypeOK
<1>2. \A x \in Xfers : Begun(x) => Begun(x)'
  BY BegunStays
<1>3. CASE UNCHANGED <<finished, error_code>>
  BY <1>2, <1>3 DEF Decided
<1>4. ASSUME NEW x \in Xfers, NEW code \in Codes \ {"pending"}, Fail(x, code), Begun(x)
      PROVE  Decided'
  BY <1>1, <1>2, <1>4 DEF Fail, Decided
<1>5. ASSUME NEW x \in Xfers, StartStore(x)
      PROVE  Decided'
  <2>1. /\ finished' = [finished EXCEPT ![x] = TotalChunks[x] = 0]
        /\ error_code' = [error_code EXCEPT
                            ![x] = IF TotalChunks[x] = 0 THEN "success" ELSE @]
        /\ cpc[x] = "allocated" /\ cpc' = [cpc EXCEPT ![x] = "stored"]
    BY <1>5 DEF StartStore
  <2>2. Begun(x)' /\ ~ Begun(x)
    BY <2>1 DEF IInv, TypeOK, Begun
  <2>3. ~ finished[x] /\ error_code[x] = "pending"
    BY <2>2 DEF Decided
  <2>4. finished'[x] <=> error_code'[x] # "pending"
    BY <1>1, <2>1, <2>3
  <2>5. \A y \in Xfers \ {x} : finished'[y] = finished[y] /\ error_code'[y] = error_code[y]
    BY <1>1, <2>1
  <2> QED BY <1>2, <2>2, <2>4, <2>5 DEF Decided
<1>6. ASSUME NEW w \in Workers, NEW x \in Xfers, PostUnroutable(w, x) \/ PostRejected(w, x)
      PROVE  Decided'
  <2>1. Begun(x)
    BY <1>6 DEF PostUnroutable, PostRejected, Posting, Known
  <2>2. Fail(x, "connection") \/ Fail(x, "post")
    BY <1>6 DEF PostUnroutable, PostRejected
  <2> QED BY <1>4, <2>1, <2>2 DEF Codes
<1>7. ASSUME NEW w \in Workers, NEW x \in Xfers, Retire(w, x)
      PROVE  Decided'
  <2>1. Begun(x)
    BY <1>7 DEF Retire, Known
  <2>2. /\ finished' = [finished EXCEPT ![x] = @ \/ AllCompleted(x)]
        /\ error_code' = [error_code EXCEPT
                            ![x] = IF ~finished[x] /\ AllCompleted(x) THEN "success" ELSE @]
    BY <1>7 DEF Retire
  <2>3. \A y \in Xfers \ {x} : finished'[y] = finished[y] /\ error_code'[y] = error_code[y]
    BY <1>1, <2>2
  <2>4. CASE ~ finished[x] /\ AllCompleted(x)
    <3>1. finished'[x] = TRUE /\ error_code'[x] = "success"
      BY <1>1, <2>2, <2>4
    <3> QED BY <1>2, <2>1, <2>3, <3>1 DEF Decided
  <2>5. CASE ~ (~ finished[x] /\ AllCompleted(x))
    <3>1. (finished'[x] <=> finished[x]) /\ error_code'[x] = error_code[x]
      BY <1>1, <2>2, <2>5
    <3> QED BY <1>2, <2>1, <2>3, <3>1 DEF Decided
  <2> QED BY <2>4, <2>5
<1>8. ASSUME NEW w \in Workers, NEW n \in Nics, PollWc(w, n)
      PROVE  Decided'
  <2>1. PICK r \in Wrs :
           /\ wr[r] \in InCq
           /\ \/ UNCHANGED <<finished, error_code>>
              \/ /\ Owner(w, handle[r[1]]) \in Xfers
                 /\ Fail(Owner(w, handle[r[1]]), "completion")
    BY <1>8, PollDecides
  <2>2. handle[r[1]] \in Handles
    BY <2>1 DEF IInv, WrsPlaced, InCq
  <2>3. Owner(w, handle[r[1]]) \in Xfers => Begun(Owner(w, handle[r[1]]))
    BY <2>2, OwnerBegun
  <2> QED BY <1>3, <1>4, <2>1, <2>3 DEF Codes
<1>9. ASSUME NEW w \in Workers, NEW n \in Nics, PollFatal(w, n)
      PROVE  Decided'
  <2>1. /\ error_code' = [x \in Xfers |->
                            IF x \in active_contexts[w] /\ ~finished[x]
                              THEN "poll" ELSE error_code[x]]
        /\ finished' = [x \in Xfers |-> finished[x] \/ x \in active_contexts[w]]
    BY <1>9 DEF PollFatal
  <2> SUFFICES ASSUME NEW x \in Xfers
               PROVE  /\ finished'[x] <=> error_code'[x] # "pending"
                      /\ finished'[x] => Begun(x)'
    BY DEF Decided
  <2>2. x \in active_contexts[w] => Begun(x)
    BY DEF Known
  <2>3. CASE x \in active_contexts[w] /\ ~ finished[x]
    BY <1>2, <2>1, <2>2, <2>3
  <2>4. CASE ~ (x \in active_contexts[w] /\ ~ finished[x])
    <3>1. (finished'[x] <=> finished[x]) /\ error_code'[x] = error_code[x]
      BY <1>1, <2>1, <2>4
    <3> QED BY <1>2, <3>1 DEF Decided
  <2> QED BY <2>3, <2>4
<1> QED BY <1>3, <1>5, <1>6, <1>7, <1>8, <1>9, Decides

\* Only waitTransfer answers.
LEMMA UnansweredStep ==
    ASSUME IInv, Unanswered, [Next]_vars
    PROVE  Unanswered'
<1>1. /\ cpc \in [Xfers -> Places]
      /\ result \in [Xfers -> Codes \cup {"none", "timeout", "invalid"}]
  BY DEF IInv, TypeOK
<1>2. ASSUME NEW x \in Xfers, Client(x)
      PROVE  Unanswered'
  <2>1. CASE WaitReturn(x)
    <3>1. /\ cpc' = [cpc EXCEPT ![x] = "waited"]
          /\ \A y \in Xfers \ {x} : result'[y] = result[y]
      BY <1>1, <2>1 DEF WaitReturn
    <3> QED BY <1>1, <3>1 DEF Unanswered
  <2>2. CASE WaitTimeout(x)
    BY <1>1, <2>2 DEF WaitTimeout, Unanswered
  <2>3. CASE StartAllocate(x)
    BY <1>1, <2>3 DEF StartAllocate, Unanswered
  <2>4. CASE StartStore(x) \/ StartRoute(x) \/ StartSubmit(x)
    BY <1>1, <2>4 DEF StartStore, StartRoute, StartSubmit, Unanswered
  <2>5. CASE ReleaseRoute(x) \/ ReleaseContext(x) \/ ReleaseUnknown(x)
    BY <1>1, <2>5 DEF ReleaseRoute, ReleaseContext, ReleaseUnknown, Unanswered
  <2> QED BY <1>2, <2>1, <2>2, <2>3, <2>4, <2>5 DEF Client
<1>3. CASE Engine \/ UNCHANGED vars
  <2>1. UNCHANGED startVars
    BY <1>3, EngineKeepsStart DEF vars
  <2> QED BY <2>1 DEF Unanswered, startVars, clientVars
<1> QED BY <1>2, <1>3, NextIsClientOrEngine

LEMMA OutcomesAlways == Spec => [](IInv /\ OInv)
<1>1. Init => IInv /\ OInv
  <2> SUFFICES ASSUME Init PROVE IInv /\ OInv
    OBVIOUS
  <2> QED BY InitInvariant DEF Init, OInv, Filed, AtHome, Destroyed, Known, Decided,
                               Unanswered
<1>2. IInv /\ OInv /\ [Next]_vars => (IInv /\ OInv)'
  BY StepInvariant, FiledStep, MapsStep, KnownStep, DecidedStep, UnansweredStep DEF OInv
<1> QED BY <1>1, <1>2, PTL DEF Spec

-----------------------------------------------------------------------------
(* Every step of the engine is a step of Delivery, or none.                 *)

Verdicts == [Promise!Next]_<<Outcome, Delivered, Told>>

\* Which variables the mapping looks at.
LEMMA MapFrame ==
    /\ UNCHANGED <<finished, error_code>> => UNCHANGED Outcome
    /\ UNCHANGED result => UNCHANGED Told
    /\ (\A r \in Wrs : wr'[r] = "done" <=> wr[r] = "done") => UNCHANGED Delivered
BY DEF Outcome, Told, Delivered

\* A success has no chunk that is still to be posted, and none that failed.
LEMMA SuccessComplete ==
    ASSUME IInv, Fresh, SuccessMeansDelivered, NEW x \in Xfers, error_code[x] = "success"
    PROVE  /\ ~ (next_chunk_idx[x] < TotalChunks[x])
           /\ \A r \in Wrs : r[1] = x => wr[r] = "done"
<1>1. next_chunk_idx[x] \in Nat /\ TotalChunks[x] \in Nat
  BY XferConstants DEF IInv, TypeOK
<1>2. ~ (next_chunk_idx[x] < TotalChunks[x])
  <2> SUFFICES ASSUME next_chunk_idx[x] < TotalChunks[x] PROVE FALSE
    OBVIOUS
  <2>1. next_chunk_idx[x] \in 0..(TotalChunks[x] - 1)
    BY <1>1
  <2>2. wr[<<x, next_chunk_idx[x]>>] = "todo"
    BY <1>1, <2>1 DEF Fresh
  <2>3. wr[<<x, next_chunk_idx[x]>>] = "done"
    BY <2>1 DEF SuccessMeansDelivered
  <2> QED BY <2>2, <2>3
<1>3. ASSUME NEW r \in Wrs, r[1] = x
      PROVE  wr[r] = "done"
  <2>1. PICK c \in 0..(TotalChunks[x] - 1) : r = <<x, c>>
    BY <1>3 DEF Wrs
  <2> QED BY <2>1 DEF SuccessMeansDelivered
<1> QED BY <1>2, <1>3

\* Transfers that are no success fail, once or again.
LEMMA FailMaps ==
    ASSUME IInv, Decided, NEW X \in SUBSET Xfers,
           \A x \in X : /\ error_code[x] # "success" /\ finished'[x]
                        /\ error_code'[x] \in {"connection", "completion", "post", "poll"},
           \A x \in Xfers \ X : finished'[x] = finished[x] /\ error_code'[x] = error_code[x],
           UNCHANGED <<Delivered, Told>>
    PROVE  Verdicts
<1>1. error_code \in [Xfers -> Codes] /\ finished \in [Xfers -> BOOLEAN]
  BY DEF IInv, TypeOK
<1> DEFINE Y == {x \in X : ~ finished[x]}
<1>2. Y \in SUBSET {x \in Xfers : Outcome[x] = "pending"}
  BY DEF Outcome
<1>3. \A x \in Xfers : Outcome'[x] = IF x \in Y THEN "failed" ELSE Outcome[x]
  <2> SUFFICES ASSUME NEW x \in Xfers
               PROVE  Outcome'[x] = IF x \in Y THEN "failed" ELSE Outcome[x]
    OBVIOUS
  <2>1. CASE x \notin X
    BY <2>1 DEF Outcome
  <2>2. CASE x \in X
    <3>1. Outcome'[x] = "failed"
      BY <2>2 DEF Outcome, Verdict
    <3>2. CASE finished[x]
      <4>1. error_code[x] \in {"connection", "completion", "post", "poll"}
        BY <1>1, <2>2, <3>2 DEF Decided, Codes
      <4> QED BY <3>1, <3>2, <4>1 DEF Outcome, Verdict
    <3> QED BY <2>2, <3>1, <3>2
  <2> QED BY <2>1, <2>2
<1>4. Outcome' = [x \in Xfers |-> IF x \in Y THEN "failed" ELSE Outcome[x]]
  BY <1>3 DEF Outcome
<1> HIDE DEF Y
<1>5. \E X1 \in SUBSET Promise!Pending : Promise!Fail(X1)
  BY <1>2, <1>4 DEF Promise!Fail, Promise!Pending
<1> QED BY <1>5 DEF Verdicts, Promise!Next

\* One transfer that is no success fails, once or again.
LEMMA FailsMaps ==
    ASSUME IInv, Decided, NEW x \in Xfers, error_code[x] # "success", finished'[x],
           error_code'[x] \in {"connection", "completion", "post", "poll"},
           \A y \in Xfers \ {x} : finished'[y] = finished[y] /\ error_code'[y] = error_code[y],
           UNCHANGED <<Delivered, Told>>
    PROVE  Verdicts
<1> DEFINE X == {x}
<1>1. /\ X \in SUBSET Xfers
      /\ \A y \in X : /\ error_code[y] # "success" /\ finished'[y]
                      /\ error_code'[y] \in {"connection", "completion", "post", "poll"}
      /\ \A y \in Xfers \ X : finished'[y] = finished[y] /\ error_code'[y] = error_code[y]
  OBVIOUS
<1> HIDE DEF X
<1> QED BY <1>1, FailMaps

\* A transfer whose chunks were all delivered becomes a success.
LEMMA SucceedMaps ==
    ASSUME IInv, NEW x \in Xfers, ~ finished[x], finished'[x], error_code'[x] = "success",
           \A y \in Xfers \ {x} : finished'[y] = finished[y] /\ error_code'[y] = error_code[y],
           \A r \in Wrs : r[1] = x => wr[r] = "done", UNCHANGED <<Delivered, Told>>
    PROVE  Verdicts
<1>1. x \in Promise!Pending
  BY DEF Promise!Pending, Outcome
<1>2. \A r \in Wrs : r[1] = x => r \in Delivered
  BY DEF Delivered
<1>3. \A y \in Xfers : Outcome'[y] = IF y = x THEN "success" ELSE Outcome[y]
  BY DEF Outcome, Verdict
<1>4. Outcome' = [Outcome EXCEPT ![x] = "success"]
  BY <1>3 DEF Outcome
<1>5. Promise!Succeed(x)
  BY <1>1, <1>2, <1>4 DEF Promise!Succeed
<1> QED BY <1>5 DEF Verdicts, Promise!Next

\* A polled completion without an error delivers its chunk.
LEMMA DeliverMaps ==
    ASSUME IInv, NEW r \in Wrs, wr[r] # "done", wr' = [wr EXCEPT ![r] = "done"],
           UNCHANGED <<finished, error_code, result>>
    PROVE  Verdicts
<1>1. UNCHANGED <<Outcome, Told>>
  BY MapFrame
<1>2. r \notin Delivered /\ Delivered' = Delivered \cup {r}
  BY DEF Delivered, IInv, TypeOK
<1>3. Promise!Deliver(r)
  BY <1>1, <1>2 DEF Promise!Deliver
<1> QED BY <1>3 DEF Verdicts, Promise!Next

\* What a caller and a worker find under a handle: the caller its own transfer, the
\* worker the poster of a completion, or nothing.
Found ==
    /\ \A x \in Xfers : cpc[x] = "live" => Lookup(handle[x]) = x
    /\ \A w \in Workers, r \in Wrs :
         wr[r] = "error" => Owner(w, handle[r[1]]) \in {r[1], None}

\* The clients' steps.
LEMMA ClientMaps ==
    ASSUME IInv, OInv, Found, NEW x \in Xfers, Client(x)
    PROVE  Verdicts
<1>1. /\ result \in [Xfers -> Codes \cup {"none", "timeout", "invalid"}]
      /\ cpc \in [Xfers -> Places] /\ TotalChunks[x] \in Nat
      /\ error_code \in [Xfers -> Codes] /\ finished \in [Xfers -> BOOLEAN]
  BY XferConstants DEF IInv, TypeOK
<1>2. UNCHANGED wr
  BY DEF Client, StartAllocate, StartStore, StartRoute, StartSubmit, WaitReturn,
         WaitTimeout, ReleaseRoute, ReleaseContext, ReleaseUnknown, wrVars
<1>3. UNCHANGED Delivered
  BY <1>2 DEF Delivered
<1>4. CASE StartStore(x)
  <2>1. /\ finished' = [finished EXCEPT ![x] = TotalChunks[x] = 0]
        /\ error_code' = [error_code EXCEPT
                            ![x] = IF TotalChunks[x] = 0 THEN "success" ELSE @]
        /\ cpc[x] = "allocated" /\ UNCHANGED result
    BY <1>4 DEF StartStore
  <2>2. ~ finished[x] /\ error_code[x] = "pending" /\ UNCHANGED Told
    BY <2>1, MapFrame DEF OInv, Decided, Begun
  <2>3. \A y \in Xfers \ {x} : finished'[y] = finished[y] /\ error_code'[y] = error_code[y]
    BY <1>1, <2>1
  <2>4. CASE TotalChunks[x] = 0
    <3>1. finished'[x] /\ error_code'[x] = "success"
      BY <1>1, <2>1, <2>4
    <3>2. \A r \in Wrs : r[1] # x
      BY <1>1, <2>4 DEF Wrs
    <3> QED BY <1>3, <2>2, <2>3, <3>1, <3>2, SucceedMaps
  <2>5. CASE TotalChunks[x] # 0
    <3>1. finished'[x] = finished[x] /\ error_code'[x] = error_code[x]
      BY <1>1, <2>1, <2>2, <2>5
    <3>2. \A y \in Xfers : finished'[y] = finished[y] /\ error_code'[y] = error_code[y]
      BY <2>3, <3>1
    <3>3. UNCHANGED Outcome
      BY <3>2 DEF Outcome
    <3> QED BY <1>3, <2>2, <3>3 DEF Verdicts
  <2> QED BY <2>4, <2>5
<1>5. CASE WaitReturn(x)
  <2>1. /\ cpc[x] = "live" /\ finished[x] /\ UNCHANGED ctxVars
        /\ result' = [result EXCEPT ![x] = error_code[x]]
    BY <1>5, XferConstants DEF WaitReturn, Found
  <2>2. UNCHANGED Outcome
    BY <2>1, MapFrame DEF ctxVars
  <2>3. result[x] \in {"none", "timeout"} /\ error_code[x] \in Codes \ {"pending"}
    BY <1>1, <2>1 DEF OInv, Unanswered, Decided
  <2>4. Promise!Waits(x) /\ Outcome[x] = Verdict(error_code[x])
    BY <2>1, <2>3 DEF Promise!Waits, Outcome, Told, Verdict
  <2>5. x \notin Promise!Pending
    BY <2>3, <2>4 DEF Promise!Pending, Verdict, Codes
  <2>6. \A y \in Xfers : Told'[y] = IF y = x THEN Outcome[x] ELSE Told[y]
    BY <1>1, <2>1, <2>4 DEF Told
  <2>7. Told' = [Told EXCEPT ![x] = Outcome[x]]
    BY <2>6 DEF Told
  <2>8. Promise!Answer(x)
    BY <1>3, <2>2, <2>4, <2>5, <2>7 DEF Promise!Answer
  <2> QED BY <2>8 DEF Verdicts, Promise!Next
<1>6. CASE WaitTimeout(x)
  <2>1. /\ cpc[x] = "live" /\ ~ finished[x] /\ UNCHANGED ctxVars
        /\ result' = [result EXCEPT ![x] = "timeout"]
    BY <1>6 DEF WaitTimeout, Found
  <2>2. UNCHANGED Outcome
    BY <2>1, MapFrame DEF ctxVars
  <2>3. Promise!Waits(x)
    BY <2>1 DEF Promise!Waits, Told, Verdict, OInv, Unanswered
  <2>4. x \in Promise!Pending
    BY <2>1 DEF Promise!Pending, Outcome
  <2>5. \A y \in Xfers : Told'[y] = IF y = x THEN "timeout" ELSE Told[y]
    BY <1>1, <2>1 DEF Told, Verdict
  <2>6. Told' = [Told EXCEPT ![x] = "timeout"]
    BY <2>5 DEF Told
  <2>7. Promise!GiveUp(x)
    BY <1>3, <2>2, <2>3, <2>4, <2>6 DEF Promise!GiveUp
  <2> QED BY <2>7 DEF Verdicts, Promise!Next
<1>7. CASE ~ StartStore(x) /\ ~ WaitReturn(x) /\ ~ WaitTimeout(x)
  <2>1. UNCHANGED <<result, finished, error_code>>
    BY <1>7 DEF Client, StartAllocate, StartRoute, StartSubmit, ReleaseRoute,
                ReleaseContext, ReleaseUnknown, ctxVars
  <2> QED BY <1>3, <2>1, MapFrame DEF Verdicts
<1> QED BY <1>4, <1>5, <1>6, <1>7

\* The steps that fail or complete transfers without polling.
LEMMA WorkerMaps ==
    ASSUME IInv, OInv, Fresh, SuccessMeansDelivered, SuccessMeansDelivered',
           NEW w \in Workers, NEW x \in Xfers,
           PostUnroutable(w, x) \/ PostRejected(w, x) \/ Retire(w, x)
    PROVE  Verdicts
<1>1. error_code \in [Xfers -> Codes] /\ finished \in [Xfers -> BOOLEAN]
  BY DEF IInv, TypeOK
<1>2. UNCHANGED <<wr, result>>
  BY DEF PostUnroutable, PostRejected, Retire, PostUnchanged, startVars, clientVars, wrVars
<1>3. UNCHANGED <<Delivered, Told>>
  BY <1>2, MapFrame
<1>4. CASE PostUnroutable(w, x) \/ PostRejected(w, x)
  <2>1. PICK code \in {"connection", "post"} : Fail(x, code)
    BY <1>4 DEF PostUnroutable, PostRejected
  <2>2. next_chunk_idx[x] < TotalChunks[x]
    BY <1>4 DEF PostUnroutable, PostRejected, Posting
  <2>3. error_code[x] # "success"
    BY <2>2, SuccessComplete
  <2>4. finished'[x] /\ error_code'[x] = code
    BY <1>1, <2>1 DEF Fail
  <2>5. \A y \in Xfers \ {x} : finished'[y] = finished[y] /\ error_code'[y] = error_code[y]
    BY <1>1, <2>1 DEF Fail
  <2> QED BY <1>3, <2>3, <2>4, <2>5, FailsMaps DEF OInv
<1>5. CASE Retire(w, x)
  <2>1. /\ finished' = [finished EXCEPT ![x] = @ \/ AllCompleted(x)]
        /\ error_code' = [error_code EXCEPT
                            ![x] = IF ~finished[x] /\ AllCompleted(x) THEN "success" ELSE @]
    BY <1>5 DEF Retire
  <2>2. \A y \in Xfers \ {x} : finished'[y] = finished[y] /\ error_code'[y] = error_code[y]
    BY <1>1, <2>1
  <2>3. CASE ~ finished[x] /\ AllCompleted(x)
    <3>1. finished'[x] = TRUE /\ error_code'[x] = "success"
      BY <1>1, <2>1, <2>3
    <3>2. \A r \in Wrs : r[1] = x => wr[r] = "done"
      BY <1>2, <3>1 DEF Wrs, SuccessMeansDelivered
    <3> QED BY <1>3, <2>2, <2>3, <3>1, <3>2, SucceedMaps
  <2>4. CASE ~ (~ finished[x] /\ AllCompleted(x))
    <3>1. (finished'[x] <=> finished[x]) /\ error_code'[x] = error_code[x]
      BY <1>1, <2>1, <2>4
    <3>2. UNCHANGED Outcome
      BY <2>2, <3>1 DEF Outcome
    <3> QED BY <1>3, <3>2 DEF Verdicts
  <2> QED BY <2>3, <2>4
<1> QED BY <1>4, <1>5

\* A polled completion, and a failed poll.
LEMMA PollMaps ==
    ASSUME IInv, OInv, Fresh, SuccessMeansDelivered, Found, NEW w \in Workers, NEW n \in Nics,
           PollWc(w, n) \/ PollFatal(w, n)
    PROVE  Verdicts
<1>1. /\ error_code \in [Xfers -> Codes] /\ finished \in [Xfers -> BOOLEAN]
      /\ wr \in [Wrs -> WrStates] /\ None \notin Xfers
  BY XferConstants DEF IInv, TypeOK
<1>2. CASE PollWc(w, n)
  <2>1. PICK r \in Wrs :
          /\ wr[r] \in InCq /\ UNCHANGED result
          /\ wr' = [wr EXCEPT ![r] = IF wr[r] = "error" THEN "failed" ELSE "done"]
          /\ \/ UNCHANGED <<finished, error_code>>
             \/ /\ wr[r] = "error" /\ Owner(w, handle[r[1]]) \in Xfers
                /\ Fail(Owner(w, handle[r[1]]), "completion")
    BY <1>2, PollDecides
  <2>2. UNCHANGED Told
    BY <2>1, MapFrame
  <2>3. CASE wr[r] # "error"
    BY <2>1, <2>3, DeliverMaps DEF InCq
  <2>4. CASE wr[r] = "error"
    <3>1. UNCHANGED Delivered
      BY <1>1, <2>1, <2>4 DEF Delivered
    <3>2. CASE UNCHANGED <<finished, error_code>>
      BY <2>2, <3>1, <3>2, MapFrame DEF Verdicts
    <3>3. CASE Owner(w, handle[r[1]]) \in Xfers /\ Fail(Owner(w, handle[r[1]]), "completion")
      <4>1. PICK x \in Xfers : x = r[1] /\ Fail(x, "completion")
        BY <1>1, <2>4, <3>3 DEF Found
      <4>2. error_code[x] # "success"
        BY <2>4, <4>1, SuccessComplete
      <4>3. finished'[x] /\ error_code'[x] = "completion"
        BY <1>1, <4>1 DEF Fail
      <4>4. \A y \in Xfers \ {x} : /\ finished'[y] = finished[y]
                                   /\ error_code'[y] = error_code[y]
        BY <1>1, <4>1 DEF Fail
      <4> QED BY <2>2, <3>1, <4>2, <4>3, <4>4, FailsMaps DEF OInv
    <3> QED BY <2>1, <3>2, <3>3
  <2> QED BY <2>3, <2>4
<1>3. CASE PollFatal(w, n)
  <2> DEFINE X == {x \in active_contexts[w] : ~ finished[x]}
  <2>1. /\ error_code' = [x \in Xfers |->
                            IF x \in active_contexts[w] /\ ~finished[x]
                              THEN "poll" ELSE error_code[x]]
        /\ finished' = [x \in Xfers |-> finished[x] \/ x \in active_contexts[w]]
        /\ UNCHANGED <<wr, result>>
    BY <1>3 DEF PollFatal, startVars, clientVars, wrVars
  <2>2. X \in SUBSET Xfers
    BY DEF IInv, TypeOK
  <2>3. \A x \in X : error_code[x] = "pending" /\ finished'[x] /\ error_code'[x] = "poll"
    BY <2>1, <2>2 DEF OInv, Decided
  <2>4. \A x \in Xfers \ X : finished'[x] = finished[x] /\ error_code'[x] = error_code[x]
    BY <1>1, <2>1
  <2>5. UNCHANGED <<Delivered, Told>>
    BY <2>1, MapFrame
  <2> HIDE DEF X
  <2> QED BY <2>2, <2>3, <2>4, <2>5, FailMaps DEF OInv
<1> QED BY <1>2, <1>3

\* All the steps.
LEMMA StepMaps ==
    ASSUME IInv, OInv, Fresh, SuccessMeansDelivered, SuccessMeansDelivered', Found,
           [Next]_vars
    PROVE  Verdicts
<1>1. CASE \E x \in Xfers : Client(x)
  BY <1>1, ClientMaps
<1>2. CASE \E w \in Workers, x \in Xfers :
             PostUnroutable(w, x) \/ PostRejected(w, x) \/ Retire(w, x)
  BY <1>2, WorkerMaps
<1>3. CASE \E w \in Workers, n \in Nics : PollWc(w, n) \/ PollFatal(w, n)
  BY <1>3, PollMaps
<1>4. CASE /\ ~ (\E x \in Xfers : Client(x)) /\ UNCHANGED <<finished, error_code>>
           /\ ~ \E w \in Workers, n \in Nics : PollWc(w, n)
  <2>1. Engine \/ UNCHANGED vars
    BY <1>4, NextIsClientOrEngine
  <2>2. UNCHANGED <<Outcome, Told>>
    BY <1>4, <2>1, EngineKeepsStart, MapFrame DEF vars, startVars, clientVars
  <2>3. \A r \in Wrs : wr'[r] = "done" <=> wr[r] = "done"
    BY <1>4, PolledStays DEF Polls
  <2> QED BY <2>2, <2>3, MapFrame DEF Verdicts
<1> QED BY <1>1, <1>2, <1>3, <1>4, Decides DEF Client

LEMMA InitMaps == Init => Promise!Init
<1> SUFFICES ASSUME Init PROVE Promise!Init
  OBVIOUS
<1> QED BY DEF Init, Promise!Init, Outcome, Delivered, Told, Verdict

-----------------------------------------------------------------------------
(* Completions and their posters, with every fault, under Drained.          *)

\* A discipline of the clients under which faults do no harm to others: a handle is
\* given back only when its transfer has left the worker's active list and nothing of
\* it is in flight.  waitTransfer does not show its caller when that is.
Drained ==
    \A x \in Xfers : cpc[x] \in {"unrouted", "released"} =>
        /\ \A w \in Workers : x \notin active_contexts[w]
        /\ \A r \in Wrs : r[1] = x => wr[r] \notin InFlight

\* The holder of a handle that has posted: it has not given the handle back.
LEMMA PosterHolds ==
    ASSUME IInv, Drained, NEW r \in Wrs, wr[r] \in InFlight
    PROVE  /\ handle[r[1]] \in Handles
           /\ cpc[r[1]] \in {"allocated", "stored", "routed", "live", "waited"}
<1>1. r[1] \in Xfers /\ handle[r[1]] \in Handles
  BY WrParts DEF IInv, WrsPlaced, InFlight, InCq
<1>2. cpc[r[1]] \in Places /\ 0 \notin Handles
  BY <1>1, LimitConstants DEF IInv, TypeOK, Handles
<1>3. cpc[r[1]] \notin {"new", "refused"}
  BY <1>1, <1>2 DEF IInv, HandleGiven
<1>4. cpc[r[1]] \notin {"unrouted", "released"}
  BY <1>1 DEF Drained
<1> QED BY <1>1, <1>2, <1>3, <1>4 DEF Places

\* A completion is credited to its poster or dropped, whichever worker polls it.
LEMMA OwnerFound ==
    ASSUME IInv, OInv, Drained, NEW w \in Workers, NEW r \in Wrs, wr[r] \in InCq
    PROVE  Owner(w, handle[r[1]]) \in {r[1], None}
<1> DEFINE h == handle[r[1]]
           mine == {x \in active_contexts[w] : handle[x] = h}
<1>1. /\ r[1] \in Xfers /\ h \in Handles
      /\ cpc[r[1]] \in {"allocated", "stored", "routed", "live", "waited"}
  BY PosterHolds, WrParts DEF InFlight
<1>2. /\ active_contexts[w] \subseteq Xfers
      /\ active_transfers[w][h] \in Xfers \cup {None}
  BY <1>1 DEF IInv, TypeOK
<1>3. CASE mine = {}
  <2>1. Owner(w, h) = active_transfers[w][h]
    BY <1>3 DEF Owner
  <2>2. active_transfers[w][h] # None =>
          /\ handle[active_transfers[w][h]] = h
          /\ cpc[active_transfers[w][h]] \in {"stored", "routed", "live", "waited", "unrouted"}
    BY <1>1 DEF IInv, WorkNamed, OInv, Destroyed
  <2> QED BY <1>1, <1>2, <2>1, <2>2, HoldersDiffer
<1>4. CASE mine # {}
  <2>1. (CHOOSE x \in mine : TRUE) \in mine
    BY <1>4
  <2>2. Owner(w, h) \in mine
    BY <1>4, <2>1 DEF Owner
  <2>3. PICK y \in Xfers : y = Owner(w, h) /\ y \in active_contexts[w] /\ handle[y] = h
    BY <1>2, <2>2
  <2>4. cpc[y] \in Places
    BY DEF IInv, TypeOK
  <2>5. cpc[y] \in {"stored", "routed", "live", "waited"}
    BY <2>3, <2>4 DEF OInv, Known, Begun, Drained, Places
  <2> QED BY <1>1, <2>3, <2>5, HoldersDiffer
<1> QED BY <1>3, <1>4

\* So a failure is of the poster, and the caller finds its own transfer.
LEMMA FoundDrained ==
    ASSUME IInv, OInv, Drained
    PROVE  Found
<1>1. ASSUME NEW x \in Xfers, cpc[x] = "live"
      PROVE  Lookup(handle[x]) = x
  <2>1. handle[x] \in Handles
    BY <1>1, HolderHasHandle
  <2>2. handle_numa_map[handle[x]] = Home[x] /\ Home[x] # None
    BY <1>1, XferConstants DEF OInv, Filed
  <2> QED BY <1>1, <2>1, <2>2 DEF Lookup, Routed, OInv, Filed
<1> QED BY <1>1, OwnerFound DEF Found, InCq

\* A step that polls nothing: nothing more is credited, and a transfer that becomes
\* a success has been credited all of its chunks.
LEMMA CreditOther ==
    ASSUME IInv, KInv, [Next]_vars, ~ Polls
    PROVE  Credited' /\ SuccessMeansDelivered' /\ Blamed'
<1>1. \A r \in Wrs : /\ wr'[r] = "done" <=> wr[r] = "done"
                     /\ wr[r] = "failed" => wr'[r] = "failed"
  BY PolledStays DEF KInv
<1>2. UNCHANGED total_completed
  <2>1. CASE Posts
    BY <2>1, PostsNext DEF KInv
  <2>2. CASE ~ Posts
    BY <2>2, WrFrame
  <2> QED BY <2>1, <2>2
<1>3. \A x \in Xfers : DoneOf(x)' = DoneOf(x)
  BY <1>1, WrParts DEF DoneOf, Chunks
<1>4. Credited'
  BY <1>2, <1>3 DEF KInv, Credited
<1>5. SuccessMeansDelivered'
  <2> SUFFICES ASSUME NEW x \in Xfers, error_code'[x] = "success",
                      NEW c \in 0..(TotalChunks[x] - 1)
               PROVE  wr'[<<x, c>>] = "done"
    BY DEF SuccessMeansDelivered
  <2>1. c \in Chunks(x) /\ <<x, c>> \in Wrs
    BY WrParts DEF Chunks
  <2>2. CASE error_code[x] = "success"
    BY <1>1, <2>1, <2>2 DEF KInv, SuccessMeansDelivered
  <2>3. CASE error_code[x] # "success"
    <3>1. TotalChunks[x] = 0 \/ AllCompleted(x)
      BY <2>3, CodeFrame
    <3>2. TotalChunks[x] # 0
      BY XferConstants
    <3>3. /\ total_completed[x] \in Nat /\ TotalChunks[x] \in Nat
          /\ Cardinality(DoneOf(x)) \in Nat
      BY XferConstants, DoneFinite DEF IInv, TypeOK
    <3>4. total_completed[x] >= TotalChunks[x]
          /\ total_completed[x] <= Cardinality(DoneOf(x))
      BY <3>1, <3>2 DEF AllCompleted, KInv, Credited
    <3>5. Cardinality(DoneOf(x)) >= TotalChunks[x]
      BY <3>3, <3>4
    <3>6. c \in DoneOf(x)
      BY <2>1, <3>5, DoneFinite
    <3> QED BY <1>1, <2>1, <3>6 DEF DoneOf
  <2> QED BY <2>2, <2>3
<1>6. Blamed'
  <2> SUFFICES ASSUME NEW x \in Xfers
               PROVE  /\ error_code'[x] = "connection" => \E r \in NoRoute : r[1] = x
                      /\ error_code'[x] = "completion" =>
                           \E c \in Chunks(x) : wr'[<<x, c>>] = "failed"
    BY DEF Blamed, Chunks
  <2>1. CASE error_code'[x] = error_code[x]
    BY <1>1, <2>1, WrParts DEF KInv, Blamed, Chunks
  <2>2. CASE error_code'[x] # error_code[x]
    <3>1. <<x, next_chunk_idx[x]>>[1] = x
      OBVIOUS
    <3> QED BY <2>2, <3>1, CodeFrame
  <2> QED BY <2>1, <2>2
<1> QED BY <1>4, <1>5, <1>6

\* A completion that is polled is credited to its poster, or blamed on it.
LEMMA CreditPoll ==
    ASSUME IInv, OInv, KInv, Drained, [Next]_vars, Polls
    PROVE  Credited' /\ SuccessMeansDelivered' /\ Blamed'
<1>1. /\ wr \in [Wrs -> WrStates] /\ total_completed \in [Xfers -> Nat]
      /\ error_code \in [Xfers -> Codes] /\ None \notin Xfers
  BY XferConstants DEF IInv, TypeOK
<1>2. PICK w \in Workers, r \in Wrs :
        LET x == Owner(w, handle[r[1]])
            bad == wr[r] = "error"
        IN  /\ wr[r] \in InCq
            /\ wr' = [wr EXCEPT ![r] = IF bad THEN "failed" ELSE "done"]
            /\ IF x # None /\ bad THEN Fail(x, "completion") ELSE UNCHANGED error_code
            /\ total_completed' = IF x # None /\ ~bad
                                    THEN [total_completed EXCEPT ![x] = @ + 1]
                                    ELSE total_completed
  BY PollsOne
<1> DEFINE x == r[1]
<1>3. x \in Xfers /\ \E c \in Chunks(x) : r = <<x, c>>
  BY DEF Wrs, Chunks
<1>4. PICK c \in Chunks(x) : r = <<x, c>>
  BY <1>3
<1>5. Owner(w, handle[x]) \in {x, None} /\ x # None
  BY <1>1, <1>2, <1>3, OwnerFound
<1>6. /\ wr'[r] = IF wr[r] = "error" THEN "failed" ELSE "done"
      /\ wr[r] \notin {"done", "failed"}
      /\ \A s \in Wrs : s # r => wr'[s] = wr[s]
  BY <1>1, <1>2 DEF InCq
<1>7. \A y \in Xfers : \/ total_completed'[y] = total_completed[y]
                       \/ /\ y = x /\ wr[r] # "error"
                          /\ total_completed'[y] = total_completed[y] + 1
  <2>1. \/ total_completed' = total_completed
        \/ wr[r] # "error" /\ total_completed' = [total_completed EXCEPT ![x] = @ + 1]
    BY <1>2, <1>5
  <2> HIDE DEF x
  <2> QED BY <1>1, <2>1
<1>8. \A y \in Xfers : error_code'[y] = error_code[y]
                       \/ (y = x /\ wr[r] = "error" /\ error_code'[y] = "completion")
  <2>1. \/ UNCHANGED error_code
        \/ wr[r] = "error" /\ error_code' = [error_code EXCEPT ![x] = "completion"]
    BY <1>2, <1>5 DEF Fail
  <2> HIDE DEF x
  <2> QED BY <1>1, <2>1
<1> HIDE DEF x
<1>9. Credited'
  <2> SUFFICES ASSUME NEW y \in Xfers
               PROVE  total_completed'[y] <= Cardinality(DoneOf(y)')
    BY DEF Credited
  <2>1. /\ total_completed[y] <= Cardinality(DoneOf(y)) /\ total_completed[y] \in Nat
        /\ Cardinality(DoneOf(y)) \in Nat
    BY <1>1, DoneFinite DEF KInv, Credited
  <2>2. \A d \in Chunks(y) : <<y, d>> \in Wrs /\ (<<y, d>> = r <=> y = x /\ d = c)
    BY <1>4, WrParts DEF Chunks
  <2>3. CASE y = x /\ wr[r] # "error"
    <3>1. DoneOf(y)' = DoneOf(y) \cup {c} /\ c \notin DoneOf(y)
      BY <1>4, <1>6, <2>2, <2>3 DEF DoneOf, Chunks
    <3>2. Cardinality(DoneOf(y) \cup {c}) = Cardinality(DoneOf(y)) + 1
      BY <3>1, DoneFinite, FS_AddElement
    <3>3. total_completed'[y] \in {total_completed[y], total_completed[y] + 1}
      BY <1>7
    <3> QED BY <2>1, <3>1, <3>2, <3>3
  <2>4. CASE ~ (y = x /\ wr[r] # "error")
    <3>1. DoneOf(y)' = DoneOf(y)
      BY <1>6, <2>2, <2>4 DEF DoneOf, Chunks
    <3>2. total_completed'[y] = total_completed[y]
      BY <1>7, <2>4
    <3> QED BY <2>1, <3>1, <3>2
  <2> QED BY <2>3, <2>4
<1>10. SuccessMeansDelivered'
  BY <1>6, <1>8, WrParts DEF KInv, SuccessMeansDelivered
<1>11. Blamed'
  <2> SUFFICES ASSUME NEW y \in Xfers
               PROVE  /\ error_code'[y] = "connection" => \E s \in NoRoute : s[1] = y
                      /\ error_code'[y] = "completion" =>
                           \E d \in Chunks(y) : wr'[<<y, d>>] = "failed"
    BY DEF Blamed, Chunks
  <2>1. CASE error_code'[y] = error_code[y]
    BY <1>6, <2>1, WrParts DEF KInv, Blamed, Chunks
  <2>2. CASE y = x /\ wr[r] = "error" /\ error_code'[y] = "completion"
    BY <1>4, <1>6, <2>2
  <2> QED BY <1>8, <2>1, <2>2
<1> QED BY <1>9, <1>10, <1>11

\* The invariants of an engine whose clients keep to Drained.
LEMMA DrainedAlways == Spec /\ []Drained => [](IInv /\ OInv /\ KInv)
<1>1. Init => KInv
  <2> SUFFICES ASSUME Init PROVE KInv
    OBVIOUS
  <2>1. Fresh /\ SuccessMeansDelivered /\ Blamed
    BY WrParts DEF Init, Fresh, SuccessMeansDelivered, Blamed
  <2>2. Credited
    <3>1. \A x \in Xfers : total_completed[x] = 0 /\ Cardinality(DoneOf(x)) \in Nat
      BY DoneFinite DEF Init
    <3> QED BY <3>1 DEF Credited
  <2> QED BY <2>1, <2>2 DEF KInv
<1>2. IInv /\ OInv /\ KInv /\ Drained /\ [Next]_vars => KInv'
  <2> SUFFICES ASSUME IInv, OInv, KInv, Drained, [Next]_vars PROVE KInv'
    OBVIOUS
  <2>1. Fresh'
    BY FreshStep DEF KInv
  <2>2. Credited' /\ SuccessMeansDelivered' /\ Blamed'
    BY CreditOther, CreditPoll
  <2> QED BY <2>1, <2>2 DEF KInv
<1> QED BY <1>1, <1>2, OutcomesAlways, PTL DEF Spec

\* Whatever fails, whichever worker polls a completion and whatever handles are used
\* again: a transfer that is reported as MPCOMM_SUCCESS had all of its chunks
\* delivered, as long as clients keep to Drained.
THEOREM SuccessIfDrained == Spec /\ []Drained => []SuccessMeansDelivered
<1>1. KInv => SuccessMeansDelivered
  BY DEF KInv
<1> QED BY <1>1, DrainedAlways, PTL

\* Under the same discipline a transfer fails only for a reason of its own: Phase 2b
\* blames no transfer for the chunk of another, and a send queue that holds the limits
\* of all the workers never rejects a post.
THEOREM FailureIfDrained ==
    ASSUME IsFiniteSet(Workers)
    PROVE  Spec /\ []Drained => []FailureHasCause
<1>1. KInv /\ FaultInv => FailureHasCause
  BY DEF KInv, FaultInv, Blamed, ShallowQueue, FailureHasCause, Chunks
<1> QED BY <1>1, DrainedAlways, FaultsAlways, PTL

\* The engine does what Delivery promises, with failing NICs, missing routes, failed
\* polls, borrowed NICs and reused handles, as long as clients keep to Drained: each
\* caller of waitTransfer is told the outcome of its own transfer, decided once.
THEOREM DeliveryIfDrained == Spec /\ []Drained => DeliverySpec
<1>1. Init => Promise!Init
  BY InitMaps
<1> DEFINE Inv == IInv /\ OInv /\ KInv
<1>2. Inv /\ Inv' /\ Drained /\ [Next]_vars => Verdicts
  <2> SUFFICES ASSUME Inv, Inv', Drained, [Next]_vars PROVE Verdicts
    OBVIOUS
  <2>1. /\ IInv /\ OInv /\ Fresh /\ SuccessMeansDelivered /\ SuccessMeansDelivered'
        /\ Found
    BY FoundDrained DEF KInv
  <2> QED BY <2>1, StepMaps
<1>3. Spec /\ []Drained => []Inv
  BY DrainedAlways
<1> HIDE DEF Inv
<1> QED BY <1>1, <1>2, <1>3, PTL DEF Spec, DeliverySpec, Promise!Spec, Verdicts

-----------------------------------------------------------------------------
(* Where the engine itself keeps the clients to Drained.                    *)

\* No client has given a handle back: only a refused one calls releaseTransfer.
NeverReleased ==
    \A x \in Xfers : cpc[x] # "unrouted" /\ (cpc[x] = "released" => handle[x] = 0)

\* Only a client whose call was refused calls releaseTransfer.
LEMMA NeverReleasedStep ==
    ASSUME ReleasePolicy = "never", IInv, NeverReleased, [Next]_vars
    PROVE  NeverReleased'
<1>1. cpc \in [Xfers -> Places] /\ handle \in [Xfers -> Handles \cup {0}]
  BY DEF IInv, TypeOK
<1>2. ASSUME NEW x \in Xfers, Client(x)
      PROVE  NeverReleased'
  <2>1. \A y \in Xfers : ~ MayRelease(y)
    BY DEF MayRelease
  <2>2. CASE StartAllocate(x)
    BY <1>1, <2>2 DEF StartAllocate, NeverReleased
  <2>3. CASE StartStore(x) \/ StartRoute(x) \/ StartSubmit(x) \/ WaitReturn(x)
             \/ WaitTimeout(x)
    BY <1>1, <2>3 DEF StartStore, StartRoute, StartSubmit, WaitReturn, WaitTimeout,
                      NeverReleased
  <2>4. ~ ReleaseRoute(x) /\ ~ ReleaseContext(x)
    BY <2>1 DEF ReleaseRoute, ReleaseContext, NeverReleased
  <2>5. CASE ReleaseUnknown(x)
    <3>1. cpc[x] = "refused" /\ cpc' = [cpc EXCEPT ![x] = "released"] /\ UNCHANGED handle
      BY <2>1, <2>5 DEF ReleaseUnknown
    <3>2. handle[x] = 0
      BY <3>1 DEF IInv, HandleGiven
    <3> QED BY <1>1, <3>1, <3>2 DEF NeverReleased
  <2> QED BY <1>2, <2>2, <2>3, <2>4, <2>5 DEF Client
<1>3. CASE Engine \/ UNCHANGED vars
  <2>1. UNCHANGED startVars
    BY <1>3, EngineKeepsStart DEF vars
  <2> QED BY <2>1 DEF NeverReleased, startVars, clientVars
<1> QED BY <1>2, <1>3, NextIsClientOrEngine

\* Clients that keep their handles keep to Drained.
LEMMA DrainedIfNever == ASSUME ReleasePolicy = "never" PROVE Spec => []Drained
<1>1. Init => NeverReleased
  BY DEF Init, NeverReleased
<1>2. IInv /\ NeverReleased /\ [Next]_vars => NeverReleased'
  BY NeverReleasedStep
<1>3. IInv /\ NeverReleased => Drained
  <2> SUFFICES ASSUME IInv, NeverReleased, NEW x \in Xfers,
                      cpc[x] \in {"unrouted", "released"}
               PROVE  /\ \A w \in Workers : x \notin active_contexts[w]
                      /\ \A r \in Wrs : r[1] = x => wr[r] \notin InFlight
    BY DEF Drained
  <2>1. handle[x] \notin Handles
    BY LimitConstants DEF NeverReleased, Handles
  <2>2. \A w \in Workers : x \notin active_contexts[w]
    BY <2>1 DEF IInv, WorkNamed
  <2>3. \A r \in Wrs : r[1] = x => wr[r] \notin InFlight
    BY <2>1 DEF IInv, WrsPlaced, InFlight, InCq
  <2> QED BY <2>2, <2>3
<1> QED BY <1>1, <1>2, <1>3, OutcomesAlways, PTL DEF Spec

\* So do clients that wait, as long as nothing fails: a transfer finishes when the last
\* of its chunks was polled, in the step that takes it off the active list.
LEMMA DrainedIfCalm == ASSUME NothingFails PROVE Spec => []Drained
<1>1. AllInv => Drained
  <2> SUFFICES ASSUME AllInv, NEW x \in Xfers, cpc[x] \in {"unrouted", "released"}
               PROVE  /\ \A w \in Workers : x \notin active_contexts[w]
                      /\ \A r \in Wrs : r[1] = x => wr[r] \notin InFlight
    BY DEF Drained
  <2>1. \A w \in Workers : x \notin active_contexts[w]
    BY DEF AllInv, RInv, Busy
  <2>2. \A r \in Wrs : r[1] = x => wr[r] \notin InFlight
    BY <2>1, XferConstants DEF AllInv, RInv, Busy
  <2> QED BY <2>1, <2>2
<1> QED BY <1>1, ResultsAlways, PTL

\* As long as no handle is given back, success means that all the chunks were
\* delivered: a completion of the wrong transfer is never counted.
THEOREM SuccessDespiteFaults ==
    ASSUME ReleasePolicy = "never"
    PROVE  Spec => []SuccessMeansDelivered
BY SuccessIfDrained, DrainedIfNever, PTL

\* As long as no handle is given back, a transfer fails only for a reason of its own,
\* whatever fails around it.
THEOREM FailureAlwaysHasCause ==
    ASSUME ReleasePolicy = "never", IsFiniteSet(Workers)
    PROVE  Spec => []FailureHasCause
BY FailureIfDrained, DrainedIfNever, PTL

\* As long as no handle is given back, the engine does what Delivery promises,
\* whichever worker polls a completion and however many transfers a poll takes down.
THEOREM EngineDeliversDespiteFaults ==
    ASSUME ReleasePolicy = "never"
    PROVE  Spec => DeliverySpec
BY DeliveryIfDrained, DrainedIfNever, PTL

\* As long as nothing fails, the engine does what Delivery promises although clients
\* release their handles and others get them.
THEOREM EngineDelivers ==
    ASSUME NothingFails
    PROVE  Spec => DeliverySpec
BY DeliveryIfDrained, DrainedIfCalm, PTL
=============================================================================
