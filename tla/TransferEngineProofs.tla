------------------------- MODULE TransferEngineProofs -------------------------
(***************************************************************************)
(* Proofs about TransferEngine, for every number of transfers, workers,    *)
(* NICs, chunks, handles and faults: its types and the uniqueness of       *)
(* handles under every release policy, and the queues, which name every    *)
(* transfer once, as long as no NIC fails and clients release what they    *)
(* have waited for.                                                        *)
(***************************************************************************)
EXTENDS TransferEngine, SequenceTheorems, TLAPS

-----------------------------------------------------------------------------
(* What TypeOK and HandlesUnique need besides themselves.                   *)

\* A transfer has a handle exactly from the allocation on.
HandleGiven ==
    /\ \A x \in Holding : handle[x] \in Handles
    /\ \A x \in Xfers : cpc[x] \in {"new", "refused"} => handle[x] = 0

\* A context in a map is filed under its own handle; what a worker visits in
\* its loops has a handle, or is a NIC while it polls.
WorkNamed ==
    /\ \A w \in Workers, h \in Handles :
         active_transfers[w][h] # None => handle[active_transfers[w][h]] = h
    /\ \A w \in Workers : \A x \in active_contexts[w] : handle[x] \in Handles
    /\ \A w \in Workers :
         /\ pc[w] \in {"post", "retire"} =>
              \A x \in todo[w] : x \in Xfers /\ handle[x] \in Handles
         /\ pc[w] = "poll" => todo[w] \subseteq Nics

\* A posted work request has a place, and belongs to a transfer with a handle.
WrsPlaced ==
    \A r \in Wrs : wr[r] # "todo" => /\ wr_at[r] \in Nics \X Qps
                                     /\ handle[r[1]] \in Handles

IInv == TypeOK /\ HandlesUnique /\ HandleGiven /\ WorkNamed /\ WrsPlaced

-----------------------------------------------------------------------------
(* The handle pool.                                                         *)

\* What std::vector::pop_back leaves of a non-empty vector.
LEMMA PopBack ==
    ASSUME NEW S, NEW s \in Seq(S), s # <<>>
    PROVE  LET front == SubSeq(s, 1, Len(s) - 1)
           IN  /\ Len(s) \in Nat \ {0} /\ s[Len(s)] \in S
               /\ front \in Seq(S) /\ Len(front) = Len(s) - 1
               /\ \A i \in 1..(Len(s) - 1) : front[i] = s[i]
<1>1. Len(s) \in Nat \ {0}
  BY EmptySeq
<1>2. \A i \in 1..Len(s) : s[i] \in S
  BY ElementOfSeq
<1> DEFINE n == Len(s) - 1
<1>3. n \in Nat /\ \A i \in 1..n : s[i] \in S
  BY <1>1, <1>2
<1> HIDE DEF n
<1>4. /\ SubSeq(s, 1, n) \in Seq(S)
      /\ Len(SubSeq(s, 1, n)) = n
      /\ \A i \in 1..n : SubSeq(s, 1, n)[i] = s[i]
  <2>1. /\ SubSeq(s, 1, n) \in Seq(S)
        /\ Len(SubSeq(s, 1, n)) = IF 1 <= n THEN n - 1 + 1 ELSE 0
        /\ \A i \in 1..(n - 1 + 1) : SubSeq(s, 1, n)[i] = s[1 + i - 1]
    BY <1>3, SubSeqProperties
  <2> QED BY <1>3, <2>1
<1> QED BY <1>1, <1>2, <1>4 DEF n

\* Every handle of the free list is a handle, and the pool's top is one too.
LEMMA TopIsHandle ==
    ASSUME TypeOK, ~PoolEmpty
    PROVE  PoolTop \in Handles
<1>1. free_list \in Seq(Handles) /\ next_new_handle \in 1..(MaxHandle + 1)
  BY DEF TypeOK
<1>2. CASE free_list = <<>>
  BY <1>1, <1>2, LimitConstants DEF PoolEmpty, PoolTop, Handles
<1>3. CASE free_list # <<>>
  BY <1>1, <1>3, PopBack DEF PoolTop
<1> QED BY <1>2, <1>3

\* The pool is well formed when the handles of transfers in the set X are taken.
\* HandlesUnique says so of Holding.
PoolGood(X, given, free, next) ==
    /\ \A x, y \in X : given[x] = given[y] => x = y
    /\ \A x \in X : /\ given[x] \in 1..(next - 1)
                    /\ \A i \in 1..Len(free) : free[i] # given[x]
    /\ \A i \in 1..Len(free) : free[i] < next
    /\ \A i, j \in 1..Len(free) : free[i] = free[j] => i = j

\* HandlePool::allocate gives x a handle that was free or never used.
LEMMA AllocateKeepsPool ==
    ASSUME TypeOK, HandlesUnique, ~PoolEmpty, PoolAllocate,
           NEW x \in Xfers, x \notin Holding, handle' = [handle EXCEPT ![x] = PoolTop]
    PROVE  PoolGood(Holding \cup {x}, handle', free_list', next_new_handle')
<1>1. /\ free_list \in Seq(Handles) /\ next_new_handle \in 1..(MaxHandle + 1)
      /\ handle \in [Xfers -> Handles \cup {0}]
  BY DEF TypeOK
<1>2. PoolGood(Holding, handle, free_list, next_new_handle)
  BY DEF HandlesUnique, PoolGood
<1>3. handle'[x] = PoolTop /\ \A y \in Holding : handle'[y] = handle[y]
  BY <1>1 DEF Holding
<1>4. CASE free_list = <<>>
  <2>1. free_list' = free_list /\ next_new_handle' = next_new_handle + 1
    BY <1>4 DEF PoolAllocate
  <2>2. PoolTop = next_new_handle /\ Len(free_list) = 0
    BY <1>4 DEF PoolTop
  <2> QED BY <1>1, <1>2, <1>3, <2>1, <2>2 DEF PoolGood
<1>5. CASE free_list # <<>>
  <2>1. free_list' = SubSeq(free_list, 1, Len(free_list) - 1)
        /\ next_new_handle' = next_new_handle
    BY <1>5 DEF PoolAllocate, poolVars
  <2>2. /\ Len(free_list) \in Nat \ {0} /\ Len(free_list') = Len(free_list) - 1
        /\ \A i \in 1..(Len(free_list) - 1) : free_list'[i] = free_list[i]
    BY <1>1, <1>5, <2>1, PopBack
  <2>3. PoolTop = free_list[Len(free_list)] /\ PoolTop \in Handles
    BY <1>1, <1>5, PopBack DEF PoolTop
  <2>4. \A y \in Holding : handle[y] # PoolTop
    BY <1>2, <2>2, <2>3 DEF PoolGood
  <2>5. PoolTop \in 1..(next_new_handle - 1)
    BY <1>1, <1>2, <2>2, <2>3 DEF PoolGood, Handles
  <2>6. \A i \in 1..(Len(free_list) - 1) : free_list[i] # PoolTop
    BY <1>2, <2>2, <2>3 DEF PoolGood
  <2> QED BY <1>2, <1>3, <2>1, <2>2, <2>4, <2>5, <2>6 DEF PoolGood
<1> QED BY <1>4, <1>5

\* HandlePool::release takes the handle of x back.
LEMMA ReleaseKeepsPool ==
    ASSUME TypeOK, HandlesUnique, NEW x \in Holding, PoolRelease(handle[x])
    PROVE  PoolGood(Holding \ {x}, handle, free_list', next_new_handle')
<1>1. /\ free_list \in Seq(Handles) /\ next_new_handle \in 1..(MaxHandle + 1)
      /\ handle[x] \in Handles \cup {0}
  BY DEF TypeOK, Holding
<1>2. PoolGood(Holding, handle, free_list, next_new_handle)
  BY DEF HandlesUnique, PoolGood
<1>3. handle[x] \in 1..(next_new_handle - 1)
  BY <1>2 DEF PoolGood
<1>4. handle[x] \in Handles /\ handle[x] # 0
  BY <1>1, <1>3
<1>5. free_list' = Append(free_list, handle[x]) /\ next_new_handle' = next_new_handle
  BY <1>4 DEF PoolRelease
<1>6. /\ Len(free_list) \in Nat /\ Len(free_list') = Len(free_list) + 1
      /\ free_list'[Len(free_list) + 1] = handle[x]
      /\ \A i \in 1..Len(free_list) : free_list'[i] = free_list[i]
  BY <1>1, <1>4, <1>5, AppendProperties, LenProperties
<1> QED BY <1>1, <1>2, <1>3, <1>5, <1>6 DEF PoolGood

\* A client's step that leaves its handle and the pool alone.
LEMMA HandlesKept ==
    ASSUME HandlesUnique, HandleGiven, Holding' = Holding,
           UNCHANGED <<poolVars, handle>>,
           \A x \in Xfers : cpc'[x] \in {"new", "refused"} =>
                            cpc[x] \in {"new", "refused"}
    PROVE  HandlesUnique' /\ HandleGiven'
<1>1. HandlesUnique'
  BY DEF HandlesUnique, poolVars
<1>2. HandleGiven'
  BY DEF HandleGiven
<1> QED BY <1>1, <1>2

\* HandlesUnique and HandleGiven survive every step of a client.
LEMMA HandlesClient ==
    ASSUME TypeOK, HandlesUnique, HandleGiven, NEW x \in Xfers, Client(x)
    PROVE  HandlesUnique' /\ HandleGiven'
<1>1. /\ cpc \in [Xfers -> Places] /\ handle \in [Xfers -> Handles \cup {0}]
  BY DEF TypeOK
<1>2. CASE StartAllocate(x)
  <2>1. cpc[x] = "new" /\ x \notin Holding
    BY <1>2 DEF StartAllocate, Holding
  <2>2. CASE PoolEmpty
    <3>1. cpc' = [cpc EXCEPT ![x] = "refused"] /\ UNCHANGED <<handle, poolVars>>
      BY <1>2, <2>2 DEF StartAllocate
    <3>2. Holding' = Holding
      BY <1>1, <2>1, <3>1 DEF Holding
    <3> QED BY <1>1, <2>1, <3>1, <3>2, HandlesKept
  <2>3. CASE ~PoolEmpty
    <3>1. /\ cpc' = [cpc EXCEPT ![x] = "allocated"]
          /\ handle' = [handle EXCEPT ![x] = PoolTop] /\ PoolAllocate
      BY <1>2, <2>3 DEF StartAllocate
    <3>2. Holding' = Holding \cup {x}
      BY <1>1, <2>1, <3>1 DEF Holding
    <3>3. HandlesUnique'
      BY <2>1, <2>3, <3>1, <3>2, AllocateKeepsPool DEF HandlesUnique, PoolGood
    <3>4. HandleGiven'
      BY <1>1, <2>1, <2>3, <3>1, <3>2, TopIsHandle DEF HandleGiven, Holding
    <3> QED BY <3>3, <3>4
  <2> QED BY <2>2, <2>3
<1>3. CASE StartStore(x) \/ StartRoute(x) \/ StartSubmit(x) \/ WaitReturn(x)
           \/ WaitTimeout(x) \/ ReleaseRoute(x)
  <2>1. UNCHANGED <<poolVars, handle>>
    BY <1>3 DEF StartStore, StartRoute, StartSubmit, WaitReturn, WaitTimeout, ReleaseRoute
  <2>2. Holding' = Holding
    BY <1>1, <1>3 DEF StartStore, StartRoute, StartSubmit, WaitReturn, WaitTimeout,
                      ReleaseRoute, MayRelease, Holding
  <2>3. \A y \in Xfers : cpc'[y] \in {"new", "refused"} => cpc'[y] = cpc[y]
    BY <1>1, <1>3 DEF StartStore, StartRoute, StartSubmit, WaitReturn, WaitTimeout,
                      ReleaseRoute
  <2> QED BY <2>1, <2>2, <2>3, HandlesKept
<1>4. CASE ReleaseContext(x) \/ (ReleaseUnknown(x) /\ cpc[x] # "refused")
  <2>1. /\ cpc' = [cpc EXCEPT ![x] = "released"] /\ handle' = handle
        /\ PoolRelease(handle[x]) /\ x \in Holding
    BY <1>4 DEF ReleaseContext, ReleaseUnknown, MayRelease, Holding
  <2>2. Holding' = Holding \ {x}
    BY <1>1, <2>1 DEF Holding
  <2>3. HandlesUnique'
    BY <2>1, <2>2, ReleaseKeepsPool DEF HandlesUnique, PoolGood
  <2>4. HandleGiven'
    BY <1>1, <2>1, <2>2 DEF HandleGiven
  <2> QED BY <2>3, <2>4
<1>5. CASE ReleaseUnknown(x) /\ cpc[x] = "refused"
  <2>1. handle[x] = 0 /\ x \notin Holding
    BY <1>5 DEF HandleGiven, Holding
  <2>2. /\ cpc' = [cpc EXCEPT ![x] = "released"]
        /\ UNCHANGED <<poolVars, handle>>
    BY <1>5, <2>1 DEF ReleaseUnknown, PoolRelease, poolVars
  <2>3. Holding' = Holding
    BY <1>1, <2>1, <2>2 DEF Holding
  <2> QED BY <1>1, <2>2, <2>3, HandlesKept
<1> QED BY <1>2, <1>3, <1>4, <1>5 DEF Client

-----------------------------------------------------------------------------
(* The steps of workers, NICs and time leave the clients' side alone.       *)

Engine ==
    \/ \E w \in Workers : Work(w)
    \/ \E r \in Wrs : NicStep(r)
    \/ \E n \in Nics : PortChange(n) \/ QuarantineElapses(n)
    \/ Fault

LEMMA NextIsClientOrEngine == Next <=> (\E x \in Xfers : Client(x)) \/ Engine
BY DEF Next, Engine

LEMMA EngineKeepsStart ==
    ASSUME Engine
    PROVE  UNCHANGED startVars
<1>1. ASSUME NEW w \in Workers, Work(w)
      PROVE  UNCHANGED startVars
  BY <1>1 DEF Work, Drain, StartPass, StartPoll, StartRetire, EndPass, EndProbe,
       PostChunk, PostUnroutable, PostRejected, PostBreak, PostUnchanged, Retire,
       PollWc, PollEmpty, ProbeDown, ProbeUp, ProbeRefused
<1>2. ASSUME NEW r \in Wrs, NicStep(r) \/ NicFault(r)
      PROVE  UNCHANGED startVars
  BY <1>2 DEF NicStep, NicFault, NicDeliver, NicFlush, NicRetriesExhausted, FailWr,
       NicUnchanged
<1>3. ASSUME NEW n \in Nics, PortChange(n) \/ QuarantineElapses(n)
      PROVE  UNCHANGED startVars
  BY <1>3 DEF PortChange, QuarantineElapses
<1>4. ASSUME NEW w \in Workers, NEW n \in Nics, PollFatal(w, n)
      PROVE  UNCHANGED startVars
  BY <1>4 DEF PollFatal
<1> QED BY <1>1, <1>2, <1>3, <1>4 DEF Engine, Fault

LEMMA HandlesStep ==
    ASSUME IInv, [Next]_vars
    PROVE  HandlesUnique' /\ HandleGiven'
<1>1. CASE \E x \in Xfers : Client(x)
  BY <1>1, HandlesClient DEF IInv
<1>2. CASE Engine \/ UNCHANGED vars
  <2>1. UNCHANGED startVars
    BY <1>2, EngineKeepsStart DEF vars
  <2>2. UNCHANGED <<poolVars, cpc, handle>>
    BY <2>1 DEF startVars, clientVars
  <2>3. Holding' = Holding
    BY <2>2 DEF Holding
  <2> QED BY <2>2, <2>3, HandlesKept DEF IInv
<1> QED BY <1>1, <1>2, NextIsClientOrEngine

-----------------------------------------------------------------------------
(* TypeOK.                                                                  *)

\* The conjuncts of TypeOK, by the part of the system that owns the variables.
StartType ==
    /\ free_list \in Seq(Handles) /\ next_new_handle \in 1..(MaxHandle + 1)
    /\ cpc \in [Xfers -> Places]
    /\ handle \in [Xfers -> Handles \cup {0}]
    /\ result \in [Xfers -> Codes \cup {"none", "timeout", "invalid"}]
    /\ active_transfers \in [Workers -> [Handles -> Xfers \cup {None}]]
    /\ handle_numa_map \in [Handles -> Workers \cup {None}]
    /\ freed \in SUBSET Xfers

CtxType ==
    /\ next_chunk_idx \in [Xfers -> Nat] /\ total_completed \in [Xfers -> Nat]
    /\ error_code \in [Xfers -> Codes] /\ finished \in [Xfers -> BOOLEAN]
    /\ candidates \in [Xfers -> SUBSET Nics]

WorkerType ==
    /\ queue \in [Workers -> Seq(Handles)]
    /\ pc \in [Workers -> {"drain", "post", "poll", "retire", "probe"}]
    /\ todo \in [Workers -> SUBSET (Xfers \cup Nics)]
    /\ active_contexts \in [Workers -> SUBSET Xfers]

NicType ==
    /\ nic_out \in [Workers -> [Nics -> Int]]
    /\ qp_out \in [Workers -> [Nics -> [Qps -> Int]]]
    /\ wr \in [Wrs -> WrStates] /\ wr_at \in [Wrs -> (Nics \X Qps) \cup {None}]
    /\ qp_error \in [Nics -> [Qps -> BOOLEAN]] /\ port_up \in [Nics -> BOOLEAN]
    /\ in_quarantine \in [Nics -> BOOLEAN] /\ elapsed \in [Nics -> BOOLEAN]
    /\ faults \in Nat

LEMMA TypeParts ==
    /\ TypeOK <=> StartType /\ CtxType /\ WorkerType /\ NicType
    /\ StartType' /\ CtxType' /\ WorkerType' /\ NicType' => TypeOK'
BY DEF TypeOK, StartType, CtxType, WorkerType, NicType

\* The work requests, taken apart and put together.
LEMMA WrParts ==
    /\ \A r \in Wrs : r[1] \in Xfers
    /\ \A x \in Xfers : \A c \in 0..(TotalChunks[x] - 1) : <<x, c>> \in Wrs
BY DEF Wrs

LEMMA PhysQpIsQp == \A q \in Qps : PhysQp(q) \in Qps
BY LimitConstants DEF PhysQp, Qps

\* A held handle is a handle; so is the handle of whoever releases.
LEMMA StartTypeStep ==
    ASSUME TypeOK, HandleGiven, NEW x \in Xfers, Client(x)
    PROVE  StartType'
<1> USE XferConstants, LimitConstants
<1>1. StartType /\ CtxType
  BY TypeParts
<1>2. x \in Holding => handle[x] \in Handles
  BY DEF HandleGiven
<1>3. Home[x] \in Workers
  OBVIOUS
<1>4. CASE StartAllocate(x)
  <2>1. CASE PoolEmpty
    BY <1>1, <1>4, <2>1 DEF StartAllocate, StartType, Places, mapVars, poolVars
  <2>2. CASE ~PoolEmpty
    <3>1. PoolTop \in Handles
      BY <2>2, TopIsHandle
    <3>2. PoolAllocate
      BY <1>4, <2>2 DEF StartAllocate
    <3>3. free_list' \in Seq(Handles) /\ next_new_handle' \in 1..(MaxHandle + 1)
      <4>1. CASE free_list = <<>>
        BY <1>1, <2>2, <3>2, <4>1 DEF PoolAllocate, PoolEmpty, StartType
      <4>2. CASE free_list # <<>>
        <5>1. free_list \in Seq(Handles) /\ next_new_handle \in 1..(MaxHandle + 1)
          BY <1>1 DEF StartType
        <5>2. /\ free_list' = SubSeq(free_list, 1, Len(free_list) - 1)
              /\ next_new_handle' = next_new_handle
          BY <3>2, <4>2 DEF PoolAllocate
        <5> QED BY <4>2, <5>1, <5>2, PopBack
      <4> QED BY <4>1, <4>2
    <3>4. /\ cpc' = [cpc EXCEPT ![x] = "allocated"]
          /\ handle' = [handle EXCEPT ![x] = PoolTop] /\ UNCHANGED <<result, mapVars>>
      BY <1>4, <2>2 DEF StartAllocate
    <3> QED BY <1>1, <3>1, <3>3, <3>4 DEF StartType, Places, mapVars
  <2> QED BY <2>1, <2>2
<1>5. CASE StartStore(x)
  <2>1. handle[x] \in Handles
    BY <1>2, <1>5 DEF StartStore, Holding
  <2>2. active_transfers[Home[x]][handle[x]] \in Xfers \cup {None}
    BY <1>1, <1>3, <2>1 DEF StartType
  <2>3. freed' \in SUBSET Xfers
    BY <1>1, <1>5, <2>2 DEF StartStore, StartType
  <2>4. active_transfers' \in [Workers -> [Handles -> Xfers \cup {None}]]
    BY <1>1, <1>3, <1>5, <2>1 DEF StartStore, StartType
  <2> QED BY <1>1, <1>5, <2>3, <2>4 DEF StartStore, StartType, Places, poolVars
<1>6. CASE StartRoute(x)
  <2>1. handle_numa_map' \in [Handles -> Workers \cup {None}]
    BY <1>1, <1>3, <1>6 DEF StartRoute, StartType
  <2>2. cpc' \in [Xfers -> Places]
    BY <1>1, <1>6 DEF StartRoute, StartType, Places
  <2> QED BY <1>1, <1>6, <2>1, <2>2 DEF StartRoute, StartType, poolVars
<1>7. CASE StartSubmit(x)
  BY <1>1, <1>7 DEF StartSubmit, StartType, Places, poolVars, mapVars
<1>8. CASE WaitReturn(x)
  <2>1. CASE Lookup(handle[x]) = None
    BY <1>1, <1>8, <2>1 DEF WaitReturn, StartType, Places, poolVars, mapVars
  <2>2. CASE Lookup(handle[x]) # None
    <3>1. handle[x] \in Handles
      BY <1>2, <1>8 DEF WaitReturn, Holding
    <3>2. Lookup(handle[x]) \in Xfers
      BY <1>1, <2>2, <3>1 DEF Lookup, Routed, StartType
    <3>3. error_code[Lookup(handle[x])] \in Codes
      BY <1>1, <3>2 DEF CtxType
    <3> QED BY <1>1, <1>8, <2>2, <3>3 DEF WaitReturn, StartType, Places, poolVars, mapVars
  <2> QED BY <2>1, <2>2
<1>9. CASE WaitTimeout(x)
  BY <1>1, <1>9 DEF WaitTimeout, StartType, poolVars, mapVars
<1>10. CASE ReleaseRoute(x)
  BY <1>1, <1>10 DEF ReleaseRoute, StartType, Places, poolVars
<1>11. ASSUME PoolRelease(handle[x])
       PROVE  free_list' \in Seq(Handles) /\ next_new_handle' = next_new_handle
  <2>1. handle[x] \in Handles \cup {0}
    BY <1>1 DEF StartType
  <2> QED BY <1>1, <1>11, <2>1, AppendProperties DEF PoolRelease, StartType
<1>12. CASE ReleaseContext(x)
  <2>1. handle[x] \in Handles /\ PoolRelease(handle[x])
    BY <1>2, <1>12 DEF ReleaseContext, Holding
  <2>2. active_transfers[Home[x]][handle[x]] \in Xfers \cup {None}
    BY <1>1, <1>3, <2>1 DEF StartType
  <2>3. freed' \in SUBSET Xfers
    BY <1>1, <1>12, <2>2 DEF ReleaseContext, StartType
  <2>4. active_transfers' \in [Workers -> [Handles -> Xfers \cup {None}]]
    BY <1>1, <1>3, <1>12, <2>1 DEF ReleaseContext, StartType
  <2> QED BY <1>1, <1>11, <1>12, <2>1, <2>3, <2>4 DEF ReleaseContext, StartType, Places
<1>13. CASE ReleaseUnknown(x)
  BY <1>1, <1>11, <1>13 DEF ReleaseUnknown, StartType, Places, mapVars
<1> QED BY <1>4, <1>5, <1>6, <1>7, <1>8, <1>9, <1>10, <1>12, <1>13 DEF Client

\* What a client does to the contexts, the queues and the NICs.
LEMMA ClientTypeStep ==
    ASSUME TypeOK, HandleGiven, NEW x \in Xfers, Client(x)
    PROVE  CtxType' /\ WorkerType' /\ NicType'
<1>1. StartType /\ CtxType /\ WorkerType /\ NicType
  BY TypeParts
<1>2. CASE StartStore(x)
  <2>1. HealthyCandidates(x) \in SUBSET Nics /\ TotalChunks[x] \in Nat
    BY XferConstants DEF HealthyCandidates
  <2>2. CtxType'
    BY <1>1, <1>2, <2>1 DEF StartStore, CtxType, Codes
  <2>3. UNCHANGED <<queue, workerVars, countVars, wrVars, linkVars, quarVars, faults>>
    BY <1>2 DEF StartStore
  <2> QED BY <1>1, <2>2, <2>3 DEF WorkerType, NicType, workerVars, countVars, wrVars,
                                  linkVars, quarVars, Qps
<1>3. CASE StartSubmit(x)
  <2>1. handle[x] \in Handles /\ Home[x] \in Workers
    BY <1>3, XferConstants DEF StartSubmit, HandleGiven, Holding
  <2>2. Append(queue[Home[x]], handle[x]) \in Seq(Handles)
    BY <1>1, <2>1, AppendProperties DEF WorkerType
  <2>3. queue' \in [Workers -> Seq(Handles)]
    BY <1>1, <1>3, <2>1, <2>2 DEF StartSubmit, WorkerType
  <2>4. UNCHANGED <<ctxVars, workerVars, countVars, wrVars, linkVars, quarVars, faults>>
    BY <1>3 DEF StartSubmit
  <2> QED BY <1>1, <2>3, <2>4 DEF CtxType, WorkerType, NicType, ctxVars, workerVars,
                                  countVars, wrVars, linkVars, quarVars, Qps
<1>4. CASE StartAllocate(x) \/ StartRoute(x) \/ WaitReturn(x) \/ WaitTimeout(x)
           \/ ReleaseRoute(x) \/ ReleaseContext(x) \/ ReleaseUnknown(x)
  <2>1. UNCHANGED <<ctxVars, queue, workerVars, countVars, wrVars, linkVars, quarVars,
                    faults>>
    BY <1>4 DEF StartAllocate, StartRoute, WaitReturn, WaitTimeout, ReleaseRoute,
                ReleaseContext, ReleaseUnknown
  <2> QED BY <1>1, <2>1 DEF CtxType, WorkerType, NicType, ctxVars, workerVars,
                            countVars, wrVars, linkVars, quarVars, Qps
<1> QED BY <1>2, <1>3, <1>4 DEF Client

-----------------------------------------------------------------------------
(* Types: the steps of workers, NICs and time.                              *)

\* The parts of TypeOK survive while their variables do.
LEMMA TypesKept ==
    /\ CtxType /\ UNCHANGED ctxVars => CtxType'
    /\ WorkerType /\ UNCHANGED <<queue, workerVars>> => WorkerType'
    /\ NicType /\ UNCHANGED <<countVars, wrVars, linkVars, quarVars, faults>> => NicType'
BY DEF CtxType, WorkerType, NicType, ctxVars, workerVars, countVars, wrVars,
       linkVars, quarVars, Qps

\* The phases, and what a phase's loop has to visit.
LEMMA PhaseTypes ==
    ASSUME WorkerType, NEW w \in Workers, UNCHANGED <<queue, active_contexts>>,
           \/ \E phase \in {"drain", "post", "poll", "retire", "probe"},
                 work \in SUBSET (Xfers \cup Nics) : ToPhase(w, phase, work)
           \/ \E item \in Xfers \cup Nics : Visited(w, item)
    PROVE  WorkerType'
BY DEF WorkerType, ToPhase, Visited

\* The context a completion is credited to is a transfer.
LEMMA OwnerIsXfer ==
    ASSUME TypeOK, NEW w \in Workers, NEW h \in Handles
    PROVE  Owner(w, h) \in Xfers \cup {None}
<1> DEFINE mine == {x \in active_contexts[w] : handle[x] = h}
<1>1. active_contexts[w] \subseteq Xfers /\ active_transfers[w][h] \in Xfers \cup {None}
  BY DEF TypeOK
<1>2. CASE mine = {}
  BY <1>1, <1>2 DEF Owner
<1>3. CASE mine # {}
  <2>1. (CHOOSE x \in mine : TRUE) \in mine
    BY <1>3
  <2> QED BY <1>1, <1>3, <2>1 DEF Owner
<1> QED BY <1>2, <1>3

LEMMA PollNicsAreNics ==
    ASSUME CtxType, WorkerType, NEW w \in Workers
    PROVE  PollNics(w) \subseteq Nics
BY DEF CtxType, WorkerType, PollNics

LEMMA SlotsArePlaces ==
    ASSUME CtxType, NEW w \in Workers, NEW x \in Xfers
    PROVE  Slots(w, x) \subseteq Nics \X Qps
<1>1. OpenNics(w, x) \subseteq Nics
  BY DEF CtxType, OpenNics
<1> QED BY <1>1 DEF Slots

\* The phases of a worker that visit nothing of the contexts' fields.
LEMMA PhaseTypeStep ==
    ASSUME TypeOK, NEW w \in Workers,
           \/ Drain(w) \/ StartPass(w) \/ StartPoll(w) \/ StartRetire(w)
           \/ EndPass(w) \/ EndProbe(w) \/ \E n \in Nics : PollEmpty(w, n)
    PROVE  CtxType' /\ WorkerType' /\ NicType'
<1>1. StartType /\ CtxType /\ WorkerType /\ NicType
  BY TypeParts
<1>2. CtxType' /\ NicType'
  BY <1>1, TypesKept DEF Drain, StartPass, StartPoll, StartRetire, EndPass, EndProbe,
                         PollEmpty
<1>3. CASE Drain(w)
  <2>1. queue[w] \in Seq(Handles) /\ queue[w] # <<>>
    BY <1>1, <1>3 DEF Drain, WorkerType
  <2>2. Head(queue[w]) \in Handles /\ Tail(queue[w]) \in Seq(Handles)
    BY <2>1, HeadTailProperties
  <2>3. active_transfers[w][Head(queue[w])] \in Xfers \cup {None}
    BY <1>1, <2>2 DEF StartType
  <2>4. queue' \in [Workers -> Seq(Handles)]
    BY <1>1, <1>3, <2>2 DEF Drain, WorkerType
  <2>5. active_contexts' \in [Workers -> SUBSET Xfers]
    BY <1>1, <1>3, <2>3 DEF Drain, WorkerType
  <2> QED BY <1>1, <1>2, <1>3, <2>4, <2>5 DEF Drain, WorkerType
<1>4. CASE StartPass(w) \/ StartPoll(w) \/ StartRetire(w) \/ EndPass(w) \/ EndProbe(w)
  <2>1. UNCHANGED <<queue, active_contexts>>
    BY <1>4 DEF StartPass, StartPoll, StartRetire, EndPass, EndProbe
  <2>2. /\ active_contexts[w] \in SUBSET (Xfers \cup Nics)
        /\ PollNics(w) \in SUBSET (Xfers \cup Nics) /\ {} \in SUBSET (Xfers \cup Nics)
    BY <1>1, PollNicsAreNics DEF WorkerType
  <2>3. \E phase \in {"drain", "post", "poll", "retire", "probe"},
           work \in SUBSET (Xfers \cup Nics) : ToPhase(w, phase, work)
    BY <1>4, <2>2 DEF StartPass, StartPoll, StartRetire, EndPass, EndProbe
  <2> QED BY <1>1, <1>2, <2>1, <2>3, PhaseTypes
<1>5. CASE \E n \in Nics : PollEmpty(w, n)
  <2>1. UNCHANGED <<queue, active_contexts>> /\ \E n \in Nics : Visited(w, n)
    BY <1>5 DEF PollEmpty
  <2> QED BY <1>1, <1>2, <2>1, PhaseTypes
<1> QED BY <1>3, <1>4, <1>5

\* Phase 2: posting, or failing to.
LEMMA PostTypeStep ==
    ASSUME TypeOK, NEW w \in Workers, NEW x \in Xfers,
           \/ PostChunk(w, x) \/ PostUnroutable(w, x)
           \/ PostRejected(w, x) \/ PostBreak(w, x)
    PROVE  CtxType' /\ WorkerType' /\ NicType'
<1>1. StartType /\ CtxType /\ WorkerType /\ NicType
  BY TypeParts
<1>2. CASE PostChunk(w, x)
  <2> DEFINE r == <<x, next_chunk_idx[x]>>
  <2>1. PICK s \in Slots(w, x) :
           /\ nic_out' = [nic_out EXCEPT ![w][s[1]] = @ + 1]
           /\ qp_out' = [qp_out EXCEPT ![w][s[1]][s[2]] = @ + 1]
           /\ wr_at' = [wr_at EXCEPT ![r] = s]
    BY <1>2 DEF PostChunk
  <2>2. s \in Nics \X Qps
    BY <1>1, <2>1, SlotsArePlaces
  <2>3. /\ wr' = [wr EXCEPT ![r] = "sent"]
        /\ next_chunk_idx' = [next_chunk_idx EXCEPT ![x] = @ + 1]
        /\ UNCHANGED <<total_completed, error_code, finished, candidates, queue,
                       workerVars, linkVars, quarVars, faults>>
    BY <1>2 DEF PostChunk
  <2>4. CtxType' /\ WorkerType'
    BY <1>1, <2>3 DEF CtxType, WorkerType, workerVars
  <2>5. wr' \in [Wrs -> WrStates] /\ wr_at' \in [Wrs -> (Nics \X Qps) \cup {None}]
    BY <1>1, <2>1, <2>2, <2>3 DEF NicType, WrStates
  <2>6. s[1] \in Nics /\ s[2] \in Qps
    BY <2>2
  <2>7. nic_out' \in [Workers -> [Nics -> Int]]
    BY <1>1, <2>1, <2>6 DEF NicType
  <2>8. qp_out' \in [Workers -> [Nics -> [Qps -> Int]]]
    BY <1>1, <2>1, <2>6 DEF NicType
  <2> QED BY <1>1, <2>3, <2>4, <2>5, <2>7, <2>8 DEF NicType, linkVars, quarVars, Qps
<1>3. CASE PostUnroutable(w, x) \/ PostRejected(w, x) \/ PostBreak(w, x)
  <2>1. PostUnchanged /\ Visited(w, x)
    BY <1>3 DEF PostUnroutable, PostRejected, PostBreak
  <2>2. WorkerType' /\ NicType'
    BY <1>1, <2>1, PhaseTypes, TypesKept DEF PostUnchanged
  <2>3. \/ UNCHANGED <<error_code, finished>>
        \/ Fail(x, "connection") \/ Fail(x, "post")
    BY <1>3 DEF PostUnroutable, PostRejected, PostBreak
  <2>4. UNCHANGED <<next_chunk_idx, total_completed, candidates>>
    BY <2>1 DEF PostUnchanged
  <2>5. CtxType'
    BY <1>1, <2>3, <2>4 DEF CtxType, Codes, Fail
  <2> QED BY <2>2, <2>5
<1> QED BY <1>2, <1>3

\* Phase 2b: a completion, or a failed poll.
LEMMA PollTypeStep ==
    ASSUME TypeOK, WrsPlaced, NEW w \in Workers, NEW n \in Nics,
           PollWc(w, n) \/ PollFatal(w, n)
    PROVE  CtxType' /\ WorkerType' /\ NicType'
<1>1. StartType /\ CtxType /\ WorkerType /\ NicType
  BY TypeParts
<1>2. CASE PollWc(w, n)
  <2>1. PICK r \in Completions(n), stay \in BOOLEAN :
         LET x == Owner(w, handle[r[1]])
             bad == wr[r] = "error"
         IN  /\ wr' = [wr EXCEPT ![r] = IF bad THEN "failed" ELSE "done"]
             /\ CountCompletion(w, r)
             /\ IF x # None /\ bad
                  THEN /\ in_quarantine' = [in_quarantine EXCEPT ![n] = TRUE]
                       /\ elapsed' = [elapsed EXCEPT ![n] = @ /\ in_quarantine[n]]
                       /\ Fail(x, "completion")
                  ELSE UNCHANGED <<quarVars, error_code, finished>>
             /\ total_completed' = IF x # None /\ ~bad
                                     THEN [total_completed EXCEPT ![x] = @ + 1]
                                     ELSE total_completed
             /\ todo' = [todo EXCEPT ![w] = IF stay THEN @ ELSE @ \ {n}]
    BY <1>2 DEF PollWc
  <2>2. UNCHANGED <<next_chunk_idx, candidates, queue, pc, active_contexts, wr_at,
                    linkVars, faults>>
    BY <1>2 DEF PollWc
  <2>3. r \in Wrs /\ wr_at[r] \in Nics \X Qps /\ handle[r[1]] \in Handles
    BY <2>1 DEF Completions, WrsPlaced, InCq
  <2> DEFINE x == Owner(w, handle[r[1]])
  <2>4. x \in Xfers \cup {None}
    BY <2>3, OwnerIsXfer
  <2>5. wr_at[r][1] \in Nics /\ wr_at[r][2] \in Qps
    BY <2>3
  <2> HIDE DEF x
  <2>6. total_completed' \in [Xfers -> Nat]
    BY <1>1, <2>1, <2>4 DEF CtxType, x
  <2>7. error_code' \in [Xfers -> Codes] /\ finished' \in [Xfers -> BOOLEAN]
    BY <1>1, <2>1, <2>4 DEF CtxType, x, Fail, Codes
  <2>8. todo' \in [Workers -> SUBSET (Xfers \cup Nics)]
    BY <1>1, <2>1 DEF WorkerType
  <2>9. wr' \in [Wrs -> WrStates]
    BY <1>1, <2>1, <2>3 DEF NicType, WrStates
  <2>10. nic_out' \in [Workers -> [Nics -> Int]]
    BY <1>1, <2>1, <2>5 DEF NicType, CountCompletion
  <2>11. qp_out' \in [Workers -> [Nics -> [Qps -> Int]]]
    BY <1>1, <2>1, <2>5 DEF NicType, CountCompletion
  <2>12. in_quarantine' \in [Nics -> BOOLEAN] /\ elapsed' \in [Nics -> BOOLEAN]
    BY <1>1, <2>1 DEF NicType, quarVars
  <2>13. CtxType' /\ WorkerType'
    BY <1>1, <2>2, <2>6, <2>7, <2>8 DEF CtxType, WorkerType
  <2>14. NicType'
    BY <1>1, <2>2, <2>9, <2>10, <2>11, <2>12 DEF NicType, linkVars, Qps
  <2> QED BY <2>13, <2>14
<1>3. CASE PollFatal(w, n)
  <2>1. /\ error_code' \in [Xfers -> Codes] /\ finished' \in [Xfers -> BOOLEAN]
        /\ active_contexts' \in [Workers -> SUBSET Xfers]
    BY <1>1, <1>3 DEF PollFatal, CtxType, WorkerType, Codes
  <2>2. /\ pc' \in [Workers -> {"drain", "post", "poll", "retire", "probe"}]
        /\ todo' \in [Workers -> SUBSET (Xfers \cup Nics)] /\ faults' \in Nat
    BY <1>1, <1>3 DEF PollFatal, ToPhase, WorkerType, NicType
  <2>3. UNCHANGED <<next_chunk_idx, total_completed, candidates, queue, countVars,
                    wrVars, linkVars, quarVars>>
    BY <1>3 DEF PollFatal
  <2>4. CtxType' /\ WorkerType'
    BY <1>1, <2>1, <2>2, <2>3 DEF CtxType, WorkerType
  <2>5. NicType'
    BY <1>1, <2>2, <2>3 DEF NicType, countVars, wrVars, linkVars, quarVars, Qps
  <2> QED BY <2>4, <2>5
<1> QED BY <1>2, <1>3

\* Phases 4 and 5: contexts retire, NICs are probed.
LEMMA RetireProbeTypeStep ==
    ASSUME TypeOK, NEW w \in Workers,
           \/ \E x \in Xfers : Retire(w, x)
           \/ \E n \in Nics : ProbeDown(w, n) \/ ProbeUp(w, n) \/ ProbeRefused(w, n)
    PROVE  CtxType' /\ WorkerType' /\ NicType'
<1>1. StartType /\ CtxType /\ WorkerType /\ NicType
  BY TypeParts
<1>2. ASSUME NEW x \in Xfers, Retire(w, x)
      PROVE  CtxType' /\ WorkerType' /\ NicType'
  <2>1. finished' \in [Xfers -> BOOLEAN]
    BY <1>1, <1>2 DEF Retire, CtxType, AllCompleted
  <2>2. error_code' \in [Xfers -> Codes]
    BY <1>1, <1>2 DEF Retire, CtxType, Codes
  <2>3. active_contexts' \in [Workers -> SUBSET Xfers]
    BY <1>1, <1>2 DEF Retire, WorkerType
  <2>4. UNCHANGED pc /\ todo' \in [Workers -> SUBSET (Xfers \cup Nics)]
    BY <1>1, <1>2 DEF Retire, Visited, WorkerType
  <2>5. UNCHANGED <<next_chunk_idx, total_completed, candidates, queue, countVars,
                    wrVars, linkVars, quarVars, faults>>
    BY <1>2 DEF Retire
  <2>6. NicType'
    BY <1>1, <2>5, TypesKept
  <2> QED BY <1>1, <2>1, <2>2, <2>3, <2>4, <2>5, <2>6 DEF CtxType, WorkerType
<1>3. ASSUME NEW n \in Nics, ProbeDown(w, n) \/ ProbeUp(w, n) \/ ProbeRefused(w, n)
      PROVE  CtxType' /\ WorkerType' /\ NicType'
  <2>1. CtxType' /\ WorkerType'
    BY <1>1, <1>3, TypesKept DEF ProbeDown, ProbeUp, ProbeRefused
  <2>2. UNCHANGED <<countVars, wr_at, port_up>>
    BY <1>3 DEF ProbeDown, ProbeUp, ProbeRefused, wrVars, linkVars
  <2>3. wr' \in [Wrs -> WrStates]
    BY <1>1, <1>3 DEF ProbeDown, ProbeUp, ProbeRefused, wrVars, NicType, WrStates
  <2>4. qp_error' \in [Nics -> [Qps -> BOOLEAN]]
    <3>1. \/ qp_error' = qp_error
          \/ qp_error' = [qp_error EXCEPT ![n] = [q \in Qps |-> FALSE]]
      BY <1>3 DEF ProbeDown, ProbeUp, ProbeRefused, linkVars
    <3>2. [q \in Qps |-> FALSE] \in [Qps -> BOOLEAN]
      OBVIOUS
    <3> QED BY <1>1, <3>1, <3>2, Zenon DEF NicType
  <2>5. in_quarantine' \in [Nics -> BOOLEAN] /\ elapsed' \in [Nics -> BOOLEAN]
    BY <1>1, <1>3 DEF ProbeDown, ProbeUp, ProbeRefused, NicType
  <2>6. faults' \in Nat
    BY <1>1, <1>3 DEF ProbeDown, ProbeUp, ProbeRefused, NicType
  <2>7. NicType'
    BY <1>1, <2>2, <2>3, <2>4, <2>5, <2>6 DEF NicType, countVars, Qps
  <2> QED BY <2>1, <2>7
<1> QED BY <1>2, <1>3

\* The NICs, the links and time.
LEMMA NicTypeStep ==
    ASSUME TypeOK, WrsPlaced,
           \/ \E r \in Wrs : NicStep(r) \/ NicFault(r)
           \/ \E n \in Nics : PortChange(n) \/ QuarantineElapses(n)
    PROVE  CtxType' /\ WorkerType' /\ NicType'
<1>1. StartType /\ CtxType /\ WorkerType /\ NicType
  BY TypeParts
<1>2. CtxType' /\ WorkerType'
  BY <1>1, TypesKept DEF NicStep, NicFault, NicDeliver, NicFlush, NicRetriesExhausted,
                         FailWr, NicUnchanged, PortChange, QuarantineElapses
<1>3. ASSUME NEW r \in Wrs, NicStep(r) \/ NicFault(r)
      PROVE  NicType'
  <2>1. wr[r] = "sent"
    BY <1>3 DEF NicStep, NicFault, NicDeliver, NicFlush, NicRetriesExhausted, FailWr
  <2>2. wr_at[r][1] \in Nics /\ PhysQp(wr_at[r][2]) \in Qps
    BY <2>1, PhysQpIsQp DEF WrsPlaced
  <2>3. wr' \in [Wrs -> WrStates]
    BY <1>1, <1>3 DEF NicStep, NicFault, NicDeliver, NicFlush, NicRetriesExhausted,
                      FailWr, NicType, WrStates
  <2>4. \/ qp_error' = qp_error
        \/ qp_error' = [qp_error EXCEPT ![wr_at[r][1]][PhysQp(wr_at[r][2])] = TRUE]
    BY <1>3 DEF NicStep, NicFault, NicDeliver, NicFlush, NicRetriesExhausted, FailWr
  <2>5. qp_error' \in [Nics -> [Qps -> BOOLEAN]]
    <3> DEFINE n == wr_at[r][1]
               q == PhysQp(wr_at[r][2])
    <3>1. qp_error \in [Nics -> [Qps -> BOOLEAN]] /\ n \in Nics /\ q \in Qps
      BY <1>1, <2>2 DEF NicType
    <3> HIDE DEF n, q
    <3>2. [qp_error[n] EXCEPT ![q] = TRUE] \in [Qps -> BOOLEAN]
      BY <3>1
    <3>3. [qp_error EXCEPT ![n] = [qp_error[n] EXCEPT ![q] = TRUE]]
            \in [Nics -> [Qps -> BOOLEAN]]
      BY <3>1, <3>2, Zenon
    <3>4. [qp_error EXCEPT ![n][q] = TRUE]
            = [qp_error EXCEPT ![n] = [qp_error[n] EXCEPT ![q] = TRUE]]
      BY <3>1
    <3> QED BY <2>4, <3>1, <3>3, <3>4 DEF n, q
  <2>6. faults' \in Nat
    BY <1>1, <1>3 DEF NicStep, NicFault, NicDeliver, NicFlush, NicRetriesExhausted,
                      NicType
  <2>7. UNCHANGED <<countVars, wr_at, port_up, quarVars>>
    BY <1>3 DEF NicStep, NicFault, NicDeliver, NicFlush, NicRetriesExhausted, FailWr,
                NicUnchanged
  <2> QED BY <1>1, <2>3, <2>5, <2>6, <2>7 DEF NicType, countVars, quarVars, Qps
<1>4. ASSUME NEW n \in Nics, PortChange(n)
      PROVE  NicType'
  <2>1. port_up' \in [Nics -> BOOLEAN]
    BY <1>1, <1>4 DEF PortChange, NicType
  <2>2. faults' \in Nat
    BY <1>1, <1>4 DEF PortChange, NicType
  <2> QED BY <1>1, <1>4, <2>1, <2>2 DEF PortChange, NicType, countVars, wrVars,
                                        quarVars, Qps
<1>5. ASSUME NEW n \in Nics, QuarantineElapses(n)
      PROVE  NicType'
  BY <1>1, <1>5 DEF QuarantineElapses, NicType, countVars, wrVars, linkVars, Qps
<1> QED BY <1>2, <1>3, <1>4, <1>5

LEMMA TypeStep ==
    ASSUME IInv, [Next]_vars
    PROVE  TypeOK'
<1>1. TypeOK /\ HandleGiven /\ WrsPlaced
  BY DEF IInv
<1>2. StartType /\ CtxType /\ WorkerType /\ NicType
  BY <1>1, TypeParts
<1>3. CASE \E x \in Xfers : Client(x)
  BY <1>1, <1>3, StartTypeStep, ClientTypeStep, TypeParts
<1>4. CASE Engine \/ UNCHANGED vars
  <2>1. UNCHANGED startVars
    BY <1>4, EngineKeepsStart DEF vars
  <2>2. StartType'
    BY <1>2, <2>1 DEF StartType, startVars, poolVars, clientVars, mapVars
  <2>3. CASE UNCHANGED vars
    BY <1>2, <2>2, <2>3, TypeParts, TypesKept DEF vars
  <2>4. ASSUME NEW w \in Workers, Work(w)
        PROVE  CtxType' /\ WorkerType' /\ NicType'
    BY <1>1, <2>4, PhaseTypeStep, PostTypeStep, PollTypeStep, RetireProbeTypeStep DEF Work
  <2>5. CASE Engine
    BY <1>1, <2>2, <2>4, <2>5, NicTypeStep, PollTypeStep, TypeParts DEF Engine, Fault
  <2> QED BY <1>4, <2>3, <2>5
<1> QED BY <1>3, <1>4, NextIsClientOrEngine

-----------------------------------------------------------------------------
(* WorkNamed and WrsPlaced.                                                 *)

\* A transfer that has a handle keeps it.
LEMMA HandleStable ==
    ASSUME IInv, [Next]_vars, NEW x \in Xfers, handle[x] \in Handles
    PROVE  handle'[x] = handle[x]
<1>1. handle[x] # 0 /\ handle \in [Xfers -> Handles \cup {0}]
  BY LimitConstants DEF Handles, IInv, TypeOK
<1>2. cpc[x] # "new"
  BY <1>1 DEF IInv, HandleGiven
<1>3. ASSUME NEW y \in Xfers, StartAllocate(y)
      PROVE  handle'[x] = handle[x]
  BY <1>1, <1>2, <1>3 DEF StartAllocate
<1>4. ASSUME NEW y \in Xfers, Client(y), ~StartAllocate(y)
      PROVE  handle' = handle
  BY <1>4 DEF Client, StartStore, StartRoute, StartSubmit, WaitReturn, WaitTimeout,
              ReleaseRoute, ReleaseContext, ReleaseUnknown
<1>5. CASE Engine \/ UNCHANGED vars
  BY <1>5, EngineKeepsStart DEF vars, startVars, clientVars
<1> QED BY <1>3, <1>4, <1>5, NextIsClientOrEngine

LEMMA MapNamedStep ==
    ASSUME IInv, [Next]_vars
    PROVE  \A w \in Workers, h \in Handles :
             active_transfers'[w][h] # None => handle'[active_transfers'[w][h]] = h
<1>1. /\ StartType
      /\ \A w \in Workers, h \in Handles :
           active_transfers[w][h] # None => handle[active_transfers[w][h]] = h
  BY TypeParts DEF IInv, WorkNamed
<1>2. \A w \in Workers, h \in Handles : active_transfers[w][h] # None =>
        handle'[active_transfers[w][h]] = h
  BY <1>1, HandleStable DEF StartType
<1>3. CASE UNCHANGED active_transfers
  BY <1>2, <1>3
<1>4. ASSUME NEW x \in Xfers, StartStore(x)
      PROVE  \A w \in Workers, h \in Handles :
               active_transfers'[w][h] # None => handle'[active_transfers'[w][h]] = h
  <2>1. /\ active_transfers' = [active_transfers EXCEPT ![Home[x]][handle[x]] = x]
        /\ handle' = handle
    BY <1>4 DEF StartStore
  <2>2. handle[x] \in Handles
    BY <1>4 DEF StartStore, IInv, HandleGiven, Holding
  <2> QED BY <1>1, <2>1, <2>2 DEF StartType
<1>5. ASSUME NEW x \in Xfers, ReleaseContext(x)
      PROVE  \A w \in Workers, h \in Handles :
               active_transfers'[w][h] # None => handle'[active_transfers'[w][h]] = h
  <2>1. /\ active_transfers' = [active_transfers EXCEPT ![Home[x]][handle[x]] = None]
        /\ handle' = handle
    BY <1>5 DEF ReleaseContext
  <2> QED BY <1>1, <2>1 DEF StartType
<1>6. ASSUME NEW x \in Xfers, Client(x), ~StartStore(x), ~ReleaseContext(x)
      PROVE  UNCHANGED active_transfers
  BY <1>6 DEF Client, StartAllocate, StartRoute, StartSubmit, WaitReturn, WaitTimeout,
              ReleaseRoute, ReleaseUnknown, mapVars
<1>7. CASE Engine \/ UNCHANGED vars
  <2>1. UNCHANGED active_transfers
    BY <1>7, EngineKeepsStart DEF vars, startVars, mapVars
  <2> QED BY <1>3, <2>1
<1> QED BY <1>3, <1>4, <1>5, <1>6, <1>7, NextIsClientOrEngine

\* The active list and the loops, under a step of worker v.
LEMMA LoopsNamedWork ==
    ASSUME IInv, NEW v \in Workers, Work(v) \/ \E n \in Nics : PollFatal(v, n)
    PROVE  /\ \A w \in Workers : \A x \in active_contexts'[w] : handle[x] \in Handles
           /\ \A w \in Workers :
                /\ pc'[w] \in {"post", "retire"} =>
                     \A x \in todo'[w] : x \in Xfers /\ handle[x] \in Handles
                /\ pc'[w] = "poll" => todo'[w] \subseteq Nics
<1>1. StartType /\ CtxType /\ WorkerType /\ WorkNamed
  BY TypeParts DEF IInv
<1>2. /\ pc \in [Workers -> {"drain", "post", "poll", "retire", "probe"}]
      /\ todo \in [Workers -> SUBSET (Xfers \cup Nics)]
      /\ active_contexts \in [Workers -> SUBSET Xfers]
  BY <1>1 DEF WorkerType
<1>3. /\ \A w \in Workers : \A x \in active_contexts[w] : handle[x] \in Handles
      /\ \A w \in Workers :
           /\ pc[w] \in {"post", "retire"} =>
                \A x \in todo[w] : x \in Xfers /\ handle[x] \in Handles
           /\ pc[w] = "poll" => todo[w] \subseteq Nics
  BY <1>1 DEF WorkNamed
<1>4. CASE Drain(v)
  <2> DEFINE h == Head(queue[v])
  <2>1. h \in Handles
    <3>1. queue[v] \in Seq(Handles) /\ queue[v] # <<>>
      BY <1>1, <1>4 DEF Drain, WorkerType
    <3> QED BY <3>1, HeadTailProperties
  <2> HIDE DEF h
  <2>2. active_transfers[v][h] # None => handle[active_transfers[v][h]] = h
    BY <1>1, <2>1 DEF WorkNamed
  <2>3. /\ active_contexts' = [active_contexts EXCEPT
                                 ![v] = @ \cup ({active_transfers[v][h]} \ {None})]
        /\ UNCHANGED <<pc, todo>>
    BY <1>4 DEF Drain, h
  <2> QED BY <1>2, <1>3, <2>1, <2>2, <2>3
<1>5. CASE StartPass(v) \/ StartRetire(v) \/ EndPass(v) \/ EndProbe(v)
  <2>1. PICK phase \in {"post", "retire", "probe", "drain"},
             work \in {active_contexts[v], {}} : ToPhase(v, phase, work)
    BY <1>5 DEF StartPass, StartRetire, EndPass, EndProbe
  <2>2. UNCHANGED active_contexts
    BY <1>5 DEF StartPass, StartRetire, EndPass, EndProbe
  <2> QED BY <1>2, <1>3, <2>1, <2>2 DEF ToPhase
<1>6. CASE StartPoll(v)
  <2>1. PollNics(v) \subseteq Nics
    BY <1>1, PollNicsAreNics
  <2>2. ToPhase(v, "poll", PollNics(v)) /\ UNCHANGED active_contexts
    BY <1>6 DEF StartPoll
  <2> QED BY <1>2, <1>3, <2>1, <2>2 DEF ToPhase
<1>7. ASSUME UNCHANGED pc, \A w \in Workers : todo'[w] \subseteq todo[w],
             \A w \in Workers : active_contexts'[w] \subseteq active_contexts[w]
      PROVE  /\ \A w \in Workers : \A x \in active_contexts'[w] : handle[x] \in Handles
             /\ \A w \in Workers :
                  /\ pc'[w] \in {"post", "retire"} =>
                       \A x \in todo'[w] : x \in Xfers /\ handle[x] \in Handles
                  /\ pc'[w] = "poll" => todo'[w] \subseteq Nics
  BY <1>3, <1>7
<1>8. ASSUME NEW x \in Xfers,
             PostChunk(v, x) \/ PostUnroutable(v, x) \/ PostRejected(v, x)
             \/ PostBreak(v, x) \/ Retire(v, x)
      PROVE  /\ UNCHANGED pc /\ \A w \in Workers : todo'[w] \subseteq todo[w]
             /\ \A w \in Workers : active_contexts'[w] \subseteq active_contexts[w]
  BY <1>2, <1>8 DEF PostChunk, PostUnroutable, PostRejected, PostBreak, PostUnchanged,
                    Retire, Visited, workerVars
<1>9. ASSUME NEW n \in Nics,
             PollWc(v, n) \/ PollEmpty(v, n) \/ ProbeDown(v, n) \/ ProbeUp(v, n)
             \/ ProbeRefused(v, n)
      PROVE  /\ UNCHANGED pc /\ \A w \in Workers : todo'[w] \subseteq todo[w]
             /\ \A w \in Workers : active_contexts'[w] \subseteq active_contexts[w]
  BY <1>2, <1>9 DEF PollWc, PollEmpty, ProbeDown, ProbeUp, ProbeRefused, Visited,
                    workerVars
<1>10. ASSUME NEW n \in Nics, PollFatal(v, n)
       PROVE  /\ active_contexts' = [active_contexts EXCEPT ![v] = {}]
              /\ ToPhase(v, "drain", {})
  BY <1>10 DEF PollFatal
<1>11. CASE \E n \in Nics : PollFatal(v, n)
  BY <1>2, <1>3, <1>10, <1>11 DEF ToPhase
<1> QED BY <1>4, <1>5, <1>6, <1>7, <1>8, <1>9, <1>11 DEF Work

LEMMA WorkNamedStep ==
    ASSUME IInv, [Next]_vars
    PROVE  WorkNamed'
<1>1. StartType /\ CtxType /\ WorkerType /\ WorkNamed
  BY TypeParts DEF IInv
<1>2. CASE \/ \E w \in Workers : Work(w)
           \/ \E w \in Workers, n \in Nics : PollFatal(w, n)
  <2>1. handle' = handle
    BY <1>2, EngineKeepsStart DEF Engine, Fault, startVars, clientVars
  <2> QED BY <1>2, <2>1, LoopsNamedWork, MapNamedStep DEF WorkNamed
<1>3. CASE UNCHANGED workerVars
  <2>1. /\ \A w \in Workers : active_contexts[w] \subseteq Xfers
        /\ UNCHANGED <<pc, todo, active_contexts>>
    BY <1>1, <1>3 DEF WorkerType, workerVars
  <2>2. \A x \in Xfers : handle[x] \in Handles => handle'[x] \in Handles
    BY HandleStable
  <2> QED BY <1>1, <2>1, <2>2, MapNamedStep DEF WorkNamed
<1>4. ASSUME NEW x \in Xfers, Client(x)
      PROVE  UNCHANGED workerVars
  BY <1>4 DEF Client, StartAllocate, StartStore, StartRoute, StartSubmit, WaitReturn,
              WaitTimeout, ReleaseRoute, ReleaseContext, ReleaseUnknown
<1>5. ASSUME NEW r \in Wrs, NicStep(r) \/ NicFault(r)
      PROVE  UNCHANGED workerVars
  BY <1>5 DEF NicStep, NicFault, NicDeliver, NicFlush, NicRetriesExhausted, FailWr,
              NicUnchanged
<1>6. ASSUME NEW n \in Nics, PortChange(n) \/ QuarantineElapses(n)
      PROVE  UNCHANGED workerVars
  BY <1>6 DEF PortChange, QuarantineElapses
<1>7. CASE UNCHANGED vars
  BY <1>3, <1>7 DEF vars
<1> QED BY <1>2, <1>3, <1>4, <1>5, <1>6, <1>7 DEF Next, Fault

\* A work request that has left "todo" keeps its place; the one that leaves it
\* gets one.
LEMMA WrsPlacedStep ==
    ASSUME IInv, [Next]_vars
    PROVE  WrsPlaced'
<1>1. StartType /\ CtxType /\ WorkerType /\ NicType /\ WrsPlaced /\ WorkNamed
  BY TypeParts DEF IInv
<1>2. \A x \in Xfers : handle[x] \in Handles => handle'[x] \in Handles
  BY HandleStable
<1>3. ASSUME UNCHANGED wr_at, \A r \in Wrs : wr[r] = "todo" => wr'[r] = "todo"
      PROVE  WrsPlaced'
  BY <1>1, <1>2, <1>3, WrParts DEF WrsPlaced
<1>4. ASSUME NEW w \in Workers, NEW x \in Xfers, PostChunk(w, x)
      PROVE  WrsPlaced'
  <2> DEFINE r == <<x, next_chunk_idx[x]>>
  <2>1. r \in Wrs
    <3>1. next_chunk_idx[x] < TotalChunks[x]
      BY <1>4 DEF PostChunk, Posting
    <3>2. next_chunk_idx[x] \in Nat /\ TotalChunks[x] \in Nat
      BY <1>1, XferConstants DEF CtxType
    <3>3. next_chunk_idx[x] \in 0..(TotalChunks[x] - 1)
      BY <3>1, <3>2
    <3> QED BY <3>3, WrParts
  <2>2. handle[x] \in Handles
    BY <1>1, <1>4 DEF PostChunk, Posting, WorkNamed
  <2>3. PICK s \in Slots(w, x) : wr_at' = [wr_at EXCEPT ![r] = s]
    BY <1>4 DEF PostChunk
  <2>4. s \in Nics \X Qps
    BY <1>1, <2>3, SlotsArePlaces
  <2>5. wr' = [wr EXCEPT ![r] = "sent"]
    BY <1>4 DEF PostChunk
  <2>6. r[1] = x
    OBVIOUS
  <2> HIDE DEF r
  <2> QED BY <1>1, <1>2, <2>1, <2>2, <2>3, <2>4, <2>5, <2>6, WrParts DEF WrsPlaced, NicType
<1>5. ASSUME NEW w \in Workers, NEW n \in Nics, PollWc(w, n)
      PROVE  WrsPlaced'
  <2>1. PICK r \in Completions(n) :
           wr' = [wr EXCEPT ![r] = IF wr[r] = "error" THEN "failed" ELSE "done"]
    BY <1>5 DEF PollWc
  <2>2. r \in Wrs /\ wr[r] # "todo"
    BY <2>1 DEF Completions, InCq
  <2>3. UNCHANGED wr_at
    BY <1>5 DEF PollWc
  <2> QED BY <1>1, <1>3, <2>1, <2>2, <2>3 DEF NicType
<1>6. ASSUME NEW w \in Workers, NEW n \in Nics, ProbeUp(w, n) \/ ProbeRefused(w, n)
      PROVE  WrsPlaced'
  <2>1. UNCHANGED wr_at
    BY <1>6 DEF ProbeUp, ProbeRefused
  <2>2. \A r \in Wrs : wr'[r] = wr[r] \/ wr[r] \in InFlight
    BY <1>6 DEF ProbeUp, ProbeRefused, WrsOn
  <2> QED BY <1>3, <2>1, <2>2 DEF InFlight, InCq
<1>7. ASSUME NEW r \in Wrs, NicStep(r) \/ NicFault(r)
      PROVE  WrsPlaced'
  <2>1. /\ wr[r] = "sent" /\ UNCHANGED wr_at
        /\ \E state \in {"ok", "error"} : wr' = [wr EXCEPT ![r] = state]
    BY <1>7 DEF NicStep, NicFault, NicDeliver, NicFlush, NicRetriesExhausted, FailWr,
                NicUnchanged
  <2> QED BY <1>1, <1>3, <2>1 DEF NicType
<1>8. CASE UNCHANGED wrVars
  BY <1>3, <1>8 DEF wrVars
<1>9. ASSUME NEW x \in Xfers, Client(x)
      PROVE  UNCHANGED wrVars
  BY <1>9 DEF Client, StartAllocate, StartStore, StartRoute, StartSubmit, WaitReturn,
              WaitTimeout, ReleaseRoute, ReleaseContext, ReleaseUnknown
<1>10. ASSUME NEW w \in Workers, Work(w),
              ~\E x \in Xfers : PostChunk(w, x),
              ~\E n \in Nics : PollWc(w, n) \/ ProbeUp(w, n) \/ ProbeRefused(w, n)
       PROVE  UNCHANGED wrVars
  BY <1>10 DEF Work, Drain, StartPass, StartPoll, StartRetire, EndPass, EndProbe,
               PostUnroutable, PostRejected, PostBreak, PostUnchanged, Retire,
               PollEmpty, ProbeDown
<1>11. ASSUME NEW w \in Workers, NEW n \in Nics, PollFatal(w, n)
       PROVE  UNCHANGED wrVars
  BY <1>11 DEF PollFatal
<1>12. ASSUME NEW n \in Nics, PortChange(n) \/ QuarantineElapses(n)
       PROVE  UNCHANGED wrVars
  BY <1>12 DEF PortChange, QuarantineElapses
<1>13. CASE UNCHANGED vars
  BY <1>8, <1>13 DEF vars
<1> QED BY <1>4, <1>5, <1>6, <1>7, <1>8, <1>9, <1>10, <1>11, <1>12, <1>13
           DEF Next, Fault

-----------------------------------------------------------------------------
(* The inductive invariant, and the theorems.                               *)

LEMMA InitInvariant == Init => IInv
<1> SUFFICES ASSUME Init PROVE IInv
  OBVIOUS
<1> USE XferConstants, LimitConstants DEF Init
<1>1. StartType
  BY EmptySeq DEF StartType, Places, Codes, Handles
<1>2. CtxType
  BY DEF CtxType, Codes
<1>3. WorkerType
  BY EmptySeq DEF WorkerType
<1>4. NicType
  BY DEF NicType, WrStates
<1>5. HandlesUnique /\ HandleGiven
  <2>1. Holding = {} /\ Len(free_list) = 0
    BY DEF Holding
  <2> QED BY <2>1 DEF HandlesUnique, HandleGiven
<1>6. WorkNamed /\ WrsPlaced
  BY DEF WorkNamed, WrsPlaced
<1> QED BY <1>1, <1>2, <1>3, <1>4, <1>5, <1>6, TypeParts DEF IInv

\* IInv is inductive: every step of clients, workers, NICs and time keeps it.
LEMMA StepInvariant == IInv /\ [Next]_vars => IInv'
BY TypeStep, HandlesStep, WorkNamedStep, WrsPlacedStep DEF IInv

THEOREM InvariantAlways == Spec => []IInv
BY InitInvariant, StepInvariant, PTL DEF Spec

\* Every field of the pool, the contexts, the maps, the queues and the counters
\* keeps its type, whatever clients release, NICs fail and links flap.
THEOREM TypeCorrect == Spec => []TypeOK
<1>1. IInv => TypeOK
  BY DEF IInv
<1> QED BY <1>1, InvariantAlways, PTL

\* HandlePool never gives out a handle that is held or free: with any number
\* of clients, transfers and handles, releases before completion included, as
\* long as each caller releases a handle once.
THEOREM HandlesAlwaysUnique == Spec => []HandlesUnique
<1>1. IInv => HandlesUnique
  BY DEF IInv
<1> QED BY <1>1, InvariantAlways, PTL

-----------------------------------------------------------------------------
(* The queues name every transfer once, as long as no NIC fails and         *)
(* clients release what they have waited for.                               *)

\* Without faults no link goes down, no QP fails and no completion is an error.
Calm ==
    /\ faults = 0 /\ \A n \in Nics : port_up[n] /\ \A q \in Qps : ~ qp_error[n][q]
    /\ \A r \in Wrs : wr[r] # "error"

\* From the store to the second half of the release the context is in its map; from
\* the route to the first half the handle leads there.
Filed ==
    /\ \A x \in Xfers : cpc[x] \in {"stored", "routed", "live", "waited", "unrouted"} =>
          active_transfers[Home[x]][handle[x]] = x
    /\ \A x \in Xfers : cpc[x] \in {"routed", "live", "waited"} =>
          handle_numa_map[handle[x]] = Home[x]

\* No worker knows a transfer that was not pushed, and none is finished, the empty
\* ones apart, which are never pushed.
Unknown ==
    \A x \in Xfers : cpc[x] \in {"new", "refused", "allocated", "stored", "routed"} =>
        /\ \A w \in Workers : x \notin active_contexts[w]
        /\ cpc[x] = "stored" => finished[x] = (TotalChunks[x] = 0)
        /\ cpc[x] = "routed" => ~ finished[x]

\* The loops over contexts visit active ones.
LoopsActive ==
    \A w \in Workers : pc[w] \in {"post", "retire"} => todo[w] \subseteq active_contexts[w]

\* A transfer whose handle is in the queue of worker w.
Waiting(x, w, h) ==
    /\ cpc[x] = "live" /\ handle[x] = h /\ Home[x] = w /\ ~ finished[x]
    /\ \A v \in Workers : x \notin active_contexts[v]

Queued ==
    \A w \in Workers : \A i \in 1..Len(queue[w]) :
        /\ \E x \in Xfers : Waiting(x, w, queue[w][i])
        /\ \A j \in 1..Len(queue[w]) : queue[w][j] = queue[w][i] => j = i

QInv == Calm /\ Filed /\ Unknown /\ LoopsActive /\ Queued

-----------------------------------------------------------------------------
(* What the invariant says.                                                 *)

LEMMA HoldersDiffer ==
    ASSUME IInv, NEW x \in Xfers, NEW y \in Xfers, handle[x] = handle[y],
           cpc[x] \in {"allocated", "stored", "routed", "live", "waited", "unrouted"},
           cpc[y] \in {"allocated", "stored", "routed", "live", "waited", "unrouted"}
    PROVE  x = y
BY DEF IInv, HandlesUnique, Holding

LEMMA HolderHasHandle ==
    ASSUME IInv, NEW x \in Xfers,
           cpc[x] \in {"allocated", "stored", "routed", "live", "waited", "unrouted"}
    PROVE  handle[x] \in Handles
BY DEF IInv, HandleGiven, Holding

LEMMA QueuedOnceHolds == ASSUME IInv, QInv PROVE QueuedOnce
<1> SUFFICES ASSUME NEW w \in Workers, NEW i \in 1..Len(queue[w])
             PROVE  LET x == active_transfers[w][queue[w][i]]
                    IN  /\ x # None /\ x \notin active_contexts[w] /\ ~finished[x]
                        /\ \A j \in 1..Len(queue[w]) : queue[w][j] = queue[w][i] => j = i
  BY DEF QueuedOnce
<1>1. PICK x \in Xfers : Waiting(x, w, queue[w][i])
  BY DEF QInv, Queued
<1>2. active_transfers[w][queue[w][i]] = x
  BY <1>1 DEF QInv, Filed, Waiting
<1>3. x # None
  BY XferConstants
<1>4. \A j \in 1..Len(queue[w]) : queue[w][j] = queue[w][i] => j = i
  BY DEF QInv, Queued
<1> QED BY <1>1, <1>2, <1>3, <1>4 DEF Waiting

\* The context that a waiting or releasing client finds under its handle is its own.
LEMMA LookupOwn ==
    ASSUME IInv, QInv, NEW x \in Xfers, cpc[x] \in {"live", "waited"}
    PROVE  Lookup(handle[x]) = x /\ handle[x] \in Routed
<1>1. handle[x] \in Handles
  BY HolderHasHandle
<1>2. handle_numa_map[handle[x]] = Home[x] /\ Home[x] # None
  BY XferConstants DEF QInv, Filed
<1>3. handle[x] \in Routed
  BY <1>1, <1>2 DEF Routed
<1> QED BY <1>2, <1>3 DEF Lookup, QInv, Filed

-----------------------------------------------------------------------------
(* The clients.                                                             *)

\* What a client's step leaves alone.
LEMMA ClientFrame ==
    ASSUME QInv, UNCHANGED <<pc, todo, active_contexts, wrVars, linkVars, faults>>
    PROVE  Calm' /\ LoopsActive'
BY DEF QInv, Calm, LoopsActive, wrVars, linkVars

\* A step of x that keeps it out of the queue, the others' maps and their fields.
LEMMA ClientKeeps ==
    ASSUME QInv, NEW x \in Xfers, NEW place,
           cpc' = [cpc EXCEPT ![x] = place], cpc \in [Xfers -> Places],
           UNCHANGED <<queue, active_contexts>>,
           \A y \in Xfers \ {x} : handle'[y] = handle[y] /\ finished'[y] = finished[y],
           cpc[x] = "live" =>
               \/ \A w \in Workers : ~ Waiting(x, w, handle[x])
               \/ place = "live" /\ handle'[x] = handle[x] /\ finished'[x] = finished[x],
           place \in {"new", "refused", "allocated", "stored", "routed"} =>
               /\ cpc[x] \in {"new", "refused", "allocated", "stored", "routed"}
               /\ place = "stored" => finished'[x] = (TotalChunks[x] = 0)
               /\ place = "routed" => ~ finished'[x]
    PROVE  Unknown' /\ Queued'
<1>1. \A y \in Xfers : cpc'[y] = IF y = x THEN place ELSE cpc[y]
  OBVIOUS
<1>2. Unknown'
  BY <1>1 DEF QInv, Unknown
<1>3. ASSUME NEW w \in Workers, NEW h, NEW y \in Xfers, Waiting(y, w, h)
      PROVE  Waiting(y, w, h)'
  <2>1. CASE y # x
    BY <1>1, <1>3, <2>1 DEF Waiting
  <2>2. CASE y = x
    <3>1. cpc[x] = "live" /\ handle[x] = h /\ Waiting(x, w, handle[x])
      BY <1>3, <2>2 DEF Waiting
    <3>2. place = "live" /\ handle'[x] = handle[x] /\ finished'[x] = finished[x]
      BY <3>1
    <3> QED BY <1>1, <1>3, <2>2, <3>2 DEF Waiting
  <2> QED BY <2>1, <2>2
<1>4. Queued'
  BY <1>3 DEF QInv, Queued
<1> QED BY <1>2, <1>4

\* Filed survives a step of x that changes the maps at its own handle only.
LEMMA FiledKept ==
    ASSUME IInv, Filed, NEW x \in Xfers, NEW place,
           cpc' = [cpc EXCEPT ![x] = place], UNCHANGED handle,
           cpc[x] \in {"allocated", "stored", "routed", "live", "waited", "unrouted"},
           \A h \in Handles \ {handle[x]} :
               /\ handle_numa_map'[h] = handle_numa_map[h]
               /\ \A w \in Workers : active_transfers'[w][h] = active_transfers[w][h],
           place \in {"stored", "routed", "live", "waited", "unrouted"} =>
               active_transfers'[Home[x]][handle[x]] = x,
           place \in {"routed", "live", "waited"} => handle_numa_map'[handle[x]] = Home[x]
    PROVE  Filed'
<1>1. \A y \in Xfers : cpc'[y] = IF y = x THEN place ELSE cpc[y]
  BY DEF IInv, TypeOK
<1>2. \A y \in Xfers : Home[y] \in Workers
  BY XferConstants
<1>3. ASSUME NEW y \in Xfers, y # x,
             cpc[y] \in {"stored", "routed", "live", "waited", "unrouted"}
      PROVE  handle[y] \in Handles \ {handle[x]}
  BY <1>3, HoldersDiffer, HolderHasHandle
<1> QED BY <1>1, <1>2, <1>3 DEF Filed

\* The push puts the handle of x behind those of other live transfers.
LEMMA PushQueued ==
    ASSUME IInv, QInv, NEW x \in Xfers, cpc[x] = "routed",
           \A y \in Xfers : cpc'[y] = IF y = x THEN "live" ELSE cpc[y],
           queue' = [queue EXCEPT ![Home[x]] = Append(@, handle[x])],
           UNCHANGED <<active_contexts, handle, finished>>,
           ~ finished[x], \A w \in Workers : x \notin active_contexts[w]
    PROVE  Queued'
<1>1. /\ queue \in [Workers -> Seq(Handles)] /\ Home[x] \in Workers
      /\ handle[x] \in Handles
  BY HolderHasHandle, XferConstants DEF IInv, TypeOK
<1> SUFFICES ASSUME NEW w \in Workers, NEW i \in 1..Len(queue'[w])
             PROVE  /\ (\E y \in Xfers : Waiting(y, w, queue[w][i]))'
                    /\ \A j \in 1..Len(queue'[w]) :
                          queue'[w][j] = queue'[w][i] => j = i
  BY DEF Queued
<1>2. \A k \in 1..Len(queue[w]) : \E y \in Xfers : Waiting(y, w, queue[w][k])
  BY DEF QInv, Queued
<1>3. \A h, y : y \in Xfers /\ Waiting(y, w, h) => Waiting(y, w, h)'
  BY DEF Waiting
<1>4. CASE w # Home[x]
  <2>1. queue'[w] = queue[w]
    BY <1>1, <1>4
  <2> QED BY <1>2, <1>3, <2>1 DEF QInv, Queued
<1>5. CASE w = Home[x]
  <2>1. queue'[w] = Append(queue[w], handle[x]) /\ queue[w] \in Seq(Handles)
    BY <1>1, <1>5
  <2>2. /\ Len(queue[w]) \in Nat /\ Len(queue'[w]) = Len(queue[w]) + 1
        /\ queue'[w][Len(queue[w]) + 1] = handle[x]
        /\ \A k \in 1..Len(queue[w]) : queue'[w][k] = queue[w][k]
    BY <1>1, <2>1, AppendProperties, LenProperties
  <2>3. \A k \in 1..Len(queue[w]) : queue[w][k] # handle[x]
    BY <1>2, HoldersDiffer DEF Waiting
  <2>4. Waiting(x, w, handle[x])'
    BY <1>5 DEF Waiting
  <2>5. \A j, k \in 1..Len(queue[w]) : queue[w][j] = queue[w][k] => j = k
    BY DEF QInv, Queued
  <2>6. \A j \in 1..Len(queue'[w]) : j \in 1..Len(queue[w]) \/ j = Len(queue[w]) + 1
    BY <2>2
  <2>7. CASE i = Len(queue[w]) + 1
    BY <2>2, <2>3, <2>4, <2>6, <2>7
  <2>8. CASE i \in 1..Len(queue[w])
    <3>1. (\E y \in Xfers : Waiting(y, w, queue[w][i]))'
      BY <1>2, <1>3, <2>2, <2>8
    <3>2. \A j \in 1..Len(queue'[w]) : queue'[w][j] = queue'[w][i] => j = i
      BY <2>2, <2>3, <2>5, <2>6, <2>8
    <3> QED BY <3>1, <3>2
  <2> QED BY <2>6, <2>7, <2>8
<1> QED BY <1>4, <1>5

\* The invariant survives every step of a client.
LEMMA QueueClient ==
    ASSUME IInv, QInv, ReleasePolicy # "any", NEW x \in Xfers, Client(x)
    PROVE  QInv'
<1>1. /\ cpc \in [Xfers -> Places] /\ handle \in [Xfers -> Handles \cup {0}]
      /\ active_transfers \in [Workers -> [Handles -> Xfers \cup {None}]]
      /\ handle_numa_map \in [Handles -> Workers \cup {None}]
      /\ finished \in [Xfers -> BOOLEAN] /\ queue \in [Workers -> Seq(Handles)]
  BY DEF IInv, TypeOK
<1>2. Calm' /\ LoopsActive'
  BY ClientFrame DEF Client, StartAllocate, StartStore, StartRoute, StartSubmit,
     WaitReturn, WaitTimeout, ReleaseRoute, ReleaseContext, ReleaseUnknown, workerVars
<1>3. CASE StartAllocate(x)
  <2>1. PICK place \in {"refused", "allocated"} : cpc' = [cpc EXCEPT ![x] = place]
    BY <1>3 DEF StartAllocate
  <2>2. cpc[x] = "new" /\ UNCHANGED <<queue, active_contexts, active_transfers,
                                      handle_numa_map, finished>>
    BY <1>3 DEF StartAllocate, mapVars, ctxVars, workerVars
  <2>3. \A y \in Xfers \ {x} : handle'[y] = handle[y]
    BY <1>1, <1>3 DEF StartAllocate
  <2>4. Unknown' /\ Queued'
    BY <1>1, <2>1, <2>2, <2>3, ClientKeeps
  <2>5. \A y \in Xfers : cpc'[y] = IF y = x THEN place ELSE cpc[y]
    BY <1>1, <2>1
  <2>6. Filed'
    BY <2>1, <2>2, <2>3, <2>5 DEF QInv, Filed
  <2> QED BY <1>2, <2>4, <2>6 DEF QInv
<1>4. CASE StartStore(x)
  <2>1. /\ cpc[x] = "allocated" /\ cpc' = [cpc EXCEPT ![x] = "stored"]
        /\ active_transfers' = [active_transfers EXCEPT ![Home[x]][handle[x]] = x]
        /\ finished' = [finished EXCEPT ![x] = TotalChunks[x] = 0]
        /\ UNCHANGED <<queue, active_contexts, handle_numa_map, handle>>
    BY <1>4 DEF StartStore, workerVars
  <2>2. handle[x] \in Handles /\ Home[x] \in Workers
    BY <2>1, HolderHasHandle, XferConstants
  <2>3. finished'[x] = (TotalChunks[x] = 0) /\ \A y \in Xfers \ {x} : finished'[y] = finished[y]
    BY <1>1, <2>1
  <2>4. Unknown' /\ Queued'
    BY <1>1, <2>1, <2>3, ClientKeeps
  <2>5. Filed'
    BY <1>1, <2>1, <2>2, FiledKept DEF QInv
  <2> QED BY <1>2, <2>4, <2>5 DEF QInv
<1>5. CASE StartRoute(x)
  <2>1. PICK place \in {"live", "routed"} :
           /\ cpc' = [cpc EXCEPT ![x] = place]
           /\ place = "routed" => TotalChunks[x] # 0
    BY <1>5 DEF StartRoute
  <2>2. /\ cpc[x] = "stored"
        /\ handle_numa_map' = [handle_numa_map EXCEPT ![handle[x]] = Home[x]]
        /\ UNCHANGED <<queue, active_contexts, active_transfers, handle, finished>>
    BY <1>5 DEF StartRoute, ctxVars, workerVars
  <2>3. handle[x] \in Handles /\ active_transfers[Home[x]][handle[x]] = x
        /\ finished[x] = (TotalChunks[x] = 0)
    BY <2>2, HolderHasHandle DEF QInv, Filed, Unknown
  <2>4. Unknown' /\ Queued'
    BY <1>1, <2>1, <2>2, <2>3, ClientKeeps
  <2>5. Filed'
    BY <1>1, <2>1, <2>2, <2>3, FiledKept DEF QInv
  <2> QED BY <1>2, <2>4, <2>5 DEF QInv
<1>6. CASE StartSubmit(x)
  <2>1. /\ cpc[x] = "routed" /\ cpc' = [cpc EXCEPT ![x] = "live"]
        /\ queue' = [queue EXCEPT ![Home[x]] = Append(@, handle[x])]
        /\ UNCHANGED <<active_contexts, active_transfers, handle_numa_map, handle,
                       finished>>
    BY <1>6 DEF StartSubmit, mapVars, ctxVars, workerVars
  <2>2. \A y \in Xfers : cpc'[y] = IF y = x THEN "live" ELSE cpc[y]
    BY <1>1, <2>1
  <2>3. /\ active_transfers[Home[x]][handle[x]] = x /\ handle_numa_map[handle[x]] = Home[x]
        /\ ~ finished[x] /\ \A w \in Workers : x \notin active_contexts[w]
    BY <2>1 DEF QInv, Filed, Unknown
  <2>4. Filed'
    BY <1>1, <2>1, <2>3, FiledKept DEF QInv
  <2>5. Unknown'
    BY <2>1, <2>2 DEF QInv, Unknown
  <2>6. Queued'
    BY <1>1, <2>1, <2>2, <2>3, PushQueued DEF QInv
  <2> QED BY <1>2, <2>4, <2>5, <2>6 DEF QInv
<1>7. CASE WaitReturn(x) \/ WaitTimeout(x)
  <2>1. PICK place \in {"waited", "live"} :
           /\ cpc' = [cpc EXCEPT ![x] = place]
           /\ place = "waited" => finished[x]
    <3>1. CASE WaitReturn(x)
      BY <3>1, LookupOwn, XferConstants DEF WaitReturn
    <3>2. CASE WaitTimeout(x)
      <4>1. cpc[x] = "live" /\ UNCHANGED cpc
        BY <3>2 DEF WaitTimeout
      <4>2. cpc' = [cpc EXCEPT ![x] = "live"]
        BY <1>1, <4>1
      <4> QED BY <4>2
    <3> QED BY <1>7, <3>1, <3>2
  <2>2. cpc[x] = "live" /\ UNCHANGED <<queue, active_contexts, active_transfers,
                                       handle_numa_map, handle, finished>>
    BY <1>7 DEF WaitReturn, WaitTimeout, mapVars, ctxVars, workerVars
  <2>3. /\ active_transfers[Home[x]][handle[x]] = x /\ handle_numa_map[handle[x]] = Home[x]
    BY <2>2 DEF QInv, Filed
  <2>4. place = "waited" => \A w \in Workers : ~ Waiting(x, w, handle[x])
    BY <2>1 DEF Waiting
  <2>5. Unknown' /\ Queued'
    BY <1>1, <2>1, <2>2, <2>4, ClientKeeps
  <2>6. Filed'
    BY <1>1, <2>1, <2>2, <2>3, FiledKept DEF QInv
  <2> QED BY <1>2, <2>5, <2>6 DEF QInv
<1>8. CASE ReleaseRoute(x) \/ ReleaseContext(x)
  <2>1. PICK place \in {"unrouted", "released"} :
           /\ cpc' = [cpc EXCEPT ![x] = place]
           /\ place = "unrouted" => cpc[x] = "waited" /\ UNCHANGED active_transfers
    BY <1>8 DEF ReleaseRoute, ReleaseContext, MayRelease
  <2>2. /\ cpc[x] \in {"waited", "unrouted"}
        /\ UNCHANGED <<queue, active_contexts, handle, finished>>
    BY <1>8 DEF ReleaseRoute, ReleaseContext, MayRelease, ctxVars, workerVars
  <2>3. \A h \in Handles \ {handle[x]} :
           /\ handle_numa_map'[h] = handle_numa_map[h]
           /\ \A w \in Workers : active_transfers'[w][h] = active_transfers[w][h]
    <3>1. CASE ReleaseRoute(x)
      BY <1>1, <3>1 DEF ReleaseRoute
    <3>2. CASE ReleaseContext(x)
      <4>1. /\ active_transfers' = [active_transfers EXCEPT ![Home[x]][handle[x]] = None]
            /\ UNCHANGED handle_numa_map
        BY <3>2 DEF ReleaseContext
      <4> QED BY <1>1, <4>1
    <3> QED BY <1>8, <3>1, <3>2
  <2>4. active_transfers[Home[x]][handle[x]] = x
    BY <2>2 DEF QInv, Filed
  <2>5. Unknown' /\ Queued'
    BY <1>1, <2>1, <2>2, ClientKeeps
  <2>6. Filed'
    BY <2>1, <2>2, <2>3, <2>4, FiledKept DEF QInv
  <2> QED BY <1>2, <2>5, <2>6 DEF QInv
<1>9. CASE ReleaseUnknown(x)
  <2>1. ~ MayRelease(x)
    BY <1>9, LookupOwn DEF ReleaseUnknown, MayRelease
  <2>2. /\ cpc[x] = "refused" /\ cpc' = [cpc EXCEPT ![x] = "released"]
        /\ UNCHANGED <<queue, active_contexts, active_transfers, handle_numa_map, handle,
                       finished>>
    BY <1>9, <2>1 DEF ReleaseUnknown, mapVars, ctxVars, workerVars
  <2>3. \A y \in Xfers : cpc'[y] = IF y = x THEN "released" ELSE cpc[y]
    BY <1>1, <2>2
  <2>4. Unknown' /\ Queued'
    BY <1>1, <2>2, ClientKeeps
  <2>5. Filed'
    BY <2>2, <2>3 DEF QInv, Filed
  <2> QED BY <1>2, <2>4, <2>5 DEF QInv
<1> QED BY <1>3, <1>4, <1>5, <1>6, <1>7, <1>8, <1>9 DEF Client

-----------------------------------------------------------------------------
(* The engine.                                                              *)

\* No fault can happen, and what a NIC with all links up does is deliver.
LEMMA CalmStep ==
    ASSUME IInv, Calm, Engine
    PROVE  Calm'
<1>1. /\ wr \in [Wrs -> WrStates] /\ port_up \in [Nics -> BOOLEAN] /\ faults = 0
      /\ qp_error \in [Nics -> [Qps -> BOOLEAN]]
  BY DEF IInv, TypeOK, Calm
<1>2. ASSUME NEW w \in Workers, NEW x \in Xfers, PostChunk(w, x)
      PROVE  Calm'
  <2>1. \A r \in Wrs : wr'[r] \in {wr[r], "sent"}
    BY <1>1, <1>2 DEF PostChunk
  <2>2. UNCHANGED <<linkVars, faults>>
    BY <1>2 DEF PostChunk
  <2> QED BY <2>1, <2>2 DEF Calm, linkVars
<1>3. ASSUME NEW w \in Workers, NEW n \in Nics, PollWc(w, n)
      PROVE  Calm'
  <2>1. PICK r \in Wrs : wr' = [wr EXCEPT ![r] = IF wr[r] = "error" THEN "failed" ELSE "done"]
    BY <1>3 DEF PollWc, Completions
  <2>2. \A s \in Wrs : wr'[s] \in {wr[s], "failed", "done"}
    BY <1>1, <2>1
  <2>3. UNCHANGED <<linkVars, faults>>
    BY <1>3 DEF PollWc
  <2> QED BY <2>2, <2>3 DEF Calm, linkVars
<1>4. ASSUME NEW w \in Workers, NEW n \in Nics, ProbeUp(w, n)
      PROVE  Calm'
  <2>1. \A r \in Wrs : wr'[r] \in {wr[r], "lost"}
    BY <1>4 DEF ProbeUp
  <2>2. /\ qp_error' = [qp_error EXCEPT ![n] = [q \in Qps |-> FALSE]]
        /\ UNCHANGED <<port_up, faults>>
    BY <1>4 DEF ProbeUp
  <2>3. \A m \in Nics : \A q \in Qps : ~ qp_error'[m][q]
    BY <1>1, <2>2 DEF Calm
  <2> QED BY <2>1, <2>2, <2>3 DEF Calm
<1>5. ASSUME NEW r \in Wrs, NicStep(r) \/ NicFault(r)
      PROVE  Calm'
  <2>1. wr[r] = "sent"
    BY <1>5 DEF NicStep, NicFault, NicDeliver, NicFlush, NicRetriesExhausted, FailWr
  <2>2. wr_at[r][1] \in Nics /\ PhysQp(wr_at[r][2]) \in Qps
    BY <2>1, PhysQpIsQp DEF IInv, WrsPlaced
  <2>3. port_up[wr_at[r][1]] /\ ~ OnFailedQp(r)
    BY <2>2 DEF OnFailedQp, Calm
  <2>4. NicDeliver(r)
    BY <1>1, <1>5, <2>3 DEF NicStep, NicFault, NicFlush, NicRetriesExhausted
  <2>5. \A s \in Wrs : wr'[s] \in {wr[s], "ok"}
    BY <1>1, <2>4 DEF NicDeliver
  <2>6. UNCHANGED <<qp_error, port_up, faults>>
    BY <2>4 DEF NicDeliver, NicUnchanged
  <2> QED BY <2>5, <2>6 DEF Calm
<1>6. ASSUME NEW n \in Nics, PortChange(n)
      PROVE  FALSE
  <2>1. port_up[n] /\ faults' = faults - 1 /\ faults' >= 0
    BY <1>6 DEF PortChange, Calm
  <2> QED BY <1>1, <2>1
<1>7. ASSUME NEW w \in Workers, NEW n \in Nics, PollFatal(w, n) \/ ProbeRefused(w, n)
      PROVE  FALSE
  BY <1>1, <1>7 DEF PollFatal, ProbeRefused
<1>8. ASSUME NEW n \in Nics, QuarantineElapses(n)
      PROVE  Calm'
  BY <1>8 DEF QuarantineElapses, wrVars, linkVars, Calm
<1>9. ASSUME NEW w \in Workers, Work(w),
             ~ \E x \in Xfers : PostChunk(w, x),
             ~ \E n \in Nics : PollWc(w, n) \/ ProbeUp(w, n) \/ ProbeRefused(w, n)
      PROVE  Calm'
  <2>1. UNCHANGED <<wrVars, linkVars, faults>>
    BY <1>9 DEF Work, Drain, StartPass, StartPoll, StartRetire, EndPass, EndProbe,
                PostUnroutable, PostRejected, PostBreak, PostUnchanged, Retire,
                PollEmpty, ProbeDown
  <2> QED BY <2>1 DEF wrVars, linkVars, Calm
<1> QED BY <1>2, <1>3, <1>4, <1>5, <1>6, <1>7, <1>8, <1>9 DEF Engine, Fault

\* What the engine's steps other than Drain may do: finish active transfers and
\* let them go.
OnlyActive ==
    /\ UNCHANGED queue
    /\ \A w \in Workers : active_contexts'[w] \subseteq active_contexts[w]
    /\ \A x \in Xfers : (\A w \in Workers : x \notin active_contexts[w]) =>
                            finished'[x] = finished[x]

LEMMA WorkOnlyActive ==
    ASSUME IInv, QInv, NEW w \in Workers, Work(w), ~ Drain(w)
    PROVE  OnlyActive /\ LoopsActive'
<1>1. /\ finished \in [Xfers -> BOOLEAN]
      /\ pc \in [Workers -> {"drain", "post", "poll", "retire", "probe"}]
      /\ todo \in [Workers -> SUBSET (Xfers \cup Nics)]
      /\ active_contexts \in [Workers -> SUBSET Xfers]
      /\ wr \in [Wrs -> WrStates] /\ faults = 0
  BY DEF IInv, TypeOK, QInv, Calm
<1>2. LoopsActive
  BY DEF QInv
<1>3. CASE StartPass(w) \/ StartPoll(w) \/ StartRetire(w) \/ EndPass(w) \/ EndProbe(w)
  <2>1. /\ UNCHANGED <<queue, active_contexts, finished>>
        /\ \E phase \in {"post", "poll", "retire", "probe", "drain"} :
             \E work : /\ pc' = [pc EXCEPT ![w] = phase]
                       /\ todo' = [todo EXCEPT ![w] = work]
                       /\ phase \in {"post", "retire"} => work = active_contexts[w]
    BY <1>3 DEF StartPass, StartPoll, StartRetire, EndPass, EndProbe, ToPhase, ctxVars
  <2>2. LoopsActive'
    BY <1>1, <1>2, <2>1 DEF LoopsActive
  <2> QED BY <2>1, <2>2 DEF OnlyActive
<1>4. ASSUME UNCHANGED <<pc, active_contexts>>,
             \A v \in Workers : todo'[v] \subseteq todo[v]
      PROVE  LoopsActive'
  BY <1>2, <1>4 DEF LoopsActive
<1>5. ASSUME NEW x \in Xfers, PostChunk(w, x) \/ PostBreak(w, x)
      PROVE  OnlyActive /\ LoopsActive'
  <2>1. /\ UNCHANGED <<queue, pc, active_contexts, finished>>
        /\ todo' = todo \/ todo' = [todo EXCEPT ![w] = @ \ {x}]
    BY <1>5 DEF PostChunk, PostBreak, PostUnchanged, Visited, workerVars
  <2>2. \A v \in Workers : todo'[v] \subseteq todo[v]
    BY <1>1, <2>1
  <2> QED BY <1>4, <2>1, <2>2 DEF OnlyActive
<1>6. ASSUME NEW x \in Xfers, PostUnroutable(w, x) \/ PostRejected(w, x)
      PROVE  OnlyActive /\ LoopsActive'
  <2>1. /\ UNCHANGED <<queue, pc, active_contexts>>
        /\ todo' = [todo EXCEPT ![w] = @ \ {x}]
        /\ finished' = [finished EXCEPT ![x] = TRUE]
        /\ pc[w] = "post" /\ x \in todo[w]
    BY <1>6 DEF PostUnroutable, PostRejected, PostUnchanged, Posting, Fail, Visited
  <2>2. x \in active_contexts[w]
    BY <1>2, <2>1 DEF LoopsActive
  <2>3. \A v \in Workers : todo'[v] \subseteq todo[v]
    BY <1>1, <2>1
  <2>4. \A y \in Xfers : y # x => finished'[y] = finished[y]
    BY <1>1, <2>1
  <2> QED BY <1>4, <2>1, <2>2, <2>3, <2>4 DEF OnlyActive
<1>7. ASSUME NEW x \in Xfers, Retire(w, x)
      PROVE  OnlyActive /\ LoopsActive'
  <2>1. /\ UNCHANGED <<queue, pc>>
        /\ todo' = [todo EXCEPT ![w] = @ \ {x}]
        /\ finished' = [finished EXCEPT ![x] = @ \/ AllCompleted(x)]
        /\ pc[w] = "retire" /\ x \in todo[w]
        /\ active_contexts' = [active_contexts EXCEPT
                                 ![w] = IF Leaves(x) THEN @ \ {x} ELSE @]
    BY <1>7 DEF Retire, Visited
  <2>2. x \in active_contexts[w]
    BY <1>2, <2>1 DEF LoopsActive
  <2>3. \A y \in Xfers : y # x => finished'[y] = finished[y]
    BY <1>1, <2>1
  <2>4. \A v \in Workers : active_contexts'[v] \subseteq active_contexts[v]
    BY <1>1, <2>1
  <2>5. LoopsActive'
    BY <1>1, <1>2, <2>1 DEF LoopsActive
  <2> QED BY <2>1, <2>2, <2>3, <2>4, <2>5 DEF OnlyActive
<1>8. ASSUME NEW n \in Nics, PollWc(w, n)
      PROVE  OnlyActive /\ LoopsActive'
  <2>1. \A r \in Completions(n) : wr[r] # "error"
    BY DEF Completions, QInv, Calm
  <2>2. /\ UNCHANGED <<queue, pc, active_contexts, finished>>
        /\ \E stay \in BOOLEAN : todo' = [todo EXCEPT ![w] = IF stay THEN @ ELSE @ \ {n}]
    BY <1>8, <2>1 DEF PollWc
  <2>3. \A v \in Workers : todo'[v] \subseteq todo[v]
    BY <1>1, <2>2
  <2> QED BY <1>4, <2>2, <2>3 DEF OnlyActive
<1>9. ASSUME NEW n \in Nics, PollEmpty(w, n) \/ ProbeDown(w, n) \/ ProbeUp(w, n)
      PROVE  OnlyActive /\ LoopsActive'
  <2>1. /\ UNCHANGED <<queue, pc, active_contexts, finished>>
        /\ todo' = todo \/ todo' = [todo EXCEPT ![w] = @ \ {n}]
    BY <1>9 DEF PollEmpty, ProbeDown, ProbeUp, Visited, ctxVars, workerVars
  <2>2. \A v \in Workers : todo'[v] \subseteq todo[v]
    BY <1>1, <2>1
  <2> QED BY <1>4, <2>1, <2>2 DEF OnlyActive
<1>10. ASSUME NEW n \in Nics, ProbeRefused(w, n)
       PROVE  FALSE
  BY <1>1, <1>10 DEF ProbeRefused
<1> QED BY <1>3, <1>5, <1>6, <1>7, <1>8, <1>9, <1>10 DEF Work

\* A transfer leaves the queue and becomes active.
LEMMA DrainKeepsQueue ==
    ASSUME IInv, QInv, NEW w \in Workers, Drain(w)
    PROVE  Unknown' /\ LoopsActive' /\ Queued'
<1>1. /\ queue \in [Workers -> Seq(Handles)] /\ active_contexts \in [Workers -> SUBSET Xfers]
      /\ pc[w] = "drain" /\ queue[w] # <<>>
      /\ queue' = [queue EXCEPT ![w] = Tail(@)]
      /\ UNCHANGED <<pc, todo, cpc, handle, finished>>
  BY DEF Drain, IInv, TypeOK, startVars, clientVars, ctxVars
<1>2. /\ Len(queue[w]) \in Nat \ {0} /\ Head(queue[w]) = queue[w][1]
      /\ queue'[w] = Tail(queue[w]) /\ Len(queue'[w]) = Len(queue[w]) - 1
      /\ \A i \in 1..Len(queue'[w]) : queue'[w][i] = queue[w][i + 1]
  <2>1. queue[w] \in Seq(Handles)
    BY <1>1
  <2>2. Len(queue[w]) \in Nat \ {0}
    BY <1>1, <2>1, EmptySeq
  <2> QED BY <1>1, <2>1, <2>2, HeadTailProperties
<1>3. PICK x \in Xfers : Waiting(x, w, queue[w][1])
  BY <1>2 DEF QInv, Queued
<1>4. active_transfers[w][Head(queue[w])] = x /\ x # None
  BY <1>2, <1>3, XferConstants DEF QInv, Filed, Waiting
<1>5. active_contexts' = [active_contexts EXCEPT ![w] = @ \cup {x}]
  BY <1>4 DEF Drain
<1>6. \A v \in Workers : \A y \in Xfers : y # x =>
         (y \in active_contexts'[v] <=> y \in active_contexts[v])
  BY <1>1, <1>5
<1>7. Unknown'
  BY <1>1, <1>3, <1>6 DEF QInv, Unknown, Waiting
<1>8. LoopsActive'
  <2>1. \A v \in Workers : active_contexts[v] \subseteq active_contexts'[v]
    BY <1>1, <1>5
  <2> QED BY <1>1, <2>1 DEF QInv, LoopsActive
<1>9. ASSUME NEW v \in Workers, NEW h, NEW y \in Xfers, Waiting(y, v, h), y # x
      PROVE  Waiting(y, v, h)'
  BY <1>1, <1>6, <1>9 DEF Waiting
<1>10. ASSUME NEW v \in Workers, NEW i \in 1..Len(queue[v]), v # w \/ i # 1
       PROVE  (\E y \in Xfers : Waiting(y, v, queue[v][i])) /\
              \A y \in Xfers : Waiting(y, v, queue[v][i]) => y # x
  BY <1>2, <1>3, <1>10 DEF QInv, Queued, Waiting
<1>11. Queued'
  <2> SUFFICES ASSUME NEW v \in Workers, NEW i \in 1..Len(queue'[v])
               PROVE  /\ (\E y \in Xfers : Waiting(y, v, queue[v][i]))'
                      /\ \A j \in 1..Len(queue'[v]) : queue'[v][j] = queue'[v][i] => j = i
    BY DEF Queued
  <2>1. CASE v # w
    <3>1. queue'[v] = queue[v]
      BY <1>1, <2>1
    <3> QED BY <1>9, <1>10, <2>1, <3>1 DEF QInv, Queued
  <2>2. CASE v = w
    <3>1. /\ \A j \in 1..Len(queue'[w]) : j + 1 \in 1..Len(queue[w]) /\ j + 1 # 1
      BY <1>2
    <3>2. \A j \in 1..Len(queue'[w]) : queue'[w][j] = queue'[w][i] => j = i
      <4>1. \A j, k \in 1..Len(queue[w]) : queue[w][j] = queue[w][k] => j = k
        BY DEF QInv, Queued
      <4>2. ASSUME NEW j \in 1..Len(queue'[w]), queue'[w][j] = queue'[w][i]
            PROVE  j = i
        <5>1. queue[w][j + 1] = queue[w][i + 1]
          BY <1>2, <2>2, <4>2
        <5>2. j + 1 = i + 1
          BY <2>2, <3>1, <4>1, <5>1
        <5> QED BY <1>2, <2>2, <5>2
      <4> QED BY <4>2
    <3>3. PICK y \in Xfers : Waiting(y, w, queue[w][i + 1]) /\ y # x
      BY <1>10, <2>2, <3>1
    <3>4. (\E z \in Xfers : Waiting(z, w, queue[w][i]))'
      <4>1. queue'[w][i] = queue[w][i + 1]
        BY <1>2, <2>2
      <4>2. Waiting(y, w, queue[w][i])'
        BY <1>1, <1>6, <3>3, <4>1 DEF Waiting
      <4> QED BY <4>2
    <3> QED BY <2>2, <3>2, <3>4
  <2> QED BY <2>1, <2>2
<1> QED BY <1>7, <1>8, <1>11

\* What other steps of the engine keep.
LEMMA OnlyActiveKeeps ==
    ASSUME QInv, OnlyActive, UNCHANGED <<cpc, handle>>
    PROVE  Unknown' /\ Queued'
<1>1. Unknown'
  BY DEF QInv, OnlyActive, Unknown
<1>2. ASSUME NEW w \in Workers, NEW h, NEW y \in Xfers, Waiting(y, w, h)
      PROVE  Waiting(y, w, h)'
  BY <1>2 DEF OnlyActive, Waiting
<1>3. UNCHANGED queue
  BY DEF OnlyActive
<1>4. Queued'
  BY <1>2, <1>3 DEF QInv, Queued
<1> QED BY <1>1, <1>4

\* The invariant survives every step of workers, NICs and time.
LEMMA QueueEngine ==
    ASSUME IInv, QInv, Engine
    PROVE  QInv'
<1>1. /\ UNCHANGED <<cpc, handle, active_transfers, handle_numa_map>>
      /\ Calm'
  BY EngineKeepsStart, CalmStep DEF startVars, clientVars, mapVars, QInv
<1>2. Filed'
  BY <1>1 DEF QInv, Filed
<1>3. ASSUME NEW w \in Workers, Work(w)
      PROVE  Unknown' /\ LoopsActive' /\ Queued'
  <2>1. CASE Drain(w)
    BY <2>1, DrainKeepsQueue
  <2>2. CASE ~ Drain(w)
    BY <1>1, <1>3, <2>2, WorkOnlyActive, OnlyActiveKeeps
  <2> QED BY <2>1, <2>2
<1>4. ASSUME UNCHANGED <<queue, workerVars, finished>>
      PROVE  Unknown' /\ LoopsActive' /\ Queued'
  <2>1. OnlyActive
    BY <1>4 DEF OnlyActive, workerVars
  <2>2. LoopsActive'
    BY <1>4 DEF QInv, LoopsActive, workerVars
  <2> QED BY <1>1, <2>1, <2>2, OnlyActiveKeeps
<1>5. ASSUME NEW r \in Wrs, NicStep(r) \/ NicFault(r)
      PROVE  UNCHANGED <<queue, workerVars, finished>>
  BY <1>5 DEF NicStep, NicFault, NicDeliver, NicFlush, NicRetriesExhausted, FailWr,
              NicUnchanged, ctxVars
<1>6. ASSUME NEW n \in Nics, PortChange(n) \/ QuarantineElapses(n)
      PROVE  UNCHANGED <<queue, workerVars, finished>>
  BY <1>6 DEF PortChange, QuarantineElapses, ctxVars
<1>7. ASSUME NEW w \in Workers, NEW n \in Nics, PollFatal(w, n)
      PROVE  FALSE
  BY <1>7 DEF PollFatal, QInv, Calm
<1>8. Unknown' /\ LoopsActive' /\ Queued'
  BY <1>3, <1>4, <1>5, <1>6, <1>7 DEF Engine, Fault
<1> QED BY <1>1, <1>2, <1>8 DEF QInv

-----------------------------------------------------------------------------
(* The invariant, and the theorem.                                          *)

LEMMA InitQueue ==
    ASSUME MaxFaults = 0
    PROVE  Init => QInv
<1> SUFFICES ASSUME Init PROVE QInv
  OBVIOUS
<1>1. Calm /\ Filed /\ Unknown /\ LoopsActive
  BY DEF Init, Calm, Filed, Unknown, LoopsActive
<1>2. Queued
  BY EmptySeq DEF Init, Queued
<1> QED BY <1>1, <1>2 DEF QInv

LEMMA StepQueue ==
    ASSUME IInv, QInv, ReleasePolicy # "any", [Next]_vars
    PROVE  QInv'
<1>1. CASE UNCHANGED vars
  <2>1. /\ UNCHANGED <<queue, cpc, handle, active_transfers, handle_numa_map>>
        /\ UNCHANGED <<pc, todo, active_contexts, wr, qp_error, port_up, faults, finished>>
    BY <1>1 DEF vars, startVars, clientVars, mapVars, workerVars, wrVars, linkVars, ctxVars
  <2>2. OnlyActive /\ Filed' /\ Calm' /\ LoopsActive'
    BY <2>1 DEF OnlyActive, QInv, Filed, Calm, LoopsActive
  <2> QED BY <2>1, <2>2, OnlyActiveKeeps DEF QInv
<1> QED BY <1>1, QueueClient, QueueEngine, NextIsClientOrEngine

\* As long as no NIC fails and clients release only what they have waited for, a
\* queued handle names one transfer, not active yet and queued once: a worker
\* that drains its queue activates no context twice and finds none gone.
THEOREM QueuedAlwaysOnce ==
    ASSUME MaxFaults = 0, ReleasePolicy # "any"
    PROVE  Spec => []QueuedOnce
<1>1. Init => IInv /\ QInv
  BY InitInvariant, InitQueue
<1>2. IInv /\ QInv /\ [Next]_vars => (IInv /\ QInv)'
  BY StepInvariant, StepQueue
<1>3. IInv /\ QInv => QueuedOnce
  BY QueuedOnceHolds
<1> QED BY <1>1, <1>2, <1>3, PTL DEF Spec
=============================================================================
