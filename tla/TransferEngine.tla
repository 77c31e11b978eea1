---------------------------- MODULE TransferEngine ----------------------------
(***************************************************************************)
(* The asynchronous transfer engine of src/src/mpcomm.cpp: client threads  *)
(* that start, wait for and release transfers, the handle pool, the        *)
(* per-NUMA maps of live contexts, one worker thread per NUMA node with    *)
(* its loop of phases, and the NICs the workers post to and poll.          *)
(*                                                                         *)
(* A transfer is named by its identity (a member of Xfers), which the      *)
(* program does not have: the program only knows its handle, and handles   *)
(* are recycled.  Keeping the two apart is what lets the properties say    *)
(* whose completion was credited to whom.                                  *)
(***************************************************************************)
EXTENDS Naturals, Integers, Sequences, FiniteSets

CONSTANTS
    Xfers,                \* calls of transferAsyncStart, each a context
    Workers,              \* one worker per NUMA node (kWorkersPerNuma = 1)
    Worker0,              \* the worker that drives the quarantine probe
    Nics,                 \* the RDMA devices
    None,                 \* "not found"
    Home,                 \* NUMA node (worker) of each transfer's buffer
    TotalChunks,          \* number of chunks of each transfer
    CandNics,             \* candidate NICs of each transfer, before filtering
    NoRoute,              \* <<x, chunk>> with no lkey, no rkey or no QP
    MaxHandle,            \* HandlePool::kMaxHandle
    QueueCap,             \* handles a worker queue holds (kLockFreeQueueSize - 1)
    NumQps,               \* qps_per_connection_
    PeerQps,              \* QPs per NIC pair the handshake agreed on
    MaxOutstandingPerQp,  \* max_outstanding_per_qp_
    MaxSendWr,            \* max_send_wr_, the depth of a send queue
    MaxFaults,            \* bound on faults of the environment
    ReleasePolicy         \* when clients call releaseTransfer

Qps == 0..(NumQps - 1)
MaxOutstandingPerNic == MaxOutstandingPerQp * NumQps
Handles == 1..MaxHandle
Wrs == UNION {{x} \X (0..(TotalChunks[x] - 1)) : x \in Xfers}

ASSUME XferConstants ==
    /\ None \notin Xfers \cup Workers \cup (Nics \X Qps)
    /\ Home \in [Xfers -> Workers]
    /\ TotalChunks \in [Xfers -> Nat]
    /\ CandNics \in [Xfers -> (SUBSET Nics) \ {{}}]
    /\ NoRoute \subseteq Wrs
    /\ ReleasePolicy \in {"never", "finished", "any"}

ASSUME LimitConstants ==
    /\ MaxHandle \in Nat /\ QueueCap \in Nat \ {0}
    /\ NumQps \in Nat \ {0} /\ PeerQps \in 1..NumQps
    /\ MaxOutstandingPerQp \in Nat \ {0} /\ MaxSendWr \in Nat \ {0}
    /\ MaxFaults \in Nat

VARIABLES
    free_list, next_new_handle,            \* HandlePool
    cpc, handle, result,                   \* client: place, handle, last return
    active_transfers, handle_numa_map,     \* handle -> context, handle -> NUMA
    freed,                                 \* contexts whose memory is returned
    next_chunk_idx, total_completed,       \* fields of TransferContext ...
    error_code, finished, candidates,
    queue,                                 \* worker_queues_
    pc, todo, active_contexts,             \* worker: phase, rest of its loop
    nic_out, qp_out,                       \* posted - completed, per worker
    wr, wr_at,                             \* NIC: state and place of each WR
    qp_error, port_up,                     \* NIC: failed QPs, link state
    in_quarantine, elapsed,                \* NicQuarantineState, its timer
    faults                                 \* faults the environment has left

poolVars   == <<free_list, next_new_handle>>
clientVars == <<cpc, handle, result>>
mapVars    == <<active_transfers, handle_numa_map, freed>>
ctxVars    == <<next_chunk_idx, total_completed, error_code, finished, candidates>>
workerVars == <<pc, todo, active_contexts>>
countVars  == <<nic_out, qp_out>>
wrVars     == <<wr, wr_at>>
linkVars   == <<qp_error, port_up>>
quarVars   == <<in_quarantine, elapsed>>
startVars  == <<poolVars, clientVars, mapVars>>
vars == <<startVars, ctxVars, queue, workerVars, countVars, wrVars, linkVars,
          quarVars, faults>>

-----------------------------------------------------------------------------
(* Work requests.  "sent": owned by the NIC; "ok" / "error": its completion *)
(* is in the CQ; "done" / "failed": the completion was polled; "lost": the  *)
(* QP was reset first.                                                      *)
WrStates == {"todo", "sent", "ok", "error", "done", "failed", "lost"}
InCq == {"ok", "error"}
InFlight == {"sent"} \cup InCq

WrsOn(n) == {r \in Wrs : wr[r] \in InFlight /\ wr_at[r][1] = n}

\* getOrCreateQP: an index beyond the negotiated list falls back to QP 0.
PhysQp(q) == IF q < PeerQps THEN q ELSE 0

SendQueue(n, q) == {r \in WrsOn(n) : PhysQp(wr_at[r][2]) = PhysQp(q)}

-----------------------------------------------------------------------------
(* HandlePool: a LIFO free list, then fresh handles up to kMaxHandle.       *)
\* Mutant: "<=" became "<" in HandlePool::allocate, one handle too many.
PoolEmptyTooLate == free_list = <<>> /\ next_new_handle > MaxHandle + 1

PoolEmpty == free_list = <<>> /\ next_new_handle > MaxHandle

PoolTop == IF free_list # <<>> THEN free_list[Len(free_list)] ELSE next_new_handle

\* Mutant: free_list.pop_back() is missing.
PoolAllocateNoPop ==
    IF free_list # <<>>
      THEN UNCHANGED poolVars
      ELSE next_new_handle' = next_new_handle + 1 /\ UNCHANGED free_list

PoolAllocate ==
    IF free_list # <<>>
      THEN /\ free_list' = SubSeq(free_list, 1, Len(free_list) - 1)
           /\ UNCHANGED next_new_handle
      ELSE /\ next_new_handle' = next_new_handle + 1
           /\ UNCHANGED free_list

PoolRelease(h) ==
    /\ free_list' = IF h = 0 THEN free_list ELSE Append(free_list, h)
    /\ UNCHANGED next_new_handle

-----------------------------------------------------------------------------
Init ==
    /\ free_list = <<>> /\ next_new_handle = 1
    /\ cpc = [x \in Xfers |-> "new"]
    /\ handle = [x \in Xfers |-> 0]
    /\ result = [x \in Xfers |-> "none"]
    /\ active_transfers = [w \in Workers |-> [h \in Handles |-> None]]
    /\ handle_numa_map = [h \in Handles |-> None]
    /\ freed = {}
    /\ next_chunk_idx = [x \in Xfers |-> 0]
    /\ total_completed = [x \in Xfers |-> 0]
    /\ error_code = [x \in Xfers |-> "pending"]
    /\ finished = [x \in Xfers |-> FALSE]
    /\ candidates = [x \in Xfers |-> {}]
    /\ queue = [w \in Workers |-> <<>>]
    /\ pc = [w \in Workers |-> "drain"]
    /\ todo = [w \in Workers |-> {}]
    /\ active_contexts = [w \in Workers |-> {}]
    /\ nic_out = [w \in Workers |-> [n \in Nics |-> 0]]
    /\ qp_out = [w \in Workers |-> [n \in Nics |-> [q \in Qps |-> 0]]]
    /\ wr = [r \in Wrs |-> "todo"]
    /\ wr_at = [r \in Wrs |-> None]
    /\ qp_error = [n \in Nics |-> [q \in Qps |-> FALSE]]
    /\ port_up = [n \in Nics |-> TRUE]
    /\ in_quarantine = [n \in Nics |-> FALSE]
    /\ elapsed = [n \in Nics |-> FALSE]
    /\ faults = MaxFaults

-----------------------------------------------------------------------------
(* Clients.  Each transfer is driven by one client thread.                  *)

\* transferAsyncStart: take a handle, or return INVALID_TRANSFER_HANDLE.
StartAllocate(x) ==
    /\ cpc[x] = "new"
    /\ IF PoolEmpty
         THEN /\ cpc' = [cpc EXCEPT ![x] = "refused"]
              /\ UNCHANGED <<handle, poolVars>>
         ELSE /\ cpc' = [cpc EXCEPT ![x] = "allocated"]
              /\ handle' = [handle EXCEPT ![x] = PoolTop]
              /\ PoolAllocate
    /\ UNCHANGED <<result, mapVars, ctxVars, queue, workerVars, countVars, wrVars,
                   linkVars, quarVars, faults>>

\* Quarantined NICs leave the candidate list, unless that would empty it.
HealthyCandidates(x) ==
    LET healthy == {n \in CandNics[x] : ~in_quarantine[n]}
    IN  IF healthy # {} THEN healthy ELSE CandNics[x]

\* The context enters its NUMA node's map, destroying one it overwrites; an
\* empty transfer is finished at birth.
StartStore(x) ==
    LET w == Home[x]
        old == active_transfers[w][handle[x]]
    IN  /\ cpc[x] = "allocated"
        /\ cpc' = [cpc EXCEPT ![x] = "stored"]
        /\ candidates' = [candidates EXCEPT ![x] = HealthyCandidates(x)]
        /\ active_transfers' = [active_transfers EXCEPT ![w][handle[x]] = x]
        /\ freed' = freed \cup ({old} \ {None})
        /\ finished' = [finished EXCEPT ![x] = TotalChunks[x] = 0]
        /\ error_code' = [error_code EXCEPT
                            ![x] = IF TotalChunks[x] = 0 THEN "success" ELSE @]
        /\ UNCHANGED <<poolVars, handle, result, handle_numa_map, next_chunk_idx,
                       total_completed, queue, workerVars, countVars, wrVars,
                       linkVars, quarVars, faults>>

\* The handle enters handle_numa_map_; an empty transfer returns here.
StartRoute(x) ==
    /\ cpc[x] = "stored"
    /\ cpc' = [cpc EXCEPT ![x] = IF TotalChunks[x] = 0 THEN "live" ELSE "routed"]
    /\ handle_numa_map' = [handle_numa_map EXCEPT ![handle[x]] = Home[x]]
    /\ UNCHANGED <<poolVars, handle, result, active_transfers, freed, ctxVars, queue,
                   workerVars, countVars, wrVars, linkVars, quarVars, faults>>

\* Mutant: a push that succeeded is reported as failed, and retried.
StartSubmitAgain(x) ==
    LET w == Home[x]
    IN  /\ cpc[x] = "routed"
        /\ Len(queue[w]) < QueueCap
        /\ \E place \in {"routed", "live"} : cpc' = [cpc EXCEPT ![x] = place]
        /\ queue' = [queue EXCEPT ![w] = Append(@, handle[x])]
        /\ UNCHANGED <<poolVars, handle, result, mapVars, ctxVars, workerVars,
                       countVars, wrVars, linkVars, quarVars, faults>>

\* The push onto the worker's queue; the caller spins while it is full.
StartSubmit(x) ==
    LET w == Home[x]
    IN  /\ cpc[x] = "routed"
        /\ Len(queue[w]) < QueueCap
        /\ cpc' = [cpc EXCEPT ![x] = "live"]
        /\ queue' = [queue EXCEPT ![w] = Append(@, handle[x])]
        /\ UNCHANGED <<poolVars, handle, result, mapVars, ctxVars, workerVars,
                       countVars, wrVars, linkVars, quarVars, faults>>

Routed == {h \in Handles : handle_numa_map[h] # None}

\* What the two maps say a handle names.
Lookup(h) ==
    IF h \in Routed
      THEN active_transfers[handle_numa_map[h]][h]
      ELSE None

\* waitTransfer returns the result, or ERR_INVALID_HANDLE.
WaitReturn(x) ==
    LET y == Lookup(handle[x])
    IN  /\ cpc[x] = "live"
        /\ y = None \/ finished[y]
        /\ cpc' = [cpc EXCEPT ![x] = "waited"]
        /\ result' = [result EXCEPT ![x] = IF y = None THEN "invalid" ELSE error_code[y]]
        /\ UNCHANGED <<poolVars, handle, mapVars, ctxVars, queue, workerVars,
                       countVars, wrVars, linkVars, quarVars, faults>>

\* waitTransfer gives up; the client may call it again.
WaitTimeout(x) ==
    /\ cpc[x] = "live"
    /\ Lookup(handle[x]) # None
    /\ ~finished[Lookup(handle[x])]
    /\ result' = [result EXCEPT ![x] = "timeout"]
    /\ UNCHANGED <<poolVars, cpc, handle, mapVars, ctxVars, queue, workerVars,
                   countVars, wrVars, linkVars, quarVars, faults>>

MayRelease(x) ==
    \/ ReleasePolicy # "never" /\ cpc[x] = "waited"
    \/ ReleasePolicy = "any" /\ cpc[x] = "live" /\ result[x] = "timeout"

\* releaseTransfer, first critical section: the handle leaves the NUMA map.
ReleaseRoute(x) ==
    /\ MayRelease(x)
    /\ handle[x] \in Routed
    /\ cpc' = [cpc EXCEPT ![x] = "unrouted"]
    /\ handle_numa_map' = [handle_numa_map EXCEPT ![handle[x]] = None]
    /\ UNCHANGED <<poolVars, handle, result, active_transfers, freed, ctxVars, queue,
                   workerVars, countVars, wrVars, linkVars, quarVars, faults>>

\* Second critical section: the context is destroyed, the handle recycled.
ReleaseContext(x) ==
    LET w == Home[x]
        old == active_transfers[w][handle[x]]
    IN  /\ cpc[x] = "unrouted"
        /\ cpc' = [cpc EXCEPT ![x] = "released"]
        /\ active_transfers' = [active_transfers EXCEPT ![w][handle[x]] = None]
        /\ freed' = freed \cup ({old} \ {None})
        /\ PoolRelease(handle[x])
        /\ UNCHANGED <<handle, result, handle_numa_map, ctxVars, queue, workerVars,
                       countVars, wrVars, linkVars, quarVars, faults>>

\* releaseTransfer of a handle the NUMA map does not hold: still returned to
\* the pool, which ignores INVALID_TRANSFER_HANDLE.
ReleaseUnknown(x) ==
    /\ cpc[x] = "refused" \/ MayRelease(x)
    /\ handle[x] \notin Routed
    /\ cpc' = [cpc EXCEPT ![x] = "released"]
    /\ PoolRelease(handle[x])
    /\ UNCHANGED <<handle, result, mapVars, ctxVars, queue, workerVars, countVars,
                   wrVars, linkVars, quarVars, faults>>

Client(x) ==
    \/ StartAllocate(x) \/ StartStore(x) \/ StartRoute(x) \/ StartSubmit(x)
    \/ WaitReturn(x) \/ WaitTimeout(x)
    \/ ReleaseRoute(x) \/ ReleaseContext(x) \/ ReleaseUnknown(x)

-----------------------------------------------------------------------------
(* Workers: workerThreadLoop.  pc is the phase; todo holds what the phase's  *)
(* loop has still to visit (contexts, or NICs while polling).  The vectors   *)
(* of the code are sets: the order of a loop over contexts is left open.     *)

ToPhase(w, phase, work) ==
    /\ pc' = [pc EXCEPT ![w] = phase]
    /\ todo' = [todo EXCEPT ![w] = work]

Visited(w, item) ==
    /\ todo' = [todo EXCEPT ![w] = @ \ {item}]
    /\ UNCHANGED pc

\* Mutant: the worker polls the CQ of every NIC.
PollEveryNic(w) == Nics

\* The NICs of the active contexts (poll_nic_indices).
PollNics(w) == UNION {candidates[x] : x \in active_contexts[w]}

\* Phase 1: pop a handle and activate its context; a handle that is gone is
\* consumed.
Drain(w) ==
    LET x == active_transfers[w][Head(queue[w])]
    IN  /\ pc[w] = "drain" /\ queue[w] # <<>>
        /\ queue' = [queue EXCEPT ![w] = Tail(@)]
        /\ active_contexts' = [active_contexts EXCEPT ![w] = @ \cup ({x} \ {None})]
        /\ UNCHANGED <<startVars, ctxVars, pc, todo, countVars, wrVars, linkVars,
                       quarVars, faults>>

\* With nothing active the worker spins here and neither polls nor probes.
StartPass(w) ==
    /\ pc[w] = "drain" /\ queue[w] = <<>> /\ active_contexts[w] # {}
    /\ ToPhase(w, "post", active_contexts[w])
    /\ UNCHANGED <<startVars, ctxVars, queue, active_contexts, countVars, wrVars,
                   linkVars, quarVars, faults>>

\* Phase 2.  posted - completed is a size_t: below zero it is huge, and full.
OpenNics(w, x) ==
    {n \in candidates[x] :
        ~in_quarantine[n] /\ nic_out[w][n] \in 0..(MaxOutstandingPerNic - 1)}

OpenQps(w, n) == {q \in Qps : qp_out[w][n][q] \in 0..(MaxOutstandingPerQp - 1)}

\* Mutant: the room on the QP is not looked at.
SlotsAnyQp(w, x) ==
    {s \in OpenNics(w, x) \X Qps :
        \A n \in OpenNics(w, x) : nic_out[w][s[1]] <= nic_out[w][n]}

\* The least loaded NIC, and on it the least loaded QP.
Slots(w, x) ==
    {s \in OpenNics(w, x) \X Qps :
        /\ \A n \in OpenNics(w, x) : nic_out[w][s[1]] <= nic_out[w][n]
        /\ s[2] \in OpenQps(w, s[1])
        /\ \A q \in OpenQps(w, s[1]) : qp_out[w][s[1]][s[2]] <= qp_out[w][s[1]][q]}

Posting(w, x) ==
    pc[w] = "post" /\ x \in todo[w] /\ next_chunk_idx[x] < TotalChunks[x]

PostUnchanged == UNCHANGED <<startVars, next_chunk_idx, total_completed, candidates,
                             queue, active_contexts, countVars, wrVars, linkVars,
                             quarVars, faults>>

\* ERR_TRANSFER is told apart by its cause: "completion", "post" or "poll".
Fail(x, code) ==
    /\ error_code' = [error_code EXCEPT ![x] = code]
    /\ finished' = [finished EXCEPT ![x] = TRUE]

PostChunk(w, x) ==
    /\ Posting(w, x)
    /\ LET r == <<x, next_chunk_idx[x]>>
       IN  /\ r \notin NoRoute
           /\ \E s \in Slots(w, x) :
                /\ Cardinality(SendQueue(s[1], s[2])) < MaxSendWr
                /\ nic_out' = [nic_out EXCEPT ![w][s[1]] = @ + 1]
                /\ qp_out' = [qp_out EXCEPT ![w][s[1]][s[2]] = @ + 1]
                /\ wr_at' = [wr_at EXCEPT ![r] = s]
           /\ wr' = [wr EXCEPT ![r] = "sent"]
    /\ next_chunk_idx' = [next_chunk_idx EXCEPT ![x] = @ + 1]
    /\ UNCHANGED <<startVars, total_completed, error_code, finished, candidates, queue,
                   workerVars, linkVars, quarVars, faults>>

\* The chunk's lkey, rkey or QP is missing: the transfer fails at once (with
\* ERR_MEMORY or ERR_CONNECTION, "connection" here).
PostUnroutable(w, x) ==
    /\ Posting(w, x) /\ Slots(w, x) # {}
    /\ <<x, next_chunk_idx[x]>> \in NoRoute
    /\ Fail(x, "connection")
    /\ Visited(w, x)
    /\ PostUnchanged

\* ibv_post_send fails: the send queue of the QP is full.
PostRejected(w, x) ==
    /\ Posting(w, x)
    /\ <<x, next_chunk_idx[x]>> \notin NoRoute
    /\ \E s \in Slots(w, x) : Cardinality(SendQueue(s[1], s[2])) >= MaxSendWr
    /\ Fail(x, "post")
    /\ Visited(w, x)
    /\ PostUnchanged

\* Every chunk is posted, or no NIC (no QP) has room: go on to the next context.
PostBreak(w, x) ==
    /\ pc[w] = "post" /\ x \in todo[w]
    /\ next_chunk_idx[x] >= TotalChunks[x] \/ Slots(w, x) = {}
    /\ Visited(w, x)
    /\ UNCHANGED <<error_code, finished>>
    /\ PostUnchanged

StartPoll(w) ==
    /\ pc[w] = "post" /\ todo[w] = {}
    /\ ToPhase(w, "poll", PollNics(w))
    /\ UNCHANGED <<startVars, ctxVars, queue, active_contexts, countVars, wrVars,
                   linkVars, quarVars, faults>>

\* Mutant: the handle in the work request id is not compared.
OwnerAnyActive(w, h) ==
    IF active_contexts[w] # {} THEN CHOOSE x \in active_contexts[w] : TRUE
    ELSE active_transfers[w][h]

\* Phase 2b.  The context a completion's handle names: one of the active
\* contexts, else one in the map of the worker's own NUMA node.
Owner(w, h) ==
    LET mine == {x \in active_contexts[w] : handle[x] = h}
    IN  IF mine # {} THEN CHOOSE x \in mine : TRUE ELSE active_transfers[w][h]

Completions(n) == {r \in Wrs : wr[r] \in InCq /\ wr_at[r][1] = n}

\* Mutant: the per-QP counter is forgotten.
CountNicOnly(w, r) ==
    /\ nic_out' = [nic_out EXCEPT ![w][wr_at[r][1]] = @ - 1]
    /\ UNCHANGED qp_out

\* The worker's flow control counters, always, regardless of success.
CountCompletion(w, r) ==
    /\ nic_out' = [nic_out EXCEPT ![w][wr_at[r][1]] = @ - 1]
    /\ qp_out' = [qp_out EXCEPT ![w][wr_at[r][1]][wr_at[r][2]] = @ - 1]

\* One completion.  The worker's counters move whoever posted it; without an
\* owner it is dropped, as an error it quarantines the NIC and fails the
\* owner.  ibv_poll_cq returns a bounded batch: the worker may leave the NIC.
PollWc(w, n) ==
    /\ pc[w] = "poll" /\ n \in todo[w]
    /\ \E r \in Completions(n), stay \in BOOLEAN :
         LET x == Owner(w, handle[r[1]])
             bad == wr[r] = "error"
         IN  /\ wr' = [wr EXCEPT ![r] = IF bad THEN "failed" ELSE "done"]
             /\ CountCompletion(w, r)
             /\ IF x # None /\ bad
                  THEN /\ in_quarantine' = [in_quarantine EXCEPT ![n] = TRUE]
                       /\ elapsed' = [elapsed EXCEPT ![n] = @ /\ in_quarantine[n]]
                       /\ Fail(x, "completion")
                  ELSE UNCHANGED <<quarVars, error_code, finished>>
             /\ total_completed' = IF x # None /\ ~bad
                                     THEN [total_completed EXCEPT ![x] = @ + 1]
                                     ELSE total_completed
             /\ todo' = [todo EXCEPT ![w] = IF stay THEN @ ELSE @ \ {n}]
    /\ UNCHANGED <<startVars, next_chunk_idx, candidates, queue, pc, active_contexts,
                   wr_at, linkVars, faults>>

PollEmpty(w, n) ==
    /\ pc[w] = "poll" /\ n \in todo[w]
    /\ Completions(n) = {}
    /\ Visited(w, n)
    /\ UNCHANGED <<startVars, ctxVars, queue, active_contexts, countVars, wrVars,
                   linkVars, quarVars, faults>>

\* ibv_poll_cq fails: every active transfer fails, the active list is cleared.
PollFatal(w, n) ==
    /\ pc[w] = "poll" /\ n \in todo[w] /\ faults > 0
    /\ faults' = faults - 1
    /\ error_code' = [x \in Xfers |->
                        IF x \in active_contexts[w] /\ ~finished[x]
                          THEN "poll" ELSE error_code[x]]
    /\ finished' = [x \in Xfers |-> finished[x] \/ x \in active_contexts[w]]
    /\ active_contexts' = [active_contexts EXCEPT ![w] = {}]
    /\ ToPhase(w, "drain", {})
    /\ UNCHANGED <<startVars, next_chunk_idx, total_completed, candidates, queue,
                   countVars, wrVars, linkVars, quarVars>>

StartRetire(w) ==
    /\ pc[w] = "poll" /\ todo[w] = {}
    /\ ToPhase(w, "retire", active_contexts[w])
    /\ UNCHANGED <<startVars, ctxVars, queue, active_contexts, countVars, wrVars,
                   linkVars, quarVars, faults>>

\* Mutant: the chunks posted so far are taken for the whole transfer.
AllPostedCompleted(x) == total_completed[x] >= next_chunk_idx[x]

\* Mutant: the last chunk is not waited for.
AllButOneCompleted(x) == total_completed[x] + 1 >= TotalChunks[x]

\* Mutant: ">" for ">=".
MoreThanAllCompleted(x) == total_completed[x] > TotalChunks[x]

AllCompleted(x) == total_completed[x] >= TotalChunks[x]

\* Mutant: a context that just completed is erased on the next pass.
LeavesNextPass(x) == finished[x]

Leaves(x) == finished[x] \/ AllCompleted(x)

\* Phase 4: a context that already failed, or whose chunks all completed,
\* leaves the active list.
Retire(w, x) ==
    /\ pc[w] = "retire" /\ x \in todo[w]
    /\ finished' = [finished EXCEPT ![x] = @ \/ AllCompleted(x)]
    /\ error_code' = [error_code EXCEPT
                        ![x] = IF ~finished[x] /\ AllCompleted(x) THEN "success" ELSE @]
    /\ active_contexts' = [active_contexts EXCEPT
                             ![w] = IF Leaves(x) THEN @ \ {x} ELSE @]
    /\ Visited(w, x)
    /\ UNCHANGED <<startVars, next_chunk_idx, total_completed, candidates, queue,
                   countVars, wrVars, linkVars, quarVars, faults>>

EndPass(w) ==
    /\ pc[w] = "retire" /\ todo[w] = {}
    /\ ToPhase(w, IF w = Worker0 THEN "probe" ELSE "drain", {})
    /\ UNCHANGED <<startVars, ctxVars, queue, active_contexts, countVars, wrVars,
                   linkVars, quarVars, faults>>

\* Phase 5, worker 0 only.  The NICs whose quarantine period is over.
DueNics == {n \in Nics : in_quarantine[n] /\ elapsed[n]}

\* The port is still down: the quarantine starts again.
ProbeDown(w, n) ==
    /\ pc[w] = "probe" /\ n \in DueNics /\ ~port_up[n]
    /\ elapsed' = [elapsed EXCEPT ![n] = FALSE]
    /\ UNCHANGED <<startVars, ctxVars, queue, workerVars, countVars, wrVars, linkVars,
                   in_quarantine, faults>>

\* The port is up: every QP of the NIC goes through RESET, which discards its
\* work requests and their completions, back to RTS; the NIC is re-admitted.
ProbeUp(w, n) ==
    /\ pc[w] = "probe" /\ n \in DueNics /\ port_up[n]
    /\ wr' = [r \in Wrs |-> IF r \in WrsOn(n) THEN "lost" ELSE wr[r]]
    /\ qp_error' = [qp_error EXCEPT ![n] = [q \in Qps |-> FALSE]]
    /\ in_quarantine' = [in_quarantine EXCEPT ![n] = FALSE]
    /\ elapsed' = [elapsed EXCEPT ![n] = FALSE]
    /\ UNCHANGED <<startVars, ctxVars, queue, workerVars, countVars, wr_at, port_up,
                   faults>>

\* A QP refuses to come back: the QPs before it (and perhaps it) were reset,
\* the quarantine starts again.
ProbeRefused(w, n) ==
    /\ pc[w] = "probe" /\ n \in DueNics /\ port_up[n]
    /\ faults > 0
    /\ faults' = faults - 1
    /\ \E reset \in SUBSET Qps :
         wr' = [r \in Wrs |-> IF r \in WrsOn(n) /\ PhysQp(wr_at[r][2]) \in reset
                               THEN "lost" ELSE wr[r]]
    /\ elapsed' = [elapsed EXCEPT ![n] = FALSE]
    /\ UNCHANGED <<startVars, ctxVars, queue, workerVars, countVars, wr_at, linkVars,
                   in_quarantine>>

EndProbe(w) ==
    /\ pc[w] = "probe" /\ DueNics = {}
    /\ ToPhase(w, "drain", {})
    /\ UNCHANGED <<startVars, ctxVars, queue, active_contexts, countVars, wrVars,
                   linkVars, quarVars, faults>>

Work(w) ==
    \/ Drain(w) \/ StartPass(w) \/ StartPoll(w) \/ StartRetire(w)
    \/ EndPass(w) \/ EndProbe(w)
    \/ \E x \in Xfers : \/ PostChunk(w, x) \/ PostUnroutable(w, x)
                        \/ PostRejected(w, x) \/ PostBreak(w, x) \/ Retire(w, x)
    \/ \E n \in Nics : \/ PollWc(w, n) \/ PollEmpty(w, n)
                       \/ ProbeDown(w, n) \/ ProbeUp(w, n)
                       \/ ProbeRefused(w, n)

-----------------------------------------------------------------------------
(* The NICs (external: libibverbs, the device and the wire).                *)

OnFailedQp(r) == qp_error[wr_at[r][1]][PhysQp(wr_at[r][2])]

NicUnchanged == UNCHANGED <<startVars, ctxVars, queue, workerVars, countVars, wr_at,
                            port_up, quarVars>>

NicDeliver(r) ==
    /\ wr[r] = "sent" /\ port_up[wr_at[r][1]] /\ ~OnFailedQp(r)
    /\ wr' = [wr EXCEPT ![r] = "ok"]
    /\ UNCHANGED <<qp_error, faults>>
    /\ NicUnchanged

\* A failed QP flushes what is posted to it, each with an error completion.
NicFlush(r) ==
    /\ wr[r] = "sent" /\ OnFailedQp(r)
    /\ wr' = [wr EXCEPT ![r] = "error"]
    /\ UNCHANGED <<qp_error, faults>>
    /\ NicUnchanged

FailWr(r) ==
    /\ wr[r] = "sent" /\ ~OnFailedQp(r)
    /\ wr' = [wr EXCEPT ![r] = "error"]
    /\ qp_error' = [qp_error EXCEPT ![wr_at[r][1]][PhysQp(wr_at[r][2])] = TRUE]
    /\ NicUnchanged

\* With the link down the transport retries run out.
NicRetriesExhausted(r) ==
    /\ FailWr(r)
    /\ ~port_up[wr_at[r][1]]
    /\ UNCHANGED faults

\* A remote access or transport error, or an injected fault.
NicFault(r) ==
    /\ FailWr(r)
    /\ faults > 0
    /\ faults' = faults - 1

PortChange(n) ==
    /\ faults' = IF port_up[n] THEN faults - 1 ELSE faults
    /\ faults' >= 0
    /\ port_up' = [port_up EXCEPT ![n] = ~@]
    /\ UNCHANGED <<startVars, ctxVars, queue, workerVars, countVars, wrVars, qp_error,
                   quarVars>>

\* MPCOMM_NIC_QUARANTINE_SEC passes, and the probe's counter comes round.  The
\* period (5 s) is longer than the transport's retries (67 ms, 7 times), so
\* nothing is with the NIC any more, and a worker that polls its CQ has
\* emptied it.
Settled(n) ==
    \A r \in WrsOn(n) : wr[r] # "sent" /\ n \notin PollNics(Home[r[1]])

QuarantineElapses(n) ==
    /\ in_quarantine[n] /\ ~elapsed[n] /\ Settled(n)
    /\ elapsed' = [elapsed EXCEPT ![n] = TRUE]
    /\ UNCHANGED <<startVars, ctxVars, queue, workerVars, countVars, wrVars, linkVars,
                   in_quarantine, faults>>

NicStep(r) == NicDeliver(r) \/ NicFlush(r) \/ NicRetriesExhausted(r)

Fault ==
    \/ \E r \in Wrs : NicFault(r)
    \/ \E w \in Workers, n \in Nics : PollFatal(w, n)

Next ==
    \/ \E x \in Xfers : Client(x)
    \/ \E w \in Workers : Work(w)
    \/ \E r \in Wrs : NicStep(r)
    \/ \E n \in Nics : PortChange(n) \/ QuarantineElapses(n)
    \/ Fault

Spec == Init /\ [][Next]_vars

(***************************************************************************)
(* Fairness.  A worker thread runs until shutdown; a caller spinning on a  *)
(* full queue keeps trying; the transport completes, flushes or times out  *)
(* every posted request; a link that went down comes back; time passes.    *)
(* Clients need not wait or release, and no fault has to happen.           *)
(***************************************************************************)
Fairness ==
    /\ \A w \in Workers : WF_vars(Work(w))
    /\ \A x \in Xfers : WF_vars(StartRoute(x)) /\ WF_vars(StartSubmit(x))
    /\ \A r \in Wrs : WF_vars(NicStep(r))
    /\ \A n \in Nics : /\ WF_vars(~port_up[n] /\ PortChange(n))
                       /\ WF_vars(QuarantineElapses(n))

FairSpec == Spec /\ Fairness

-----------------------------------------------------------------------------
(* Properties.                                                              *)

Codes == {"pending", "success", "connection", "completion", "post", "poll"}
Places == {"new", "refused", "allocated", "stored", "routed", "live", "waited",
           "unrouted", "released"}

\* The state has its declared shape (the fields of Impl and TransferContext).
TypeOK ==
    /\ free_list \in Seq(Handles) /\ next_new_handle \in 1..(MaxHandle + 1)
    /\ cpc \in [Xfers -> Places]
    /\ handle \in [Xfers -> Handles \cup {0}]
    /\ result \in [Xfers -> Codes \cup {"none", "timeout", "invalid"}]
    /\ active_transfers \in [Workers -> [Handles -> Xfers \cup {None}]]
    /\ handle_numa_map \in [Handles -> Workers \cup {None}]
    /\ freed \in SUBSET Xfers
    /\ next_chunk_idx \in [Xfers -> Nat] /\ total_completed \in [Xfers -> Nat]
    /\ error_code \in [Xfers -> Codes] /\ finished \in [Xfers -> BOOLEAN]
    /\ candidates \in [Xfers -> SUBSET Nics]
    /\ queue \in [Workers -> Seq(Handles)]
    /\ pc \in [Workers -> {"drain", "post", "poll", "retire", "probe"}]
    /\ todo \in [Workers -> SUBSET (Xfers \cup Nics)]
    /\ active_contexts \in [Workers -> SUBSET Xfers]
    /\ nic_out \in [Workers -> [Nics -> Int]]
    /\ qp_out \in [Workers -> [Nics -> [Qps -> Int]]]
    /\ wr \in [Wrs -> WrStates] /\ wr_at \in [Wrs -> (Nics \X Qps) \cup {None}]
    /\ qp_error \in [Nics -> [Qps -> BOOLEAN]] /\ port_up \in [Nics -> BOOLEAN]
    /\ in_quarantine \in [Nics -> BOOLEAN] /\ elapsed \in [Nics -> BOOLEAN]
    /\ faults \in Nat

\* A transfer reported as MPCOMM_SUCCESS had every one of its chunks delivered
\* by the NIC (Phase 4 trusts the counter total_completed).
SuccessMeansDelivered ==
    \A x \in Xfers : error_code[x] = "success" =>
        \A c \in 0..(TotalChunks[x] - 1) : wr[<<x, c>>] = "done"

Holding == {x \in Xfers : cpc[x] \in {"allocated", "stored", "routed", "live",
                                      "waited", "unrouted"}}

\* The handle pool never has a handle in two places: no two transfers hold the
\* same one, a held one is not free, and the free list has no duplicates.
HandlesUnique ==
    /\ \A x, y \in Holding : handle[x] = handle[y] => x = y
    /\ \A x \in Holding : /\ handle[x] \in 1..(next_new_handle - 1)
                          /\ \A i \in 1..Len(free_list) : free_list[i] # handle[x]
    /\ \A i \in 1..Len(free_list) : free_list[i] < next_new_handle
    /\ \A i, j \in 1..Len(free_list) : free_list[i] = free_list[j] => i = j

\* The raw TransferContext pointers in a worker's active list point to live
\* contexts: releaseTransfer frees none the worker may still touch.
NoDanglingContext == \A w \in Workers : active_contexts[w] \cap freed = {}

\* A worker's share of a NIC stays within its limits, per NIC and per QP,
\* counting what the NIC and its CQ really hold.
FlowControl ==
    \A w \in Workers, n \in Nics :
        LET mine == {r \in WrsOn(n) : Home[r[1]] = w}
        IN  /\ Cardinality(mine) <= MaxOutstandingPerNic
            /\ \A q \in Qps : Cardinality({r \in mine : wr_at[r][2] = q})
                                <= MaxOutstandingPerQp

\* The counters of a worker are what it has outstanding: no capacity leaks.
CapacityAccounted ==
    \A w \in Workers, n \in Nics, q \in Qps :
        qp_out[w][n][q] =
            Cardinality({r \in WrsOn(n) : Home[r[1]] = w /\ wr_at[r][2] = q})

\* A queued handle still names its transfer, which is not active yet and
\* queued once: no context is activated twice.
QueuedOnce ==
    \A w \in Workers : \A i \in 1..Len(queue[w]) :
        LET x == active_transfers[w][queue[w][i]]
        IN  /\ x # None /\ x \notin active_contexts[w] /\ ~finished[x]
            /\ \A j \in 1..Len(queue[w]) : queue[w][j] = queue[w][i] => j = i

\* A transfer fails only for a reason of its own: a chunk without a route, a
\* completion error of one of its own chunks, or a send queue shallower than
\* what the workers' limits let them post.
FailureHasCause ==
    \A x \in Xfers :
        /\ error_code[x] = "connection" => \E r \in NoRoute : r[1] = x
        /\ error_code[x] = "completion" =>
             \E c \in 0..(TotalChunks[x] - 1) : wr[<<x, c>>] = "failed"
        /\ error_code[x] = "post" =>
             MaxSendWr < MaxOutstandingPerNic * Cardinality(Workers)

\* A completion that was polled is credited to the transfer that posted it,
\* unless that transfer was released: only released transfers have orphans.
CompletionsReachOwner ==
    [][\A r \in Wrs : wr[r] \in InCq /\ wr'[r] = "done" /\ r[1] \notin freed =>
         total_completed'[r[1]] = total_completed[r[1]] + 1]_vars

\* Every transfer whose caller reached the push ends, with a result.
SubmittedFinishes == \A x \in Xfers : cpc[x] = "routed" ~> finished[x]

(***************************************************************************)
(* The engine implements Delivery.  An outcome exists from the moment      *)
(* finished is set, a part is delivered when its completion is polled, and *)
(* what a caller was told is the last return of waitTransfer, all the      *)
(* error codes being failures.                                             *)
(***************************************************************************)
Verdict(code) ==
    IF code \in {"connection", "completion", "post", "poll"} THEN "failed" ELSE code

Outcome == [x \in Xfers |-> IF finished[x] THEN Verdict(error_code[x]) ELSE "pending"]

Delivered == {r \in Wrs : wr[r] = "done"}

Told == [x \in Xfers |-> Verdict(result[x])]

Promise == INSTANCE Delivery WITH Parts <- Wrs, outcome <- Outcome,
                                  delivered <- Delivered, told <- Told

\* A caller sees what Delivery promises: waitTransfer answers with the outcome of the
\* caller's own transfer, which the workers decide once, and as MPCOMM_SUCCESS only
\* when its chunks all arrived.
DeliverySpec == Promise!Spec
=============================================================================
