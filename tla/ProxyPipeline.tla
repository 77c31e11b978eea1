---------------------------- MODULE ProxyPipeline ----------------------------
(***************************************************************************)
(* A transfer from the memory of a GPU uses the NICs of other GPUs too:    *)
(* its chunks are copied over NVLink into a buffer of the GPU that owns    *)
(* the NIC, and posted from there.  A client starts transfers; one worker  *)
(* takes them through its rounds; one copy thread launches the copies; the *)
(* GPUs copy and raise a flag per copy; the NICs read the buffers.         *)
(*                                                                         *)
(* The buffer is handed out from its start to its end.  It starts again    *)
(* when as much was freed as was allocated, and when a transfer starts.    *)
(***************************************************************************)
EXTENDS Integers, Sequences, FiniteSets, SequencesExt, FiniteSetsExt

CONSTANTS
    NumTransfers,   \* bound: transfers the client starts
    Concurrent,     \* how many of them it has unfinished at a time
    Lens,           \* transfer -> the lengths of its chunks, in units of 256 bytes
    NumGpus, NumNics,
    SourceGpu,      \* the GPU that holds the data of the transfers
    Peers,          \* GPU -> the GPUs it can access (nvlink_peers)
    NicsOf,         \* GPU -> NICs on its PCIe switch (direct_nic_indices)
    AffineNics,     \* NICs whose remote NIC is on the NUMA node of the remote buffer
    MaxProxyNics,   \* MPCOMM_PXN_PROXY_NICS; 0: no limit
    BufferSize,     \* size of a proxy buffer
    RingCapacity,   \* kPxnCopyQueueCapacity
    MaxOutstanding, \* max_outstanding_per_nic
    Alpha,          \* MPCOMM_PXN_NVLINK_ALPHA
    MaxActivePxn,   \* kMaxActivePxnContexts
    MaxFaults       \* bound: calls of the CUDA or verbs libraries that fail

Transfers == 1..NumTransfers
Gpus == 1..NumGpus
Nics == 1..NumNics
Chunks == UNION {{t} \X DOMAIN Lens[t] : t \in Transfers}
LenOf(c) == Lens[c[1]][c[2]]

ASSUME SizesAssumption ==
    /\ {NumTransfers, Concurrent, NumGpus, NumNics, BufferSize, RingCapacity, MaxOutstanding,
        MaxActivePxn} \subseteq Nat \ {0}
    /\ {MaxProxyNics, Alpha, MaxFaults} \subseteq Nat
    /\ Lens \in [Transfers -> Seq(1..BufferSize) \ {<<>>}]
ASSUME TopologyAssumption ==
    /\ SourceGpu \in Gpus /\ AffineNics \subseteq Nics
    /\ Peers \in [Gpus -> SUBSET Gpus] /\ NicsOf \in [Gpus -> SUBSET Nics]
    /\ NicsOf[SourceGpu] # {}
-----------------------------------------------------------------------------
(* Which NICs a transfer uses, and the buffer of which GPU for each        *)

\* getAllReachableNics: the GPU's own NICs and those of its peers.
Reachable == NicsOf[SourceGpu] \cup UNION {NicsOf[g] : g \in Peers[SourceGpu]}

\* The filters of transferAsyncStart: a filter that leaves nothing is not applied.
Keep(S, T) == IF S \cap T = {} THEN S ELSE S \cap T
Affine == Keep(Reachable, AffineNics)
DirectNics == Keep(NicsOf[SourceGpu], Affine)
ProxyNics ==
    LET others == Affine \ DirectNics
    IN  {n \in others : MaxProxyNics = 0 \/ Cardinality({m \in others : m < n}) < MaxProxyNics}

\* nic_to_gpu_: the last GPU that names the NIC.
NicToGpu(n) == Max({g \in Gpus : n \in NicsOf[g]})
ProxyGpu(n) == NicToGpu(n)
ProxyGpus == {ProxyGpu(n) : n \in ProxyNics}

Ascending(S) == CHOOSE s \in [1..Cardinality(S) -> S] : \A i, j \in DOMAIN s : i < j => s[i] < s[j]
Candidates == Ascending(DirectNics) \o Ascending(ProxyNics)
Pipelines == Transfers \X ProxyNics
-----------------------------------------------------------------------------
VARIABLES
    status,     \* transfer -> "idle", "queued", "active", "done" or "failed"
    queue,      \* started transfers the worker has not activated
    active,     \* active_contexts
    tasks,      \* what is left of the worker's round
    nextChunk,  \* transfer -> next_chunk_idx
    completed,  \* transfer -> total_completed
    pipe,       \* pipeline -> its pending, copying and posted chunks, ...
    out,        \* NIC -> worker_nic_posted - worker_nic_completed
    buffer,     \* GPU -> alloc_offset and free_offset of its proxy buffer
    reset,      \* the client: NICs whose buffer it has reset, and has half reset (0: none)
    trying,     \* the worker: how far it is in tryAlloc, and what it has loaded
    requests, results, recycled, \* the three rings of the copy thread
    held,       \* the result the copy thread is about to push, if any
    pool,       \* flag_pool
    raised,     \* copy_done flags that are true
    copies,     \* copies the GPUs have not finished
    wire,       \* posted work requests the NICs have not finished
    cq,         \* their completions
    taint,      \* what has happened that the design does not provide for
    faults

worker == <<active, tasks>>
allocator == <<buffer, reset, trying>>
copier == <<requests, results, recycled, held, pool, copies>>
nic == <<out, wire, cq>>
vars == <<status, queue, active, tasks, nextChunk, completed, pipe, out, buffer, reset,
          trying, requests, results, recycled, held, pool, raised, copies, wire, cq, taint, faults>>

NoFlag == 0
Flags == Nat \ {NoFlag}
EmptyPipe == [pending |-> <<>>, copying |-> <<>>, inflight |-> <<>>, arrived |-> 0, assigned |-> 0]
EmptyBuffer == [alloc |-> 0, freed |-> 0]
NoReset == [done |-> {}, half |-> 0]
NotTrying == [at |-> "no", cur |-> 0]

Init ==
    /\ status = [t \in Transfers |-> "idle"] /\ queue = <<>>
    /\ active = <<>> /\ tasks = <<>>
    /\ nextChunk = [t \in Transfers |-> 1] /\ completed = [t \in Transfers |-> 0]
    /\ pipe = [p \in Pipelines |-> EmptyPipe]
    /\ out = [n \in Nics |-> 0] /\ buffer = [g \in Gpus |-> EmptyBuffer]
    /\ reset = NoReset /\ trying = NotTrying
    /\ requests = <<>> /\ results = <<>> /\ recycled = <<>>
    /\ held = <<>> /\ pool = <<>> /\ raised = {} /\ copies = {}
    /\ wire = {} /\ cq = {} /\ taint = {} /\ faults = 0

Finished(t) == status[t] \in {"done", "failed"}
Fail(S) == status' = [t \in Transfers |-> IF t \in S /\ ~Finished(t) THEN "failed" ELSE status[t]]
Fault == faults < MaxFaults /\ faults' = faults + 1

\* Lengths of the buffer space a pipeline has allocated and not freed.
Sizes(p) == [i \in DOMAIN pipe[p].copying |-> LenOf(pipe[p].copying[i].chunk)] \o pipe[p].inflight
Sum(lengths) == FoldSeq(+, 0, lengths)
On(g) == {n \in ProxyNics : ProxyGpu(n) = g}   \* the NICs that read its buffer

\* The sum of f over S.
Total(f, S) == MapThenSumSet(LAMBDA x : f[x], S)
Space(g, S) == Total([p \in Pipelines |-> Sum(Sizes(p))], S \X On(g))
-----------------------------------------------------------------------------
(* The client: transferAsyncStart                                          *)

\* The next transfer, if the client has few enough of them unfinished.
MayStart(t) ==
    /\ status[t] = "idle" /\ \A s \in Transfers : s < t => status[s] # "idle"
    /\ Cardinality({s \in Transfers : status[s] \in {"queued", "active"}}) < Concurrent

\* What a reset of the buffer of g disturbs: chunks that hold space, a tryAlloc under way.
Target == ProxyGpu(Head(tasks)[3])
Within(g) == trying.at # "no" /\ Target = g
Occupied(g) == Space(g, ToSet(active)) > 0 \/ Within(g)
HalfReset(g) == reset.half # 0 /\ ProxyGpu(reset.half) = g
Disturb(cond) == taint' = IF cond THEN taint \cup {"reset"} ELSE taint

\* resetAllocator, for one proxy NIC after the other: it stores alloc_offset,
ResetAlloc ==
    /\ (\E t \in Transfers : MayStart(t)) /\ reset.half = 0
    /\ \E n \in ProxyNics \ reset.done :
           /\ \A m \in ProxyNics \ reset.done : n <= m
           /\ buffer' = [buffer EXCEPT ![ProxyGpu(n)].alloc = 0]
           /\ reset' = [reset EXCEPT !.half = n]
           /\ Disturb(Occupied(ProxyGpu(n)))
    /\ UNCHANGED <<status, queue, worker, trying, nextChunk, completed, pipe, copier, raised, nic, faults>>

\* then free_offset.
ResetFree ==
    /\ reset.half # 0
    /\ buffer' = [buffer EXCEPT ![ProxyGpu(reset.half)].freed = 0]
    /\ reset' = [done |-> reset.done \cup {reset.half}, half |-> 0]
    /\ UNCHANGED <<status, queue, worker, trying, nextChunk, completed, pipe, copier, raised, nic,
                   taint, faults>>

\* With the allocators of all its proxy buffers reset, the transfer is queued.  (No NIC
\* is in quarantine here: the candidates are not filtered once more.)
Start(t) ==
    /\ MayStart(t) /\ reset = [done |-> ProxyNics, half |-> 0]
    /\ status' = [status EXCEPT ![t] = "queued"]
    /\ queue' = Append(queue, t)
    /\ reset' = NoReset
    /\ UNCHANGED <<worker, buffer, trying, nextChunk, completed, pipe, copier, raised, nic, taint, faults>>
-----------------------------------------------------------------------------
(* The worker                                                              *)

\* One pass of workerThreadLoop for these contexts, task by task.  (The tasks that it
\* repeats after every 16 posts of a context are not repeated here; and when a post
\* fails, the transfer's remaining pipelines are not served a last time.)
Tasks(op, t) == [i \in 1..Cardinality(ProxyNics) |-> <<op, t, Ascending(ProxyNics)[i]>>]
Serve(t) == Tasks("advance", t) \o <<<<"assign", t>>>> \o Tasks("post", t)
ServeAgain(t) == Tasks("advance", t) \o Tasks("post", t)
ForEach(Op(_), contexts) == FlattenSeq([i \in DOMAIN contexts |-> Op(contexts[i])])

\* The elements of s that are in S, in their order.
Only(s, S) ==
    LET kept[i \in 0..Len(s)] ==
          IF i = 0 THEN <<>> ELSE kept[i - 1] \o (IF s[i] \in S THEN <<s[i]>> ELSE <<>>)
    IN  kept[Len(s)]

Round(contexts) ==
    <<<<"dispatch">>>> \o ForEach(Serve, contexts) \o <<<<"poll">>, <<"dispatch">>>>
        \o ForEach(ServeAgain, contexts) \o <<<<"retire">>>>

\* The worker passes over tasks that its own state, which they do not change, leaves
\* nothing to do for.
Void(task) ==
    \/ task[1] \in {"advance", "post"} /\ Finished(task[2])
    \/ task[1] = "advance" /\ pipe[<<task[2], task[3]>>].pending = <<>>
    \/ task[1] = "assign" /\ nextChunk[task[2]] > Len(Lens[task[2]])
    \/ task[1] = "post" /\ pipe[<<task[2], task[3]>>].copying = <<>> /\ pipe[<<task[2], task[3]>>].arrived = 0
NextTask ==
    LET left == {i \in 2..Len(tasks) : ~Void(tasks[i])}
    IN  tasks' = IF left = {} THEN <<>> ELSE SubSeq(tasks, Min(left), Len(tasks))

At(op) == tasks # <<>> /\ Head(tasks)[1] = op
Context == Head(tasks)[2]
Pipeline == <<Head(tasks)[2], Head(tasks)[3]>>
Stay == tasks' = tasks
ClientSide == <<queue, nextChunk, completed>>

\* Phase 1: contexts are activated, in order, up to the cap.
Begin ==
    /\ tasks = <<>> /\ active \o queue # <<>>
    /\ LET free == IF Len(active) < MaxActivePxn THEN MaxActivePxn - Len(active) ELSE 0
           k == Min({free, Len(queue)})
           now == active \o SubSeq(queue, 1, k)
       IN  /\ active' = now /\ tasks' = Round(now)
           /\ queue' = SubSeq(queue, k + 1, Len(queue))
           /\ status' = [t \in Transfers |-> IF t \in ToSet(now) THEN "active" ELSE status[t]]
    /\ UNCHANGED <<nextChunk, completed, pipe, allocator, copier, raised, nic, taint, faults>>

\* tryPush refuses.
Full(ring) == Len(ring) = RingCapacity

\* recycleFlagToThread: a flag that finds the ring full is deleted.
Recycle(flags) ==
    recycled' = recycled \o SubSeq(flags, 1, Min({Len(flags), RingCapacity - Len(recycled)}))

Waiting(e) == ~e.got
\* Mutant: each context takes the results for itself, so the first takes them all
Addressees(r) == {p \in Pipelines : active # <<>> /\ p[1] = active[1] /\ \E i \in DOMAIN pipe[p].copying :
                    pipe[p].copying[i].chunk = r.chunk /\ Waiting(pipe[p].copying[i])}

\* The pipelines with a copy that waits for this result.
Awaiting(r) == {p \in Pipelines : p[1] \in ToSet(active) /\ \E i \in DOMAIN pipe[p].copying :
                    pipe[p].copying[i].chunk = r.chunk /\ Waiting(pipe[p].copying[i])}

Informed(e) ==
    LET mine == {r \in ToSet(results) : r.chunk = e.chunk}
    IN  IF Waiting(e) /\ mine # {} THEN [e EXCEPT !.got = TRUE, !.flag = (CHOOSE r \in mine : TRUE).flag] ELSE e

\* dispatch_pxn_copy_results_fn: takes every result, once for all contexts.
Dispatch ==
    /\ At("dispatch") /\ NextTask
    /\ LET refused == {r \in ToSet(results) : ~r.ok /\ Awaiting(r) # {}}
           orphans == Only(results, {r \in ToSet(results) : Awaiting(r) = {} /\ r.flag # NoFlag})
           fed == UNION {Awaiting(r) : r \in ToSet(results)}
       IN  /\ pipe' = [p \in Pipelines |-> IF p \in fed
                          THEN [pipe[p] EXCEPT !.copying = [i \in DOMAIN pipe[p].copying |->
                                                                Informed(pipe[p].copying[i])]]
                          ELSE pipe[p]]
           /\ Fail(UNION {{p[1] : p \in Awaiting(r)} : r \in refused})
           /\ taint' = IF refused = {} THEN taint ELSE taint \cup {"failed"}
           /\ Recycle([i \in DOMAIN orphans |-> orphans[i].flag])
    /\ results' = <<>>
    /\ UNCHANGED <<active, ClientSide, allocator, requests, held, pool, copies, raised, nic, faults>>

\* Mutant: off by one at the end of the buffer
FitsNearly(cur, len) == cur + len <= BufferSize + 1

Fits(cur, len) == cur + len <= BufferSize

\* Mutant: it never starts again
NeverEmpty(freed, cur) == FALSE

\* As much was freed as was allocated, or more.
Empty(freed, cur) == freed >= cur
Release(b, len) == [b EXCEPT !.freed = @ + len]

\* advance_pxn_copies_fn: copy requests, while there is space and the ring is not full.
Advancing == At("advance") /\ ~Finished(Context) /\ pipe[Pipeline].pending # <<>>
Wanted == LenOf(Head(pipe[Pipeline].pending))
Loaded == [at |-> IF Fits(buffer[Target].alloc, Wanted) THEN "fits" ELSE "full", cur |-> buffer[Target].alloc]

\* tryAlloc, access by access, for a reset may fall between them: alloc_offset is loaded.
LoadAlloc ==
    /\ Advancing /\ trying.at = "no" /\ Stay
    /\ trying' = Loaded
    /\ Disturb(HalfReset(Target))
    /\ UNCHANGED <<status, active, ClientSide, pipe, buffer, reset, copier, raised, nic, faults>>

\* It does not fit: free_offset is loaded.  Both offsets are stored if nothing is in use.
\* (Those two stores and a reset's write the same, in whatever order they come: one step.)
StartAgain ==
    /\ Advancing /\ trying.at = "full" /\ Empty(buffer[Target].freed, trying.cur) /\ Stay
    /\ buffer' = [buffer EXCEPT ![Target] = EmptyBuffer]
    /\ trying' = [at |-> "fits", cur |-> 0]
    /\ UNCHANGED <<status, active, ClientSide, pipe, reset, copier, raised, nic, taint, faults>>

NoSpace ==
    /\ Advancing /\ trying.at = "full" /\ ~Empty(buffer[Target].freed, trying.cur) /\ NextTask
    /\ trying' = NotTrying
    /\ UNCHANGED <<status, active, ClientSide, pipe, buffer, reset, copier, raised, nic, taint, faults>>

\* alloc_offset is stored, from what was loaded.
Take == Advancing /\ trying.at = "fits" /\ Stay
        /\ buffer' = [buffer EXCEPT ![Target].alloc = trying.cur + Wanted]

AdvanceCopy ==
    /\ Take /\ ~Full(requests)
    /\ trying' = NotTrying
    /\ LET c == Head(pipe[Pipeline].pending)
       IN  /\ requests' = Append(requests, [chunk |-> c, gpu |-> Target])
           /\ pipe' = [pipe EXCEPT ![Pipeline].pending = Tail(@),
                          ![Pipeline].copying = Append(@, [chunk |-> c, addr |-> trying.cur,
                                                           flag |-> NoFlag, got |-> FALSE])]
    /\ UNCHANGED <<status, active, ClientSide, reset, results, recycled, held, pool, copies, raised,
                   nic, taint, faults>>

AdvanceRingFull ==
    /\ Take /\ Full(requests)
    /\ trying' = [at |-> "refused", cur |-> 0]
    /\ UNCHANGED <<status, active, ClientSide, pipe, reset, copier, raised, nic, taint, faults>>

\* Mutant: what was allocated for a request that found the ring full is not freed
KeepRefused ==
    /\ Advancing /\ trying.at = "refused" /\ NextTask
    /\ trying' = NotTrying
    /\ UNCHANGED <<status, active, ClientSide, pipe, buffer, reset, copier, raised, nic, taint, faults>>

\* What was allocated for a request that found the ring full is freed.
FreeRefused ==
    /\ Advancing /\ trying.at = "refused" /\ NextTask
    /\ buffer' = [buffer EXCEPT ![Target] = Release(@, Wanted)]
    /\ trying' = NotTrying
    /\ UNCHANGED <<status, active, ClientSide, pipe, reset, copier, raised, nic, taint, faults>>

AdvanceEnds ==
    /\ At("advance") /\ ~Advancing /\ NextTask
    /\ UNCHANGED <<status, active, ClientSide, pipe, allocator, copier, raised, nic, taint, faults>>

\* The load of a NIC and its limit, in the eyes of the choice of a NIC.
Assigned(n) == Total([t \in ToSet(active) |-> pipe[<<t, n>>].assigned], ToSet(active))
Load(n) == IF n \notin ProxyNics THEN out[n]
           ELSE Alpha * (IF Assigned(n) > out[n] THEN Assigned(n) - out[n] ELSE 0) + out[n]
Limit(n) == MaxOutstanding + (IF n \in ProxyNics THEN 2 * MaxOutstanding * Len(active) ELSE 0)
Open == {i \in DOMAIN Candidates : Load(Candidates[i]) < Limit(Candidates[i])}
BestNic == Candidates[CHOOSE i \in Open : \A j \in Open :
               Load(Candidates[i]) < Load(Candidates[j]) \/ (Load(Candidates[i]) = Load(Candidates[j]) /\ i <= j)]

CanAssign == At("assign") /\ nextChunk[Context] <= Len(Lens[Context]) /\ Open # {}
AssignNext == nextChunk' = [nextChunk EXCEPT ![Context] = @ + 1] /\ Stay

AssignDirect ==
    /\ CanAssign /\ BestNic \in DirectNics /\ AssignNext
    /\ wire' = wire \cup {[chunk |-> <<Context, nextChunk[Context]>>, nic |-> BestNic, addr |-> -1]}
    /\ out' = [out EXCEPT ![BestNic] = @ + 1]
    /\ UNCHANGED <<status, active, queue, completed, pipe, allocator, copier, raised, cq, taint, faults>>

AssignProxy ==
    /\ CanAssign /\ BestNic \in ProxyNics /\ AssignNext
    /\ pipe' = [pipe EXCEPT ![<<Context, BestNic>>].pending = Append(@, <<Context, nextChunk[Context]>>),
                            ![<<Context, BestNic>>].assigned = @ + 1]
    /\ UNCHANGED <<status, active, queue, completed, allocator, copier, raised, nic, taint, faults>>

AssignEnds ==
    /\ At("assign") /\ ~CanAssign /\ NextTask
    /\ UNCHANGED <<status, active, ClientSide, pipe, allocator, copier, raised, nic, taint, faults>>

\* post_pxn_proxy_chunks_fn, step 0: as many chunks are freed as completions came in.
Posting == At("post") /\ ~Finished(Context)
FreePosted ==
    /\ Posting /\ pipe[Pipeline].arrived > 0 /\ Stay
    /\ LET k == Min({pipe[Pipeline].arrived, Len(pipe[Pipeline].inflight)})
           done == SubSeq(pipe[Pipeline].inflight, 1, k)
           g == ProxyGpu(Pipeline[2])
       IN  /\ pipe' = [pipe EXCEPT ![Pipeline].arrived = 0,
                          ![Pipeline].inflight = SubSeq(@, k + 1, Len(@))]
           /\ buffer' = [buffer EXCEPT ![g] = Release(buffer[g], Sum(done))]
    /\ UNCHANGED <<status, active, ClientSide, reset, trying, copier, raised, nic, taint, faults>>

\* Mutant: the result of a copy is taken for its completion
Launched(e) == e.got /\ e.flag # NoFlag

CopyDone(e) == e.got /\ e.flag # NoFlag /\ e.flag \in raised

\* Step 1: in order, the chunks whose copy is done, while the NIC has room.
CanPost ==
    /\ Posting /\ pipe[Pipeline].arrived = 0 /\ pipe[Pipeline].copying # <<>>
    /\ CopyDone(Head(pipe[Pipeline].copying)) /\ out[Pipeline[2]] < MaxOutstanding

\* Mutant: the space is freed when the RDMA is posted
PostAndFree ==
    /\ CanPost /\ Stay
    /\ LET e == Head(pipe[Pipeline].copying)
       IN  /\ wire' = wire \cup {[chunk |-> e.chunk, nic |-> Pipeline[2], addr |-> e.addr]}
           /\ pipe' = [pipe EXCEPT ![Pipeline].copying = Tail(@)]
           /\ buffer' = [buffer EXCEPT ![ProxyGpu(Pipeline[2])] = Release(@, LenOf(e.chunk))]
           /\ Recycle(<<e.flag>>)
    /\ out' = [out EXCEPT ![Pipeline[2]] = @ + 1]
    /\ UNCHANGED <<status, active, ClientSide, reset, trying, requests, results, held, pool, copies,
                   raised, cq, taint, faults>>

PostProxy ==
    /\ CanPost /\ Stay
    /\ LET e == Head(pipe[Pipeline].copying)
       IN  /\ wire' = wire \cup {[chunk |-> e.chunk, nic |-> Pipeline[2], addr |-> e.addr]}
           /\ pipe' = [pipe EXCEPT ![Pipeline].copying = Tail(@),
                          ![Pipeline].inflight = Append(@, LenOf(e.chunk))]
           /\ Recycle(<<e.flag>>)
    /\ out' = [out EXCEPT ![Pipeline[2]] = @ + 1]
    /\ UNCHANGED <<status, active, ClientSide, allocator, requests, results, held, pool, copies,
                   raised, cq, taint, faults>>

\* No lkey, rkey or QP, or ibv_post_send refuses: the transfer has failed.
PostFails ==
    /\ CanPost \/ (CanAssign /\ BestNic \in DirectNics)
    /\ Fault /\ Fail({Context}) /\ taint' = taint \cup {"failed"} /\ NextTask
    /\ UNCHANGED <<active, ClientSide, pipe, allocator, copier, raised, nic>>

PostEnds ==
    /\ At("post") /\ (Posting => pipe[Pipeline].arrived = 0 /\ ~CanPost) /\ NextTask
    /\ UNCHANGED <<status, active, ClientSide, pipe, allocator, copier, raised, nic, taint, faults>>

\* Mutant: the load of the pipeline is not taken down
ArriveOnly(p, k) == [pipe[p] EXCEPT !.arrived = @ + k]

Arrive(p, k) == [pipe[p] EXCEPT !.arrived = @ + k, !.assigned = @ - k]

\* pollAllNicsForWorker: a completion in error fails its transfer and is not counted in it.
Poll ==
    /\ At("poll") /\ NextTask
    /\ LET good == {w \in cq : w.ok}
           Of(p) == Cardinality({w \in good : w.chunk[1] = p[1] /\ w.nic = p[2]})
       IN  /\ completed' = [t \in Transfers |-> completed[t] + Cardinality({w \in good : w.chunk[1] = t})]
           /\ pipe' = [p \in Pipelines |-> Arrive(p, Of(p))]
           /\ Fail({w.chunk[1] : w \in cq \ good})
           /\ taint' = IF cq = good THEN taint ELSE taint \cup {"failed"}
    /\ out' = [n \in Nics |-> out[n] - Cardinality({w \in cq : w.nic = n})]
    /\ cq' = {}
    /\ UNCHANGED <<active, queue, nextChunk, allocator, copier, raised, wire, faults>>

\* ibv_poll_cq fails: every context is dropped as failed, without a cleanup.
PollFails ==
    /\ At("poll") /\ Fault
    /\ Fail(ToSet(active)) /\ active' = <<>> /\ tasks' = <<>>
    /\ taint' = taint \cup {"failed", "leak"}
    /\ UNCHANGED <<ClientSide, pipe, allocator, copier, raised, nic>>

\* cleanupPxnContextState: what a pipeline still has allocated is freed.
FreedByCleanup(p) == Sum(Sizes(p))

\* Phase 4: finished and completed contexts are cleaned up and removed.
Retire ==
    /\ At("retire") /\ NextTask
    /\ LET over == {t \in ToSet(active) : Finished(t) \/ completed[t] >= Len(Lens[t])}
           flags == ForEach(LAMBDA t : ForEach(LAMBDA n :
                        [j \in DOMAIN pipe[<<t, n>>].copying |-> pipe[<<t, n>>].copying[j].flag],
                        Ascending(ProxyNics)), Only(active, over))
       IN  /\ active' = Only(active, Transfers \ over)
           /\ status' = [t \in Transfers |-> IF t \in over /\ ~Finished(t) THEN "done" ELSE status[t]]
           /\ buffer' = [g \in Gpus |-> Release(buffer[g],
                            Total([p \in Pipelines |-> FreedByCleanup(p)], over \X On(g)))]
           /\ Recycle(Only(flags, Flags))
           /\ pipe' = [p \in Pipelines |-> IF p[1] \in over
                          THEN [pipe[p] EXCEPT !.copying = <<>>, !.inflight = <<>>] ELSE pipe[p]]
    /\ UNCHANGED <<ClientSide, reset, trying, requests, results, held, pool, copies, raised, nic, taint, faults>>

Worker ==
    \/ Begin \/ Dispatch \/ LoadAlloc \/ StartAgain \/ NoSpace
    \/ AdvanceCopy \/ AdvanceRingFull \/ FreeRefused \/ AdvanceEnds
    \/ AssignDirect \/ AssignProxy \/ AssignEnds
    \/ FreePosted \/ PostProxy \/ PostEnds \/ Poll \/ Retire
-----------------------------------------------------------------------------
(* The copy thread                                                         *)

Drained == pool \o recycled
Copying == {pipe[p].copying : p \in Pipelines}
Known == ToSet(Drained) \cup {r.flag : r \in ToSet(results)} \cup {k.flag : k \in copies}
            \cup UNION {{e.flag : e \in ToSet(s)} : s \in Copying}
NewFlag == Min(1..(Cardinality(Known) + 1) \ Known)
Client == <<status, queue, worker, nextChunk, completed, pipe, allocator, nic, taint>>
CanLaunch == held = <<>> /\ requests # <<>>
Pop == requests' = Tail(requests) /\ recycled' = <<>>
Hold(flag, ok) == held' = <<[chunk |-> Head(requests).chunk, flag |-> flag, ok |-> ok]>>
Running(flag) == copies' = copies \cup {[chunk |-> Head(requests).chunk, flag |-> flag]}

\* Mutant: the flag is used and left in the pool
LaunchShared ==
    /\ CanLaunch /\ Pop
    /\ LET flag == IF Drained = <<>> THEN NewFlag ELSE Last(Drained)
       IN  /\ pool' = Drained
           /\ raised' = raised \ {flag}
           /\ Hold(flag, TRUE) /\ Running(flag)
    /\ UNCHANGED <<Client, results, faults>>

\* The recycled flags go back to the pool, then a request is taken and its copy launched.
Launch ==
    /\ CanLaunch /\ Pop
    /\ LET flag == IF Drained = <<>> THEN NewFlag ELSE Last(Drained)
       IN  /\ pool' = IF Drained = <<>> THEN <<>> ELSE Front(Drained)
           /\ raised' = raised \ {flag}
           /\ Hold(flag, TRUE) /\ Running(flag)
    /\ UNCHANGED <<Client, results, faults>>

\* cuMemcpyPeerAsync fails: no copy; or cuLaunchHostFunc fails: a copy nobody waits for.
LaunchFails ==
    /\ CanLaunch /\ Fault /\ Pop /\ Hold(NoFlag, FALSE)
    /\ \/ pool' = Drained /\ UNCHANGED copies /\ UNCHANGED raised
       \/ LET flag == IF Drained = <<>> THEN NewFlag ELSE Last(Drained)
          IN  /\ pool' = IF Drained = <<>> THEN <<flag>> ELSE Drained
              /\ raised' = raised \ {flag} /\ Running(NoFlag)
    /\ UNCHANGED <<Client, results>>

DrainRecycled ==
    /\ held = <<>> /\ requests = <<>> /\ recycled # <<>>
    /\ pool' = Drained /\ recycled' = <<>>
    /\ UNCHANGED <<Client, requests, results, held, copies, raised, faults>>

\* A result is pushed when the ring has room; until then the thread does nothing else.
PushResult ==
    /\ held # <<>> /\ ~Full(results)
    /\ results' = results \o held /\ held' = <<>>
    /\ UNCHANGED <<Client, requests, recycled, pool, copies, raised, faults>>

CopyThread == Launch \/ DrainRecycled \/ PushResult
-----------------------------------------------------------------------------
(* The GPUs and the NICs                                                   *)

\* A copy ends and the callback raises its flag.
FinishCopy(k) ==
    /\ copies' = copies \ {k}
    /\ raised' = IF k.flag = NoFlag THEN raised ELSE raised \cup {k.flag}
    /\ UNCHANGED <<Client, requests, results, recycled, held, pool, faults>>

Complete(w, ok) ==
    /\ wire' = wire \ {w}
    /\ cq' = cq \cup {[chunk |-> w.chunk, nic |-> w.nic, ok |-> ok]}
    /\ UNCHANGED <<status, queue, worker, nextChunk, completed, pipe, out, allocator, copier, raised, taint>>

Gpu == \E k \in copies : FinishCopy(k)
Nic == \E w \in wire : Complete(w, TRUE) /\ UNCHANGED faults
NicFails == \E w \in wire : Complete(w, FALSE) /\ Fault

Next ==
    \/ ResetAlloc \/ ResetFree \/ (\E t \in Transfers : Start(t))
    \/ Worker \/ PostFails \/ PollFails
    \/ CopyThread \/ LaunchFails
    \/ Gpu \/ Nic \/ NicFails

\* The worker and the copy thread spin, and the hardware answers.
Fairness == WF_vars(Worker) /\ WF_vars(CopyThread) /\ WF_vars(Gpu) /\ WF_vars(Nic)
Spec == Init /\ [][Next]_vars
FairSpec == Spec /\ Fairness
-----------------------------------------------------------------------------
\* The state is well-formed: offsets stay in the buffer, loads do not go below zero.
TypeOK ==
    /\ status \in [Transfers -> {"idle", "queued", "active", "done", "failed"}]
    /\ queue \in Seq(Transfers) /\ active \in Seq(Transfers)
    /\ (\A t \in Transfers : nextChunk[t] \in 1..(Len(Lens[t]) + 1) /\ completed[t] \in 0..Len(Lens[t]))
    /\ \A p \in Pipelines :
          /\ pipe[p].pending \in Seq(Chunks) /\ pipe[p].inflight \in Seq(Nat)
          /\ pipe[p].copying \in Seq([chunk : Chunks, addr : 0..(BufferSize - 1),
                                      flag : Flags \cup {NoFlag}, got : BOOLEAN])
          /\ pipe[p].arrived \in Nat /\ pipe[p].assigned \in Nat
    /\ out \in [Nics -> 0..MaxOutstanding]
    /\ \A g \in Gpus : buffer[g].alloc \in 0..BufferSize /\ buffer[g].freed \in Nat
    /\ reset \in [done : SUBSET ProxyNics, half : ProxyNics \cup {0}]
    /\ trying \in [at : {"no", "full", "fits", "refused"}, cur : 0..BufferSize]
    /\ requests \in Seq([chunk : Chunks, gpu : ProxyGpus]) /\ Len(requests) <= RingCapacity
    /\ results \o held \in Seq([chunk : Chunks, flag : Flags \cup {NoFlag}, ok : BOOLEAN])
    /\ Len(results) <= RingCapacity /\ Len(recycled) <= RingCapacity
    /\ pool \o recycled \in Seq(Flags) /\ raised \subseteq Flags
    /\ copies \subseteq [chunk : Chunks, flag : Flags \cup {NoFlag}]
    /\ wire \subseteq [chunk : Chunks, nic : Nics, addr : -1..(BufferSize - 1)]
    /\ cq \subseteq [chunk : Chunks, nic : Nics, ok : BOOLEAN]
    /\ taint \subseteq {"reset", "failed", "leak"} /\ faults \in 0..MaxFaults

\* What is missing of a buffer is what the pipelines hold of it and what tryAlloc gave
\* for a request that the ring refused: every path that gives up a chunk frees it once,
\* whatever else fails (a fatal poll error apart), and the allocators are reset whenever
\* the client starts a transfer (until a reset falls on chunks in the buffer or meets
\* tryAlloc, and between the two stores of a reset apart).
Refused(g) == IF trying.at = "refused" /\ Target = g THEN Wanted ELSE 0
SpaceAccounted ==
    taint \cap {"reset", "leak"} = {} =>
        \A g \in ProxyGpus : ~HalfReset(g) =>
            buffer[g].alloc - buffer[g].freed = Space(g, ToSet(active)) + Refused(g)

\* Ranges <<chunk, gpu, first, last>> that a copy writes or a NIC reads.
InUse ==
    {<<w.chunk, ProxyGpu(w.nic), w.addr, w.addr + LenOf(w.chunk) - 1>> :
         w \in {v \in wire : v.nic \in ProxyNics}}
    \cup UNION {{<<e.chunk, ProxyGpu(p[2]), e.addr, e.addr + LenOf(e.chunk) - 1>> :
                     e \in ToSet(pipe[p].copying)} : p \in Pipelines}

\* No two chunks share memory of a proxy buffer, from the request of the copy to the
\* end of the RDMA, and none reaches over its end ("safe because the previous
\* transfer's cleanup should have drained all inflight RDMA", transferAsyncStart).
RangesInUseDisjoint ==
    \A a, b \in InUse : a[4] < BufferSize /\ (a[1] # b[1] /\ a[2] = b[2] => a[4] < b[3] \/ b[4] < a[3])

\* It is so as long as the buffers are empty and not in the middle of tryAlloc when they
\* are reset, and no transfer has failed.
RangesDisjoint == taint = {} => RangesInUseDisjoint

\* What a NIC reads has been written: no chunk is posted before its copy is done,
\* though flags are reused and results come one by one (up to the first failure).
PostedAfterCopy ==
    "failed" \notin taint =>
        \A w \in wire : w.chunk \notin {k.chunk : k \in copies} \cup {r.chunk : r \in ToSet(requests)}

\* A flag has one owner: the pool or the recycle ring, or one chunk whose result is on
\* its way or received; an idle flag has no callback to come (up to the first failure).
Received(p) == {e \in ToSet(pipe[p].copying) : e.got}
Entrusted ==
    {<<r.chunk, r.flag>> : r \in ToSet(results \o held)}
    \cup UNION {{<<e.chunk, e.flag>> : e \in Received(p)} : p \in ToSet(active) \X ProxyNics}
FlagsSingle ==
    "failed" \notin taint =>
        /\ IsInjective(Drained)
        /\ \A a, b \in Entrusted : a[2] = b[2] /\ a[2] # NoFlag => a = b
        /\ ToSet(Drained) \cap ({a[2] : a \in Entrusted} \cup {k.flag : k \in copies}) = {}

\* A copy that waits for a result has exactly one coming, though others may take the
\* results off the ring: the comment of dispatch_pxn_copy_results_fn tells what happens
\* to a transfer that lost one.
Coming(c) ==
    LET ring == requests \o results \o held
    IN  {i \in DOMAIN ring : ring[i].chunk = c}
ResultsKept ==
    \A p \in ToSet(active) \X ProxyNics : \A e \in ToSet(pipe[p].copying) :
        Cardinality(Coming(e.chunk)) = IF e.got THEN 0 ELSE 1

\* The loads that NICs are chosen by: assigned_outstanding counts the chunks of a
\* running transfer that are pending, copying or on the NIC, and the posts a worker
\* counts on a NIC are those it has not polled the completion of.
LoadAccounted ==
    /\ \A n \in Nics : out[n] = Cardinality({w \in wire : w.nic = n}) + Cardinality({w \in cq : w.nic = n})
    /\ \A p \in Pipelines : status[p[1]] = "active" =>
          pipe[p].assigned = Len(pipe[p].pending) + Len(pipe[p].copying)
              + Cardinality({w \in wire : w.chunk[1] = p[1] /\ w.nic = p[2]})
              + Cardinality({w \in cq : w.chunk[1] = p[1] /\ w.nic = p[2]})

\* Every transfer finishes, with space, ring and NIC limits all binding, unless a fatal
\* poll error has left space of the buffer allocated, or a reset has met chunks in it or
\* tryAlloc, after which the offsets may never meet again.
TransfersFinish ==
    \A t \in Transfers : status[t] = "queued" ~> Finished(t) \/ taint \cap {"leak", "reset"} # {}
=============================================================================
