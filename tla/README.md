# UCL-MPComm in TLA+

TLA+ models of MPComm, the multi-path RDMA library in `src/src/mpcomm.cpp`, with TLC runs and
TLAPS proofs.  `M:n` below is line *n* of `src/src/mpcomm.cpp`; `PX:n` and `PH:n` are lines of
`src/src/mpcomm_pxn.cpp` and `src/src/mpcomm_pxn.h`.  `PROJECT.json` maps every
definition that models code to its lines.

1. [The system](#1-the-system)
2. [The modules and the code they model](#2-the-modules-and-the-code-they-model)
3. [The runs](#3-the-runs)
4. [Fairness](#4-fairness)
5. [What is proved](#5-what-is-proved)
6. [Where code and comments disagree](#6-where-code-and-comments-disagree)
7. [What is not modelled](#7-what-is-not-modelled)
8. [Plan](#8-plan)

## 1. The system

MPComm moves bytes between the memories of several hosts over all their NICs at once.  A client
calls scatter, gather or broadcast; the library cuts the call into chunks and posts each as one
RDMA write or read on the NIC that is least loaded at that moment.

| Component | State | Operations | Talks to |
|---|---|---|---|
| **Transfer engine** (M:3900-4626, 4639-5820, 5971-6082) | per-NUMA maps `active_transfers`, `handle_numa_map_`; per transfer a `TransferContext` (`next_chunk_idx`, `total_completed`, `error_code`, `finished`); per worker its `active_contexts` and the counters `worker_nic_posted/completed`, `worker_nic_qp_posted/completed` | `transferAsyncStart`, `waitTransfer`, `getTransferResult`, `releaseTransfer`; `workerThreadLoop`: drain, post, poll, retire, probe | clients by handle; workers by queue; NICs by `ibv_post_send` / `ibv_poll_cq` |
| **Handle pool** (M:755-790) | LIFO `free_list`, `next_new_handle` | `allocate`, `release` | start and release of transfers |
| **Submission queue** (M:492-533) | ring `buffer_`, `head_`, `tail_` | `tryPush` (any client), `tryPop` (one worker) | carries handles from start to worker |
| **Chunking and work request ids** (M:132-165, 272-294, 3951-3970, 5574-5590) | `host_chunk_starts`, `host_local_offsets`, `max_chunk_size` | preparation, `getChunk`, `encode` / `decode*` | post loop and poll loop of the engine |
| **NIC quarantine and probe** (M:5825-5912, 6030-6050) | `nic_quarantine_` per NIC | quarantine on an error completion, `probeQuarantinedNics` by worker 0 | candidate lists at start, post loop, the QPs |
| **Connection handshake** (M:2901-3803) | `connections_`, `qp_map`, QPs per peer and NIC pair, `accept_running_` | `connect`, `acceptLoop`, `stopAcceptThread` | TCP peers; gives the engine its QPs |
| **Registration and buffer directory** (M:1670-2768) | `memory_regions` per NIC, `published_buffer_`, a peer's `remote_buffers` and the rkeys of its endpoints | `registerMemory` with rollback, `unregisterMemory`, `publishBuffer`, `unpublishBuffer`, the answer to a query, `queryRemoteBuffer`, `updateRemoteMemoryInfo` | gives the engine lkeys and rkeys |
| **PXN proxy pipeline** (`mpcomm_pxn.*`, M:4018-4288, 4780-5186) | one bump allocator per GPU (`alloc_offset`, `free_offset`), rings for requests, results and recycled flags, per transfer and proxy NIC its pending, copying and posted chunks | reset at start; allocate, request a copy, dispatch results, post, free, clean up | the workers, the copy thread, the GPUs' callbacks, the NICs |
| **Lifecycle** (M:1093-1460) | `initialized_`, threads, stop flags | `init`, `shutdown` | everything |
| Topology, GPU kernels, statistics, bindings, examples | — | — | see section 7 |

Control flows in a circle.  A client takes a handle from the pool, stores a context under it in the
map of its buffer's NUMA node, enters the handle in `handle_numa_map_`, and pushes it on the queue
of that node's worker; these are separate critical sections.  The worker activates the context and
from then on works through a **raw pointer** to it.  Each pass of its loop posts chunks, polls the
CQs, and retires what is finished.  A completion carries `wr_id`, which names a NIC, a QP and a
**handle**, and the worker finds the transfer by that handle.  The client sees `finished`, releases,
the context is destroyed and the handle is on top of the free list again.

### What is hard here

* **Handles are recycled, completions come late.**  A handle must not lead a completion to a later
  transfer, and a context must not be destroyed while a worker still points to it.
* **Flow control is by counters** that only move on completions.  One that is polled by another
  worker, flushed, or lost in a QP reset shrinks or inflates the capacity for good.
* **Two workers, shared NICs.**  Each worker sees only its own node's transfers.
* **Failure halfway.**  Some chunks of a transfer are in flight when another has no route, a post is
  rejected, a poll fails, a completion is an error, a QP refuses to come back.
* **Liveness.**  The worker spins without polling or probing when it has nothing active; a
  quarantined NIC comes back only through worker 0.
* **Lock-free code.**  The queue's producers claim a slot before they fill it, and its indices wrap.
* **Two machines that decide alone.**  Each side of a handshake works out from the names of the NICs
  how many pairs there will be, then both walk through them over a socket without timeouts; either
  may fail at any QP, and the last word of each QP is the accepting side's.
* **Lists sent piece by piece, memory handed out piece by piece.**  A query is answered buffer by
  buffer while other threads publish; a registration is made NIC by NIC and rolled back so; a proxy
  buffer is handed out from its start to its end and starts again only when everything is free.
* **Boundaries.**  Hosts of length zero, short last chunks, four fields in 64 bits, a pool and a
  queue at their limit.

`PROJECT.json` lists these as *hazards*, each at its line, with the properties that would catch it
going wrong, or with the reason why none does yet.

### What makes each component correct

* *Engine*: success only after every chunk was delivered; failure only for a cause of the
  transfer's own; every submitted transfer ends; no freed context in an active list; a handle is
  queued once; completions reach their transfer; counters equal what is outstanding and stay within
  their limits.
* *Handle pool*: no handle in two places.
* *Queue*: a bounded FIFO mailbox; no slot overwritten; every handle arrives.
* *Chunking*: the chunks tile the call, byte for byte, once; `wr_id` leads back to its post.
* *Handshake*: both sides come to the same pairs; the accepting side makes a pair ready only after
  the connecting side; no QP is left without an owner; neither side waits for ever; a pair that
  `connect` reports has a partner.
* *Directory*: a published rkey opens the memory it was published for; a registration is on all NICs
  or none; a query's result is one moment's list; the rkey looked up is the address's own.
* *Proxy pipeline*: chunks do not share buffer memory; nothing is posted before it was copied; every
  path gives back what it took, once; each result reaches the copy that waits for it; every transfer
  finishes.

## 2. The modules and the code they model

| Module | Models | |
|---|---|---|
| `TransferEngine` | engine, handle pool, quarantine and probe | core |
| `Delivery` | what starting a transfer and waiting for it promise | abstract |
| `MCEngine` | instances of it for TLC | |
| `TransferEngineProofs` | its theorems for every fault and release policy, and the queues without faults | |
| `EngineFlowProofs` | its theorems while nothing fails; with faults, for clients that keep to `Drained` | |
| `SubmitQueue` | `LockFreeQueue`, one atomic access per step | detailed |
| `Mailbox` | what the queue promises | abstract |
| `MCSubmitQueue` | instances of the queue | |
| `SubmitQueueProofs` | its theorems | |
| `Chunking` | preparation, `getChunk`, `WrIdEncoding` | checked directly, over all small calls |
| `ChunkingProofs` | its theorems | |
| `Handshake` | `connect` against `acceptLoop`, message by message | detailed |
| `PairCommit` | what a handshake promises for each pair of NICs | abstract |
| `MCHandshake` | NIC names for TLC | |
| `HandshakeProofs` | its theorems | |
| `BufferDirectory` | registration, publishing, queries, lookup of rkeys | checked directly |
| `MCBufferDirectory` | memory and buffers for TLC | |
| `BufferDirectoryProofs` | its theorems | |
| `ProxyPipeline` | start, worker, copy thread, GPUs and NICs of a PXN transfer | checked directly |
| `MCProxyPipeline` | an instance for TLC | |
| `ProxyPipelineProofs` | its theorems: types, places and loads; the space of the buffers | |
| `ProxyFlagsProofs` | on top of them: rings, results and flags | |

`TransferEngine` uses a queue whose push and pop are atomic.  That is `Mailbox`, with capacity
`kLockFreeQueueSize - 1` (`QueueCap`); `SubmitQueue` is shown to implement it.  `TransferEngine`
names a chunk by its index and a work request by its transfer and chunk; `Chunking` holds the bytes
behind the index and shows that `wr_id` carries the NIC, QP and handle the engine reads back.
`ProxyPipeline` is the same worker loop with the PXN branches open and the rest of the engine
(handles, QPs, quarantine) closed.  `Handshake` and `BufferDirectory` stand beside the engine: they
make the QPs and the rkeys which are constants to it.

### TransferEngine and Delivery

Actions are critical sections of clients, steps of the worker between shared accesses, and steps of
the NIC.

| Code | Actions |
|---|---|
| `transferAsyncStart` | `StartAllocate` (pool), `StartStore` (context into the NUMA map, candidates filtered, an empty transfer finished at birth), `StartRoute` (`handle_numa_map_`), `StartSubmit` (push) |
| `waitTransfer`, `getTransferResult` | `WaitReturn`, `WaitTimeout` |
| `releaseTransfer` | `ReleaseRoute`, `ReleaseContext` (two critical sections), `ReleaseUnknown` |
| Phase 1 | `Drain`, `StartPass` |
| Phase 2 | `PostChunk`, `PostUnroutable`, `PostRejected`, `PostBreak`; `Slots` is the choice of NIC and QP by least outstanding |
| Phase 2b, `pollAllNicsForWorker` | `StartPoll`, `PollWc`, `PollEmpty`, `PollFatal` |
| Phase 4 | `StartRetire`, `Retire`, `EndPass` |
| Phase 5, `probeQuarantinedNics` | `ProbeDown`, `ProbeUp`, `ProbeRefused`, `EndProbe` |
| libibverbs and the wire (external) | `NicDeliver`, `NicFlush`, `NicRetriesExhausted`, `NicFault`, `PortChange`, `QuarantineElapses` |

Modelling decisions a reader should know:

* A transfer has an **identity** (a member of `Xfers`) besides its handle.  The program has only the
  handle; keeping both is what lets a property say *whose* completion was credited to *whom*.
* `wr` records what became of each work request, which the program cannot see.  `freed` records
  destroyed contexts.  Both are history for the properties, no guard of a client or worker reads
  more of them than the CQ and the send queue hold.
* The counters `posted - completed` are one integer, `nic_out` and `qp_out`.  In the code they are
  two `size_t`; a negative difference is huge, so the guards accept only `0..limit-1`.
* The worker's vectors are sets: loops over contexts and NICs visit them in any order.
* `elapsed` is the quarantine period (5 s by default) *and* the probe's pass counter.  The period is
  longer than the transport's own retries (67 ms, seven times), so when it is over nothing on the
  NIC is still unanswered, and a worker that polls that NIC has emptied its CQ (`Settled`).
* `ERR_TRANSFER` is split by cause (`completion`, `post`, `poll`) so that `FailureHasCause` can tell.
* `ReleasePolicy` says when clients release: never, after a wait returned, or also after it timed
  out.  TLC's runs use the first two; `TransferEngineProofs` and `EngineFlowProofs` cover all three.
* `Delivery` knows neither handles nor workers nor NICs.  A transfer has an outcome, decided once, a
  success only when all its parts were delivered; a wait answers with the outcome of *its* transfer or
  gives up.  The mapping (`Outcome`, `Delivered`, `Told`) reads the outcome off `finished` and
  `error_code`, all causes of failure being one; `DeliverySpec` is the refinement.  What may break it:
  a completion credited to another transfer, an error after a success, a caller whose handle leads to
  somebody else's context or to none.
* `Drained` is a discipline of the clients: a handle is given back only when its transfer has left
  the worker's active list and nothing of it is in flight.  The engine does not enforce it, and after
  a failure `waitTransfer` returns before it is so; without it the engine does not implement
  `Delivery` (`EngineStale` is such an execution).  It is the hypothesis of theorems, defined beside
  them in `EngineFlowProofs`.  While nothing fails, clients that wait before they release keep to it by
  themselves (`DrainedIfCalm`).
* Not in the module: the PXN branches of start and loop (`ProxyPipeline`), the fault-tolerance environment switch
  (the default is modelled), `maybeInjectFault`'s timer (`NicFault` is its effect).

### SubmitQueue and Mailbox

Every load, store and compare-and-swap of `tryPush` and `tryPop` is a step: `LoadHead`, `CheckRoom`,
`Claim` / `ClaimFails`, `Fill`; `PopStart`, `PopRead`, `PopClear`, `PopAdvance`.  Accesses are in
program order, which x86 (the code uses `_mm_pause`) grants up to staler loads, and a stale load is
an earlier one.  The refinement maps the mailbox to the slots between `tail` and `head`, filled or
claimed: a push takes effect at the compare-and-swap, not at the fill.

`Lap` says whether a producer may sleep, between its look at `tail` and its compare-and-swap, while
the others turn the whole ring.  The compare-and-swap cannot tell a head that came back from one
that never moved, so the queue is a mailbox only without laps; the run and the theorems assume them
away, as a ring of 4096 slots does in practice.

### Chunking

`Prepare` computes the two running sums of M:3955-3969, `Post` one work request, `Moves` the bytes
it moves.  `Wanted` is the reference: which local byte goes with which byte of which host, written
from the meaning of scatter, gather and broadcast and sharing no operator with the code's
definitions.  Shifts and masks are products and remainders, with small field widths.

### Handshake and PairCommit

| Code | Actions |
|---|---|
| `connect`, up to the QP counts | `Connect`, `ActiveHello`, `ActiveHelloLost` |
| `connect`, QP by QP | `ActiveCreate`, `ActiveCreateFails`, `ActiveInfoLost`, `ActiveConnectQp`, `ActiveSkipPair`, `ActiveFinish` |
| `acceptLoop` | `AcceptHead`, `Accept`, `PassiveHello`, `PassiveLost`, `PassiveCreate`, `PassiveCreateFails`, `PassiveSkipPair`, `PassiveConnectQp`, `PassiveConnectFails`, `PassiveFinish` |
| `stopAcceptThread`, the close of the listener | `StopAcceptThread`, `CloseListener` |
| a TCP connection breaks (external) | `Break` |

Several clients, or one that calls again, share one accept thread, which serves one socket at a time;
the others wait in the listener's backlog, and their `::connect` has succeeded already.  A message is
its kind and the pair and QP it is about; the names it carries are a constant of its sender
(`Topologies`: the number each name ends in, -1 for none).  Both sides' rules for choosing pairs are
translated separately: `Targets` for the side that connects (the first NIC with the same suffix, then
the first with the suffix four away), `ExpectedConnections` for the side that accepts, which only
counts.  `Sent` drops what goes to a closed end; `Lost` is a `recv` that will never return data.

`PairCommit` has two sets, the pairs each side holds ready, which only grow, the accepting side's
within the other's.  The refinement mapping reads them off the QPs in RTS.

### BufferDirectory

| Code | Actions |
|---|---|
| `registerMemory`, NIC by NIC, with its rollback | `BeginRegister`, `RegisterNic`, `RegisterFails`, `DeregisterNic` |
| `unregisterMemory` | `BeginUnregister`, `DeregisterNic` |
| `publishBuffer`, with `getRkey` for one NIC after the other | `PublishBuffer` (takes the mutex, finds or prepares the entry), `ReadRkey`, `ReadGarbled`, `FinishPublish` |
| `unpublishBuffer`, `unpublishAllBuffers` | actions of the same names, not while a query or `publishBuffer` holds the mutex |
| `handleBufferQuery`, in the accept thread | `AnswerQuery` (takes the mutex, sends the count), `SendBuffer`, `EndAnswer` |
| `queryRemoteBuffer` | `QueryRemoteBuffer`, `Receive`, `ReceiveFails`, `StoreBuffers` |
| a new connection; `updateRemoteMemoryInfo` | `Reconnect`, `UpdateRemoteMemoryInfo` |
| `getRkey`, `getRkeyForAddr` | operators, of one NIC; the latter a set, because a hash table has no order |

An rkey is its NIC and the `registerMemory` call it comes from, so a property can say *which*
registration an rkey opens.

`publishBuffer` holds `published_buffer_mutex_`, and `registerMemory` and `unregisterMemory` change
the lists of regions under each NIC's `mr_mutex`; `getRkey` takes neither (M:1801-1817; *assume
read-only after init*, M:1786).  So the rkeys of an entry are read NIC after NIC, between the steps of
other threads' registrations, rollbacks and unregistrations, and a read may fall into the middle of a
`push_back` or an `erase` of the very list it walks.  The second is a data race: `ReadGarbled` lets
such a read return 0 or the mark `Garbled`, which stands for whatever may come out of it.

The API does not forbid to unregister what is published, to register twice, or to publish what is
being registered or unregistered at that moment.  `careless` is the set of the pieces of memory to
which one of these happened.  The third is noted by `draft.raced`, at the start of a publication or of
the call that meets it, and counts when an entry comes of it: one thread registers A on NIC 1, another
publishes A and reads that rkey, the first fails on NIC 2, rolls back, and registers A again on both,
the second reads NIC 2; the entry then has one dead rkey and one live one.  The code does this, as
the model does.  `PublishedOpen` excepts `careless` memory and `Garbled` rkeys, and nothing else: what
it claims of the reading NIC by NIC is that calls about *other* memory in the same lists, however they
interleave with it, leave each rkey the right one.  `LookupFindsOwnRkey` excepts `Garbled` rkeys only:
of the two rkeys in the example both are of A.

What the model leaves out: two threads do not register or unregister the same memory at the same
moment, and a reader has one query at a time.  `queryRemoteBuffer` needs no connection to the owner:
if the owner is not in `connections_` (`remote.known`), the list goes to the caller only.  `asOf`
remembers the list at the moment of the answer; it is history for `QueryIsSnapshot`.

### ProxyPipeline

| Code | Actions |
|---|---|
| PXN part of `transferAsyncStart`: filters; `resetAllocator`, store by store, for each proxy NIC; the rest | `Candidates`, `ProxyNics`; `ResetAlloc`, `ResetFree`; `Start` |
| Phase 1 | `Begin` |
| `dispatch_pxn_copy_results_fn` | `Dispatch` |
| `tryAlloc`, access by access | `LoadAlloc`, `StartAgain`, `NoSpace`, and the store in `AdvanceCopy` and `AdvanceRingFull` (`Take`) |
| the rest of `advance_pxn_copies_fn`, `free` | `AdvanceCopy`, `AdvanceRingFull`, `FreeRefused`, `AdvanceEnds` |
| choice of a NIC by load | `AssignDirect`, `AssignProxy`, `AssignEnds` |
| `post_pxn_proxy_chunks_fn` | `FreePosted`, `PostProxy`, `PostFails`, `PostEnds` |
| poll and Phase 4, `cleanupPxnContextState` | `Poll`, `PollFails`, `Retire` |
| the copy thread | `Launch`, `LaunchFails`, `DrainRecycled`, `PushResult` |
| GPUs and NICs (external) | `FinishCopy`, `Complete` |

A pass of the worker is a list of *tasks*, one per context, function and proxy NIC, in the code's
order; a task that would do nothing is skipped at once (`Void`), so that the interleavings are with
those that do something.  Decisions and limits:

* One worker.  The rings are single-producer, single-consumer; a host with workers on two nodes has
  two of each, which the code does not exclude and no model can give a meaning to.
* One client order; a copy's request id is its chunk; the QP of a post is `TransferEngine`'s matter;
  CUDA streams keep no order between copies, as copies on different streams do not.
* The passes over the pipelines that the loop inserts after every 16 posts of a context are not
  repeated (no instance posts that many), and the pipelines behind a failed post are not served once
  more before the transfer is retired.  A fatal poll error comes before any NIC is polled.
* One thread of the client starts transfers, so one reset is under way at a time (`reset`: whose buffers
  are done, whose is half done).  The worker's `trying` is how far it is in `tryAlloc` and what it has
  loaded.  The loads and stores of the two offsets are in program order, which x86 grants.  What is one
  step: the two stores with which `tryAlloc` starts again and the load before them (`StartAgain`), as a
  reset that comes between them has met `tryAlloc` already and writes the same zeros; several frees in
  a row (`FreePosted`, `Retire`), each a `fetch_add`, of which nobody but the worker reads the sum;
  a push on the ring with the store before it, as the copy thread does not look at the offsets.
* Copies of several pieces happen at once.  Chunks are no longer than the buffer (`SizesAssumption`): for
  a longer one see the hazard at PH:194.
* No NIC is in quarantine, so the candidates of a transfer are not filtered once more (M:4307-4321);
  that filter is in `TransferEngine`.
* `taint` remembers three things the design does not provide for: `"reset"`, a reset that met chunks in
  the buffer, or `tryAlloc`: its first store came when the worker was between two accesses of
  `tryAlloc` for that buffer, or `tryAlloc` began between its two stores; `"failed"`, a transfer failed, whose cleanup frees memory
  and recycles flags of copies that may still run; `"leak"`, a fatal poll error, after which nothing
  is cleaned up.  A property that the code can only keep without one of them names it:
  `RangesDisjoint` holds without any, `PostedAfterCopy` and `FlagsSingle` up to the first failure,
  `SpaceAccounted` and `TransfersFinish` without a reset or a leak.  `ResultsKept` and
  `LoadAccounted` hold in any case.
* Why `"reset"` has to cover `tryAlloc` on an *empty* buffer.  With `alloc = freed = 1` and nothing in
  use: the worker loads 1, the client stores 0 and 0, the worker stores 2.  One unit is held and two
  are missing; when the unit is freed, `freed` stops at 1, a chunk of two units never finds
  `freed >= alloc`, and its transfer waits for ever.  Or: the client stores `alloc` = 0, the worker
  takes one unit and then needs two, finds `freed` = 1, starts again and gives the first unit away once
  more.  With the mark for space that is held only, TLC finds the first in the instance of `Proxy`, as
  a violation of `SpaceAccounted` and of `TransfersFinish`, and the second, of `RangesDisjoint`, with
  five chunks in the first transfer.

## 3. The runs

| Run | Instance | Shows |
|---|---|---|
| `EngineReuse` | 1 worker, 1 NIC, 2 logical QPs on 1 physical; transfers of 2, 1 and 0 chunks; **2 handles for 3 transfers**; queue of 1; no faults | without faults recycled handles confuse nobody: `SuccessMeansDelivered`, `HandlesUnique`, `NoDanglingContext`, `QueuedOnce`; `FlowControl`, `CapacityAccounted`; `DeliverySpec` (refinement) |
| `EngineNuma` | 2 workers, each with its NIC, 2 transfers of 2 chunks, the last chunk of one without a route | `CompletionsReachOwner`, and **liveness** `SubmittedFinishes`, also when a transfer fails half way |
| `EngineFaults` | 1 worker, 2 NICs, 2 faults anywhere; transfers of 2 chunks (one NIC) and 1 chunk (either NIC) that may share a QP; send queue shallower than flow control; handles not reused | `FailureHasCause`, `DeliverySpec` (refinement), and `SubmittedFinishes` through rejected posts, flush, quarantine, failed and successful probe |
| `QueueFifo` | ring of 3, 3 clients, 5 pushes | `MailboxSpec` (refinement), `SlotsExclusive`, `EveryHandleArrives` |
| `Chunks` | every call of up to 3 hosts of up to 4 bytes, chunks of 1 to 3 bytes, 2 NICs of 2 QPs, fields of 1, 1, 2 and 2 bits | `TransferComplete`, `ChunksDisjoint`, `WrIdNamesPoster` |
| `Connect` | two calls of `connect`, by one client or by two, against one accept thread; five pairs of name lists: a primary and a cross match, shared names, names that only match across and one without digits, one NIC that two reach, nothing in common; 2 QPs a pair (the other side offers 3), 1 fault, a stop at any time | `Agreement`, `QpsOwned`, `PassiveFollowsActive` (refinement), **liveness** `ConnectReturns`, `StopReturns` |
| `Directory` | 2 threads of an owner with 2 NICs, one of them paired; 2 pieces of memory, 3 buffers in them; 2 registrations, publications and queries; 1 fault: a NIC that refuses, a connection that breaks, an rkey read from a list in change, or `connections_[owner]` replaced or given other rkeys | `AllOrNothing`, `PublishedOpen`, `LookupFindsOwnRkey`, `QueryIsSnapshot`, `QueryNeverStuck` |
| `Proxy` | transfers of three chunks (1, 1 and 2 units) and of one, at the same time; a direct and a proxy NIC; buffer of 2 units, rings of 1, 1 outstanding per NIC, 1 fault | `RangesDisjoint`, `SpaceAccounted`, `PostedAfterCopy`, `FlagsSingle`, `ResultsKept`, `LoadAccounted`, **liveness** `TransfersFinish` |
| `EngineStale`, `EngineQuarantine`, `HalfOpen`, `ProxyReset` | smallest instances | each violates one property: section 6 |

**Why the bounds are enough.**  Handle reuse needs one handle more wanted than there is, and an
empty transfer that takes a handle without ever reaching the worker; both are in `EngineReuse`, as
are a full queue, an exhausted pool and QPs that share a send queue.  Two logical QPs of one
request each make the posting of a second chunk stop and resume after a completion.  Two workers are
all the interplay there is between workers: a worker reads another's state only through the CQs.
Two NICs give a transfer one to lose and one to go on with; two requests on one QP let the fault of
one flush the other, of the same or of another transfer; two faults let a probe fail after the error
that made it necessary.  The consequences of a fault (flush, quarantine, elapsed period, probe,
re-admission) are not bounded.  A ring of three slots holds two handles, the
fewest for which two producers can fill out of order, and five pushes take its indices around almost twice.
Three hosts of zero to four bytes put empty hosts first, in the middle, last, and next to one
another, and give calls of up to twelve chunks against a chunk field of four values, so the index
outgrows its field.

Two calls of `connect` are enough for a reconnect (which replaces QPs pair by pair) and for a second
client to wait behind the first; the lists of names are the ways two names can match, and with two
NICs a side every rule that picks or counts pairs picks or counts wrongly somewhere if it is wrong.
Two QPs a pair make a pair fail half way; one fault anywhere is enough to leave a side behind, and its
consequences are not bounded.  Two NICs are enough to fail after one that succeeded; with two
registrations and three buffers an address is registered again, two buffers share a piece of memory,
and a list of two changes while it is sent.  While one thread publishes, the other goes through whole
calls between the two reads.  With `MaxFaults = 1` an execution has one fault only: a rollback and an
rkey read from a list in change, say, do not come together, which the theorems cover.  The threads of
the owner are symmetric, and `Directory` uses that; it states no liveness.  In `Proxy` a chunk of two units fills the buffer and needs it
empty, two of one share it, rings of one slot are full at the second request, a NIC with one request
makes the load decide between the two NICs, and the second transfer meets the first at every point; so
do the two stores of its reset and the accesses of `tryAlloc`.

`CHECK_DEADLOCK FALSE` is set throughout: an idle worker spins (a stuttering step here), and clients
stop when they are done.

Every property of a passing run is paired in `PROJECT.json` with a *mutant*, a plausible bug in one
modelled definition (a dropped guard, a counter forgotten, `<` for `<=`), under which the run
reports it violated.  The mutants are the operators marked `Mutant:` in the modules.

## 4. Fairness

* **Workers** (`WF` on `Work(w)`): a worker thread loops until shutdown, and shutdown is not in the
  model.  Work includes every poll, retirement and probe.
* **Callers in `transferAsyncStart`** (`WF` on `StartRoute`, `StartSubmit`): a thread inside the call
  runs on; the spin on a full queue tries again.  `StartAllocate` is not fair: nobody has to start
  a transfer.
* **The transport** (`WF` on `NicStep`): a reliable-connection QP completes, flushes or exhausts its
  retries; it does not keep a request for ever.
* **The link comes back** (`WF` on `PortChange` of a port that is down) and **time passes** (`WF` on
  `QuarantineElapses`).  Without the first a transfer whose only NIC is unplugged rightly waits.
* **Not fair**: faults, waits, timeouts, releases.  No progress depends on a client being polite.
* **Handshake**: `WF` on the steps of each `connect`, of the accept thread, and of the close of the
  listener after the join.  Threads run, and a peer goes on with the exchange as long as its socket
  lives; a peer that falls silent without closing would block the accept thread, as no `recv` has a
  timeout.  `connect`, faults, broken connections and the stop are not fair.
* **ProxyPipeline**: `WF` on the worker and the copy thread, which spin, and on the GPUs and NICs,
  which finish what they were given.  Starts and failures are not fair.
* **Queue**: `WF` on consumer and producers' steps; `SF` on `Claim`, because a
  `compare_exchange_weak` that is possible again and again does not fail for ever: it fails when
  another succeeded, which happens finitely often, or spuriously.

## 5. What is proved

**`TransferEngineProofs`**, for every set of transfers, workers and NICs, every number of chunks,
handles, QPs and faults, and every release policy, from the assumptions `XferConstants` and
`LimitConstants` of the module and nothing else:

* `TypeCorrect`: `Spec => []TypeOK`;
* `HandlesAlwaysUnique`: `Spec => []HandlesUnique`, no handle is ever held by two transfers, held
  and free, or twice in the free list, **even for clients that release transfers in flight**;
* `InvariantAlways`: `Spec => []IInv`, from which both follow.

Neither is inductive alone.  `TypeOK` needs to know that a worker indexes the maps and counters with
a handle, a NIC and a QP that exist: the handle in the queue is a handle by its type, but the one a
*completion* names is `handle[r[1]]`, and a retired transfer may still have completions.  So

    IInv == TypeOK /\ HandlesUnique /\ HandleGiven /\ WorkNamed /\ WrsPlaced

with `HandleGiven` (a transfer has a handle exactly from its allocation on; `handle` is never unset,
so a released transfer still *remembers* the one it gave back), `WorkNamed` (maps file contexts under
their own handle; what a worker's loops visit has a handle, or is a NIC while it polls) and
`WrsPlaced` (a posted request has a place and belongs to a transfer with a handle).  `HandlesUnique`
then rests on the pool alone: `AllocateKeepsPool` and `ReleaseKeepsPool` say what the two operations
do to the sequence, `PopBack` what removing the last element does, `HandlesClient` takes the client
actions one by one, and `EngineKeepsStart` says that no worker or NIC step touches pool or handles.
The step lemma has one step per action and, under it, one per conjunct the action can disturb.

**The second part of `TransferEngineProofs`, and `EngineFlowProofs`**: what the engine promises while
nothing fails, and what of it survives any fault when clients keep to `Drained`.  `QInv`, `FInv` and `RInv` build on one another; all are for every number of transfers,
workers, NICs, QPs, chunks and handles, so for any amount of handle reuse.  The hypotheses are the ones
the findings of section 6 show to be needed, and the theorems state them:

| theorem | property | hypotheses |
|---|---|---|
| `QueuedAlwaysOnce` | `QueuedOnce` | no faults; clients release after their wait |
| `CapacityAlwaysAccounted`, `FlowAlwaysControlled` | `CapacityAccounted`, `FlowControl` | no faults; no NIC is a candidate on two nodes; any release policy |
| `SuccessAlwaysDelivered`, `NeverDangling`, `CompletionsAlwaysReachOwner`, `EngineDelivers` | `SuccessMeansDelivered`, `NoDanglingContext`, `CompletionsReachOwner`, `DeliverySpec` | all of these, a route for every chunk, and send queues as deep as flow control (`NothingFails`) |
| `SuccessIfDrained`, `DeliveryIfDrained` | `SuccessMeansDelivered`, `DeliverySpec` | `[]Drained`; any faults, missing routes, NICs shared by nodes, release policy |
| `FailureIfDrained` | `FailureHasCause` | the same, finitely many workers |
| `SuccessDespiteFaults`, `EngineDeliversDespiteFaults`, `FailureAlwaysHasCause` | the same three | no handle is given back, instead of `[]Drained` |
| `NicWithinLimits` | what a NIC holds is at most the sum of the workers' limits | finitely many workers; any faults and release policy |

`EngineReuse` is an instance of the first three rows, where clients keep to `Drained` by themselves,
and `EngineFaults` of the sixth, so of the fourth and fifth.

* `QInv == Calm /\ Filed /\ Unknown /\ LoopsActive /\ Queued`.  `Calm`: no port down, no failed QP, no
  error completion; it holds as no fault is left (`CalmStep`).  `Filed`: from its store to its
  release a transfer is what the maps hold under its handle.  `Unknown`: no worker knows a transfer
  before its push.  `LoopsActive`: what phases 2 and 4 visit is active.  `Queued`: each queued handle
  has a live, unfinished, inactive holder; `HoldersDiffer`, from `HandlesUnique`, makes it one.
* `FInv == Calm /\ NoQuarantine /\ Local /\ Fresh /\ Counted`.  `Local`: contexts, loops and posted
  requests stay on their node, so a worker polls only what it posted.  `Fresh`: a chunk not reached
  by `next_chunk_idx` was never posted.  `Counted`: the counters are the cardinalities of the sets of
  requests in flight, which are finite because they grow by one from nothing (`CountPost`,
  `CountPoll`).
* `RInv == Busy /\ Tally /\ Destroyed /\ SuccessMeansDelivered`.  `Busy`: an active transfer is live and
  unfinished, and whatever is in flight belongs to an active one; that is what a failed transfer
  breaks, and with it all three theorems.  `OwnerPosted` concludes that the search by handle finds
  the poster.  `Tally`: `total_completed` counts the chunks that are done, so a full count is all of
  them (`DoneFinite`).  `Destroyed`: only released contexts are.  `NoRejection`: a post never meets a
  full send queue.
* `OInv == Filed /\ AtHome /\ Destroyed /\ Known /\ Decided /\ Unanswered` holds under every release
  policy and every fault (`OutcomesAlways`).  `Filed` and `Destroyed` are those above, without
  `Calm`: `OnlyRefused` says that `releaseTransfer` misses a handle only for a call that was
  refused, so only `releaseTransfer` takes a context out of its map, and it takes its own (`AtHome`).
  `Known`: a worker's lists hold only transfers whose context was stored.  `Decided`: `finished` and an
  error code come together and not before the context; `Unanswered`: nobody was told an outcome
  before `waitTransfer` returned.
* `KInv == Fresh /\ Credited /\ SuccessMeansDelivered /\ Blamed`, under `Drained`.  A transfer with a
  request in flight then still holds its handle (`PosterHolds`), what the maps and the lists hold
  under that handle holds it too, and two holders are one (`HoldersDiffer`): the search of phase 2b
  finds the poster or nobody, whichever worker polls (`OwnerFound`).  `Credited`: the counter never
  runs ahead of the chunks that are done; `PolledStays`: a chunk that is done or failed stays so.
* `DeliveryIfDrained` goes step by step (`StepMaps`).  `FailMaps`: an error decides on transfers that
  are no success, or changes nothing; that it is no success follows from `SuccessComplete`, a success
  has no chunk left to post and none that may fail.  `SucceedMaps` needs `SuccessMeansDelivered`
  *after* the step; `ClientMaps`, that a caller's handle leads to its own context (`FoundDrained`).
* `RoomLeft`, with faults and any release policy: what a NIC holds and what all workers may still post
  to it are together at most the sum of their limits.  A worker that polls for another, or after a
  RESET, has a counter that is wrong, below zero even; the sum is right, as each post takes one of the
  places of `Room` and each poll gives back at most one.  A rejected poster still had a place, so the
  full send queue was shallower than the sum: the last part of `FailureHasCause`.

**`SubmitQueueProofs`**, for every size of the ring, any number of producers and whatever they push,
from `RingConstants`:

* `QueueTypeCorrect`: `Spec => []TypeOK`, laps or not;
* `SlotsAlwaysExclusive`: `~Lap` implies `Spec => []SlotsExclusive`;
* `QueueImplementsMailbox`: `~Lap` implies `Spec => MailboxSpec`, the refinement the engine relies on.

The invariant is

    RingInv == TypeInv /\ SlotsExclusive /\ OutsideEmpty /\ RoomChecked /\ PopHolds

What makes it work is `RoomChecked`: a producer that has looked at `tail` still has room at the head
it remembers, because `tail` only moves away from it, and `head`, without laps, does not come back to
it.  `OutsideEmpty` (slots outside `tail`..`head` hold no handle) gives the consumer its wait, and
`PopHolds` says what it has read is in the slot still.  `BoxInv` then reads the slots from `tail` to
`head` as the mailbox's sequence: the compare-and-swap appends, the store to `tail` takes the head,
every other access is a stutter.

**`ChunkingProofs`**, from `FieldConstants`: `WrIdRoundTrip`, the three decoders undo `encode` for
every width of the four fields, and for *every* chunk index, because only the uppermost field may be
cut; and `WrIdAlwaysNamesPoster`: `Spec => []WrIdNamesPoster`.  The other half is that chunks tile the
call, for any number of hosts, any lengths and any chunk size: `TilesAlways` is
`Spec => []TileInv`, and `AlwaysComplete` (`TransferComplete`) and `AlwaysDisjoint`
(`ChunksDisjoint`) follow from it.

    TileInv == /\ CallOk
               /\ IF total_chunks = -1 THEN next_chunk_idx = 0 /\ moved = {}
                  ELSE Laid /\ next_chunk_idx \in 0..total_chunks /\ moved = Until(next_chunk_idx)

`Until(k)` are the bytes whose chunk number, counted byte by byte (`ChunkOf`), is below `k`; `Laid`
says that each host's chunks begin where those of the host before it end.  The argument:

* `Recursion`: a recursive definition whose argument falls in some measure has a function that
  satisfies it.  The running sums, the sum in `Wanted` and the bisection are `CHOOSE`s until this is
  known.
* `SearchFinds`: the bisection of `getChunk` ends, and returns the *last* host whose first chunk is
  not after the index.  Hosts of length zero share their first chunk with the next host, so the last
  one is the only one with bytes in it.
* `Located`, `MovesAre`: hence a chunk lies within one host, is not empty, and what the NIC moves for
  it is `Of(k)`, the bytes whose chunk number is `k`.
* `PrepareLays`: the preparation loop establishes `Laid`.  `UntilFacts`: from no byte to all bytes of
  the call, one `Of(k)` at a time.

**`HandshakeProofs`**, for any number of clients, calls of `connect`, faults and QPs a pair, and any
lists of NIC names, from the assumptions of `Handshake`:

* `CountsAgree`: `Len(Targets) = ExpectedConnections`, the number of pairs that the connecting side
  goes through is the number that the accepting side works out by itself (*must match active side
  exactly*, M:3619);
* `Invariance`: `Spec => []IInv`; from it `TypeCorrect` (`TypeOK`) and `NoQpLeaks` (`QpsOwned`);
* `Refines`: `Spec => PassiveFollowsActive`, the refinement of `PairCommit`;
* `AlwaysAgreed`: `Spec => []Agreement`.

`Targets` concatenates over the NICs, so what it holds is a fact about every length of the list of
names.  A recursive function is reasoned about without an induction theorem: a set of naturals that
is not empty has a least member (`LeastNatural`, from the well-foundedness of `<`), so a set that has
0 and is closed under successor is all of them (`NatSetInduction`); both are about sets, not
operators.  `ConcatFacts` says with them what a concatenation of disjoint sequences holds and that
it holds nothing twice; `TargetsFacts` and `CountOneMore` apply it to the names.

The invariant is

    IInv == Typed /\ SrvInv /\ ConnInv /\ Fresh /\ Queued /\ UpShape /\ Lockstep
              /\ Follows /\ OwnedP /\ OwnedA

`Lockstep` is its heart: the connection that is served broke, or was left by a `connect` that had
sent everything, or the two sides are at the same message, one ahead at most (`Sync`).  `UpShape`
says what the accepting side may find in its socket in each of these cases: without it a status
could be taken for the next QP's numbers, and a *success* for the last QP of a pair could come
before the pair is ready, which is what `Follows`, hence the refinement, would miss.  `Queued` and
`Fresh` say the same of connections that are not accepted, or not opened, yet.  `OwnedA` and
`OwnedP` are `QpsOwned` with the pair that each side is at.

`Agreement` is about executions in which nothing fails, so its invariant is added under that
condition: `Closed` (an end is closed only by a side that is through), `Verdict`, `Served` (every
connection waits, is served, or has been and then has all pairs) and `Counted` (the pairs stored so
far are the first `srv.count` of `Targets`, and `connect` is at the next).  `CountsAgree` makes the
two ends of the loop meet.

**`BufferDirectoryProofs`**, for any number of threads, NICs, pieces of memory, buffers, calls and
failures, from the assumptions of `BufferDirectory`: `QueryAlwaysSnapshot`, `Spec => QueryIsSnapshot`,
by the invariant

    SnapInv == Shape /\ NothingEarly /\ InOrder /\ Sending

`InOrder`: what the reader has and what is on its way to it are, in this order, the count and a
prefix of the list at the moment of the answer.  `Sending`: as long as the server is at it, the
published list *is* that list (the mutex), and the next buffer it sends is the one after those.
`NothingEarly`: a new socket starts empty.  A broken connection shortens the wire, which `InOrder`
survives and `Sending` does not claim for it.  The lemmas `SentUnread`, `SentRead`, `CountRead`,
`BufferRead` and `Cut` say these things of sequences once.

The other theorems, `TypeCorrect`, `NothingHalfRegistered` (`AllOrNothing`), `PublishedStaysOpen`
(`PublishedOpen`) and `LookupIsOwn` (`LookupFindsOwnRkey`), follow from `Invariance`,
`Spec => [](SnapInv /\ DirInv)`:

    DirInv   == Watchful /\ Lawful(asOf, calls) /\ Remembered /\ Bounded
    Watchful == OwnerInv /\ Lawful(pub, calls) /\ Careful /\ StillOpen /\ careless \subseteq Ranges
                  /\ OneLock /\ Drafted
    OwnerInv == RegionsTyped /\ OpsApart /\ Levels

* `Levels`: for each piece of memory there is one number of registrations that every NIC has, but
  for one more on the NICs that the call under way has been to (a registration) or has still to come
  to (a rollback, an unregistration).  When no call is under way the exception is empty, which is
  `AllOrNothing`.  `OpsApart` (two calls under way are about different memory) makes the exception
  one registration at most.
* `Careful`: of memory that the owner was not careless with nothing is published while a call about it
  is under way, and a registration finds none of it on any NIC.  A rollback takes the *first*
  registration of an address; only because of this it is the call's own.  `StillOpen` is
  `PublishedOpen` by call numbers.  Neither is inductive without the other.
* `Drafted`: what `publishBuffer` has read so far.  Each rkey is of its memory (`Fitting`), and as long
  as no call about that memory was or is under way (`draft.raced`) no thread is at it and the rkeys read
  so far are open (`OpenKey`), though the reads lie apart: the calls of other threads change the same
  lists, but not the registrations of this memory in them.  That is what lets `FinishPublish` put the
  entry under `StillOpen`.  `OneLock`: the mutex is with a query or with `publishBuffer`.
* `Lawful`: in a list, published or answered with, each rkey is of the memory its buffer lies in, or was
  read from a list in change;
  calls are never forgotten, so this outlives an unregistration.  `Remembered` says it of the
  reader's copy.  Buffers of one piece of memory may overlap, so `GetRkeyForAddr` may find either;
  ranges are disjoint (`HomeIs`), so both are of the same memory.

`QueryAlwaysMoves` says that a query that has not returned is not left alone: `ServerMoves`,
`PublisherMoves` or `ReaderMoves`, the guards of the actions of the server, of the publisher that holds
the mutex, and of the reader.  It needs `TakenInHand`: a query
that was answered is the one being served, or its connection was closed, by `EndAnswer` or a break; so
the reader of a query that nobody serves any more sees that.

**`ProxyPipelineProofs`** and **`ProxyFlagsProofs`**, for any number of transfers, chunks, GPUs, NICs
and faults, any topology and any size of rings, buffers and windows, from `SizesAssumption` and
`TopologyAssumption`:

* `TypeCorrect` (`TypeOK`) and `LoadsAlways` (`LoadAccounted`), whatever fails;
* `ResultsAlways` (`ResultsKept`), whatever fails;
* `FlagsAlways` (`FlagsSingle`) and `PostedAlways` (`PostedAfterCopy`), which speak of executions up
  to the first failure;
* `SpaceAlways` (`SpaceAccounted`), until a reset meets chunks in the buffer or `tryAlloc`, or a leak,
  failures otherwise included, and `RangesAlways` (`RangesDisjoint`), without any of them.

The invariant is

    Chunked == Control /\ Typed /\ Places /\ Counted /\ Loads        (theorem Core)
    Inv     == Chunked /\ RingsApart /\ Unfailed /\ Sound             (theorem Invariance)
    Chunked /\ Watched /\ Spaces /\ Ended /\ Drawn /\ Packed        (lemma PackedAlways)

* `Control`: the tasks of a round are of active transfers, and the last one, which has no other like
  it, is the retirement; a transfer is in the queue, among the active ones, or neither, as its status
  says.  `TypeOK` needs it to know that a task names a pipeline that exists.  Its part `Trial` says that
  the worker in `tryAlloc` has a chunk to find space for, which fits at the place it holds ready.
* `Places` is the heart of the first half.  A chunk that was assigned and is not completed is in *one
  place*: pending or copying in a pipeline of its own transfer, on a NIC, or in the completion queue.
  Every step moves one chunk to its next place, lets some go, or assigns the next one (`Moved`,
  `Traced`).  A retired transfer's work requests stay on their NIC, and `Begun` says that no chunk is
  assigned twice.
* `Counted`: a transfer counts no more completions than it has chunks that are in no place any more.
  With `Places` it follows that a transfer retired as complete has nothing left in a pipeline, so its
  retirement recycles no flag and frees no space under a copy (`OverIsEmpty`).
* `Loads`: `out` is the number of requests on the NIC and in its completion queue, and
  `assigned` the number of the chunks of a pipeline in their four places.  After a failure `assigned`
  may be too high, never too low: a cleanup drops chunks without uncounting them, and for a running
  transfer it is exact, which is all the choice of a NIC reads.
* `RingsApart`: no chunk is on the rings or with the copy thread twice, a chunk there is being copied
  or in no place, and an entry of an active transfer is there exactly until it got its result.  It
  makes `ResultsKept` inductive: who else takes the results off the ring, takes them for all.
* `Sound`, up to the first failure (`Unfailed`: a failed transfer leaves its mark in `taint`):
  whoever asked for a copy still waits for it (`Awaited`), and `FlagsOwned`, which is `FlagsSingle`
  and two facts it needs: a copy under way carries the flag its chunk was given, which is not raised,
  and its chunk is not on a NIC.  `Launch` takes a flag from the pool, whose flags nobody owns, or a
  new one, which nobody knows (`FreshFlag`); `PostProxy` returns a flag only when it is raised, so
  when no callback is to come.

* `Watched`: as long as no reset met chunks or `tryAlloc` (`"reset"` is not in `taint`), `tryAlloc`
  stores what it loaded: between its accesses nobody else touches the offset, and it is not under way in a
  buffer that is half reset, whose first offset is 0.  The two steps that could break it, the
  first store of a reset and the first load of `tryAlloc`, leave their mark if they do.
* `Spaces` is the balance of the buffers over *all* pipelines (`Balance`), and that a transfer the
  worker does not have holds none (`Spared`); so a retirement may take its sum over the transfers that
  leave and the property its sum over those that stay (`TotalSplit`).  `Due` is what is missing of a
  buffer for chunks: nothing while it is half reset (its first store met no chunk, so nobody holds
  any, and nobody takes any before the second), and not what was taken for a request that the ring
  refused.  `SumParts`, `SumConcat` and `CopiedParts` say what a sequence of lengths adds up to when it
  grows, shrinks or is cut.
* `Packed`: a range in use ends before the place where the next one is given out, which keeps ranges
  apart as long as the buffer is handed out upwards.  The steps of `tryAlloc` and of a reset around the
  store that gives a range out (`Aside`) take that place back only when nothing is held
  (`AsideRaises`, from `Watched` and `Spaces`), and then nothing is in use (`NothingInUse`,
  `AsidePacked`).  A copy under way holds space; a work request does because of `Drawn`: until
  its transfer ends a pipeline keeps one length, none of them 0, for each of its requests on the NIC
  or completed.  After the end it keeps none, so `Ended` is needed: without a failure a transfer ends
  only when all its chunks have completed, and with `Counted` and `Places` none is on a NIC any more.

`Ascending`, `Only` and the folds are recursive or `CHOOSE`n; `LeastNatural`, `NatSetInduction`,
`Recursion` and `SumIs` make them usable as in the other modules.  Two properties changed with these
proofs.  `FlagsSingle` used to ask that no two entrusted *entries* have a flag in common; a chunk
whose copy failed carries none, and with two faults (`MaxFaults = 2`, which the run does not have)
two such chunks shared `NoFlag`.  `ResultsKept` counts over the three rings at once.

**Only model-checked**: liveness (`SubmittedFinishes`, `EveryHandleArrives`, `ConnectReturns`,
`StopReturns`, `TransfersFinish`), which needs fairness, and `QueryNeverStuck`, which needs `ENABLED`.
What `QueryAlwaysMoves` proves is that formula with the guards of the actions in the place of
`ENABLED`, that is, for a reader who agrees that an action whose guard holds can be taken.  Every
other invariant and action property of the runs is stated by a theorem.

## 6. Where code and comments disagree

Each is one run whose single property states what the comment says, and which TLC finds violated.

* `EngineStale` (M:6020): an error completion finishes a transfer while other chunks are in flight.
  The handle is released and given to the next transfer; the late completion is credited to it, and
  it reports success before its own data was delivered.  The comment calls such a completion
  *orphaned, ignore*.
* `EngineQuarantine` (M:4308): *if all NICs are quarantined, keep the full list (degraded but
  functional)*; phase 2 skips them all the same, and only a worker 0 with work of its own probes.
* `HalfOpen` (M:3751): the connecting side is told nothing of what the accepting side makes of the
  last status.  When RTR or RTS fails there, it destroys the pair and closes; `connect`, which
  returns *0 on success* (`src/include/mpcomm.h:202`), has succeeded, with a QP whose partner does
  not exist.
* `ProxyReset` (M:4268): a transfer that starts resets the allocators of its proxy buffers, *safe
  because the previous transfer's cleanup should have drained all inflight RDMA and freed all space*
  (M:4266-4267).  Nothing makes the client wait for that, and the worker serves several PXN transfers
  at once: the next chunk is given memory in which another is being copied or sent.  The buffer need not
  be in use when the reset begins: one that meets `tryAlloc` does the same and more (section 2).

Effects of the same kind that no run is about: a buffer that is published while its memory is
registered, rolled back or unregistered may get dead rkeys, and an rkey may be read from a list that
is being changed (section 2, `BufferDirectory`); after a failed transfer has left its worker, its
completions are not credited to the counters' owner or are dropped by the probe's RESET, so
`CapacityAccounted` is checked without faults only; and with a node that borrows another node's NIC
each worker drops the completions of the other, so `CompletionsReachOwner` is checked with a NIC per
node.

## 7. What is not modelled

* **Lifecycle** (M:1093-1460): `init` builds everything before a thread runs, which is the modules'
  `Init`; `shutdown` stops the threads by flags, of which `stopAcceptThread` is in `Handshake`.  A
  shutdown with transfers in flight leaves their waiters spinning; the code promises nothing for it.
* **Set-up of PXN** (`PxnManager::init`, `allocateProxyBuffers`, the bandwidth benchmark, creation of
  contexts and streams, `stopCopyThreads`): done once, before or after the pipeline runs; its result
  is the constants of `ProxyPipeline`.  Also left out there: a second worker, whose use of the
  single-producer rings is undefined behaviour, and the benchmark mode that holds posts back.
* **Peers that fall silent**: neither side of the handshake or of a query has a timeout; the models'
  connections either go on or break.
* **Variants of the directory**: the choice among several buffers by NUMA node after a query, GPU
  detection of registered memory; several queries of one host at a time, whose order nothing fixes.
* **Topology discovery**: reads sysfs once; its result (candidate NICs, NUMA node of a buffer) is a
  constant of `TransferEngine` and `ProxyPipeline`.
* **GPU kernels, DRAM-GPU mapping**: data movement and driver calls without protocol state.
* **Statistics, logging, Python bindings, examples, deployment scripts**: no influence on control;
  the callers' habits they show are the `ReleasePolicy`.
* **A chunk size of 4 GB or more**: `sge.length` is cut to 32 bits (M:5577) and nothing bounds
  `MPCOMM_MAX_RDMA_TRANSFER_SIZE` (M:950); `Chunking` assumes smaller chunks, as all documented
  settings are.
* **Undefined behaviour after a release in flight**: what the worker reads through a pointer to a
  destroyed context.  `NoDanglingContext` says whether such a pointer exists, nothing more.

## 8. Plan

Modelled, in the order of importance: `TransferEngine` implementing `Delivery`, `SubmitQueue`
implementing `Mailbox`, `Chunking`, `Handshake` implementing `PairCommit`, `BufferDirectory`,
`ProxyPipeline`.  What is left of the code has no state that other parts wait for (section 7).

Worth doing next: `CapacityAccounted` as a bound on what a worker's counter may lose to a RESET; an
engine whose `releaseTransfer` waits until the transfer is drained, for which `DeliveryIfDrained` would
need no hypothesis about clients; `ProxyPipeline` with the handles of `TransferEngine`.
