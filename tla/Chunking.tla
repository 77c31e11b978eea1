------------------------------- MODULE Chunking -------------------------------
(***************************************************************************)
(* How a transfer is cut into RDMA operations: the preparation in          *)
(* transferAsyncStart, TransferContext::getChunk with its binary search,   *)
(* the work request built from a chunk, and the identifier that travels    *)
(* with it (WrIdEncoding).  TransferEngine names a chunk by its index;     *)
(* here are the bytes behind the index.                                    *)
(***************************************************************************)
EXTENDS Integers, Sequences

CONSTANTS
    MaxHosts,       \* bound: hosts of a transfer
    MaxLength,      \* bound: bytes per host
    SgeLimit,       \* 2^32: sge.length is 32 bits wide
    Nics, NumQps, Handles,
    NicRange, QpRange, HandleRange, ChunkRange  \* 2^8, 2^8, 2^16, 2^32

Directions == {"SCATTER", "GATHER", "BROADCAST"}

\* What init and HandlePool guarantee: indices and handles fit their fields.
\* (That a chunk fits sge.length is only true of the default, 2^30, and of the
\* settings in use: Init's bound on max_chunk_size stands for that.)
ASSUME FieldConstants ==
    /\ SgeLimit \in Nat \ {0, 1}
    /\ {NicRange, QpRange, HandleRange, ChunkRange} \subseteq Nat \ {0}
    /\ Nics \subseteq 0..(NicRange - 1)
    /\ NumQps \in 1..QpRange
    /\ Handles \subseteq 1..(HandleRange - 1)

VARIABLES
    direction, lengths, max_chunk_size, handle,   \* the call
    host_chunk_starts, host_local_offsets, total_chunks,
    next_chunk_idx,
    moved,          \* <<local offset, host, remote offset>> of each byte moved
    wr_id, poster   \* of the last work request; nic, QP and handle it is for

callVars == <<direction, lengths, max_chunk_size, handle>>
prepVars == <<host_chunk_starts, host_local_offsets, total_chunks>>
vars == <<callVars, prepVars, next_chunk_idx, moved, wr_id, poster>>

Hosts == 1..Len(lengths)

-----------------------------------------------------------------------------
(* WrIdEncoding.  Shifts and masks of adjacent fields are products and       *)
(* remainders.                                                              *)

Tag(nic, qp, h) ==
    ((nic % NicRange) * QpRange + (qp % QpRange)) * HandleRange + (h % HandleRange)

\* Mutant: the chunk index is not masked, and runs into the handle.
EncodeUnmasked(nic, qp, h, chunk) == Tag(nic, qp, h) * ChunkRange + chunk

Encode(nic, qp, h, chunk) == Tag(nic, qp, h) * ChunkRange + (chunk % ChunkRange)

DecodeNic(id) == (id \div (ChunkRange * HandleRange * QpRange)) % NicRange
DecodeQp(id) == (id \div (ChunkRange * HandleRange)) % QpRange
DecodeHandle(id) == (id \div ChunkRange) % HandleRange

-----------------------------------------------------------------------------
(* getChunk.                                                                *)

\* The bisection: hosts from lo up to hi are open, host was the last that is not after.
Search == [lo : Nat, hi : Nat, host : Nat]
Mid(s) == s.lo + (s.hi - s.lo) \div 2
Right(s) == [s EXCEPT !.lo = Mid(s) + 1, !.host = Mid(s)]
Left(s) == [s EXCEPT !.hi = Mid(s)]

\* Mutant: "<" for "<=".
SearchBefore(idx) ==
    LET at[s \in Search] ==
          IF s.lo >= s.hi THEN s.host
          ELSE IF host_chunk_starts[Mid(s)] < idx THEN at[Right(s)] ELSE at[Left(s)]
    IN  at[[lo |-> 1, hi |-> Len(lengths) + 1, host |-> 1]]

\* The last host whose first chunk is not after idx, by bisection.
SearchHost(idx) ==
    LET at[s \in Search] ==
          IF s.lo >= s.hi THEN s.host
          ELSE IF host_chunk_starts[Mid(s)] <= idx THEN at[Right(s)] ELSE at[Left(s)]
    IN  at[[lo |-> 1, hi |-> Len(lengths) + 1, host |-> 1]]

ChunkLength(remaining) ==
    IF remaining < max_chunk_size THEN remaining ELSE max_chunk_size

Chunk(idx) ==
    LET host == SearchHost(idx)
        offset == (idx - host_chunk_starts[host]) * max_chunk_size
    IN  [host |-> host,
         local |-> host_local_offsets[host] + offset,
         remote |-> offset,
         length |-> ChunkLength(lengths[host] - offset)]

\* What the NIC moves for a chunk: sge.length is cut to its width.
Moves(chunk) ==
    {<<chunk.local + i, chunk.host, chunk.remote + i>> :
        i \in 0..((chunk.length % SgeLimit) - 1)}

-----------------------------------------------------------------------------
(* transferAsyncStart.                                                      *)

\* Mutant: rounded down.
NumChunksDown(length) == length \div max_chunk_size

NumChunks(length) == (length + max_chunk_size - 1) \div max_chunk_size

\* The two running sums of the preparation loop, before host n.
ChunksBefore[n \in Nat] == IF n <= 1 THEN 0 ELSE ChunksBefore[n - 1] + NumChunks(lengths[n - 1])

LocalBefore[n \in Nat] ==
    IF n <= 1 \/ direction = "BROADCAST" THEN 0 ELSE LocalBefore[n - 1] + lengths[n - 1]

Init ==
    /\ direction \in Directions
    /\ lengths \in UNION {[1..n -> 0..MaxLength] : n \in 1..MaxHosts}
    /\ max_chunk_size \in 1..(SgeLimit - 1)
    /\ handle \in Handles
    /\ host_chunk_starts = <<>> /\ host_local_offsets = <<>>
    /\ total_chunks = -1
    /\ next_chunk_idx = 0 /\ moved = {}
    /\ wr_id = 0 /\ poster = <<>>

Prepare ==
    /\ total_chunks = -1
    /\ host_chunk_starts' = [h \in Hosts |-> ChunksBefore[h]]
    /\ host_local_offsets' = [h \in Hosts |-> LocalBefore[h]]
    /\ total_chunks' = ChunksBefore[Len(lengths) + 1]
    /\ UNCHANGED <<callVars, next_chunk_idx, moved, wr_id, poster>>

\* The worker posts the next chunk on some NIC and QP, and the NIC moves it.
Post(nic, qp) ==
    /\ next_chunk_idx < total_chunks
    /\ moved' = moved \cup Moves(Chunk(next_chunk_idx))
    /\ wr_id' = Encode(nic, qp, handle, next_chunk_idx)
    /\ poster' = <<nic, qp, handle>>
    /\ next_chunk_idx' = next_chunk_idx + 1
    /\ UNCHANGED <<callVars, prepVars>>

Next == Prepare \/ \E nic \in Nics, qp \in 0..(NumQps - 1) : Post(nic, qp)

Spec == Init /\ [][Next]_vars

-----------------------------------------------------------------------------
(* Properties.                                                              *)

\* The reference: remote buffer h takes or gives its bytes in order, next to
\* those of the hosts before it in the local buffer (scatter, gather), or from
\* the start of the local buffer (broadcast).
Wanted ==
    LET before[h \in Nat] == IF h <= 1 THEN 0 ELSE before[h - 1] + lengths[h - 1]
        first(h) == IF direction = "BROADCAST" THEN 0 ELSE before[h]
    IN  UNION {{<<first(h) + i, h, i>> : i \in 0..(lengths[h] - 1)} : h \in Hosts}

\* When every chunk is posted, exactly the bytes of the call have moved, each
\* between its two places; hosts of length zero and short last chunks included.
TransferComplete ==
    /\ moved \subseteq Wanted
    /\ next_chunk_idx = total_chunks => moved = Wanted

\* No chunk is empty, and none moves a byte that an earlier one moved.
ChunksDisjoint ==
    [][next_chunk_idx' # next_chunk_idx =>
         LET new == Moves(Chunk(next_chunk_idx))
         IN  new # {} /\ new \cap moved = {}]_vars

\* A completion leads pollAllNicsForWorker back to the counters and the
\* transfer of its post, also for chunk indices wider than their field.
WrIdNamesPoster ==
    poster # <<>> => <<DecodeNic(wr_id), DecodeQp(wr_id), DecodeHandle(wr_id)>> = poster
=============================================================================
