--------------------------- MODULE BufferDirectory ---------------------------
(***************************************************************************)
(* One host registers memory on all its NICs and publishes buffers in it;  *)
(* another asks for the list over TCP, keeps a copy beside its connection  *)
(* and takes from it the rkey of every address it reads or writes.         *)
(*                                                                         *)
(* An rkey is the NIC and the number of the registerMemory call it comes   *)
(* from.  The threads of the owner do not register and unregister the same *)
(* memory at the same time, but they may be careless with it: unregister   *)
(* what is published, publish what is being registered or unregistered, or *)
(* register again what is registered.  And an rkey is read without a lock, *)
(* while another thread may be changing the list it is read from.          *)
(***************************************************************************)
EXTENDS Integers, Sequences, FiniteSets

CONSTANTS
    Threads,        \* threads of the owner that register and publish
    NumNics,        \* NICs of the owner
    Paired,         \* the owner's NICs the reader has an endpoint of (a GID)
    Ranges,         \* the memory: disjoint <<address, length>>
    Buffers,        \* what is published of it: <<address, length>>
    NoKey,          \* the rkey 0
    MaxRegisters,   \* bound: calls of registerMemory
    MaxPublishes,   \* bound: calls of publishBuffer
    MaxQueries,     \* bound: calls of queryRemoteBuffer
    MaxFaults       \* bound: NICs that refuse, connections that break, lists read in change,
                    \* connections_[owner] replaced or given other rkeys

Nics == 1..NumNics

ASSUME NicsAssumption == NumNics \in Nat \ {0} /\ Paired \subseteq Nics
ASSUME RangesAssumption ==
    /\ Ranges \subseteq Nat \X (Nat \ {0})
    /\ \A r, s \in Ranges : r # s => r[1] + r[2] <= s[1] \/ s[1] + s[2] <= r[1]
ASSUME BuffersAssumption ==
    /\ Buffers \subseteq Nat \X (Nat \ {0})
    /\ \A b \in Buffers : \E r \in Ranges : r[1] <= b[1] /\ b[1] + b[2] <= r[1] + r[2]
ASSUME BoundsAssumption ==
    /\ MaxRegisters \in Nat /\ MaxPublishes \in Nat /\ MaxQueries \in Nat
    /\ MaxFaults \in Nat
ASSUME NoKeyAssumption == NoKey \notin Nics \X (0..MaxRegisters)

VARIABLES
    calls,      \* the range of every registerMemory call so far
    regions,    \* NIC -> memory_regions: the open registrations, by call
    op,         \* thread -> the call it is in
    pub,        \* published_buffer_->buffers
    draft,      \* publishBuffer: the thread in it, if any, its new entry and the rkeys read so far
    server,     \* handleBufferQuery: its socket (0: none), the next buffer to send;
                \* the last socket that acceptLoop took
    wire,       \* socket -> what the server has sent and the reader not received
    closed,     \* sockets the server has closed, or that broke
    query,      \* queryRemoteBuffer: phase, socket, buffers expected and received
    remote,     \* the reader's connections_[owner]: remote_buffers, nic_endpoints' rkeys; is it known
    asOf,       \* the list that was published when the query was answered
    careless,   \* ranges the owner was careless with
    publishes, faults

owner == <<calls, regions, op, careless>>
directory == <<pub, asOf, publishes>>
vars == <<calls, regions, op, pub, draft, server, wire, closed, query, remote, asOf, careless,
          publishes, faults>>
-----------------------------------------------------------------------------
In(a, range) == range[1] <= a /\ a < range[1] + range[2]
Addresses == {b[1] : b \in Buffers}
Home(a) == CHOOSE r \in Ranges : In(a, r)
\* An rkey is that of a call; or it was read from a list in change.
Garbled == 0
Keys == (Nics \X ({Garbled} \cup 1..MaxRegisters)) \cup {NoKey}

\* Mutant: the end of a region is not looked at
UpTo(nic, a) ==
    LET holds == {i \in DOMAIN regions[nic] : calls[regions[nic][i]][1] <= a}
    IN  IF holds = {} THEN NoKey
        ELSE <<nic, regions[nic][CHOOSE i \in holds : \A j \in holds : i <= j]>>

\* getRkey: the first region that holds the address, or 0.
GetRkey(nic, a) ==
    LET holds == {i \in DOMAIN regions[nic] : In(a, calls[regions[nic][i]])}
    IN  IF holds = {} THEN NoKey
        ELSE <<nic, regions[nic][CHOOSE i \in holds : \A j \in holds : i <= j]>>

\* Mutant: the rkey of the endpoint, the fallback, comes first
EndpointFirst(a, nic) == {remote.endpoint[nic]}

\* getRkeyForAddr: of a buffer that holds the address (any of them, in the order
\* of a hash table), or else what the endpoint itself remembers.
GetRkeyForAddr(a, nic) ==
    LET holds == {b \in DOMAIN remote.buffers : In(a, <<b, remote.buffers[b].length>>)}
    IN  IF holds = {} THEN {remote.endpoint[nic]}
        ELSE {remote.buffers[b].rkeys[nic] : b \in holds}

NoRemote == [buffers |-> <<>>, endpoint |-> [n \in Nics |-> NoKey], known |-> TRUE]
NoDraft == [by |-> {}, addr |-> 0, length |-> 0, rkeys |-> <<>>, raced |-> FALSE]
Idle == [kind |-> "idle", nic |-> 0, last |-> 0, call |-> 0, range |-> <<0, 0>>]
NoQuery == [phase |-> "none", socket |-> 0, count |-> 0, got |-> <<>>]

\* The reader may know the owner or not: queryRemoteBuffer needs no connection.
Init ==
    /\ calls = <<>> /\ regions = [n \in Nics |-> <<>>]
    /\ op = [t \in Threads |-> Idle]
    /\ pub = <<>> /\ draft = NoDraft /\ asOf = <<>> /\ careless = {}
    /\ server = [socket |-> 0, next |-> 0, answered |-> 0]
    /\ wire = [s \in 1..MaxQueries |-> <<>>] /\ closed = {}
    /\ query = NoQuery /\ \E known \in BOOLEAN : remote = [NoRemote EXCEPT !.known = known]
    /\ publishes = 0 /\ faults = 0
-----------------------------------------------------------------------------
(* registerMemory, unregisterMemory: one NIC after the other               *)

Publishing == draft.by # {}
Resting(t) == op[t] = Idle /\ t \notin draft.by
Free(t, range) == Resting(t) /\ \A u \in Threads : op[u].range # range
Fault == faults < MaxFaults /\ faults' = faults + 1
Elsewhere == <<server, wire, closed, query, remote>>

Registered(range) == \E n \in Nics : \E i \in DOMAIN regions[n] : calls[regions[n][i]] = range
Published(range) == \E i \in DOMAIN pub : Home(pub[i].addr) = range

\* The memory is being published while it is registered or unregistered.
Race(range) ==
    draft' = IF Publishing /\ Home(draft.addr) = range THEN [draft EXCEPT !.raced = TRUE] ELSE draft

BeginRegister(t, range) ==
    /\ Free(t, range) /\ Len(calls) < MaxRegisters
    /\ calls' = Append(calls, range)
    /\ op' = [op EXCEPT ![t] = [kind |-> "register", nic |-> 1, last |-> NumNics,
                                call |-> Len(calls) + 1, range |-> range]]
    /\ Race(range)
    /\ careless' = IF Registered(range) THEN careless \cup {range} ELSE careless
    /\ UNCHANGED <<regions, directory, Elsewhere, faults>>

\* The call goes on to the next NIC, or returns after its last.
Advance(t) ==
    op' = [op EXCEPT ![t] = IF op[t].nic >= op[t].last THEN Idle
                            ELSE [op[t] EXCEPT !.nic = op[t].nic + 1]]

\* ibv_reg_mr, then the region is added to the NIC's list.
RegisterNic(t) ==
    /\ op[t].kind = "register"
    /\ regions' = [regions EXCEPT ![op[t].nic] = Append(@, op[t].call)]
    /\ Advance(t)
    /\ UNCHANGED <<calls, careless, directory, draft, Elsewhere, faults>>

\* Mutant: the rollback stops one NIC short
RollbackShort(t) ==
    IF op[t].nic <= 2 THEN Idle ELSE [op[t] EXCEPT !.kind = "rollback", !.nic = 1, !.last = op[t].nic - 2]

\* What is left of the call when a NIC refuses: the NICs before it, if any.
Rollback(t) ==
    IF op[t].nic = 1 THEN Idle
    ELSE [op[t] EXCEPT !.kind = "rollback", !.nic = 1, !.last = op[t].nic - 1]

\* ibv_reg_mr fails.
RegisterFails(t) ==
    /\ op[t].kind = "register" /\ Fault
    /\ op' = [op EXCEPT ![t] = Rollback(t)]
    /\ UNCHANGED <<calls, regions, careless, directory, draft, Elsewhere>>

BeginUnregister(t, range) ==
    /\ Free(t, range) /\ Registered(range)
    /\ op' = [op EXCEPT ![t] = [kind |-> "unregister", nic |-> 1, last |-> NumNics,
                                call |-> 0, range |-> range]]
    /\ Race(range)
    /\ careless' = IF Published(range) THEN careless \cup {range} ELSE careless
    /\ UNCHANGED <<calls, regions, directory, Elsewhere, faults>>

\* The first region with that address is deregistered and erased.
Without(nic, range) ==
    LET same == {i \in DOMAIN regions[nic] : calls[regions[nic][i]] = range}
        k == CHOOSE i \in same : \A j \in same : i <= j
    IN  IF same = {} THEN regions[nic]
        ELSE SubSeq(regions[nic], 1, k - 1) \o SubSeq(regions[nic], k + 1, Len(regions[nic]))

\* One NIC of a rollback or of unregisterMemory.
DeregisterNic(t) ==
    /\ op[t].kind \in {"rollback", "unregister"}
    /\ regions' = [regions EXCEPT ![op[t].nic] = Without(op[t].nic, op[t].range)]
    /\ Advance(t)
    /\ UNCHANGED <<calls, careless, directory, draft, Elsewhere, faults>>
-----------------------------------------------------------------------------
(* publishBuffer, unpublishBuffer, unpublishAllBuffers: under the mutex    *)
(* that an answer to a query holds from its first to its last send         *)

Serving == server.socket # 0

\* Mutant: the mutex is held for the count only
CountLocked == Publishing

Locked == Serving \/ Publishing

Entry(a) == {i \in DOMAIN pub : pub[i].addr = a}

\* A buffer that is published already gets its new length and keeps its rkeys; for a
\* new one the rkeys are read, NIC after NIC.
PublishBuffer(t, a, len) ==
    /\ ~ Locked /\ Resting(t)
    /\ publishes < MaxPublishes /\ publishes' = publishes + 1
    /\ \/ \E i \in Entry(a) : pub' = [pub EXCEPT ![i].length = len] /\ UNCHANGED draft
       \/ /\ Entry(a) = {} /\ UNCHANGED pub
          /\ draft' = [NoDraft EXCEPT !.by = {t}, !.addr = a, !.length = len,
                                      !.raced = \E u \in Threads : op[u].range = Home(a)]
    /\ UNCHANGED <<owner, asOf, Elsewhere, faults>>

\* Mutant: the first NIC speaks for all
OnFirstNic(nic, key) == nic = 1 /\ key = NoKey

\* An rkey of 0: the buffer is not registered on the NIC, and publishBuffer fails.
Unregistered(nic, key) == key = NoKey

\* The rkey of the next NIC.
Read(key) ==
    /\ Publishing /\ Len(draft.rkeys) < NumNics
    /\ draft' = IF Unregistered(Len(draft.rkeys) + 1, key) THEN NoDraft
                ELSE [draft EXCEPT !.rkeys = Append(@, key)]
    /\ UNCHANGED <<owner, directory, Elsewhere>>

ReadRkey == Read(GetRkey(Len(draft.rkeys) + 1, draft.addr)) /\ UNCHANGED faults

\* getRkey takes no lock.  A thread that adds to the NIC's list, or erases from it, may do
\* so at the same time: then what is read is anything, or 0.
Contended(nic) == \E u \in Threads : op[u].kind # "idle" /\ op[u].nic = nic

ReadGarbled ==
    LET nic == Len(draft.rkeys) + 1
    IN  Contended(nic) /\ Fault /\ \E key \in {<<nic, Garbled>>, NoKey} : Read(key)

\* With an rkey of every NIC the entry is added.
FinishPublish ==
    /\ Publishing /\ Len(draft.rkeys) = NumNics
    /\ pub' = Append(pub, [addr |-> draft.addr, length |-> draft.length, rkeys |-> draft.rkeys])
    /\ draft' = NoDraft
    /\ careless' = IF draft.raced THEN careless \cup {Home(draft.addr)} ELSE careless
    /\ UNCHANGED <<calls, regions, op, publishes, asOf, Elsewhere, faults>>

Publisher == ReadRkey \/ FinishPublish

UnpublishBuffer(t, a) ==
    /\ ~ Locked /\ Resting(t)
    /\ \E i \in Entry(a) : pub' = SubSeq(pub, 1, i - 1) \o SubSeq(pub, i + 1, Len(pub))
    /\ UNCHANGED <<owner, draft, publishes, asOf, Elsewhere, faults>>

UnpublishAllBuffers(t) ==
    /\ ~ Locked /\ Resting(t) /\ pub # <<>>
    /\ pub' = <<>>
    /\ UNCHANGED <<owner, draft, publishes, asOf, Elsewhere, faults>>
-----------------------------------------------------------------------------
(* handleBufferQuery, in the accept thread                                 *)

\* The number of buffers; the number of NICs and their GIDs go with it.
Header == <<Len(pub)>>

\* acceptLoop takes the connection and reads the type of the message; a count of
\* 0 ends the answer, and the connection is closed.
AnswerQuery ==
    /\ ~ Serving /\ ~ Publishing /\ query.phase = "recv" /\ query.socket > server.answered
    /\ wire' = IF query.socket \in closed THEN wire ELSE [wire EXCEPT ![query.socket] = Header]
    /\ server' = [socket |-> query.socket, next |-> 1, answered |-> query.socket]
    /\ asOf' = pub
    /\ UNCHANGED <<owner, pub, draft, publishes, closed, query, remote, faults>>

\* What is sent on a connection that broke goes nowhere.
SendBuffer ==
    /\ Serving /\ server.next <= Len(pub)
    /\ wire' = IF server.socket \in closed THEN wire
               ELSE [wire EXCEPT ![server.socket] = Append(@, pub[server.next])]
    /\ server' = [server EXCEPT !.next = @ + 1]
    /\ UNCHANGED <<owner, directory, draft, closed, query, remote, faults>>

\* All is sent, or a send fails.
EndAnswer ==
    /\ Serving /\ (server.next > Len(pub) \/ server.socket \in closed)
    /\ closed' = closed \cup {server.socket}
    /\ server' = [server EXCEPT !.socket = 0, !.next = 0]
    /\ UNCHANGED <<owner, directory, draft, wire, query, remote, faults>>

Server == AnswerQuery \/ SendBuffer \/ EndAnswer
-----------------------------------------------------------------------------
(* queryRemoteBuffer; connect() and updateRemoteMemoryInfo of the reader   *)

Reading == <<owner, pub, draft, publishes, server>>

Returns(result) == query' = [NoQuery EXCEPT !.phase = result, !.socket = query.socket] /\ asOf' = <<>>

QueryRemoteBuffer ==
    /\ query.phase \in {"none", "ok", "error"} /\ query.socket < MaxQueries
    /\ query' = [NoQuery EXCEPT !.phase = "recv", !.socket = query.socket + 1]
    /\ UNCHANGED <<Reading, asOf, wire, closed, remote, faults>>

Arrived == wire[query.socket]

\* recv of the count, where 0 is an error that leaves the copy as it is, or of
\* the next buffer.
Receive ==
    /\ query.phase = "recv" /\ Arrived # <<>>
    /\ wire' = [wire EXCEPT ![query.socket] = Tail(@)]
    /\ \/ /\ query.count = 0 /\ Head(Arrived) = 0 /\ Returns("error")
       \/ /\ query.count = 0 /\ Head(Arrived) # 0
          /\ query' = [query EXCEPT !.count = Head(Arrived)] /\ UNCHANGED asOf
       \/ /\ query.count > 0
          /\ query' = [query EXCEPT !.got = Append(@, Head(Arrived))] /\ UNCHANGED asOf
    /\ UNCHANGED <<Reading, closed, remote, faults>>

Complete == query.count > 0 /\ Len(query.got) = query.count

Lost == query.phase = "recv" /\ query.socket \in closed /\ Arrived = <<>> /\ ~ Complete

\* Mutant: the result of the first recv, of the count, is not looked at
CountUnchecked == Lost /\ query.count > 0 /\ Returns("error")
                  /\ UNCHANGED <<Reading, wire, closed, remote, faults>>

\* recv fails: the connection is gone before everything has come.
ReceiveFails == Lost /\ Returns("error")
                /\ UNCHANGED <<Reading, wire, closed, remote, faults>>

\* The rkeys in the order of the endpoints, by GID; 0 for an endpoint without one.
Reordered(rkeys) == [n \in Nics |-> IF n \in Paired THEN rkeys[n] ELSE NoKey]

\* Everything received, the copy is replaced as a whole, and the endpoints
\* remember the rkeys of the first buffer; of a host that is not in connections_
\* the list goes to the caller only.
StoreBuffers ==
    /\ query.phase = "recv" /\ Complete
    /\ Returns("ok")
    /\ LET got == {query.got[i] : i \in DOMAIN query.got}
           at(a) == CHOOSE b \in got : b.addr = a
       IN  remote' = IF ~ remote.known THEN remote
                     ELSE [buffers |-> [a \in {b.addr : b \in got} |->
                               [length |-> at(a).length, rkeys |-> Reordered(at(a).rkeys)]],
                           endpoint |-> [n \in Nics |-> IF n \in Paired THEN query.got[1].rkeys[n]
                                                        ELSE remote.endpoint[n]],
                           known |-> TRUE]
    /\ UNCHANGED <<Reading, wire, closed, faults>>

Reader == Receive \/ ReceiveFails \/ StoreBuffers

\* connect(), or the owner's connect() that this host accepts, the first or again: a new
\* ConnectionInfo, without buffers or rkeys.
Reconnect ==
    /\ remote' = NoRemote
    /\ IF remote.known THEN Fault ELSE UNCHANGED faults
    /\ UNCHANGED <<Reading, asOf, wire, closed, query>>

\* The application brings the rkeys of a registration by other means.
UpdateRemoteMemoryInfo(call) ==
    /\ remote.known /\ Fault
    /\ remote' = [remote EXCEPT !.endpoint = [n \in Nics |-> <<n, call>>]]
    /\ UNCHANGED <<Reading, asOf, wire, closed, query>>

\* The connection of the query breaks.
Break ==
    /\ query.phase = "recv" /\ query.socket \notin closed /\ Fault
    /\ closed' = closed \cup {query.socket}
    /\ wire' = [wire EXCEPT ![query.socket] = <<>>]
    /\ UNCHANGED <<Reading, asOf, query, remote>>

Next ==
    \/ \E t \in Threads :
        \/ \E range \in Ranges : BeginRegister(t, range) \/ BeginUnregister(t, range)
        \/ RegisterNic(t) \/ RegisterFails(t) \/ DeregisterNic(t)
        \/ \E b \in Buffers : PublishBuffer(t, b[1], b[2])
        \/ \E a \in Addresses : UnpublishBuffer(t, a)
        \/ UnpublishAllBuffers(t)
    \/ Publisher \/ ReadGarbled
    \/ Server \/ QueryRemoteBuffer \/ Reader
    \/ Reconnect \/ (\E call \in DOMAIN calls : UpdateRemoteMemoryInfo(call)) \/ Break

Spec == Init /\ [][Next]_vars
-----------------------------------------------------------------------------
(* Properties                                                              *)

Buffer == [addr : Addresses, length : {b[2] : b \in Buffers}, rkeys : [Nics -> Keys]]

\* Every variable keeps its shape: what is open are registrations that were made
\* on that NIC, once each, the published list has one entry for an address, and an
\* rkey of it is never 0.
TypeOK ==
    /\ \A n \in Nics : \A i, j \in DOMAIN regions[n] :
           regions[n][i] \in DOMAIN calls /\ (regions[n][i] = regions[n][j] => i = j)
    /\ \A t \in Threads : op[t].kind \in {"idle", "register", "rollback", "unregister"}
                          /\ op[t].nic \in 0..op[t].last /\ op[t].last \in 0..NumNics
    /\ \A i, j \in DOMAIN pub : pub[i] \in Buffer /\ (pub[i].addr = pub[j].addr => i = j)
    /\ \A i \in DOMAIN pub, n \in Nics : pub[i].rkeys[n] # NoKey
    /\ server.socket \in 0..MaxQueries /\ closed \subseteq 1..MaxQueries
    /\ query.phase \in {"none", "recv", "ok", "error"} /\ Len(query.got) <= query.count
    /\ remote.endpoint \in [Nics -> Keys] /\ careless \subseteq Ranges
    /\ draft.addr \in Addresses \cup {0} /\ draft.rkeys \in Seq(Keys) /\ Len(draft.rkeys) <= NumNics

\* registerMemory and unregisterMemory are all or nothing: between calls every
\* NIC has the same number of registrations of a piece of memory.  A registration
\* that a failed call leaves behind on some NICs pins memory that no
\* unregisterMemory is ever called for.
AllOrNothing ==
    \A range \in Ranges : (\A t \in Threads : op[t].range # range) =>
        \A m, n \in Nics :
            Cardinality({i \in DOMAIN regions[m] : calls[regions[m][i]] = range}) =
            Cardinality({i \in DOMAIN regions[n] : calls[regions[n][i]] = range})

\* What is published can be accessed: the rkeys of an entry, though they are read NIC
\* after NIC, belong to open registrations of the memory it is about, on every NIC,
\* whatever the other threads register, fail to register and unregister elsewhere.
\* Two things are excepted.  The owner was careless with this very piece of memory: it
\* unregistered it while it was published, published it while it was being registered
\* or unregistered, or registered it twice (the entry of an address is not refreshed
\* when it is published again, and a rollback takes the older of two registrations).
\* Or an rkey was read from the list of a NIC while another thread changed that list.
PublishedOpen ==
    \A i \in DOMAIN pub : Home(pub[i].addr) \notin careless =>
        \A n \in {m \in Nics : pub[i].rkeys[m] # <<m, Garbled>>} : \E k \in DOMAIN regions[n] :
            /\ pub[i].rkeys[n] = <<n, regions[n][k]>>
            /\ In(pub[i].addr, calls[regions[n][k]])
            /\ In(pub[i].addr + pub[i].length - 1, calls[regions[n][k]])

\* The copy of a list, as StoreBuffers makes it.
CopyOf(list) ==
    [a \in {list[i].addr : i \in DOMAIN list} |->
        LET b == CHOOSE b \in {list[i] : i \in DOMAIN list} : b.addr = a
        IN  [length |-> b.length, rkeys |-> Reordered(b.rkeys)]]

\* A query is a snapshot: the reader's copy only ever becomes empty (a new
\* connection) or the whole of the list that was published at one moment of the
\* query, though the list is sent buffer by buffer while the owner's threads
\* publish and unpublish, and the connection may break in between.
QueryIsSnapshot ==
    [][remote'.buffers # remote.buffers =>
        \/ remote'.buffers = <<>>
        \/ remote'.buffers = CopyOf(asOf)]_vars

\* The rkey found for an address of a published buffer is one of that buffer's
\* memory on that NIC: never the first buffer's, which the endpoint remembers,
\* never another NIC's.  (But for an rkey that was read from a list in change when
\* the buffer was published.)
LookupFindsOwnRkey ==
    \A b \in DOMAIN remote.buffers, n \in Paired :
        \A a \in b .. (b + remote.buffers[b].length - 1) :
            \A k \in GetRkeyForAddr(a, n) \ {<<n, Garbled>>} : k # NoKey /\ k[1] = n /\ In(a, calls[k[2]])

\* A query never waits for ever: as long as it has not returned, the server owes
\* it something, or the publisher that holds the mutex can go on, or the query has
\* something to receive: when nothing is published, when the connection breaks, and
\* behind the answer to a query that was given up.
QueryNeverStuck == query.phase = "recv" => ENABLED Server \/ ENABLED Publisher \/ ENABLED Reader
=============================================================================
