------------------------------ MODULE Handshake ------------------------------
(***************************************************************************)
(* connect() of the hosts in Clients against the accept thread of one      *)
(* host: the TCP exchange of NIC counts, NUMA nodes, NIC names and QP      *)
(* counts, the choice of the NIC pairs from the names, the creation of the *)
(* QPs on both sides message by message, and stopAcceptThread.             *)
(*                                                                         *)
(* A message is its kind, with the pair and the QP it is about: what the   *)
(* rest of it says (the names, the counts) is a constant of its sender.    *)
(* Faults, at most MaxFaults of them, are a QP operation that fails on     *)
(* either side and a TCP connection that breaks.                           *)
(***************************************************************************)
EXTENDS Integers, Sequences, FiniteSets, SequencesExt

CONSTANTS
    Clients,        \* the hosts that call connect()
    None,           \* no client
    Topologies,     \* the suffixes of the NIC names: <<the clients', the host's>>
    ClientQps,      \* qps_per_connection_ of the clients
    ServerQps,      \* qps_per_connection_ of the host
    MaxConnects,    \* bound: calls of connect(), of one client or of several
    MaxFaults       \* bound: faults of a behaviour

ASSUME QpsAssumption == ClientQps \in Nat \ {0} /\ ServerQps \in Nat \ {0}
ASSUME BoundsAssumption == MaxConnects \in Nat /\ MaxFaults \in Nat
ASSUME ClientsAssumption == IsFiniteSet(Clients)
ASSUME NoneAssumption == None \notin Clients \cup Clients \X (1..MaxConnects)
ASSUME NamesAssumption == \A top \in Topologies : top \in Seq(Int) \X Seq(Int)

VARIABLES
    suffix,     \* <<the clients' suffixes, the host's>>, fixed
    conn,       \* client -> its call: phase, attempt, step, pair, qp, skipped
    host,       \* client -> the attempt and the pairs of connections_[host], or NoConn
    qpMap,      \* client -> pair -> the attempt whose QPs qp_map holds, 0 if none
    up, down,   \* socket -> the messages on their way to the host, to the client
    shut,       \* <<socket, side>> of the ends that side has closed
    qps,        \* side -> the <<socket, pair, qp>> in INIT and in RTS; a destroyed QP is in neither
    srv,        \* the accept thread: phase, socket, step, pair, qp, count
    stored,     \* <<socket, pair>> in the host's qp_map, which has a new id per call
    peers,      \* sockets with an entry in the host's connections_
    backlog,    \* connections the listening socket holds for accept()
    stop,       \* stopAcceptThread and the close of the listener after it
    faults      \* the faults so far

vars == <<suffix, conn, host, qpMap, up, down, shut, qps, srv, stored, peers,
          backlog, stop, faults>>
-----------------------------------------------------------------------------
(* The pairs of NICs                                                       *)

Cross(n) == IF n >= 4 THEN n - 4 ELSE n + 4

\* The first NIC of names with that suffix, as a sequence of at most one NIC:
\* remote_suffix_to_nics[n][0].  A name without digits (-1) is in no list.
Named(names, n) ==
    LET found == {i \in DOMAIN names : names[i] = n /\ n >= 0}
    IN  IF found = {} THEN <<>> ELSE <<CHOOSE i \in found : \A j \in found : i <= j>>

\* The pairs <<local, remote>> the connecting side goes through, in its order.
TargetsOf(local) ==
    LET n == suffix[1][local]
        remote == Named(suffix[2], n) \o Named(suffix[2], Cross(n))
    IN  [k \in DOMAIN remote |-> <<local, remote[k]>>]

Targets == FlattenSeq([local \in DOMAIN suffix[1] |-> TargetsOf(local)])

\* Mutant: the passive side counts the primary matches only
PrimaryOnly ==
    Cardinality({r \in DOMAIN suffix[1] : suffix[1][r] >= 0 /\
        \E l \in DOMAIN suffix[2] : suffix[2][l] = suffix[1][r]})

\* The number of pairs the accepting side waits for, which it finds out by itself.
ExpectedConnections ==
    LET has(n) == n >= 0 /\ \E l \in DOMAIN suffix[2] : suffix[2][l] = n
    IN  Cardinality({r \in DOMAIN suffix[1] : has(suffix[1][r])})
        + Cardinality({r \in DOMAIN suffix[1] : has(Cross(suffix[1][r]))})

ActualQps == IF ClientQps < ServerQps THEN ClientQps ELSE ServerQps

PairsOf(top) == (DOMAIN top[1]) \X (DOMAIN top[2])
AllPairs == UNION {PairsOf(top) : top \in Topologies}
Sockets == Clients \X (1..MaxConnects)
QpIds == Sockets \X AllPairs \X (1..ActualQps)
-----------------------------------------------------------------------------
(* The exchange before the QPs                                             *)

\* Mutant: both sides wait for the other's names
NamesLater ==
    << <<"send", "num_nics">>, <<"recv", "num_nics">>, <<"send", "numa">>, <<"recv", "numa">>,
       <<"recv", "names">>, <<"send", "names">>, <<"send", "qps">>, <<"recv", "qps">> >>

ActiveScript ==
    << <<"send", "num_nics">>, <<"recv", "num_nics">>, <<"send", "numa">>, <<"recv", "numa">>,
       <<"send", "names">>, <<"recv", "names">>, <<"send", "qps">>, <<"recv", "qps">> >>

PassiveScript ==
    << <<"recv", "num_nics">>, <<"send", "num_nics">>, <<"recv", "numa">>, <<"send", "numa">>,
       <<"recv", "names">>, <<"send", "names">>, <<"recv", "qps">>, <<"send", "qps">> >>

Hello(kind) == [kind |-> kind, pair |-> <<0, 0>>, qp |-> 0]
Info(pair, qp) == [kind |-> "info", pair |-> pair, qp |-> qp]
Status(ok) == [kind |-> IF ok THEN "success" ELSE "failure", pair |-> <<0, 0>>, qp |-> 0]
NoConn == [attempt |-> 0, pairs |-> {}]
-----------------------------------------------------------------------------
Init ==
    /\ suffix \in Topologies
    /\ conn = [c \in Clients |-> [phase |-> "idle", attempt |-> 0, step |-> 1, pair |-> 1,
                                  qp |-> 1, skipped |-> {}]]
    /\ host = [c \in Clients |-> NoConn]
    /\ qpMap = [c \in Clients |-> [p \in AllPairs |-> 0]]
    /\ up = [s \in Sockets |-> <<>>] /\ down = [s \in Sockets |-> <<>>]
    /\ shut = {}
    /\ qps = [side \in {"active", "passive"} |-> [init |-> {}, rts |-> {}]]
    /\ srv = [phase |-> "loop", socket |-> None, step |-> 1, pair |-> <<0, 0>>, qp |-> 1, count |-> 0]
    /\ stored = {} /\ peers = {} /\ backlog = <<>>
    /\ stop = "no" /\ faults = 0
-----------------------------------------------------------------------------
(* connect()                                                               *)

SocketOf(c) == <<c, conn[c].attempt>>
PairOf(c) == Targets[conn[c].pair]
QpOf(c) == <<SocketOf(c), PairOf(c), conn[c].qp>>
PairQps(s, p) == {<<s, p, q>> : q \in 1..ActualQps}

\* createQP and modifyQPToInit; modifyQPToRTR and modifyQPToRTS; destroyQP.
CreateQp(side, id) == qps' = [qps EXCEPT ![side].init = @ \cup {id}]
ReadyQp(side, id) == qps' = [qps EXCEPT ![side] = [init |-> @.init \ {id}, rts |-> @.rts \cup {id}]]
DestroyQps(side, ids) == qps' = [qps EXCEPT ![side] = [init |-> @.init \ ids, rts |-> @.rts \ ids]]

\* send: what goes to an end that is closed goes nowhere.
Sent(queue, s, peer, msg) ==
    IF <<s, peer>> \in shut THEN queue ELSE [queue EXCEPT ![s] = Append(@, msg)]

Fault == faults < MaxFaults /\ faults' = faults + 1

\* ::connect: it succeeds while the host listens, before the host accepts it.
Connect(c) ==
    /\ conn[c].phase \in {"idle", "ok", "error"} /\ Cardinality({s \in Sockets : s[2] <= conn[s[1]].attempt}) < MaxConnects
    /\ stop # "closed"
    /\ conn' = [conn EXCEPT ![c] = [phase |-> "hello", attempt |-> @.attempt + 1, step |-> 1,
                                    pair |-> 1, qp |-> 1, skipped |-> {}]]
    /\ backlog' = Append(backlog, <<c, conn[c].attempt + 1>>)
    /\ UNCHANGED <<suffix, host, qpMap, up, down, shut, qps, srv, stored, peers, stop, faults>>

\* recv finds nothing and never will.
Lost(queue, s, peer) == queue[s] = <<>> /\ <<s, peer>> \in shut

Fails(c) ==
    /\ conn' = [conn EXCEPT ![c].phase = "error"]
    /\ shut' = shut \cup {<<SocketOf(c), "active">>}
    /\ UNCHANGED <<suffix, host, qpMap, up, srv, stored, peers, backlog, stop>>

ActiveHello(c) ==
    /\ conn[c].phase = "hello"
    /\ LET line == ActiveScript[conn[c].step]
           next == IF conn[c].step = Len(ActiveScript) THEN [conn[c] EXCEPT !.phase = "create"]
                                                       ELSE [conn[c] EXCEPT !.step = @ + 1]
       IN  \/ /\ line[1] = "send"
              /\ up' = Sent(up, SocketOf(c), "passive", Hello(line[2]))
              /\ conn' = [conn EXCEPT ![c] = next]
              /\ UNCHANGED <<down, shut>>
           \/ /\ line[1] = "recv" /\ down[SocketOf(c)] # <<>> /\ Head(down[SocketOf(c)]).kind = line[2]
              /\ down' = [down EXCEPT ![SocketOf(c)] = Tail(@)]
              /\ conn' = [conn EXCEPT ![c] = next]
              /\ UNCHANGED <<up, shut>>
    /\ UNCHANGED <<suffix, host, qpMap, qps, srv, stored, peers, backlog, stop, faults>>

ActiveHelloLost(c) ==
    /\ conn[c].phase = "hello" /\ ActiveScript[conn[c].step][1] = "recv"
    /\ Lost(down, SocketOf(c), "passive")
    /\ Fails(c) /\ UNCHANGED <<down, qps, faults>>

\* createQP and modifyQPToInit, then this side's end of the QP is sent.
ActiveCreate(c) ==
    /\ conn[c].phase = "create" /\ conn[c].pair <= Len(Targets)
    /\ CreateQp("active", QpOf(c))
    /\ up' = Sent(up, SocketOf(c), "passive", Info(PairOf(c), conn[c].qp))
    /\ conn' = [conn EXCEPT ![c].phase = "wait"]
    /\ UNCHANGED <<suffix, host, qpMap, down, shut, srv, stored, peers, backlog, stop, faults>>

\* Mutant: only the QP that failed is destroyed
FailsAlone(c) == Fails(c) /\ DestroyQps("active", {QpOf(c)}) /\ UNCHANGED down

\* Giving up in the middle of a pair: its QPs go, the pairs before it stay in qp_map.
FailsInPair(c) ==
    Fails(c) /\ DestroyQps("active", PairQps(SocketOf(c), PairOf(c))) /\ UNCHANGED down

ActiveCreateFails(c) ==
    /\ conn[c].phase = "create" /\ conn[c].pair <= Len(Targets)
    /\ Fault /\ FailsInPair(c)

ActiveInfoLost(c) ==
    /\ conn[c].phase = "wait" /\ Lost(down, SocketOf(c), "passive")
    /\ FailsInPair(c) /\ UNCHANGED faults

\* The other end has come: RTR, RTS and the good news; the last QP of a pair
\* puts the list into qp_map.
ActiveConnectQp(c) ==
    /\ conn[c].phase = "wait" /\ down[SocketOf(c)] # <<>> /\ Head(down[SocketOf(c)]).kind = "info"
    /\ down' = [down EXCEPT ![SocketOf(c)] = Tail(@)]
    /\ ReadyQp("active", QpOf(c))
    /\ up' = Sent(up, SocketOf(c), "passive", Status(TRUE))
    /\ IF conn[c].qp < ActualQps
       THEN /\ conn' = [conn EXCEPT ![c].phase = "create", ![c].qp = @ + 1]
            /\ UNCHANGED qpMap
       ELSE /\ conn' = [conn EXCEPT ![c].phase = "create", ![c].qp = 1, ![c].pair = @ + 1]
            /\ qpMap' = [qpMap EXCEPT ![c][PairOf(c)] = conn[c].attempt]
    /\ UNCHANGED <<suffix, host, shut, srv, stored, peers, backlog, stop, faults>>

\* Mutant: the passive side is told that all is well
TellsSuccess(c) == Status(TRUE)

\* What the passive side is told of a QP that RTR or RTS refused.
FailureStatus(c) == Status(FALSE)

\* RTR or RTS fails: the passive side is told so, and the pair is skipped.
ActiveSkipPair(c) ==
    /\ conn[c].phase = "wait" /\ down[SocketOf(c)] # <<>> /\ Head(down[SocketOf(c)]).kind = "info"
    /\ Fault
    /\ down' = [down EXCEPT ![SocketOf(c)] = Tail(@)]
    /\ up' = Sent(up, SocketOf(c), "passive", FailureStatus(c))
    /\ DestroyQps("active", PairQps(SocketOf(c), PairOf(c)))
    /\ conn' = [conn EXCEPT ![c].phase = "create", ![c].qp = 1, ![c].pair = @ + 1,
                            ![c].skipped = @ \cup {PairOf(c)}]
    /\ UNCHANGED <<suffix, host, qpMap, shut, srv, stored, peers, backlog, stop>>

\* Every pair has been tried: one that stands is enough for MPCOMM_SUCCESS.
ActiveFinish(c) ==
    /\ conn[c].phase = "create" /\ conn[c].pair > Len(Targets)
    /\ shut' = shut \cup {<<SocketOf(c), "active">>}
    /\ LET pairs == Range(Targets) \ conn[c].skipped
       IN  IF pairs = {}
           THEN conn' = [conn EXCEPT ![c].phase = "error"] /\ UNCHANGED host
           ELSE /\ conn' = [conn EXCEPT ![c].phase = "ok"]
                /\ host' = [host EXCEPT ![c] = [attempt |-> conn[c].attempt, pairs |-> pairs]]
    /\ UNCHANGED <<suffix, qpMap, up, down, qps, srv, stored, peers, backlog, stop, faults>>

Active(c) == \/ ActiveHello(c) \/ ActiveHelloLost(c) \/ ActiveCreate(c) \/ ActiveInfoLost(c)
             \/ ActiveConnectQp(c) \/ ActiveFinish(c)
-----------------------------------------------------------------------------
(* acceptLoop(): one connection at a time                                  *)

Sock == srv.socket
ServerLoop == [srv EXCEPT !.phase = "loop", !.socket = None]

\* The head of the loop; after stopAcceptThread the thread ends here.
AcceptHead ==
    /\ srv.phase = "loop"
    /\ srv' = [srv EXCEPT !.phase = IF stop = "no" THEN "accept" ELSE "exited"]
    /\ UNCHANGED <<suffix, conn, host, qpMap, up, down, shut, qps, stored, peers, backlog,
                   stop, faults>>

\* accept() returns; a connection taken after the stop, such as the dummy that
\* stopAcceptThread makes to wake the thread, is closed at once.
Accept ==
    /\ srv.phase = "accept" /\ backlog # <<>>
    /\ backlog' = Tail(backlog)
    /\ IF stop = "no"
       THEN /\ srv' = [phase |-> "hello", socket |-> Head(backlog), step |-> 1,
                        pair |-> <<0, 0>>, qp |-> 1, count |-> 0]
            /\ UNCHANGED shut
       ELSE /\ srv' = [srv EXCEPT !.phase = "exited"]
            /\ shut' = shut \cup {<<Head(backlog), "passive">>}
    /\ UNCHANGED <<suffix, conn, host, qpMap, up, down, qps, stored, peers, stop, faults>>

PassiveHello ==
    /\ srv.phase = "hello"
    /\ LET line == PassiveScript[srv.step]
       IN  \/ /\ line[1] = "send"
              /\ down' = Sent(down, Sock, "active", Hello(line[2]))
              /\ UNCHANGED up
           \/ /\ line[1] = "recv" /\ up[Sock] # <<>> /\ Head(up[Sock]).kind = line[2]
              /\ up' = [up EXCEPT ![Sock] = Tail(@)]
              /\ UNCHANGED down
    /\ srv' = IF srv.step = Len(PassiveScript) THEN [srv EXCEPT !.phase = "info"]
                                               ELSE [srv EXCEPT !.step = @ + 1]
    /\ UNCHANGED <<suffix, conn, host, qpMap, shut, qps, stored, peers, backlog, stop, faults>>

\* success = false: the pair's QPs go, the pairs before it stay in qp_map, and
\* connections_ gets no entry.
PassiveFails ==
    /\ srv' = ServerLoop
    /\ shut' = shut \cup {<<Sock, "passive">>}
    /\ DestroyQps("passive", PairQps(Sock, srv.pair))
    /\ UNCHANGED <<suffix, conn, host, qpMap, down, stored, peers, backlog, stop>>

PassiveLost ==
    /\ \/ srv.phase = "hello" /\ PassiveScript[srv.step][1] = "recv"
       \/ srv.phase = "info" /\ srv.count < ExpectedConnections
       \/ srv.phase = "status"
    /\ Lost(up, Sock, "active")
    /\ PassiveFails /\ UNCHANGED <<up, faults>>

\* The other end of a QP: the first of a pair names the pair.  createQP and
\* modifyQPToInit, then this side's end is sent.
PassiveCreate ==
    /\ srv.phase = "info" /\ srv.count < ExpectedConnections
    /\ up[Sock] # <<>> /\ Head(up[Sock]).kind = "info"
    /\ LET pair == Head(up[Sock]).pair
       IN  /\ up' = [up EXCEPT ![Sock] = Tail(@)]
           /\ CreateQp("passive", <<Sock, pair, srv.qp>>)
           /\ down' = Sent(down, Sock, "active", Info(pair, srv.qp))
           /\ srv' = [srv EXCEPT !.phase = "status", !.pair = pair]
    /\ UNCHANGED <<suffix, conn, host, qpMap, shut, stored, peers, backlog, stop, faults>>

PassiveCreateFails ==
    /\ srv.phase = "info" /\ srv.count < ExpectedConnections
    /\ up[Sock] # <<>> /\ Head(up[Sock]).kind = "info"
    /\ Fault
    /\ up' = [up EXCEPT ![Sock] = Tail(@)]
    /\ PassiveFails

GotStatus(kind) ==
    /\ srv.phase = "status" /\ up[Sock] # <<>> /\ Head(up[Sock]).kind = kind
    /\ up' = [up EXCEPT ![Sock] = Tail(@)]

\* Mutant: the QP index runs on into the next pair
SameQp == [srv EXCEPT !.phase = "info", !.pair = <<0, 0>>, !.qp = @ + 1, !.count = @ + 1]

\* The pair is done with: it counts, and the next message may name another.
NextPair == [srv EXCEPT !.phase = "info", !.pair = <<0, 0>>, !.qp = 1, !.count = @ + 1]

\* The active side gave the pair up: it counts as one of the expected ones.
PassiveSkipPair ==
    /\ GotStatus("failure")
    /\ DestroyQps("passive", PairQps(Sock, srv.pair))
    /\ srv' = NextPair
    /\ UNCHANGED <<suffix, conn, host, qpMap, down, shut, stored, peers, backlog, stop, faults>>

\* RTR and RTS here too; the last QP of a pair puts the list into qp_map.
PassiveConnectQp ==
    /\ GotStatus("success")
    /\ ReadyQp("passive", <<Sock, srv.pair, srv.qp>>)
    /\ IF srv.qp < ActualQps
       THEN srv' = [srv EXCEPT !.phase = "info", !.qp = @ + 1] /\ UNCHANGED stored
       ELSE srv' = NextPair /\ stored' = stored \cup {<<Sock, srv.pair>>}
    /\ UNCHANGED <<suffix, conn, host, qpMap, down, shut, peers, backlog, stop, faults>>

\* RTR or RTS fails here, after the active side was done with the QP.
PassiveConnectFails == GotStatus("success") /\ Fault /\ PassiveFails

PassiveFinish ==
    /\ srv.phase = "info" /\ srv.count = ExpectedConnections
    /\ shut' = shut \cup {<<Sock, "passive">>}
    /\ peers' = peers \cup {Sock}
    /\ srv' = ServerLoop
    /\ UNCHANGED <<suffix, conn, host, qpMap, up, down, qps, stored, backlog, stop, faults>>

Passive == \/ AcceptHead \/ Accept \/ PassiveHello \/ PassiveLost \/ PassiveCreate
           \/ PassiveSkipPair \/ PassiveConnectQp \/ PassiveFinish
-----------------------------------------------------------------------------
(* stopAcceptThread(), then the close of listen_fd_; broken connections    *)

\* Mutant: nobody wakes the thread from accept()
StopQuietly ==
    /\ stop = "no" /\ stop' = "joining"
    /\ UNCHANGED <<suffix, conn, host, qpMap, up, down, shut, qps, srv, stored, peers,
                   backlog, faults>>

\* accept_running_ = false, and a connection to itself wakes accept().
StopAcceptThread ==
    /\ stop = "no" /\ stop' = "joining"
    /\ backlog' = Append(backlog, <<None, 0>>)
    /\ UNCHANGED <<suffix, conn, host, qpMap, up, down, shut, qps, srv, stored, peers, faults>>

\* join returns, and shutdown closes the listener: what waits in it is reset.
CloseListener ==
    /\ stop = "joining" /\ srv.phase = "exited"
    /\ stop' = "closed" /\ backlog' = <<>>
    /\ shut' = shut \cup {<<s, "passive">> : s \in Range(backlog)}
    /\ UNCHANGED <<suffix, conn, host, qpMap, up, down, qps, srv, stored, peers, faults>>

\* A connection breaks: what was on its way is gone, and neither end hears of
\* the other again.
Break(s) ==
    /\ s = Sock \/ s \in Range(backlog)
    /\ ~ {<<s, "active">>, <<s, "passive">>} \subseteq shut
    /\ Fault
    /\ up' = [up EXCEPT ![s] = <<>>] /\ down' = [down EXCEPT ![s] = <<>>]
    /\ shut' = shut \cup {<<s, "active">>, <<s, "passive">>}
    /\ UNCHANGED <<suffix, conn, host, qpMap, qps, srv, stored, peers, backlog, stop>>

Failure ==
    \/ \E c \in Clients : ActiveCreateFails(c) \/ ActiveSkipPair(c)
    \/ PassiveCreateFails \/ PassiveConnectFails
    \/ \E s \in Sockets : Break(s)

Next == \/ \E c \in Clients : Connect(c) \/ Active(c)
        \/ Passive \/ StopAcceptThread \/ CloseListener \/ Failure

Spec == Init /\ [][Next]_vars

\* Threads run, and a peer goes on with the exchange as long as its socket lives.
FairSpec == Spec /\ (\A c \in Clients : WF_vars(Active(c))) /\ WF_vars(Passive)
                 /\ WF_vars(CloseListener)
-----------------------------------------------------------------------------
(* Properties                                                              *)

\* Every variable keeps its shape: the phases of connect() and of the accept
\* thread, QPs known by socket, pair and index, and a count within what is expected.
TypeOK ==
    /\ suffix \in Topologies
    /\ conn \in [Clients -> [phase : {"idle", "hello", "create", "wait", "ok", "error"},
                             attempt : 0..MaxConnects, step : 1..8, pair : Nat,
                             qp : 1..ActualQps, skipped : SUBSET AllPairs]]
    /\ host \in [Clients -> [attempt : 0..MaxConnects, pairs : SUBSET AllPairs]]
    /\ qpMap \in [Clients -> [AllPairs -> 0..MaxConnects]]
    /\ shut \subseteq (Sockets \cup {<<None, 0>>}) \X {"active", "passive"}
    /\ qps \in [{"active", "passive"} -> [init : SUBSET QpIds, rts : SUBSET QpIds]]
    /\ srv.phase \in {"loop", "accept", "hello", "info", "status", "exited"}
    /\ srv.count \in 0..ExpectedConnections /\ srv.qp \in 1..ActualQps
    /\ stored \subseteq Sockets \X AllPairs /\ peers \subseteq Sockets
    /\ stop \in {"no", "joining", "closed"} /\ faults \in 0..MaxFaults

\* The attempt of that socket is over on both sides.
Over(s) ==
    /\ s[2] < conn[s[1]].attempt \/ conn[s[1]].phase \in {"ok", "error"}
    /\ s[2] <= conn[s[1]].attempt
    /\ s # Sock /\ s \notin Range(backlog)

\* Without faults and without a stop both sides come to the same pairs and the
\* same verdict: the passive side counts the pairs by itself, from the names, and
\* "must match active side exactly".  If it counts too few or too many, one side
\* gives up or waits for ever.  A client none of whose NICs has a partner gets an
\* error, and the host an empty entry.
Agreement ==
    (faults = 0 /\ stop = "no") =>
        \A c \in Clients : conn[c].phase \in {"ok", "error"} /\ Over(SocketOf(c)) =>
            /\ (conn[c].phase = "ok") = (Targets # <<>>)
            /\ SocketOf(c) \in peers
            /\ {p \in AllPairs : <<SocketOf(c), p>> \in stored} = Range(Targets)
            /\ Targets # <<>> => host[c] = [attempt |-> conn[c].attempt, pairs |-> Range(Targets)]

\* A QP that an attempt created is destroyed, or its list is in that side's
\* qp_map: no error path of either side leaves one behind that nobody owns.
QpsOwned ==
    /\ \A q \in qps["passive"].init \cup qps["passive"].rts : Over(q[1]) => <<q[1], q[2]>> \in stored
    /\ \A q \in qps["active"].init \cup qps["active"].rts :
           Over(q[1]) => /\ qpMap[q[1][1]][q[2]] >= q[1][2]
                         /\ PairQps(q[1], q[2]) \subseteq qps["active"].rts

\* The pairs all of whose QPs are in RTS on one side, by socket.
Ready(side) == {k \in Sockets \X AllPairs : PairQps(k[1], k[2]) \subseteq qps[side].rts}

PC == INSTANCE PairCommit WITH Pairs <- Sockets \X AllPairs,
                               active <- Ready("active"), passive <- Ready("passive")

\* The exchange implements PairCommit, whatever fails: the passive side makes a
\* pair ready only after the active side has, which is what the status byte of
\* every QP is for, and a pair that is ready is never destroyed again by what
\* happens to later pairs.
PassiveFollowsActive == PC!Spec

\* connect() returns: with its pairs, or with an error when the connection broke,
\* a QP failed or the host stopped listening.  Neither side ever waits for a
\* message that the other does not send.
ConnectReturns ==
    \A c \in Clients : conn[c].phase = "hello" ~> conn[c].phase \in {"ok", "error"}

\* stopAcceptThread returns: the thread notices the flag behind the client it
\* serves, and the dummy connection wakes it from accept().
StopReturns == stop = "joining" ~> stop = "closed"

\* "0 on success": what connect() put into connections_ is usable, every QP of
\* its pairs has a partner in RTS, once nothing is under way any more.
ConnectedPairsLive ==
    (\A c \in Clients : conn[c].attempt > 0 => Over(SocketOf(c))) =>
        \A c \in Clients, p \in AllPairs : p \in host[c].pairs =>
            <<<<c, qpMap[c][p]>>, p>> \in Ready("passive")
=============================================================================
