------------------------- MODULE BufferDirectoryProofs -------------------------
(***************************************************************************)
(* Proofs about BufferDirectory, for any number of threads, NICs, pieces   *)
(* of memory, buffers and calls, and for every way they fail: a query is a *)
(* snapshot; what is registered is registered on every NIC; what is        *)
(* published stays open; the rkey looked up for an address is its own.     *)
(***************************************************************************)
EXTENDS BufferDirectory, SequenceTheorems, FiniteSetTheorems, TLAPS

-----------------------------------------------------------------------------
(* Sequences, whatever they hold.                                           *)

IsSeq(s) == \E S : s \in Seq(S)

\* What Append and Tail do to a sequence.
LEMMA Appended ==
    ASSUME NEW s, IsSeq(s), NEW e
    PROVE  /\ IsSeq(Append(s, e)) /\ Len(s) \in Nat /\ Len(Append(s, e)) = Len(s) + 1
           /\ \A i \in 1..Len(s) : Append(s, e)[i] = s[i]
           /\ Append(s, e)[Len(s) + 1] = e
<1>1. PICK S : s \in Seq(S)
  BY DEF IsSeq
<1>2. s \in Seq(S \cup {e}) /\ e \in S \cup {e}
  BY <1>1, SeqMonotonic
<1>3. Append(s, e) \in Seq(S \cup {e})
  BY <1>2, AppendProperties
<1>4. IsSeq(Append(s, e))
  BY <1>3 DEF IsSeq
<1> QED BY <1>2, <1>4, AppendProperties

LEMMA Tailed ==
    ASSUME NEW s, IsSeq(s), s # <<>>
    PROVE  /\ IsSeq(Tail(s)) /\ Len(s) \in Nat \ {0} /\ Len(Tail(s)) = Len(s) - 1
           /\ Head(s) = s[1] /\ \A i \in 1..(Len(s) - 1) : Tail(s)[i] = s[i + 1]
<1>1. PICK S : s \in Seq(S)
  BY DEF IsSeq
<1>2. Tail(s) \in Seq(S)
  BY <1>1, HeadTailProperties
<1>3. IsSeq(Tail(s))
  BY <1>2 DEF IsSeq
<1>4. Len(s) \in Nat \ {0}
  BY <1>1, EmptySeq
<1> QED BY <1>1, <1>3, <1>4, HeadTailProperties

LEMMA Empty == IsSeq(<<>>) /\ Len(<<>>) = 0
<1>1. <<>> \in Seq({})
  OBVIOUS
<1> QED BY <1>1 DEF IsSeq

LEMMA Single == ASSUME NEW x PROVE IsSeq(<<x>>) /\ Len(<<x>>) = 1 /\ <<x>>[1] = x
<1>1. <<x>> \in Seq({x})
  OBVIOUS
<1> QED BY <1>1 DEF IsSeq

LEMMA SameSeq ==
    ASSUME NEW s, NEW t, IsSeq(s), IsSeq(t), Len(s) = Len(t), \A i \in 1..Len(s) : s[i] = t[i]
    PROVE  s = t
<1>1. PICK S : s \in Seq(S)
  BY DEF IsSeq
<1>2. PICK T : t \in Seq(T)
  BY DEF IsSeq
<1>3. s \in Seq(S \cup T) /\ t \in Seq(S \cup T)
  BY <1>1, <1>2, SeqMonotonic
<1> QED BY <1>3, SeqEqual

\* An element replaced, and one removed.
LEMMA Replaced ==
    ASSUME NEW s, IsSeq(s), NEW i \in DOMAIN s, NEW e
    PROVE  IsSeq([s EXCEPT ![i] = e])
<1>1. PICK S : s \in Seq(S)
  BY DEF IsSeq
<1>2. s \in Seq(S \cup {e}) /\ i \in 1..Len(s) /\ e \in S \cup {e}
  BY <1>1, SeqMonotonic
<1>3. [s EXCEPT ![i] = e] \in Seq(S \cup {e})
  BY <1>2, ExceptSeq
<1> QED BY <1>3 DEF IsSeq

LEMMA Removed ==
    ASSUME NEW s, IsSeq(s), NEW k \in DOMAIN s
    PROVE  IsSeq(SubSeq(s, 1, k - 1) \o SubSeq(s, k + 1, Len(s)))
<1>1. PICK S : s \in Seq(S)
  BY DEF IsSeq
<1>2. Len(s) \in Nat /\ k \in 1..Len(s)
  BY <1>1
<1>3. SubSeq(s, 1, k - 1) \in Seq(S)
  BY <1>1, <1>2, SubSeqProperties, ElementOfSeq
<1>4. SubSeq(s, k + 1, Len(s)) \in Seq(S)
  BY <1>1, <1>2, SubSeqProperties, ElementOfSeq
<1>5. SubSeq(s, 1, k - 1) \o SubSeq(s, k + 1, Len(s)) \in Seq(S)
  BY <1>3, <1>4, ConcatProperties
<1> QED BY <1>5 DEF IsSeq

-----------------------------------------------------------------------------
(* The published list is a sequence.                                        *)

LEMMA StepPub == ASSUME IsSeq(pub), Next PROVE IsSeq(pub')
<1>1. ASSUME NEW t \in Threads, NEW a, NEW len, PublishBuffer(t, a, len) PROVE IsSeq(pub')
  <2>1. CASE \E i \in Entry(a) : pub' = [pub EXCEPT ![i].length = len]
    <3>1. PICK i \in DOMAIN pub : pub' = [pub EXCEPT ![i].length = len]
      BY <2>1 DEF Entry
    <3>2. pub' = [pub EXCEPT ![i] = [pub[i] EXCEPT !.length = len]]
      BY <3>1
    <3> QED BY <3>2, Replaced
  <2>2. CASE pub' = pub
    BY <2>2
  <2> QED BY <1>1, <2>1, <2>2 DEF PublishBuffer
<1>2. ASSUME NEW t \in Threads, NEW a, UnpublishBuffer(t, a) PROVE IsSeq(pub')
  <2>1. PICK i \in DOMAIN pub : pub' = SubSeq(pub, 1, i - 1) \o SubSeq(pub, i + 1, Len(pub))
    BY <1>2 DEF UnpublishBuffer, Entry
  <2> QED BY <2>1, Removed
<1>3. ASSUME NEW t \in Threads, UnpublishAllBuffers(t) PROVE IsSeq(pub')
  BY <1>3, Empty DEF UnpublishAllBuffers
<1>4. ASSUME NEW t \in Threads, RegisterNic(t) \/ RegisterFails(t) \/ DeregisterNic(t)
              \/ \E range \in Ranges : BeginRegister(t, range) \/ BeginUnregister(t, range)
      PROVE  IsSeq(pub')
  BY <1>4 DEF RegisterNic, RegisterFails, DeregisterNic, BeginRegister, BeginUnregister, directory
<1>5. CASE Server
  BY <1>5 DEF Server, AnswerQuery, SendBuffer, EndAnswer, directory
<1>6. CASE FinishPublish
  BY <1>6, Appended DEF FinishPublish
<1>7. CASE ReadRkey \/ ReadGarbled
  BY <1>7 DEF ReadRkey, ReadGarbled, Read, directory
<1>8. CASE QueryRemoteBuffer \/ Reader \/ Reconnect
             \/ (\E call \in DOMAIN calls : UpdateRemoteMemoryInfo(call)) \/ Break
  BY <1>8 DEF QueryRemoteBuffer, Reader, Receive, ReceiveFails, StoreBuffers, Reconnect,
              UpdateRemoteMemoryInfo, Break, Reading
<1> QED BY <1>1, <1>2, <1>3, <1>4, <1>5, <1>6, <1>7, <1>8 DEF Next, Publisher

-----------------------------------------------------------------------------
(* A list on its way: the number of its elements, then the elements.        *)

\* Nothing has been read yet; way is a part of the list from its count on.
FromCount(way, list) ==
    way # <<>> => /\ way[1] = Len(list) /\ Len(way) - 1 <= Len(list)
                  /\ \A j \in 2..Len(way) : way[j] = list[j - 1]

\* The count and the elements of got have been read; way goes on from there.
FromBuffers(got, way, list) ==
    /\ Len(got) + Len(way) <= Len(list)
    /\ \A i \in 1..Len(got) : got[i] = list[i]
    /\ \A j \in 1..Len(way) : way[j] = list[Len(got) + j]

\* The next element is sent, before and after the count was read.
LEMMA SentUnread ==
    ASSUME NEW way, NEW list, IsSeq(way), IsSeq(list), FromCount(way, list),
           NEW next \in Nat \ {0}, Len(way) = next, next <= Len(list)
    PROVE  FromCount(Append(way, list[next]), list)
<1> DEFINE longer == Append(way, list[next])
<1>1. /\ Len(longer) = next + 1 /\ longer[next + 1] = list[next]
      /\ \A i \in 1..next : longer[i] = way[i]
  BY Appended
<1>2. way # <<>>
  BY Empty
<1>3. Len(list) \in Nat
  BY DEF IsSeq
<1> HIDE DEF longer
<1>4. longer[1] = Len(list) /\ Len(longer) - 1 <= Len(list)
  BY <1>1, <1>2, <1>3 DEF FromCount
<1>5. ASSUME NEW j \in 2..Len(longer) PROVE longer[j] = list[j - 1]
  BY <1>1, <1>2, <1>5 DEF FromCount
<1>6. FromCount(longer, list)
  BY <1>4, <1>5 DEF FromCount
<1> QED BY <1>6 DEF longer

LEMMA SentRead ==
    ASSUME NEW got, NEW way, NEW list, IsSeq(got), IsSeq(way), IsSeq(list),
           FromBuffers(got, way, list),
           NEW next \in Nat \ {0}, Len(got) + Len(way) = next - 1, next <= Len(list)
    PROVE  FromBuffers(got, Append(way, list[next]), list)
<1> DEFINE longer == Append(way, list[next])
<1>1. /\ Len(way) \in Nat /\ Len(longer) = Len(way) + 1 /\ longer[Len(way) + 1] = list[next]
      /\ \A i \in 1..Len(way) : longer[i] = way[i]
  BY Appended
<1>2. Len(list) \in Nat /\ Len(got) \in Nat
  BY DEF IsSeq
<1> HIDE DEF longer
<1>3. Len(got) + Len(longer) <= Len(list)
  BY <1>1, <1>2
<1>4. ASSUME NEW j \in 1..Len(longer) PROVE longer[j] = list[Len(got) + j]
  <2>1. CASE j = Len(way) + 1
    <3>1. Len(got) + j = next
      BY <1>1, <1>2, <2>1
    <3> QED BY <1>1, <2>1, <3>1
  <2>2. CASE j \in 1..Len(way)
    BY <1>1, <2>2 DEF FromBuffers
  <2> QED BY <1>1, <1>4, <2>1, <2>2
<1>5. FromBuffers(got, longer, list)
  BY <1>3, <1>4 DEF FromBuffers
<1> QED BY <1>5 DEF longer

\* The count is read, or an element.
LEMMA CountRead ==
    ASSUME NEW way, NEW list, IsSeq(way), IsSeq(list), way # <<>>, FromCount(way, list)
    PROVE  Head(way) = Len(list) /\ FromBuffers(<<>>, Tail(way), list)
<1> DEFINE rest == Tail(way)
<1>1. /\ Len(way) \in Nat \ {0} /\ Len(rest) = Len(way) - 1 /\ Head(way) = way[1]
      /\ \A i \in 1..(Len(way) - 1) : rest[i] = way[i + 1]
  BY Tailed
<1>2. Len(<<>>) = 0 /\ Len(list) \in Nat
  BY Empty DEF IsSeq
<1> HIDE DEF rest
<1>3. ASSUME NEW j \in 1..Len(rest) PROVE rest[j] = list[j]
  <2>1. j + 1 \in 2..Len(way) /\ j \in 1..(Len(way) - 1) /\ (j + 1) - 1 = j
    BY <1>1, <1>3
  <2> QED BY <1>1, <2>1 DEF FromCount
<1>4. Len(rest) <= Len(list) /\ Head(way) = Len(list)
  BY <1>1, <1>2 DEF FromCount
<1>5. \A j \in 1..Len(rest) : rest[j] = list[0 + j]
  BY <1>1, <1>3
<1>6. 0 + Len(rest) <= Len(list) /\ 1..0 = {}
  BY <1>1, <1>4
<1>7. FromBuffers(<<>>, rest, list)
  BY <1>2, <1>5, <1>6 DEF FromBuffers
<1> QED BY <1>4, <1>7 DEF rest

LEMMA BufferRead ==
    ASSUME NEW got, NEW way, NEW list, IsSeq(got), IsSeq(way), IsSeq(list), way # <<>>,
           FromBuffers(got, way, list)
    PROVE  /\ FromBuffers(Append(got, Head(way)), Tail(way), list)
           /\ Len(Append(got, Head(way))) + Len(Tail(way)) = Len(got) + Len(way)
<1> DEFINE more == Append(got, Head(way))
           rest == Tail(way)
<1>1. /\ Len(way) \in Nat \ {0} /\ Len(rest) = Len(way) - 1 /\ Head(way) = way[1]
      /\ \A i \in 1..(Len(way) - 1) : rest[i] = way[i + 1]
  BY Tailed
<1>2. /\ Len(got) \in Nat /\ Len(more) = Len(got) + 1 /\ more[Len(got) + 1] = Head(way)
      /\ \A i \in 1..Len(got) : more[i] = got[i]
  BY Appended
<1>3. Len(list) \in Nat
  BY DEF IsSeq
<1> HIDE DEF more, rest
<1>4. Len(more) + Len(rest) = Len(got) + Len(way) /\ Len(more) + Len(rest) <= Len(list)
  BY <1>1, <1>2, <1>3 DEF FromBuffers
<1>5. ASSUME NEW i \in 1..Len(more) PROVE more[i] = list[i]
  <2>1. CASE i = Len(got) + 1
    <3>1. 1 \in 1..Len(way)
      BY <1>1
    <3> QED BY <1>1, <1>2, <2>1, <3>1 DEF FromBuffers
  <2>2. CASE i \in 1..Len(got)
    BY <1>2, <2>2 DEF FromBuffers
  <2> QED BY <1>2, <1>5, <2>1, <2>2
<1>6. ASSUME NEW j \in 1..Len(rest) PROVE rest[j] = list[Len(more) + j]
  <2>1. j + 1 \in 1..Len(way) /\ j \in 1..(Len(way) - 1) /\ Len(got) + (j + 1) = Len(more) + j
    BY <1>1, <1>2, <1>6
  <2> QED BY <1>1, <2>1 DEF FromBuffers
<1>7. FromBuffers(more, rest, list)
  BY <1>4, <1>5, <1>6 DEF FromBuffers
<1> QED BY <1>4, <1>7 DEF more, rest

\* The connection breaks and what was on its way is gone.
LEMMA Cut ==
    ASSUME NEW got, NEW way, NEW list, IsSeq(got), IsSeq(way), IsSeq(list),
           FromBuffers(got, way, list)
    PROVE  FromBuffers(got, <<>>, list)
<1>1. Len(way) \in Nat /\ Len(got) \in Nat /\ Len(list) \in Nat
  BY DEF IsSeq
<1>2. Len(<<>>) = 0
  BY Empty
<1> QED BY <1>1, <1>2 DEF FromBuffers

-----------------------------------------------------------------------------
(* The answer to a query: what has come and what is on its way are the list *)
(* that asOf remembers, in order.                                           *)

\* The shape of the variables that the answer is in.
Shape ==
    /\ IsSeq(pub) /\ IsSeq(asOf) /\ IsSeq(query.got)
    /\ DOMAIN wire = 1..MaxQueries /\ \A s \in 1..MaxQueries : IsSeq(wire[s])
    /\ query = [phase |-> query.phase, socket |-> query.socket, count |-> query.count, got |-> query.got]
    /\ query.socket \in 0..MaxQueries /\ query.count \in Nat
    /\ server = [socket |-> server.socket, next |-> server.next, answered |-> server.answered]
    /\ server.socket \in {0, server.answered} /\ server.answered \in Nat
    /\ server.answered <= query.socket

\* Nothing is sent for a query that is not answered yet.
NothingEarly ==
    /\ \A s \in 1..MaxQueries : s > server.answered => wire[s] = <<>>
    /\ query.phase = "recv" => query.socket > 0
    /\ query.count = 0 => query.got = <<>>
    /\ query.phase = "recv" /\ query.socket > server.answered => query.count = 0

Answered == query.phase = "recv" /\ query.socket = server.answered

\* The count comes first, then the buffers.
InOrder ==
    Answered =>
        /\ query.count = 0 => FromCount(wire[query.socket], asOf)
        /\ query.count > 0 => query.count = Len(asOf)
                              /\ FromBuffers(query.got, wire[query.socket], asOf)

\* As long as the server holds the mutex the list does not change; on a connection
\* that lives it is where the reader and the wire say.
Sending ==
    Answered /\ Serving =>
        /\ pub = asOf /\ server.next \in Nat \ {0}
        /\ query.socket \notin closed =>
             /\ query.count = 0 => Len(wire[query.socket]) = server.next
             /\ query.count > 0 =>
                  Len(query.got) + Len(wire[query.socket]) = server.next - 1

SnapInv == Shape /\ NothingEarly /\ InOrder /\ Sending

\* The mutex is with the answer to a query or with publishBuffer, not with both.
OneLock ==
    /\ draft = [by |-> draft.by, addr |-> draft.addr, length |-> draft.length,
                rkeys |-> draft.rkeys, raced |-> draft.raced]
    /\ ~ (Serving /\ Publishing)

\* Nobody has the mutex at first; no step gives it to both.
LEMMA InitLock == Init => OneLock
BY DEF Init, OneLock, NoDraft, Serving

\* Each of the two takes it only when it is free.
LEMMA StepLock ==
    ASSUME OneLock, [Next]_vars
    PROVE  OneLock'
<1>0. /\ draft = [by |-> draft.by, addr |-> draft.addr, length |-> draft.length,
                  rkeys |-> draft.rkeys, raced |-> draft.raced]
      /\ ~ (Serving /\ Publishing)
  BY DEF OneLock
<1>1. ASSUME UNCHANGED draft, server' = server \/ server'.socket = 0 \/ ~ Publishing PROVE OneLock'
  BY <1>0, <1>1 DEF OneLock, Serving, Publishing
<1>2. ASSUME NEW t \in Threads, NEW range \in Ranges, BeginRegister(t, range) \/ BeginUnregister(t, range)
      PROVE  OneLock'
  <2>1. /\ server' = server
        /\ draft' = draft \/ draft' = [draft EXCEPT !.raced = TRUE]
    BY <1>2 DEF BeginRegister, BeginUnregister, Race, Elsewhere
  <2>2. CASE draft' = [draft EXCEPT !.raced = TRUE]
    <3>1. draft' = [by |-> draft.by, addr |-> draft.addr, length |-> draft.length,
                    rkeys |-> draft.rkeys, raced |-> TRUE]
      BY <1>0, <2>2
    <3> QED BY <1>0, <2>1, <3>1 DEF OneLock, Serving, Publishing
  <2> QED BY <1>1, <2>1, <2>2
<1>3. ASSUME NEW t \in Threads, NEW b \in Buffers, PublishBuffer(t, b[1], b[2]) PROVE OneLock'
  <2>1. /\ server' = server /\ ~ Serving
        /\ \/ draft' = draft
           \/ draft' = [NoDraft EXCEPT !.by = {t}, !.addr = b[1], !.length = b[2],
                                      !.raced = \E u \in Threads : op[u].range = Home(b[1])]
    BY <1>3 DEF PublishBuffer, Locked, Elsewhere
  <2>2. CASE draft' = [NoDraft EXCEPT !.by = {t}, !.addr = b[1], !.length = b[2],
                                      !.raced = \E u \in Threads : op[u].range = Home(b[1])]
    <3>1. PICK r : r = (\E u \in Threads : op[u].range = Home(b[1]))
      OBVIOUS
    <3>2. draft' = [by |-> {t}, addr |-> b[1], length |-> b[2], rkeys |-> <<>>, raced |-> r]
      BY <2>2, <3>1 DEF NoDraft
    <3> QED BY <2>1, <3>2 DEF OneLock, Serving
  <2> QED BY <1>1, <2>1, <2>2
<1>4. CASE Publisher \/ ReadGarbled
  <2>1. /\ server' = server /\ Publishing
        /\ draft' = NoDraft \/ \E key : draft' = [draft EXCEPT !.rkeys = Append(@, key)]
    BY <1>4 DEF Publisher, ReadRkey, ReadGarbled, Read, FinishPublish, Elsewhere
  <2>2. CASE draft' = NoDraft
    BY <1>0, <2>1, <2>2 DEF OneLock, Serving, Publishing, NoDraft
  <2>3. ASSUME NEW key, draft' = [draft EXCEPT !.rkeys = Append(@, key)] PROVE OneLock'
    <3>1. draft' = [by |-> draft.by, addr |-> draft.addr, length |-> draft.length,
                    rkeys |-> Append(draft.rkeys, key), raced |-> draft.raced]
      BY <1>0, <2>3
    <3> QED BY <1>0, <2>1, <3>1 DEF OneLock, Serving, Publishing
  <2> QED BY <2>1, <2>2, <2>3
<1>5. CASE Server
  <2>1. UNCHANGED draft
    BY <1>5 DEF Server, AnswerQuery, SendBuffer, EndAnswer
  <2>2. CASE AnswerQuery \/ SendBuffer
    BY <1>0, <1>1, <2>1, <2>2 DEF AnswerQuery, SendBuffer
  <2>3. CASE EndAnswer
    BY <1>0, <1>1, <2>1, <2>3 DEF EndAnswer
  <2> QED BY <1>5, <2>2, <2>3 DEF Server
<1>6. ASSUME NEW t \in Threads,
             RegisterNic(t) \/ RegisterFails(t) \/ DeregisterNic(t) \/ UnpublishAllBuffers(t)
               \/ (\E a \in Addresses : UnpublishBuffer(t, a))
      PROVE  OneLock'
  <2>1. UNCHANGED <<draft, server>>
    BY <1>6 DEF RegisterNic, RegisterFails, DeregisterNic, UnpublishAllBuffers, UnpublishBuffer, Elsewhere
  <2> QED BY <1>1, <2>1
<1>7. CASE QueryRemoteBuffer \/ Reader \/ Reconnect
             \/ (\E call \in DOMAIN calls : UpdateRemoteMemoryInfo(call)) \/ Break \/ UNCHANGED vars
  <2>1. UNCHANGED <<draft, server>>
    BY <1>7 DEF QueryRemoteBuffer, Reader, Receive, ReceiveFails, StoreBuffers, Reconnect,
                UpdateRemoteMemoryInfo, Break, Reading, vars
  <2> QED BY <1>1, <2>1
<1> QED BY <1>2, <1>3, <1>4, <1>5, <1>6, <1>7 DEF Next

LEMMA InitSnap == Init => SnapInv
<1> SUFFICES ASSUME Init PROVE SnapInv
  OBVIOUS
<1>1. MaxQueries \in Nat
  BY BoundsAssumption
<1>2. IsSeq(<<>>)
  BY Empty
<1> QED BY <1>1, <1>2 DEF Init, SnapInv, Shape, NothingEarly, InOrder, Sending, Answered, Serving, NoQuery

\* A step that leaves the answer alone and does not change the list under it.
LEMMA StepElsewhere ==
    ASSUME SnapInv, IsSeq(pub'), Serving => pub' = pub,
           UNCHANGED <<asOf, server, wire, closed, query>>
    PROVE  SnapInv'
BY DEF SnapInv, Shape, NothingEarly, InOrder, Sending, Answered, Serving

LEMMA StepSnap == SnapInv /\ OneLock /\ [Next]_vars => SnapInv'
<1> SUFFICES ASSUME SnapInv, OneLock, [Next]_vars PROVE SnapInv'
  OBVIOUS
<1>m. MaxQueries \in Nat
  BY BoundsAssumption
<1>s. Shape /\ NothingEarly /\ InOrder /\ Sending
  BY DEF SnapInv
<1>p. CASE Next
  <2>0. IsSeq(pub')
    BY <1>p, <1>s, StepPub DEF Shape
  <2>1. ASSUME NEW t \in Threads,
               RegisterNic(t) \/ RegisterFails(t) \/ DeregisterNic(t) \/ UnpublishAllBuffers(t)
                 \/ (\E range \in Ranges : BeginRegister(t, range) \/ BeginUnregister(t, range))
                 \/ (\E b \in Buffers : PublishBuffer(t, b[1], b[2]))
                 \/ (\E a \in Addresses : UnpublishBuffer(t, a))
        PROVE  SnapInv'
    <3>1. /\ Serving => pub' = pub
          /\ UNCHANGED <<asOf, server, wire, closed, query>>
      BY <2>1 DEF RegisterNic, RegisterFails, DeregisterNic, UnpublishAllBuffers, BeginRegister,
                  BeginUnregister, PublishBuffer, UnpublishBuffer, Locked, directory, Elsewhere
    <3> QED BY <2>0, <3>1, StepElsewhere
  <2>10. CASE Publisher \/ ReadGarbled
    <3>1. ~ Serving /\ UNCHANGED <<asOf, server, wire, closed, query>>
      BY <2>10 DEF OneLock, Publisher, ReadRkey, ReadGarbled, Read, FinishPublish, directory, Elsewhere
    <3> QED BY <2>0, <3>1, StepElsewhere
  <2>2. CASE Reconnect \/ (\E call \in DOMAIN calls : UpdateRemoteMemoryInfo(call))
    <3>1. UNCHANGED <<pub, asOf, server, wire, closed, query>>
      BY <2>2 DEF Reconnect, UpdateRemoteMemoryInfo, Reading
    <3> QED BY <2>0, <3>1, StepElsewhere
  <2>3. CASE AnswerQuery
    <3>1. /\ server' = [socket |-> query.socket, next |-> 1, answered |-> query.socket]
          /\ query.phase = "recv" /\ query.socket > server.answered
          /\ wire' = IF query.socket \in closed THEN wire ELSE [wire EXCEPT ![query.socket] = <<Len(pub)>>]
          /\ asOf' = pub /\ UNCHANGED <<pub, closed, query>>
      BY <2>3 DEF AnswerQuery, Header
    <3>2. /\ query.socket \in 1..MaxQueries /\ query.count = 0 /\ Len(query.got) = 0
          /\ wire[query.socket] = <<>>
      BY <1>m, <1>s, <3>1, Empty DEF Shape, NothingEarly
    <3>3. IsSeq(<<Len(pub)>>) /\ Len(<<Len(pub)>>) = 1 /\ <<Len(pub)>>[1] = Len(pub)
      BY Single
    <3>4. Shape' /\ NothingEarly'
      BY <1>s, <3>1, <3>2, <3>3 DEF Shape, NothingEarly
    <3>5. \/ query.socket \in closed /\ wire'[query.socket] = <<>>
          \/ query.socket \notin closed /\ wire'[query.socket] = <<Len(pub)>>
      BY <1>s, <3>1, <3>2 DEF Shape
    <3>6. InOrder'
      BY <1>s, <3>1, <3>2, <3>3, <3>5 DEF InOrder, FromCount, Shape, IsSeq
    <3>7. Sending'
      BY <3>1, <3>2, <3>3, <3>5, SMTT(30) DEF Sending
    <3> QED BY <3>4, <3>6, <3>7 DEF SnapInv
  <2>4. CASE SendBuffer
    <3>1. PICK sock \in 1..MaxQueries :
             /\ sock = server.socket /\ sock = server.answered /\ server.next <= Len(pub)
             /\ server' = [socket |-> sock, next |-> server.next + 1, answered |-> sock]
             /\ wire' = IF sock \in closed THEN wire
                        ELSE [wire EXCEPT ![sock] = Append(@, pub[server.next])]
             /\ UNCHANGED <<pub, asOf, closed, query>>
      <4>1. server.socket \in 1..MaxQueries /\ server.socket = server.answered
        BY <1>m, <1>s, <2>4 DEF Shape, SendBuffer, Serving
      <4> QED BY <1>s, <2>4, <4>1 DEF Shape, SendBuffer, directory
    <3> DEFINE longer == Append(wire[sock], pub[server.next])
    <3>2. IsSeq(wire[sock]) /\ IsSeq(pub) /\ IsSeq(asOf) /\ IsSeq(query.got)
      BY <1>s DEF Shape
    <3>3. Len(wire[sock]) \in Nat /\ IsSeq(longer) /\ Len(longer) = Len(wire[sock]) + 1
      BY <3>2, Appended
    <3> HIDE DEF longer
    <3>4. /\ \A s \in 1..MaxQueries : s # sock => wire'[s] = wire[s]
          /\ wire'[sock] = IF sock \in closed THEN wire[sock] ELSE longer
          /\ DOMAIN wire' = 1..MaxQueries
      BY <1>s, <3>1 DEF Shape, longer
    <3>5. server'.socket = sock /\ server'.next = server.next + 1 /\ server'.answered = sock
      BY <3>1
    <3>6. Shape'
      BY <1>s, <3>1, <3>2, <3>3, <3>4, <3>5 DEF Shape
    <3>7. NothingEarly'
      BY <1>s, <3>1, <3>4, <3>5 DEF NothingEarly, Shape
    <3>8. Answered' <=> Answered
      BY <3>1, <3>5 DEF Answered
    <3>9. CASE ~Answered
      BY <3>6, <3>7, <3>8, <3>9 DEF SnapInv, InOrder, Sending
    <3>10. CASE Answered
      <4>1. /\ query.socket = sock /\ pub = asOf /\ server.next \in Nat \ {0}
            /\ sock \notin closed => /\ query.count = 0 => Len(wire[sock]) = server.next
                                     /\ query.count > 0 => Len(query.got) + Len(wire[sock]) = server.next - 1
        <5>1. sock # 0
          BY <1>m
        <5>2. Serving /\ query.socket = sock
          BY <3>1, <3>10, <5>1 DEF Serving, Answered
        <5> QED BY <1>s, <3>10, <5>2 DEF Sending
      <4>2. Len(query.got) \in Nat /\ query.count \in Nat
        BY <1>s, <3>2 DEF Shape, IsSeq
      <4>4. Sending'
        <5>1. /\ pub' = asOf' /\ server'.next \in Nat \ {0} /\ query'.socket = sock
              /\ query'.got = query.got /\ query'.count = query.count /\ closed' = closed
          BY <3>1, <3>5, <4>1
        <5>2. ASSUME sock \notin closed
              PROVE  /\ query.count = 0 => Len(wire'[sock]) = server'.next
                     /\ query.count > 0 => Len(query.got) + Len(wire'[sock]) = server'.next - 1
          <6>1. wire'[sock] = longer
            BY <3>4, <5>2
          <6>2. Len(wire'[sock]) = Len(wire[sock]) + 1
            BY <3>3, <6>1
          <6>3. CASE query.count = 0
            BY <3>3, <3>5, <4>1, <5>2, <6>2, <6>3
          <6>4. CASE query.count > 0
            <7>1. PICK g, l, n \in Nat : g = Len(query.got) /\ l = Len(wire[sock]) /\ n = server.next
              BY <3>3, <4>1, <4>2
            <7>2. g + l = n - 1
              BY <4>1, <5>2, <6>4, <7>1
            <7>3. Len(wire'[sock]) = l + 1 /\ server'.next = n + 1
              BY <3>5, <6>2, <7>1
            <7>4. g + (l + 1) = (n + 1) - 1
              BY <7>2
            <7>5. Len(query.got) + Len(wire'[sock]) = server'.next - 1
              BY <7>1, <7>3, <7>4
            <7>6. query.count # 0
              BY <6>4
            <7> QED BY <7>5, <7>6, Zenon
          <6> QED BY <4>2, <6>3, <6>4
        <5> QED BY <5>1, <5>2 DEF Sending
      <4>5. CASE sock \in closed
        <5>1. InOrder'
          BY <1>s, <3>1, <3>4, <3>8, <4>1, <4>5 DEF InOrder
        <5> QED BY <3>6, <3>7, <4>4, <5>1 DEF SnapInv
      <4>6. CASE sock \notin closed
        <5>1. ASSUME query.count = 0 PROVE FromCount(longer, asOf)
          <6>1. FromCount(wire[sock], asOf)
            BY <1>s, <3>10, <4>1, <5>1 DEF InOrder
          <6>2. Len(wire[sock]) = server.next /\ server.next <= Len(asOf)
            BY <3>1, <4>1, <4>6, <5>1
          <6> QED BY <3>2, <4>1, <6>1, <6>2, SentUnread DEF longer
        <5>2. ASSUME query.count > 0
              PROVE  query.count = Len(asOf) /\ FromBuffers(query.got, longer, asOf)
          <6>1. query.count = Len(asOf) /\ FromBuffers(query.got, wire[sock], asOf)
            BY <1>s, <3>10, <4>1, <5>2 DEF InOrder
          <6>2. Len(query.got) + Len(wire[sock]) = server.next - 1 /\ server.next <= Len(asOf)
            BY <3>1, <4>1, <4>2, <4>6, <5>2
          <6> QED BY <3>2, <4>1, <6>1, <6>2, SentRead DEF longer
        <5>3. InOrder'
          BY <3>1, <3>4, <4>1, <4>6, <5>1, <5>2 DEF InOrder
        <5> QED BY <3>6, <3>7, <4>4, <5>3 DEF SnapInv
      <4> QED BY <4>5, <4>6
    <3> QED BY <3>9, <3>10
  <2>5. CASE EndAnswer
    <3>1. /\ server' = [server EXCEPT !.socket = 0, !.next = 0]
          /\ UNCHANGED <<pub, asOf, wire, query>>
      BY <2>5 DEF EndAnswer, directory
    <3> QED BY <1>s, <3>1 DEF SnapInv, Shape, NothingEarly, InOrder, Sending, Answered, Serving
  <2>6. CASE QueryRemoteBuffer
    <3>1. /\ query' = [phase |-> "recv", socket |-> query.socket + 1, count |-> 0, got |-> <<>>]
          /\ query.socket < MaxQueries
          /\ UNCHANGED <<pub, server, asOf, wire, closed>>
      BY <2>6 DEF QueryRemoteBuffer, NoQuery, Reading
    <3>2. query'.socket > server'.answered /\ query'.socket \in 1..MaxQueries
      BY <1>m, <1>s, <3>1 DEF Shape
    <3> QED BY <1>m, <1>s, <3>1, <3>2, Empty DEF SnapInv, Shape, NothingEarly, InOrder, Sending, Answered, Serving
  <2>7. CASE Receive
    <3>1. query.phase = "recv" /\ query.socket \in 1..MaxQueries
      BY <1>m, <1>s, <2>7 DEF Receive, Reading, Shape, NothingEarly
    <3>2. PICK way : way = wire[query.socket]
      OBVIOUS
    <3>3. /\ way # <<>> /\ wire' = [wire EXCEPT ![query.socket] = Tail(way)]
          /\ UNCHANGED <<pub, server, closed>>
      BY <2>7, <3>2 DEF Receive, Arrived, Reading
    <3> DEFINE rest == Tail(way)
    <3>4. /\ IsSeq(way) /\ IsSeq(rest) /\ Len(way) \in Nat \ {0} /\ Len(rest) = Len(way) - 1
      BY <1>s, <3>1, <3>2, <3>3, Tailed DEF Shape
    <3> HIDE DEF rest
    <3>5. /\ wire'[query.socket] = rest /\ DOMAIN wire' = 1..MaxQueries
          /\ \A s \in 1..MaxQueries : s # query.socket => wire'[s] = wire[s]
      BY <1>s, <3>1, <3>3 DEF Shape, rest
    <3>6. Answered
      BY <1>s, <3>1, <3>2, <3>3 DEF Shape, NothingEarly, Answered
    <3>7. /\ query.count \in Nat /\ IsSeq(asOf) /\ IsSeq(query.got)
          /\ Len(asOf) \in Nat /\ Len(query.got) \in Nat
      BY <1>s DEF Shape, IsSeq
    <3>8. CASE Returns("error")
      <4>1. /\ query' = [phase |-> "error", socket |-> query.socket, count |-> 0, got |-> <<>>]
            /\ asOf' = <<>>
        BY <3>8 DEF Returns, NoQuery
      <4>2. Shape'
        BY <1>s, <3>1, <3>3, <3>4, <3>5, <4>1, Empty DEF Shape
      <4>3. NothingEarly'
        BY <1>s, <3>3, <3>5, <3>6, <4>1 DEF NothingEarly, Answered
      <4> QED BY <4>1, <4>2, <4>3 DEF SnapInv, InOrder, Sending, Answered
    <3>9. CASE query.count = 0 /\ Head(way) # 0 /\ query' = [query EXCEPT !.count = Head(way)] /\ asOf' = asOf
      <4>1. FromCount(way, asOf) /\ query.got = <<>>
        BY <1>s, <3>2, <3>6, <3>9 DEF InOrder, NothingEarly
      <4>2. Head(way) = Len(asOf) /\ FromBuffers(<<>>, rest, asOf)
        BY <3>3, <3>4, <3>7, <4>1, CountRead DEF rest
      <4>3. /\ query' = [phase |-> query.phase, socket |-> query.socket, count |-> Len(asOf), got |-> <<>>]
            /\ Len(asOf) > 0
        BY <1>s, <3>7, <3>9, <4>1, <4>2 DEF Shape
      <4>4. /\ query'.phase = query.phase /\ query'.socket = query.socket
            /\ query'.count = Len(asOf) /\ query'.got = <<>>
        BY <4>3
      <4>5. Shape'
        BY <1>s, <3>3, <3>4, <3>5, <3>7, <3>9, <4>3, <4>4, Empty DEF Shape
      <4>6. NothingEarly'
        <5>1. /\ \A s \in 1..MaxQueries : s > server.answered => s # query.socket
              /\ query'.count > 0 /\ ~ query.socket > server.answered
          BY <1>s, <3>6, <3>7, <4>3, <4>4 DEF Answered, Shape
        <5> QED BY <1>s, <3>3, <3>5, <3>7, <4>4, <5>1 DEF NothingEarly
      <4>7. InOrder'
        BY <3>5, <3>9, <4>2, <4>3, <4>4 DEF InOrder
      <4>8. Sending'
        <5>1. Answered' /\ Serving' => Answered /\ Serving
          BY <3>3, <3>6 DEF Serving
        <5>2. Answered /\ Serving =>
                 /\ pub = asOf /\ server.next \in Nat \ {0}
                 /\ query.socket \notin closed => Len(way) = server.next
          BY <1>s, <3>2, <3>9 DEF Sending
        <5>3. Answered' /\ Serving' =>
                 /\ pub' = asOf' /\ server'.next \in Nat \ {0}
                 /\ query'.socket \notin closed' => 0 + Len(rest) = server'.next - 1
          BY <3>3, <3>4, <3>9, <4>4, <5>1, <5>2
        <5> QED BY <3>5, <4>3, <4>4, <5>3, Empty DEF Sending
      <4> QED BY <4>5, <4>6, <4>7, <4>8 DEF SnapInv
    <3>10. CASE query.count > 0 /\ query' = [query EXCEPT !.got = Append(@, Head(way))] /\ asOf' = asOf
      <4> DEFINE more == Append(query.got, Head(way))
      <4>1. query.count = Len(asOf) /\ FromBuffers(query.got, way, asOf)
        BY <1>s, <3>2, <3>6, <3>10 DEF InOrder
      <4>2. FromBuffers(more, rest, asOf) /\ Len(more) + Len(rest) = Len(query.got) + Len(way)
        BY <3>3, <3>4, <3>7, <4>1, BufferRead DEF rest
      <4>3. IsSeq(more)
        BY <3>7, Appended
      <4>4. query' = [phase |-> query.phase, socket |-> query.socket, count |-> query.count, got |-> more]
        BY <1>s, <3>10 DEF Shape
      <4> HIDE DEF more
      <4>5. /\ query'.phase = query.phase /\ query'.socket = query.socket
            /\ query'.count = query.count /\ query'.got = more
        BY <4>4
      <4>6. Shape'
        BY <1>s, <3>3, <3>4, <3>5, <3>7, <3>10, <4>3, <4>4, <4>5 DEF Shape
      <4>7. NothingEarly'
        BY <1>s, <3>3, <3>5, <3>6, <3>7, <3>10, <4>5 DEF NothingEarly, Answered
      <4>8. InOrder'
        <5>1. query'.count > 0 /\ query'.count = Len(asOf')
          BY <3>10, <4>1, <4>5
        <5>2. FromBuffers(query'.got, wire'[query'.socket], asOf')
          BY <3>5, <3>10, <4>2, <4>5
        <5> QED BY <3>7, <4>5, <5>1, <5>2 DEF InOrder
      <4>9. Sending'
        <5>1. Answered' /\ Serving' => Answered /\ Serving
          BY <3>3, <3>6 DEF Serving
        <5>2. Answered /\ Serving =>
                 /\ pub = asOf /\ server.next \in Nat \ {0}
                 /\ query.socket \notin closed => Len(query.got) + Len(way) = server.next - 1
          BY <1>s, <3>2, <3>10 DEF Sending
        <5>3. wire'[query'.socket] = rest /\ query'.got = more /\ query'.count > 0
          BY <3>5, <3>10, <4>5
        <5>4. Answered' /\ Serving' =>
                 /\ pub' = asOf' /\ server'.next \in Nat \ {0}
                 /\ query'.socket \notin closed' => Len(more) + Len(rest) = server'.next - 1
          BY <3>3, <3>10, <4>2, <4>5, <5>1, <5>2
        <5> QED BY <3>7, <4>5, <5>3, <5>4 DEF Sending
      <4> QED BY <4>6, <4>7, <4>8, <4>9 DEF SnapInv
    <3> QED BY <2>7, <3>2, <3>7, <3>8, <3>9, <3>10 DEF Receive, Arrived
  <2>8. CASE ReceiveFails \/ StoreBuffers
    <3>1. /\ \E result \in {"ok", "error"} :
               query' = [phase |-> result, socket |-> query.socket, count |-> 0, got |-> <<>>]
          /\ asOf' = <<>> /\ UNCHANGED <<pub, server, wire>>
      BY <2>8 DEF ReceiveFails, StoreBuffers, Returns, NoQuery, Reading
    <3> QED BY <1>s, <3>1, Empty DEF SnapInv, Shape, NothingEarly, InOrder, Sending, Answered
  <2>9. CASE Break
    <3>1. /\ query.phase = "recv" /\ closed' = closed \cup {query.socket}
          /\ wire' = [wire EXCEPT ![query.socket] = <<>>]
          /\ UNCHANGED <<pub, server, query, asOf>>
      BY <2>9 DEF Break, Reading
    <3>2. /\ DOMAIN wire' = 1..MaxQueries /\ query.socket \in 1..MaxQueries
          /\ \A s \in 1..MaxQueries : wire'[s] = IF s = query.socket THEN <<>> ELSE wire[s]
      BY <1>m, <1>s, <3>1 DEF Shape, NothingEarly
    <3>3. Shape' /\ NothingEarly'
      BY <1>s, <3>1, <3>2, Empty DEF Shape, NothingEarly
    <3>4. InOrder'
      <4>1. ASSUME Answered, query.count > 0 PROVE FromBuffers(query.got, <<>>, asOf)
        <5>1. FromBuffers(query.got, wire[query.socket], asOf)
          BY <1>s, <4>1 DEF InOrder
        <5> QED BY <1>s, <3>2, <5>1, Cut DEF Shape
      <4> QED BY <1>s, <3>1, <3>2, <4>1 DEF InOrder, Answered, FromCount
    <3>5. Sending'
      <4>1. query'.socket \in closed'
        BY <3>1
      <4> QED BY <1>s, <3>1, <4>1 DEF Sending, Answered, Serving
    <3> QED BY <3>3, <3>4, <3>5 DEF SnapInv
  <2> QED BY <1>p, <2>1, <2>2, <2>3, <2>4, <2>5, <2>6, <2>7, <2>8, <2>9, <2>10 DEF Next, Server, Reader
<1>u. CASE UNCHANGED vars
  <2>1. UNCHANGED <<pub, asOf, server, wire, closed, query>>
    BY <1>u DEF vars
  <2> QED BY <1>s, <2>1, StepElsewhere DEF Shape
<1> QED BY <1>p, <1>u

-----------------------------------------------------------------------------
(* QueryIsSnapshot.                                                         *)

\* When everything has come, the reader makes its copy of the whole list.
LEMMA StoreIsSnapshot ==
    ASSUME SnapInv, StoreBuffers, remote.known
    PROVE  remote'.buffers = CopyOf(asOf)
<1>1. query.phase = "recv" /\ query.count > 0 /\ Len(query.got) = query.count
  BY DEF StoreBuffers, Complete
<1>2. Answered
  BY <1>1 DEF SnapInv, Shape, NothingEarly, Answered
<1>3. query.got = asOf
  BY <1>1, <1>2, SameSeq DEF SnapInv, InOrder, FromBuffers, Shape, IsSeq
<1> DEFINE got == {asOf[i] : i \in DOMAIN asOf}
           at(a) == CHOOSE b \in got : b.addr = a
<1>4. remote'.buffers = [a \in {b.addr : b \in got} |->
                            [length |-> at(a).length, rkeys |-> Reordered(at(a).rkeys)]]
  BY <1>3 DEF StoreBuffers
<1>5. {b.addr : b \in got} = {asOf[i].addr : i \in DOMAIN asOf}
  OBVIOUS
<1> QED BY <1>4, <1>5 DEF CopyOf

LEMMA StepSnapshot ==
    ASSUME SnapInv, [Next]_vars
    PROVE  remote'.buffers # remote.buffers =>
             remote'.buffers = <<>> \/ remote'.buffers = CopyOf(asOf)
<1>1. CASE StoreBuffers
  <2>1. CASE remote.known
    BY <1>1, <2>1, StoreIsSnapshot
  <2>2. CASE ~ remote.known
    BY <1>1, <2>2 DEF StoreBuffers
  <2> QED BY <2>1, <2>2
<1>2. CASE Reconnect
  BY <1>2 DEF Reconnect, NoRemote
<1>3. ASSUME NEW call, UpdateRemoteMemoryInfo(call) PROVE remote'.buffers = remote.buffers
  BY <1>3 DEF UpdateRemoteMemoryInfo
<1>4. CASE QueryRemoteBuffer \/ Receive \/ ReceiveFails \/ Break \/ UNCHANGED vars
  BY <1>4 DEF QueryRemoteBuffer, Receive, ReceiveFails, Break, vars
<1>5. CASE Server
  BY <1>5 DEF Server, AnswerQuery, SendBuffer, EndAnswer
<1>6. ASSUME NEW t \in Threads,
             RegisterNic(t) \/ RegisterFails(t) \/ DeregisterNic(t) \/ UnpublishAllBuffers(t)
               \/ (\E range \in Ranges : BeginRegister(t, range) \/ BeginUnregister(t, range))
               \/ (\E b \in Buffers : PublishBuffer(t, b[1], b[2]))
               \/ (\E a \in Addresses : UnpublishBuffer(t, a))
      PROVE  remote' = remote
  BY <1>6 DEF RegisterNic, RegisterFails, DeregisterNic, UnpublishAllBuffers, BeginRegister,
              BeginUnregister, PublishBuffer, UnpublishBuffer, Elsewhere
<1>7. CASE Publisher \/ ReadGarbled
  BY <1>7 DEF Publisher, ReadRkey, ReadGarbled, Read, FinishPublish, Elsewhere
<1> QED BY <1>1, <1>2, <1>3, <1>4, <1>5, <1>6, <1>7 DEF Next, Reader

\* What a reader holds of an owner's list is nothing or the whole list of one moment
\* of its query, for any number of threads that publish and unpublish meanwhile, any
\* number of buffers, queries and connections, and wherever a connection breaks.
THEOREM QueryAlwaysSnapshot == Spec => QueryIsSnapshot
<1>1. SnapInv /\ [Next]_vars => (remote'.buffers # remote.buffers =>
             remote'.buffers = <<>> \/ remote'.buffers = CopyOf(asOf))
  BY StepSnapshot
<1>2. SnapInv /\ [Next]_vars => [remote'.buffers # remote.buffers =>
             \/ remote'.buffers = <<>>
             \/ remote'.buffers = CopyOf(asOf)]_vars
  BY <1>1
<1>3. OneLock /\ [Next]_vars => OneLock'
  BY StepLock
<1> QED BY <1>2, <1>3, InitSnap, InitLock, StepSnap, PTL DEF Spec, QueryIsSnapshot

-----------------------------------------------------------------------------
(* What is registered.                                                      *)

\* A set of naturals that is not empty has a least member.
LEMMA LeastNatural ==
  ASSUME NEW T, T \subseteq Nat, T # {}
  PROVE  \E x \in T : \A y \in T : x <= y
<1> DEFINE R == {ss \in Nat \X Nat : ss[1] < ss[2]}
<1>1. IsWellFoundedOn(R, Nat)
  BY NatLessThanWellFounded DEF OpToRel
<1> HIDE DEF R
<1>2. \E x \in T : \A y \in T : ~ (<<y, x>> \in R)
  BY <1>1, WFMin
<1>3. PICK x \in T : \A y \in T : ~ (<<y, x>> \in R)
  BY <1>2
<1>4. \A y \in T : ~ (y < x)
  BY <1>3 DEF R
<1> QED BY <1>4

\* What a list holds, and a list that holds nothing twice.
Held(s) == {s[i] : i \in DOMAIN s}
Distinct(s) == \A i, j \in DOMAIN s : s[i] = s[j] => i = j

\* The calls of registerMemory whose registration is open on a NIC, and those of
\* them that were about this piece of memory.
Open(n) == Held(regions[n])
OpenOf(n, range) == {c \in Open(n) : calls[c] = range}

RegionsTyped ==
    /\ calls \in Seq(Ranges) /\ Len(calls) <= MaxRegisters
    /\ regions \in [Nics -> Seq(Nat)]
    /\ \A n \in Nics : Distinct(regions[n]) /\ Open(n) \subseteq 1..Len(calls)

Kinds == {"idle", "register", "rollback", "unregister"}
Op == [kind : Kinds, nic : 0..NumNics, last : 0..NumNics, call : Nat, range : Ranges \cup {<<0, 0>>}]

\* A call under way: it works on NICs up to its last, a rollback not on all of them,
\* and what is being registered is not open yet on the NICs it has still to come to.
UnderWay(o, made, lists) ==
    /\ o.range \in Ranges /\ o.nic \in 1..o.last
    /\ IF o.kind = "rollback" THEN o.last < NumNics ELSE o.last = NumNics
    /\ o.kind = "register" =>
         /\ o.call \in 1..Len(made) /\ made[o.call] = o.range
         /\ \A n \in o.nic..NumNics : o.call \notin Held(lists[n])

\* Two calls under way are about different memory.
OpsApart ==
    /\ op \in [Threads -> Op]
    /\ \A t \in Threads : op[t].kind = "idle" => op[t] = Idle
    /\ \A t \in Threads : op[t].kind # "idle" => UnderWay(op[t], calls, regions)
    /\ \A t, u \in Threads : op[t].range = op[u].range => t = u \/ op[t] = Idle

\* The NICs on which a call under way has, or still has, one registration more.
Ahead(o, n) ==
    \/ o.kind = "register" /\ n < o.nic
    \/ o.kind = "rollback" /\ o.nic <= n /\ n <= o.last
    \/ o.kind = "unregister" /\ o.nic <= n

Extra(n, range) == IF \E t \in Threads : op[t].range = range /\ Ahead(op[t], n) THEN 1 ELSE 0

\* Every NIC has the same number of registrations of a piece of memory, up to the
\* one that a call under way has brought, or will take, NIC by NIC.
Level(range, base) == \A n \in Nics : Cardinality(OpenOf(n, range)) = base + Extra(n, range)
Levels == \A range \in Ranges : \E base \in Nat : Level(range, base)

-----------------------------------------------------------------------------
(* What is published.                                                       *)

\* An rkey is of a registration, made on that NIC, of a piece of memory; or it was read
\* from a list in change.
Fitting(key, n, range, made) ==
    key = <<n, Garbled>> \/ \E c \in 1..Len(made) : key = <<n, c>> /\ made[c] = range

\* An entry is a buffer, and each rkey of it is of the memory the buffer lies in.
Entitled(b, made) ==
    /\ b \in Buffer /\ <<b.addr, b.length>> \in Buffers
    /\ \A n \in Nics : Fitting(b.rkeys[n], n, Home(b.addr), made)

Lawful(list, made) ==
    /\ list \in Seq(Buffer)
    /\ \A i \in 1..Len(list) : Entitled(list[i], made)
    /\ \A i, j \in 1..Len(list) : list[i].addr = list[j].addr => i = j

\* Some rkey published of the memory is one that was read in peace.
Relied(range) ==
    \E i \in 1..Len(pub) : Home(pub[i].addr) = range /\ \E n \in Nics : pub[i].rkeys[n] # <<n, Garbled>>

\* Of memory it was not careless with, the owner has published nothing that a call
\* under way registers or unregisters.
Careful ==
    \A t \in Threads, range \in Ranges :
        op[t].kind # "idle" /\ op[t].range = range /\ range \notin careless => ~ Relied(range)

\* The rkeys of what is published of other memory are open.
OpenKey(key, n, range) == key = <<n, Garbled>> \/ \E c \in OpenOf(n, range) : key = <<n, c>>
StillOpen ==
    \A i \in 1..Len(pub), range \in Ranges : Home(pub[i].addr) = range /\ range \notin careless =>
        \A n \in Nics : OpenKey(pub[i].rkeys[n], n, range)

\* What publishBuffer has read so far, for a buffer that is not published yet: rkeys of
\* its memory, which are open unless a call about that memory was, or is, under way.
Drafted ==
    /\ draft.rkeys \in Seq(Keys) /\ Len(draft.rkeys) <= NumNics
    /\ ~ Publishing => draft = NoDraft
    /\ Publishing =>
         /\ <<draft.addr, draft.length>> \in Buffers
         /\ \A i \in 1..Len(pub) : pub[i].addr # draft.addr
         /\ \A n \in 1..Len(draft.rkeys) : /\ Fitting(draft.rkeys[n], n, Home(draft.addr), calls)
                                           /\ draft.rkeys[n] # NoKey
         /\ ~ draft.raced =>
              /\ \A u \in Threads : op[u].range # Home(draft.addr)
              /\ \A n \in 1..Len(draft.rkeys) : OpenKey(draft.rkeys[n], n, Home(draft.addr))

-----------------------------------------------------------------------------
(* What the reader holds.                                                   *)

\* A buffer in the reader's copy, as StoreBuffers takes it from an entry.
Stored(a, info, made) ==
    /\ <<a, info.length>> \in Buffers
    /\ \A n \in Paired : Fitting(info.rkeys[n], n, Home(a), made)

Remembered ==
    /\ remote = [buffers |-> remote.buffers, endpoint |-> remote.endpoint, known |-> remote.known]
    /\ remote.endpoint \in [Nics -> Keys]
    /\ \A a \in DOMAIN remote.buffers : Stored(a, remote.buffers[a], calls)

Bounded ==
    /\ closed \subseteq 1..MaxQueries
    /\ query.phase \in {"none", "recv", "ok", "error"}
    /\ query.phase # "recv" => query.count = 0

\* What is registered, under way or not; with what is published of it; and with what
\* was answered and read.
OwnerInv == RegionsTyped /\ OpsApart /\ Levels
Watchful ==
    OwnerInv /\ Lawful(pub, calls) /\ Careful /\ StillOpen /\ careless \subseteq Ranges
    /\ OneLock /\ Drafted
DirInv == Watchful /\ Lawful(asOf, calls) /\ Remembered /\ Bounded

-----------------------------------------------------------------------------
(* Lists of registrations.                                                  *)

\* A registration more.
LEMMA HeldAppend ==
    ASSUME NEW S, NEW s \in Seq(S), NEW e \in S
    PROVE  /\ Append(s, e) \in Seq(S) /\ Held(Append(s, e)) = Held(s) \cup {e}
           /\ Distinct(s) /\ e \notin Held(s) => Distinct(Append(s, e))
<1> DEFINE u == Append(s, e)
<1>1. /\ u \in Seq(S) /\ Len(s) \in Nat /\ Len(u) = Len(s) + 1 /\ u[Len(s) + 1] = e
      /\ \A i \in 1..Len(s) : u[i] = s[i]
      /\ DOMAIN s = 1..Len(s) /\ DOMAIN u = 1..Len(u)
  BY AppendProperties
<1> HIDE DEF u
<1>2. \A i \in DOMAIN u : i \in DOMAIN s \/ i = Len(s) + 1
  BY <1>1
<1>3. \A i \in DOMAIN s : i \in DOMAIN u /\ u[i] = s[i]
  BY <1>1
<1>4. Len(s) + 1 \in DOMAIN u
  BY <1>1
<1>5. Held(u) = Held(s) \cup {e}
  BY <1>1, <1>2, <1>3, <1>4 DEF Held
<1>6. ASSUME Distinct(s), e \notin Held(s) PROVE Distinct(u)
  <2> SUFFICES ASSUME NEW i \in DOMAIN u, NEW j \in DOMAIN u, u[i] = u[j] PROVE i = j
    BY DEF Distinct
  <2>1. CASE i \in DOMAIN s /\ j \in DOMAIN s
    BY <1>3, <1>6, <2>1 DEF Distinct
  <2>2. CASE i = Len(s) + 1 /\ j = Len(s) + 1
    BY <2>2
  <2>3. CASE i \in DOMAIN s /\ j = Len(s) + 1
    BY <1>1, <1>3, <1>6, <2>3 DEF Held
  <2>4. CASE i = Len(s) + 1 /\ j \in DOMAIN s
    BY <1>1, <1>3, <1>6, <2>4 DEF Held
  <2> QED BY <1>2, <2>1, <2>2, <2>3, <2>4
<1> QED BY <1>1, <1>5, <1>6 DEF u

\* An element taken out: the others keep their order and move up.
LEMMA TakenOut ==
    ASSUME NEW S, NEW s \in Seq(S), NEW k \in 1..Len(s)
    PROVE  LET u == SubSeq(s, 1, k - 1) \o SubSeq(s, k + 1, Len(s))
           IN  /\ u \in Seq(S) /\ Len(u) = Len(s) - 1
               /\ \A i \in 1..Len(u) : u[i] = s[IF i < k THEN i ELSE i + 1]
<1>1. Len(s) \in Nat
  OBVIOUS
<1> DEFINE v == SubSeq(s, 1, k - 1)
           w == SubSeq(s, k + 1, Len(s))
           u == v \o w
<1>2. /\ v \in Seq(S) /\ Len(v) = k - 1 /\ \A i \in 1..(k - 1) : v[i] = s[i]
  <2>1. v \in Seq(S)
    BY <1>1, SubSeqProperties, ElementOfSeq
  <2>2. Len(v) = k - 1
    BY <1>1, SubSeqProperties
  <2>3. \A i \in 1..(k - 1) : v[i] = s[i]
    BY <1>1, SubSeqProperties
  <2> QED BY <2>1, <2>2, <2>3
<1>3. /\ w \in Seq(S) /\ Len(w) = Len(s) - k /\ \A i \in 1..(Len(s) - k) : w[i] = s[k + i]
  <2>1. w \in Seq(S)
    BY <1>1, SubSeqProperties, ElementOfSeq
  <2>2. Len(w) = Len(s) - k
    BY <1>1, SubSeqProperties
  <2>3. ASSUME NEW i \in 1..(Len(s) - k) PROVE w[i] = s[k + i]
    <3>1. w[i] = s[(k + 1) + i - 1]
      BY <1>1, <2>2, <2>3, SubSeqProperties
    <3>2. (k + 1) + i - 1 = k + i
      BY <2>3, <1>1
    <3> QED BY <3>1, <3>2
  <2> QED BY <2>1, <2>2, <2>3
<1> HIDE DEF v, w
<1>4. /\ u \in Seq(S) /\ Len(u) = Len(v) + Len(w)
      /\ \A i \in 1..Len(u) : u[i] = IF i <= Len(v) THEN v[i] ELSE w[i - Len(v)]
  <2>1. v \in Seq(S) /\ w \in Seq(S)
    BY <1>2, <1>3
  <2>2. u \in Seq(S) /\ Len(u) = Len(v) + Len(w)
    BY <2>1, ConcatProperties
  <2>3. \A i \in 1..(Len(v) + Len(w)) : u[i] = IF i <= Len(v) THEN v[i] ELSE w[i - Len(v)]
    BY <2>1, ConcatProperties
  <2> QED BY <2>2, <2>3
<1> HIDE DEF u
<1>5. ASSUME NEW i \in 1..Len(u) PROVE u[i] = s[IF i < k THEN i ELSE i + 1]
  <2>1. CASE i < k
    <3>1. i <= Len(v) /\ i \in 1..(k - 1)
      BY <1>1, <1>2, <2>1
    <3> QED BY <1>2, <1>4, <2>1, <3>1
  <2>2. CASE ~ i < k
    <3>1. ~ i <= Len(v) /\ i - Len(v) \in 1..(Len(s) - k) /\ k + (i - Len(v)) = i + 1
      BY <1>1, <1>2, <1>3, <1>4, <2>2
    <3> QED BY <1>3, <1>4, <2>2, <3>1
  <2> QED BY <2>1, <2>2
<1>6. Len(u) = Len(s) - 1
  BY <1>1, <1>2, <1>3, <1>4
<1> QED BY <1>4, <1>5, <1>6 DEF u, v, w

LEMMA HeldTakenOut ==
    ASSUME NEW S, NEW s \in Seq(S), NEW k \in 1..Len(s), Distinct(s)
    PROVE  LET u == SubSeq(s, 1, k - 1) \o SubSeq(s, k + 1, Len(s))
           IN  u \in Seq(S) /\ Distinct(u) /\ Held(u) = Held(s) \ {s[k]}
<1> DEFINE u == SubSeq(s, 1, k - 1) \o SubSeq(s, k + 1, Len(s))
           at(i) == IF i < k THEN i ELSE i + 1
<1>1. /\ u \in Seq(S) /\ Len(u) = Len(s) - 1 /\ Len(s) \in Nat
      /\ \A i \in 1..Len(u) : u[i] = s[at(i)]
      /\ DOMAIN u = 1..Len(u) /\ DOMAIN s = 1..Len(s)
  <2>1. u \in Seq(S) /\ Len(u) = Len(s) - 1 /\ \A i \in 1..Len(u) : u[i] = s[at(i)]
    BY TakenOut
  <2> HIDE DEF u
  <2> QED BY <2>1
<1> HIDE DEF u
<1>2. \A i, j \in 1..Len(u) : at(i) \in 1..Len(s) /\ at(i) # k /\ (at(i) = at(j) => i = j)
  BY <1>1
<1>3. Distinct(u)
  BY <1>1, <1>2 DEF Distinct
<1>4. ASSUME NEW j \in 1..Len(s), j # k PROVE \E i \in 1..Len(u) : at(i) = j
  <2>1. CASE j < k
    BY <1>1, <2>1
  <2>2. CASE j > k
    <3>1. j - 1 \in 1..Len(u) /\ ~ j - 1 < k /\ (j - 1) + 1 = j
      BY <1>1, <2>2
    <3> QED BY <3>1
  <2> QED BY <1>4, <2>1, <2>2
<1>5. Held(u) \subseteq Held(s) \ {s[k]}
  BY <1>1, <1>2 DEF Held, Distinct
<1>6. Held(s) \ {s[k]} \subseteq Held(u)
  <2> SUFFICES ASSUME NEW j \in 1..Len(s), s[j] # s[k] PROVE s[j] \in Held(u)
    BY <1>1 DEF Held
  <2>1. PICK i \in 1..Len(u) : at(i) = j
    BY <1>4
  <2> HIDE DEF at
  <2> QED BY <1>1, <2>1 DEF Held
<1> QED BY <1>1, <1>3, <1>5, <1>6 DEF u

\* unregisterMemory takes one registration of the memory from the list, if there is
\* one.
LEMMA WithoutFacts ==
    ASSUME NEW n \in Nics, NEW range, regions[n] \in Seq(Nat), Distinct(regions[n])
    PROVE  /\ Without(n, range) \in Seq(Nat) /\ Distinct(Without(n, range))
           /\ \/ OpenOf(n, range) = {} /\ Without(n, range) = regions[n]
              \/ \E c \in OpenOf(n, range) : Held(Without(n, range)) = Open(n) \ {c}
<1> DEFINE s == regions[n]
           same == {i \in DOMAIN s : calls[s[i]] = range}
           k == CHOOSE i \in same : \A j \in same : i <= j
           u == SubSeq(s, 1, k - 1) \o SubSeq(s, k + 1, Len(s))
<1>0. DOMAIN s = 1..Len(s) /\ Len(s) \in Nat
  OBVIOUS
<1>1. CASE same = {}
  <2>1. Without(n, range) = s
    BY <1>1 DEF Without
  <2>2. OpenOf(n, range) = {}
    BY <1>1 DEF OpenOf, Open, Held
  <2> QED BY <2>1, <2>2
<1>2. CASE same # {}
  <2>1. Without(n, range) = u
    BY <1>2, Zenon DEF Without
  <2>2. same \subseteq Nat /\ same \subseteq 1..Len(s)
    BY <1>0
  <2>3. \E i \in same : \A j \in same : i <= j
    <3> HIDE DEF same
    <3> QED BY <1>2, <2>2, LeastNatural
  <2>4. k \in same
    <3> HIDE DEF same
    <3> QED BY <2>3
  <2>5. k \in 1..Len(s) /\ calls[s[k]] = range
    <3> HIDE DEF k
    <3> QED BY <1>0, <2>4
  <2>6. u \in Seq(Nat) /\ Distinct(u) /\ Held(u) = Held(s) \ {s[k]}
    <3> HIDE DEF k
    <3> QED BY <2>5, HeldTakenOut
  <2>7. s[k] \in OpenOf(n, range)
    <3> HIDE DEF k
    <3> QED BY <1>0, <2>5 DEF OpenOf, Open, Held
  <2>8. Held(Without(n, range)) = Open(n) \ {s[k]}
    <3> HIDE DEF k, u
    <3> QED BY <2>1, <2>6 DEF Open
  <2> HIDE DEF k, u, same
  <2> QED BY <2>1, <2>6, <2>7, <2>8
<1> QED BY <1>1, <1>2

\* There are as many positions in a list as registrations open.
LEMMA CountOpen ==
    ASSUME NEW n \in Nics, RegionsTyped, NEW range
    PROVE  /\ IsFiniteSet(OpenOf(n, range))
           /\ Cardinality({i \in DOMAIN regions[n] : calls[regions[n][i]] = range})
                = Cardinality(OpenOf(n, range))
<1> DEFINE s == regions[n]
           places == {i \in DOMAIN s : calls[s[i]] = range}
           f == [i \in places |-> s[i]]
<1>1. s \in Seq(Nat) /\ DOMAIN s = 1..Len(s) /\ Len(s) \in Nat /\ Distinct(s)
  BY DEF RegionsTyped
<1>2. IsFiniteSet(places)
  <2>1. IsFiniteSet(1..Len(s)) /\ places \subseteq 1..Len(s)
    BY <1>1, FS_Interval
  <2> QED BY <2>1, FS_Subset
<1>3. f \in Bijection(places, OpenOf(n, range))
  <2>1. f \in [places -> OpenOf(n, range)]
    BY DEF OpenOf, Open, Held
  <2>2. \A i, j \in places : f[i] = f[j] => i = j
    BY <1>1 DEF Distinct
  <2>3. \A c \in OpenOf(n, range) : \E i \in places : f[i] = c
    BY DEF OpenOf, Open, Held
  <2> HIDE DEF f, places
  <2> QED BY <2>1, <2>2, <2>3 DEF Bijection, Injection, Surjection, IsInjective
<1> HIDE DEF f, places
<1>4. IsFiniteSet(OpenOf(n, range)) /\ Cardinality(OpenOf(n, range)) = Cardinality(places)
  <2>1. ExistsBijection(places, OpenOf(n, range))
    BY <1>3 DEF ExistsBijection
  <2> QED BY <1>2, <2>1, FS_Bijection
<1> QED BY <1>4 DEF places

-----------------------------------------------------------------------------
(* The memory a buffer lies in.                                             *)

LEMMA InOne ==
    ASSUME NEW a \in Nat, NEW r \in Ranges, NEW s \in Ranges, In(a, r), In(a, s)
    PROVE  r = s
BY RangesAssumption DEF In

LEMMA HomeIs ==
    ASSUME NEW a \in Nat, NEW r \in Ranges, In(a, r)
    PROVE  Home(a) = r
<1>1. \A s \in Ranges : In(a, s) => s = r
  BY InOne
<1> QED BY <1>1 DEF Home

\* Every byte of a buffer has the same home.
LEMMA BufferHome ==
    ASSUME NEW b \in Buffers
    PROVE  /\ b[1] \in Nat /\ b[2] \in Nat \ {0} /\ Home(b[1]) \in Ranges
           /\ \A a \in b[1] .. (b[1] + b[2] - 1) : a \in Nat /\ In(a, Home(b[1])) /\ Home(a) = Home(b[1])
<1>1. PICK r \in Ranges : r[1] <= b[1] /\ b[1] + b[2] <= r[1] + r[2]
  BY BuffersAssumption
<1>2. /\ b[1] \in Nat /\ b[2] \in Nat \ {0} /\ r[1] \in Nat /\ r[2] \in Nat
  BY BuffersAssumption, RangesAssumption
<1>3. \A a \in b[1] .. (b[1] + b[2] - 1) : a \in Nat /\ In(a, r)
  BY <1>1, <1>2 DEF In
<1>4. \A a \in b[1] .. (b[1] + b[2] - 1) : Home(a) = r
  BY <1>3, HomeIs
<1>5. b[1] \in b[1] .. (b[1] + b[2] - 1)
  BY <1>2
<1> QED BY <1>2, <1>3, <1>4, <1>5

\* The memory of what was published: a buffer's address is a buffer's.
LEMMA AddressHome ==
    ASSUME NEW a \in Addresses
    PROVE  a \in Nat /\ Home(a) \in Ranges /\ In(a, Home(a))
<1>1. PICK b \in Buffers : a = b[1]
  BY DEF Addresses
<1>2. b[1] \in b[1] .. (b[1] + b[2] - 1)
  BY BufferHome
<1> QED BY <1>1, <1>2, BufferHome

\* getRkey finds an open registration, on this NIC, of the memory the address is in.
LEMMA GetRkeyFacts ==
    ASSUME RegionsTyped, NEW n \in Nics, NEW a \in Addresses, GetRkey(n, a) # NoKey
    PROVE  \E c \in OpenOf(n, Home(a)) : GetRkey(n, a) = <<n, c>> /\ c \in 1..Len(calls)
<1> DEFINE s == regions[n]
           holds == {i \in DOMAIN s : In(a, calls[s[i]])}
           k == CHOOSE i \in holds : \A j \in holds : i <= j
<1>1. s \in Seq(Nat) /\ DOMAIN s = 1..Len(s) /\ Len(s) \in Nat /\ Open(n) \subseteq 1..Len(calls)
      /\ calls \in Seq(Ranges)
  BY DEF RegionsTyped
<1>2. holds # {} /\ GetRkey(n, a) = <<n, s[k]>>
  BY DEF GetRkey
<1>3. holds \subseteq Nat
  BY <1>1
<1>4. \E i \in holds : \A j \in holds : i <= j
  <2> HIDE DEF holds
  <2> QED BY <1>2, <1>3, LeastNatural
<1>5. k \in holds
  <2> HIDE DEF holds
  <2> QED BY <1>4
<1>6. s[k] \in Open(n) /\ In(a, calls[s[k]])
  <2> HIDE DEF k
  <2> QED BY <1>5 DEF Open, Held
<1> HIDE DEF k, holds
<1>7. s[k] \in 1..Len(calls) /\ calls[s[k]] \in Ranges
  BY <1>1, <1>6
<1>8. calls[s[k]] = Home(a)
  BY <1>6, <1>7, AddressHome, HomeIs
<1> QED BY <1>2, <1>6, <1>7, <1>8 DEF OpenOf

\* What is given for a registration is an rkey, and not 0.
LEMMA KeyGiven ==
    ASSUME RegionsTyped, NEW n \in Nics, NEW c \in 1..Len(calls)
    PROVE  <<n, c>> \in Keys /\ <<n, c>> # NoKey
<1>1. c \in 1..MaxRegisters
  BY BoundsAssumption DEF RegionsTyped
<1>2. c \in 0..MaxRegisters
  BY <1>1, BoundsAssumption
<1> QED BY <1>1, <1>2, NoKeyAssumption DEF Keys

LEMMA KeyGarbled ==
    ASSUME NEW n \in Nics
    PROVE  <<n, Garbled>> \in Keys /\ <<n, Garbled>> # NoKey
BY NoKeyAssumption, BoundsAssumption DEF Keys, Garbled

\* An rkey that getRkey finds fits, and is open.
LEMMA KeyFound ==
    ASSUME RegionsTyped, NEW n \in Nics, NEW a \in Addresses, GetRkey(n, a) # NoKey
    PROVE  /\ GetRkey(n, a) \in Keys /\ Fitting(GetRkey(n, a), n, Home(a), calls)
           /\ OpenKey(GetRkey(n, a), n, Home(a))
<1>1. PICK c \in OpenOf(n, Home(a)) : GetRkey(n, a) = <<n, c>> /\ c \in 1..Len(calls)
  BY GetRkeyFacts
<1>2. calls[c] = Home(a)
  BY DEF OpenOf
<1> QED BY <1>1, <1>2, KeyGiven DEF Fitting, OpenKey

-----------------------------------------------------------------------------
(* The calls and the lists of the NICs, step by step.                       *)

\* Zero is no memory.
LEMMA NoRange == <<0, 0>> \notin Ranges
BY RangesAssumption

\* What a step that registers and unregisters nothing leaves alone.
LEMMA OwnerFrame ==
    ASSUME RegionsTyped, OpsApart, Levels, UNCHANGED <<calls, regions, op>>
    PROVE  RegionsTyped' /\ OpsApart' /\ Levels'
<1>1. calls' = calls /\ regions' = regions /\ op' = op
  OBVIOUS
<1>2. RegionsTyped'
  BY <1>1 DEF RegionsTyped, Open, Held, Distinct
<1>3. OpsApart'
  BY <1>1 DEF OpsApart, UnderWay, Open, Held
<1>4. \A range, n : OpenOf(n, range)' = OpenOf(n, range) /\ Extra(n, range)' = Extra(n, range)
  BY <1>1 DEF OpenOf, Open, Held, Extra, Ahead
<1>5. Levels'
  BY <1>4 DEF Levels, Level
<1> QED BY <1>2, <1>3, <1>5

\* The call that a thread is in is the only one about its memory.
LEMMA ExtraOf ==
    ASSUME OpsApart, NEW t \in Threads, op[t].range \in Ranges, NEW n
    PROVE  Extra(n, op[t].range) = IF Ahead(op[t], n) THEN 1 ELSE 0
<1>1. op[t] # Idle
  BY NoRange DEF Idle
<1>2. ASSUME NEW u \in Threads, op[u].range = op[t].range PROVE u = t
  BY <1>1, <1>2 DEF OpsApart
<1> QED BY <1>2 DEF Extra

LEMMA ExtraNone ==
    ASSUME NEW range, \A t \in Threads : op[t].range # range, NEW n
    PROVE  Extra(n, range) = 0
BY DEF Extra

\* A thread's call goes on: nothing changes for memory that is not its own.
LEMMA ExtraElse ==
    ASSUME OpsApart, NEW t \in Threads, NEW o, op' = [op EXCEPT ![t] = o],
           NEW range \in Ranges, op[t].range # range, o.range # range, NEW n
    PROVE  Extra(n, range)' = Extra(n, range)
BY DEF Extra, OpsApart

LEMMA ExtraMine ==
    ASSUME OpsApart, NEW t \in Threads, NEW o, op' = [op EXCEPT ![t] = o],
           NEW range \in Ranges, \A u \in Threads : u # t => op[u].range # range, NEW n
    PROVE  Extra(n, range)' = IF o.range = range /\ Ahead(o, n) THEN 1 ELSE 0
BY DEF Extra, OpsApart

\* Only one thread's call goes on, to what it may be.
LEMMA OpStep ==
    ASSUME OpsApart, NEW t \in Threads, NEW o \in Op, op' = [op EXCEPT ![t] = o],
           \/ o = Idle
           \/ /\ o.kind # "idle" /\ UnderWay(o, calls', regions')
              /\ \A u \in Threads : u # t => op[u].range # o.range,
           \A u \in Threads : u # t /\ op[u].kind # "idle" => UnderWay(op[u], calls', regions')
    PROVE  OpsApart'
<1>1. op' \in [Threads -> Op] /\ op'[t] = o /\ \A u \in Threads : u # t => op'[u] = op[u]
  BY DEF OpsApart
<1>2. Idle.kind = "idle" /\ Idle.range = <<0, 0>>
  BY DEF Idle
<1>3. \A u \in Threads : op'[u].kind = "idle" => op'[u] = Idle
  BY <1>1, <1>2 DEF OpsApart
<1>4. ASSUME NEW u \in Threads, op'[u].kind # "idle" PROVE UnderWay(op'[u], calls', regions')
  BY <1>1, <1>2, <1>4
<1>5. ASSUME NEW u \in Threads, op[u].range = <<0, 0>> PROVE op[u] = Idle
  BY <1>5, NoRange DEF OpsApart, UnderWay
<1>6. ASSUME NEW u \in Threads, NEW v \in Threads, op'[u].range = op'[v].range, u # v
      PROVE  op'[u] = Idle
  <2>1. CASE u # t /\ v # t
    BY <1>1, <1>6, <2>1 DEF OpsApart
  <2>2. CASE u = t
    BY <1>1, <1>6, <2>2
  <2>3. CASE v = t
    BY <1>1, <1>2, <1>5, <1>6, <2>3
  <2> QED BY <2>1, <2>2, <2>3
<1> QED BY <1>1, <1>3, <1>4, <1>6 DEF OpsApart

\* Memory that no call is about, or that another call is about.
LEMMA OthersUnderWay ==
    ASSUME RegionsTyped, OpsApart, NEW u \in Threads, op[u].kind # "idle",
           \A c \in 1..Len(calls) : c \in 1..Len(calls') /\ calls'[c] = calls[c],
           \A n \in Nics : op[u].kind = "register" /\ op[u].call \in Open(n)' => op[u].call \in Open(n)
    PROVE  UnderWay(op[u], calls', regions')
<1>1. UnderWay(op[u], calls, regions)
  BY DEF OpsApart
<1>2. UnderWay(op[u], calls, regions) => op[u].nic \in Nat \ {0}
  BY DEF UnderWay
<1>3. \A n \in op[u].nic..NumNics : n \in Nics
  BY <1>1, <1>2, NicsAssumption DEF Nics
<1> QED BY <1>1, <1>3 DEF UnderWay, Open

LEMMA OpParts ==
    ASSUME OpsApart, NEW t \in Threads, op[t].kind # "idle"
    PROVE  /\ op[t].nic \in Nics /\ op[t].last \in Nics /\ op[t].nic <= op[t].last
           /\ op[t].range \in Ranges /\ op[t] \in Op
           /\ op[t].kind \in {"register", "rollback", "unregister"}
           /\ op[t].kind # "rollback" => op[t].last = NumNics
           /\ op[t].kind = "rollback" => op[t].last < NumNics
           /\ op[t].kind = "register" =>
                /\ op[t].call \in 1..Len(calls) /\ calls[op[t].call] = op[t].range
                /\ \A n \in op[t].nic..NumNics : op[t].call \notin Open(n)
<1>1. UnderWay(op[t], calls, regions) /\ op[t] \in Op
  BY DEF OpsApart
<1>2. op[t].last \in 0..NumNics /\ op[t].kind \in Kinds
  BY <1>1 DEF Op
<1> QED BY <1>1, <1>2, NicsAssumption DEF UnderWay, Nics, Kinds, Open

LEMMA StepBeginRegister ==
    ASSUME RegionsTyped, OpsApart, Levels, NEW t \in Threads, NEW range \in Ranges, BeginRegister(t, range)
    PROVE  RegionsTyped' /\ OpsApart' /\ Levels'
<1> DEFINE o == [kind |-> "register", nic |-> 1, last |-> NumNics, call |-> Len(calls) + 1, range |-> range]
<1>1. /\ op[t] = Idle /\ \A u \in Threads : op[u].range # range
      /\ Len(calls) < MaxRegisters /\ calls' = Append(calls, range)
      /\ op' = [op EXCEPT ![t] = o] /\ regions' = regions
  BY DEF BeginRegister, Free, Resting
<1>2. /\ calls' \in Seq(Ranges) /\ Len(calls) \in Nat /\ Len(calls') = Len(calls) + 1
      /\ calls'[Len(calls) + 1] = range /\ \A c \in 1..Len(calls) : calls'[c] = calls[c]
  BY <1>1, AppendProperties DEF RegionsTyped
<1>3. \A n \in Nics : Open(n)' = Open(n) /\ Open(n) \subseteq 1..Len(calls)
  BY <1>1 DEF RegionsTyped, Open, Held
<1>4. RegionsTyped'
  <2>1. Len(calls') <= MaxRegisters
    BY <1>1, <1>2, BoundsAssumption
  <2>2. \A n \in Nics : Open(n)' \subseteq 1..Len(calls')
    BY <1>2, <1>3
  <2> QED BY <1>1, <1>2, <2>1, <2>2 DEF RegionsTyped, Distinct
<1>5. ASSUME NEW r, NEW n \in Nics PROVE OpenOf(n, r)' = OpenOf(n, r)
  BY <1>2, <1>3 DEF OpenOf
<1>6. o.kind = "register" /\ o.nic = 1 /\ o.last = NumNics /\ o.call = Len(calls) + 1 /\ o.range = range
  OBVIOUS
<1>7. o \in Op
  BY <1>2, NicsAssumption DEF Op, Kinds
<1> HIDE DEF o
<1>8. UnderWay(o, calls', regions')
  <2>1. \A n \in 1..NumNics : o.call \notin Open(n)'
    BY <1>2, <1>3, <1>6 DEF Nics
  <2>2. \A n \in 1..NumNics : o.call \notin Held(regions'[n])
    BY <2>1 DEF Open
  <2> QED BY <1>2, <1>6, <2>2, NicsAssumption DEF UnderWay
<1>9. OpsApart'
  <2>1. ASSUME NEW u \in Threads, u # t, op[u].kind # "idle" PROVE UnderWay(op[u], calls', regions')
    BY <1>2, <1>3, <2>1, OthersUnderWay
  <2> QED BY <1>1, <1>6, <1>7, <1>8, <2>1, OpStep
<1>10. ASSUME NEW r \in Ranges PROVE \E base \in Nat : Level(r, base)'
  <2>1. PICK base \in Nat : Level(r, base)
    BY DEF Levels
  <2>2. ASSUME NEW n \in Nics PROVE Extra(n, r)' = Extra(n, r)
    <3>1. CASE r = range
      <4>1. Extra(n, r) = 0
        BY <1>1, <3>1, ExtraNone
      <4>2. ~ Ahead(o, n)
        BY <1>6 DEF Ahead, Nics
      <4> QED BY <1>1, <3>1, <4>1, <4>2, ExtraMine
    <3>2. CASE r # range
      <4>1. op[t].range # r
        BY <1>1, NoRange, SMTT(30) DEF Idle
      <4> QED BY <1>1, <1>6, <3>2, <4>1, ExtraElse
    <3> QED BY <3>1, <3>2
  <2>3. Level(r, base)'
    BY <1>5, <2>1, <2>2 DEF Level
  <2> QED BY <2>3
<1> QED BY <1>4, <1>9, <1>10 DEF Levels

\* A step of t's call, which becomes o, leaves other memory alone; and on every NIC it
\* brings or takes what the call's place among them says, with d more at the bottom.
KeepsOthers(range) == \A n \in Nics, r \in Ranges : r # range => OpenOf(n, r)' = OpenOf(n, r)
Shifts(t, o, range, d) ==
    \A n \in Nics, base \in Nat :
        Cardinality(OpenOf(n, range)) = base + (IF Ahead(op[t], n) THEN 1 ELSE 0) =>
        Cardinality(OpenOf(n, range)') = (base + d) + (IF Ahead(o, n) THEN 1 ELSE 0)

LEMMA LevelMoves ==
    ASSUME OpsApart, Levels, NEW t \in Threads, op[t].kind # "idle",
           NEW range \in Ranges, op[t].range = range,
           NEW o, op' = [op EXCEPT ![t] = o], o = Idle \/ o.range = range,
           NEW d \in {0, 1}, KeepsOthers(range), Shifts(t, o, range, d)
    PROVE  Levels'
<1>0. op[t] # Idle /\ ~ (\E n : Ahead(Idle, n)) /\ Idle.range # range
  BY NoRange DEF Idle, Ahead
<1> SUFFICES ASSUME NEW r \in Ranges PROVE \E base \in Nat : Level(r, base)'
  BY DEF Levels
<1>1. PICK base \in Nat : Level(r, base)
  BY DEF Levels
<1>2. CASE r = range
  <2>1. ASSUME NEW n \in Nics PROVE Cardinality(OpenOf(n, r))' = (base + d) + Extra(n, r)'
    <3>1. Extra(n, op[t].range) = IF Ahead(op[t], n) THEN 1 ELSE 0
      BY ExtraOf
    <3>2. Cardinality(OpenOf(n, range)) = base + (IF Ahead(op[t], n) THEN 1 ELSE 0)
      BY <1>1, <1>2, <3>1 DEF Level
    <3>3. Cardinality(OpenOf(n, range)') = (base + d) + (IF Ahead(o, n) THEN 1 ELSE 0)
      BY <3>2 DEF Shifts
    <3>4. \A u \in Threads : u # t => op[u].range # range
      BY <1>0 DEF OpsApart
    <3>5. Extra(n, range)' = IF o.range = range /\ Ahead(o, n) THEN 1 ELSE 0
      BY <3>4, ExtraMine
    <3>6. o.range = range /\ Ahead(o, n) <=> Ahead(o, n)
      BY <1>0
    <3>7. Extra(n, range)' = IF Ahead(o, n) THEN 1 ELSE 0
      BY <3>5, <3>6
    <3> QED BY <1>2, <3>3, <3>7
  <2>2. base + d \in Nat
    OBVIOUS
  <2>3. Level(r, base + d)'
    BY <2>1 DEF Level
  <2> QED BY <2>2, <2>3
<1>3. CASE r # range
  <2>1. ASSUME NEW n \in Nics PROVE Extra(n, r)' = Extra(n, r)
    <3>1. o.range # r
      BY <1>3, NoRange DEF Idle
    <3> QED BY <1>3, <3>1, ExtraElse
  <2>2. Level(r, base)'
    BY <1>1, <1>3, <2>1 DEF Level, KeepsOthers
  <2> QED BY <2>2
<1> QED BY <1>2, <1>3

LEMMA AdvanceTo ==
    ASSUME OpsApart, NEW t \in Threads, op[t].kind # "idle", Advance(t)
    PROVE  \E o \in Op :
             /\ op' = [op EXCEPT ![t] = o]
             /\ \/ op[t].nic = op[t].last /\ o = Idle
                \/ /\ op[t].nic < op[t].last /\ o.nic = op[t].nic + 1
                   /\ o.kind = op[t].kind /\ o.last = op[t].last /\ o.call = op[t].call
                   /\ o.range = op[t].range
<1>1. op[t].nic \in Nics /\ op[t].last \in Nics /\ op[t].nic <= op[t].last /\ op[t] \in Op
  BY OpParts
<1>2. Idle \in Op
  BY NicsAssumption DEF Op, Idle, Kinds
<1>3. CASE op[t].nic >= op[t].last
  <2>1. op' = [op EXCEPT ![t] = Idle]
    BY <1>3 DEF Advance
  <2>2. op[t].nic = op[t].last
    BY <1>1, <1>3 DEF Nics
  <2> QED BY <1>2, <2>1, <2>2
<1>4. CASE ~ op[t].nic >= op[t].last
  <2> DEFINE o == [op[t] EXCEPT !.nic = op[t].nic + 1]
  <2>1. op' = [op EXCEPT ![t] = o]
    BY <1>4 DEF Advance
  <2>2. op[t].nic < op[t].last /\ op[t].nic + 1 \in 0..NumNics
    BY <1>1, <1>4, NicsAssumption DEF Nics
  <2>3. /\ o \in Op /\ o.nic = op[t].nic + 1
        /\ o.kind = op[t].kind /\ o.last = op[t].last /\ o.call = op[t].call
        /\ o.range = op[t].range
    BY <1>1, <2>2 DEF Op
  <2> HIDE DEF o
  <2> QED BY <2>1, <2>2, <2>3
<1> QED BY <1>3, <1>4

LEMMA StepRegisterNic ==
    ASSUME RegionsTyped, OpsApart, Levels, NEW t \in Threads, RegisterNic(t)
    PROVE  /\ RegionsTyped' /\ OpsApart' /\ Levels'
           /\ \A n \in Nics : \A r : OpenOf(n, r) \subseteq OpenOf(n, r)'
           /\ \A n \in Nics : \A r : n # op[t].nic \/ r # op[t].range => OpenOf(n, r)' = OpenOf(n, r)
<1>1. /\ op[t].kind = "register" /\ Advance(t) /\ calls' = calls
      /\ regions' = [regions EXCEPT ![op[t].nic] = Append(regions[op[t].nic], op[t].call)]
  BY DEF RegisterNic
<1>2. /\ op[t].nic \in Nics /\ op[t].last = NumNics /\ op[t].range \in Ranges
      /\ op[t].call \in 1..Len(calls) /\ calls[op[t].call] = op[t].range
      /\ \A n \in op[t].nic..NumNics : op[t].call \notin Open(n)
  BY <1>1, OpParts
<1>3. PICK k, c, range : k = op[t].nic /\ c = op[t].call /\ range = op[t].range
  OBVIOUS
<1>4. /\ k \in Nics /\ c \in 1..Len(calls) /\ calls[c] = range /\ range \in Ranges
      /\ \A n \in k..NumNics : c \notin Open(n)
      /\ regions' = [regions EXCEPT ![k] = Append(regions[k], c)]
  BY <1>1, <1>2, <1>3
<1>5. c \notin Open(k)
  BY <1>4, NicsAssumption DEF Nics
<1>6. c \in Nat
  BY <1>4
<1>7. /\ regions' \in [Nics -> Seq(Nat)] /\ Distinct(regions'[k])
      /\ Open(k)' = Open(k) \cup {c} /\ \A n \in Nics : n # k => regions'[n] = regions[n]
  <2>1. regions[k] \in Seq(Nat) /\ Distinct(regions[k]) /\ regions \in [Nics -> Seq(Nat)]
    BY <1>4 DEF RegionsTyped
  <2>2. /\ Append(regions[k], c) \in Seq(Nat) /\ Held(Append(regions[k], c)) = Held(regions[k]) \cup {c}
        /\ Distinct(Append(regions[k], c))
    BY <1>5, <1>6, <2>1, HeldAppend DEF Open
  <2>3. regions'[k] = Append(regions[k], c) /\ \A n \in Nics : n # k => regions'[n] = regions[n]
    BY <1>4, <2>1
  <2>4. regions' \in [Nics -> Seq(Nat)]
    BY <1>4, <2>1, <2>2
  <2> QED BY <2>2, <2>3, <2>4 DEF Open
<1>8. \A n \in Nics : n # k => Open(n)' = Open(n)
  BY <1>7 DEF Open
<1>9. RegionsTyped'
  <2>1. ASSUME NEW n \in Nics PROVE Distinct(regions'[n]) /\ Open(n)' \subseteq 1..Len(calls)
    BY <1>4, <1>7, <1>8 DEF RegionsTyped
  <2> QED BY <1>1, <1>7, <2>1 DEF RegionsTyped
<1>10. /\ \A n \in Nics : \A r : n # k \/ r # range => OpenOf(n, r)' = OpenOf(n, r)
       /\ OpenOf(k, range)' = OpenOf(k, range) \cup {c} /\ c \notin OpenOf(k, range)
  BY <1>1, <1>4, <1>5, <1>7, <1>8 DEF OpenOf
<1>11. PICK o \in Op :
             /\ op' = [op EXCEPT ![t] = o]
             /\ \/ op[t].nic = op[t].last /\ o = Idle
                \/ /\ op[t].nic < op[t].last /\ o.nic = op[t].nic + 1
                   /\ o.kind = op[t].kind /\ o.last = op[t].last /\ o.call = op[t].call
                   /\ o.range = op[t].range
  BY <1>1, AdvanceTo
<1>12. \/ k = NumNics /\ o = Idle
       \/ /\ k < NumNics /\ o.nic = k + 1 /\ o.kind = "register" /\ o.last = NumNics
          /\ o.call = c /\ o.range = range
  BY <1>1, <1>2, <1>3, <1>11
<1>13. OpsApart'
  <2>1. ASSUME NEW u \in Threads, u # t, op[u].kind # "idle" PROVE UnderWay(op[u], calls', regions')
    <3>1. op[u].range # range
      BY <1>1, <1>3, <2>1 DEF OpsApart, Idle
    <3>2. ASSUME op[u].kind = "register" PROVE op[u].call # c
      BY <1>4, <2>1, <3>1, <3>2, OpParts
    <3> QED BY <1>1, <1>7, <1>8, <2>1, <3>2, OthersUnderWay
  <2>2. CASE o = Idle
    BY <1>11, <2>1, <2>2, OpStep
  <2>3. CASE k < NumNics /\ o.nic = k + 1 /\ o.kind = "register" /\ o.last = NumNics
             /\ o.call = c /\ o.range = range
    <3>1. \A u \in Threads : u # t => op[u].range # range
      BY <1>1, <1>3 DEF OpsApart, Idle
    <3>2. \A n \in (k + 1)..NumNics : c \notin Open(n)'
      BY <1>4, <1>8, NicsAssumption DEF Nics
    <3>3. UnderWay(o, calls', regions')
      BY <1>1, <1>4, <2>3, <3>2, NicsAssumption DEF UnderWay, Nics, Open
    <3> QED BY <1>11, <2>1, <2>3, <3>1, <3>3, OpStep
  <2> QED BY <1>12, <2>2, <2>3
<1>14. Levels'
  <2>0. PICK d \in {0, 1} : d = IF o = Idle THEN 1 ELSE 0
    OBVIOUS
  <2>1. ASSUME NEW n \in Nics, NEW base \in Nat,
               Cardinality(OpenOf(n, range)) = base + (IF Ahead(op[t], n) THEN 1 ELSE 0)
        PROVE  Cardinality(OpenOf(n, range)') = (base + d) + (IF Ahead(o, n) THEN 1 ELSE 0)
    <3>1. Ahead(op[t], n) <=> n < k
      BY <1>1, <1>3 DEF Ahead
    <3>2. Ahead(o, n) <=> o # Idle /\ n < k + 1
      BY <1>12 DEF Ahead, Idle
    <3>3. CASE n = k
      <4>1. IsFiniteSet(OpenOf(n, range))
        BY CountOpen
      <4>2. Cardinality(OpenOf(n, range)') = Cardinality(OpenOf(n, range)) + 1
        BY <1>10, <3>3, <4>1, FS_AddElement
      <4> QED BY <1>4, <2>0, <2>1, <3>1, <3>2, <3>3, <4>2 DEF Nics
    <3>4. CASE n # k
      <4>1. OpenOf(n, range)' = OpenOf(n, range)
        BY <1>10, <3>4
      <4>2. o = Idle => n < k
        BY <1>12, <3>4, NicsAssumption DEF Nics, Idle
      <4>3. n < k <=> n < k + 1
        BY <1>4, <3>4 DEF Nics
      <4> QED BY <2>0, <2>1, <3>1, <3>2, <4>1, <4>2, <4>3
    <3> QED BY <3>3, <3>4
  <2>2. (o = Idle \/ o.range = range) /\ op[t].kind # "idle"
    BY <1>1, <1>12
  <2>3. Shifts(t, o, range, d)
    BY <2>1 DEF Shifts
  <2>4. KeepsOthers(range)
    BY <1>10 DEF KeepsOthers
  <2> QED BY <1>3, <1>4, <1>11, <2>2, <2>3, <2>4, LevelMoves
<1> QED BY <1>3, <1>9, <1>10, <1>13, <1>14

\* The lists of the NICs stay as they are.
LEMMA SameLists ==
    ASSUME RegionsTyped, UNCHANGED <<calls, regions>>
    PROVE  RegionsTyped' /\ \A n, r : OpenOf(n, r)' = OpenOf(n, r)
<1>1. calls' = calls /\ regions' = regions
  OBVIOUS
<1>2. RegionsTyped'
  BY <1>1 DEF RegionsTyped, Open, Held, Distinct
<1>3. \A n, r : OpenOf(n, r)' = OpenOf(n, r)
  BY <1>1 DEF OpenOf, Open, Held
<1> QED BY <1>2, <1>3

LEMMA StepRegisterFails ==
    ASSUME RegionsTyped, OpsApart, Levels, NEW t \in Threads, RegisterFails(t)
    PROVE  RegionsTyped' /\ OpsApart' /\ Levels'
<1>1. /\ op[t].kind = "register" /\ op' = [op EXCEPT ![t] = Rollback(t)]
      /\ calls' = calls /\ regions' = regions
  BY DEF RegisterFails
<1>2. RegionsTyped' /\ \A n, r : OpenOf(n, r)' = OpenOf(n, r)
  BY <1>1, SameLists
<1>3. PICK k, range : k = op[t].nic /\ range = op[t].range
  OBVIOUS
<1>4. /\ k \in Nics /\ range \in Ranges /\ op[t] \in Op
      /\ \A u \in Threads : u # t => op[u].range # range
  BY <1>1, <1>3, OpParts DEF OpsApart, Idle
<1>5. PICK o : o = Rollback(t)
  OBVIOUS
<1>6. \/ k = 1 /\ o = Idle
      \/ k # 1 /\ o = [op[t] EXCEPT !.kind = "rollback", !.nic = 1, !.last = k - 1]
  BY <1>3, <1>5 DEF Rollback
<1>7. \/ k = 1 /\ o = Idle
      \/ k # 1 /\ o.kind = "rollback" /\ o.nic = 1 /\ o.last = k - 1 /\ o.range = range /\ o \in Op
  <2>1. CASE k # 1 /\ o = [op[t] EXCEPT !.kind = "rollback", !.nic = 1, !.last = k - 1]
    <3>1. k - 1 \in 0..NumNics /\ 1 \in 0..NumNics
      BY <1>4, NicsAssumption DEF Nics
    <3> QED BY <1>3, <1>4, <2>1, <3>1 DEF Op, Kinds
  <2> QED BY <1>6, <2>1
<1>8. o \in Op
  BY <1>7, NicsAssumption DEF Op, Idle, Kinds
<1>9. OpsApart'
  <2>1. ASSUME NEW u \in Threads, u # t, op[u].kind # "idle" PROVE UnderWay(op[u], calls', regions')
    BY <1>1, <2>1 DEF OpsApart
  <2>2. CASE k # 1
    <3>1. o.kind # "idle" /\ UnderWay(o, calls', regions')
      BY <1>4, <1>7, <2>2, NicsAssumption DEF UnderWay, Nics
    <3> QED BY <1>1, <1>4, <1>5, <1>7, <1>8, <2>1, <2>2, <3>1, OpStep
  <2>3. CASE k = 1
    BY <1>1, <1>5, <1>7, <1>8, <2>1, <2>3, OpStep
  <2> QED BY <2>2, <2>3
<1>10. Levels'
  <2>1. KeepsOthers(range)
    BY <1>2 DEF KeepsOthers
  <2>2. ASSUME NEW n \in Nics PROVE Ahead(op[t], n) <=> Ahead(o, n)
    <3>1. Ahead(op[t], n) <=> n < k
      BY <1>1, <1>3 DEF Ahead
    <3>2. Ahead(o, n) <=> k # 1 /\ 1 <= n /\ n <= k - 1
      BY <1>7 DEF Ahead, Idle
    <3> QED BY <1>4, <3>1, <3>2 DEF Nics
  <2>3. Shifts(t, o, range, 0)
    BY <1>2, <2>2 DEF Shifts
  <2>4. op[t].kind # "idle" /\ (o = Idle \/ o.range = range) /\ 0 \in {0, 1}
    BY <1>1, <1>7
  <2> QED BY <1>1, <1>3, <1>4, <1>5, <2>1, <2>3, <2>4, LevelMoves
<1> QED BY <1>2, <1>9, <1>10

LEMMA StepBeginUnregister ==
    ASSUME RegionsTyped, OpsApart, Levels, NEW t \in Threads, NEW range \in Ranges, BeginUnregister(t, range)
    PROVE  RegionsTyped' /\ OpsApart' /\ Levels'
<1>1. PICK o : o = [kind |-> "unregister", nic |-> 1, last |-> NumNics, call |-> 0, range |-> range]
  OBVIOUS
<1>2. /\ op[t] = Idle /\ \A u \in Threads : op[u].range # range
      /\ op' = [op EXCEPT ![t] = o] /\ calls' = calls /\ regions' = regions /\ Registered(range)
  BY <1>1 DEF BeginUnregister, Free, Resting
<1>3. RegionsTyped' /\ \A n, r : OpenOf(n, r)' = OpenOf(n, r)
  BY <1>2, SameLists
<1>4. /\ o \in Op /\ o.kind = "unregister" /\ o.nic = 1 /\ o.last = NumNics /\ o.range = range
  BY <1>1, NicsAssumption DEF Op, Kinds
<1>5. OpsApart'
  <2>1. ASSUME NEW u \in Threads, u # t, op[u].kind # "idle" PROVE UnderWay(op[u], calls', regions')
    BY <1>2, <2>1 DEF OpsApart
  <2>2. UnderWay(o, calls', regions')
    BY <1>4, NicsAssumption DEF UnderWay
  <2> QED BY <1>2, <1>4, <2>1, <2>2, OpStep
<1>6. ASSUME NEW r \in Ranges PROVE \E base \in Nat : Level(r, base)'
  <2>1. PICK base \in Nat : Level(r, base)
    BY DEF Levels
  <2>2. CASE r = range
    <3>1. PICK n \in Nics : \E i \in DOMAIN regions[n] : calls[regions[n][i]] = range
      BY <1>2 DEF Registered
    <3>2. OpenOf(n, range) # {}
      BY <3>1 DEF OpenOf, Open, Held
    <3>3. \A m \in Nics : Extra(m, range) = 0
      BY <1>2, ExtraNone
    <3>4. IsFiniteSet(OpenOf(n, range))
      BY CountOpen
    <3>5. Cardinality(OpenOf(n, range)) # 0
      BY <3>2, <3>4, FS_EmptySet
    <3>6. base - 1 \in Nat
      BY <2>1, <2>2, <3>3, <3>5 DEF Level
    <3>7. ASSUME NEW m \in Nics PROVE Cardinality(OpenOf(m, r))' = (base - 1) + Extra(m, r)'
      <4>1. Ahead(o, m)
        BY <1>4 DEF Ahead, Nics
      <4>2. Extra(m, range)' = 1
        BY <1>2, <1>4, <4>1, ExtraMine
      <4>3. Cardinality(OpenOf(m, r)) = base + 0
        BY <2>1, <2>2, <3>3 DEF Level
      <4>4. Cardinality(OpenOf(m, r)') = Cardinality(OpenOf(m, r))
        BY <1>3
      <4> QED BY <2>2, <4>2, <4>3, <4>4
    <3> QED BY <3>6, <3>7 DEF Level
  <2>3. CASE r # range
    <3>1. op[t].range # r
      BY <1>2, NoRange DEF Idle
    <3>2. ASSUME NEW n \in Nics PROVE Extra(n, r)' = Extra(n, r)
      BY <1>2, <1>4, <2>3, <3>1, ExtraElse
    <3>3. Level(r, base)'
      BY <1>3, <2>1, <3>2 DEF Level
    <3> QED BY <3>3
  <2> QED BY <2>2, <2>3
<1> QED BY <1>3, <1>5, <1>6 DEF Levels

LEMMA StepDeregisterNic ==
    ASSUME RegionsTyped, OpsApart, Levels, NEW t \in Threads, DeregisterNic(t)
    PROVE  /\ RegionsTyped' /\ OpsApart' /\ Levels'
           /\ \A n \in Nics : \A r : OpenOf(n, r)' \subseteq OpenOf(n, r)
           /\ \A n \in Nics : \A r : n # op[t].nic \/ r # op[t].range => OpenOf(n, r)' = OpenOf(n, r)
<1>1. /\ op[t].kind \in {"rollback", "unregister"} /\ Advance(t) /\ calls' = calls
      /\ regions' = [regions EXCEPT ![op[t].nic] = Without(op[t].nic, op[t].range)]
  BY DEF DeregisterNic
<1>2. PICK k, last, range : k = op[t].nic /\ last = op[t].last /\ range = op[t].range
  OBVIOUS
<1>3. /\ k \in Nics /\ last \in Nics /\ k <= last /\ range \in Ranges
      /\ op[t].kind = "unregister" => last = NumNics
      /\ op[t].kind = "rollback" => last < NumNics
      /\ \A u \in Threads : u # t => op[u].range # range
  BY <1>1, <1>2, OpParts DEF OpsApart, Idle
<1>4. /\ regions \in [Nics -> Seq(Nat)] /\ regions[k] \in Seq(Nat) /\ Distinct(regions[k])
      /\ regions' = [regions EXCEPT ![k] = Without(k, range)]
  BY <1>1, <1>2, <1>3 DEF RegionsTyped
<1>5. /\ Without(k, range) \in Seq(Nat) /\ Distinct(Without(k, range))
      /\ \/ OpenOf(k, range) = {} /\ Without(k, range) = regions[k]
         \/ \E c \in OpenOf(k, range) : Held(Without(k, range)) = Open(k) \ {c}
  BY <1>3, <1>4, WithoutFacts
<1>6. /\ regions' \in [Nics -> Seq(Nat)] /\ regions'[k] = Without(k, range)
      /\ \A n \in Nics : n # k => regions'[n] = regions[n]
  BY <1>3, <1>4, <1>5
<1>7. \A n \in Nics : n # k => Open(n)' = Open(n)
  BY <1>6 DEF Open
<1>8. Open(k)' = Held(Without(k, range))
  BY <1>6 DEF Open
<1>9. /\ Open(k)' \subseteq Open(k)
      /\ \A r : r # range => OpenOf(k, r)' = OpenOf(k, r)
      /\ \/ OpenOf(k, range) = {}
         \/ \E c \in OpenOf(k, range) : OpenOf(k, range)' = OpenOf(k, range) \ {c}
  <2>1. CASE OpenOf(k, range) = {} /\ Without(k, range) = regions[k]
    <3>1. Open(k)' = Open(k)
      BY <1>8, <2>1 DEF Open
    <3> QED BY <1>1, <2>1, <3>1 DEF OpenOf
  <2>2. ASSUME NEW c \in OpenOf(k, range), Held(Without(k, range)) = Open(k) \ {c}
        PROVE  /\ Open(k)' \subseteq Open(k)
               /\ \A r : r # range => OpenOf(k, r)' = OpenOf(k, r)
               /\ OpenOf(k, range)' = OpenOf(k, range) \ {c}
    BY <1>1, <1>8, <2>2 DEF OpenOf
  <2> QED BY <1>5, <2>1, <2>2
<1>10. /\ \A n \in Nics : Open(n)' \subseteq Open(n)
       /\ \A n \in Nics : \A r : n # k \/ r # range => OpenOf(n, r)' = OpenOf(n, r)
  BY <1>1, <1>7, <1>9 DEF OpenOf
<1>11. \A n \in Nics : \A r : OpenOf(n, r)' \subseteq OpenOf(n, r)
  BY <1>1, <1>10 DEF OpenOf
<1>12. RegionsTyped'
  <2>1. ASSUME NEW n \in Nics PROVE Distinct(regions'[n]) /\ Open(n)' \subseteq 1..Len(calls)
    BY <1>5, <1>6, <1>10 DEF RegionsTyped
  <2> QED BY <1>1, <1>6, <2>1 DEF RegionsTyped
<1>13. PICK o \in Op :
             /\ op' = [op EXCEPT ![t] = o]
             /\ \/ op[t].nic = op[t].last /\ o = Idle
                \/ /\ op[t].nic < op[t].last /\ o.nic = op[t].nic + 1
                   /\ o.kind = op[t].kind /\ o.last = op[t].last /\ o.call = op[t].call
                   /\ o.range = op[t].range
  <2>1. op[t].kind # "idle"
    BY <1>1
  <2> QED BY <1>1, <2>1, AdvanceTo
<1>14. \/ k = last /\ o = Idle
       \/ /\ k < last /\ o.nic = k + 1 /\ o.kind = op[t].kind /\ o.last = last /\ o.range = range
  BY <1>2, <1>13
<1>15. OpsApart'
  <2>1. ASSUME NEW u \in Threads, u # t, op[u].kind # "idle" PROVE UnderWay(op[u], calls', regions')
    <3>1. \A n \in Nics : op[u].call \in Open(n)' => op[u].call \in Open(n)
      BY <1>10
    <3> QED BY <1>1, <2>1, <3>1, OthersUnderWay
  <2>2. CASE o = Idle
    BY <1>13, <2>1, <2>2, OpStep
  <2>3. CASE k < last /\ o.nic = k + 1 /\ o.kind = op[t].kind /\ o.last = last /\ o.range = range
    <3>1. o.kind # "idle" /\ UnderWay(o, calls', regions')
      BY <1>1, <1>3, <2>3, NicsAssumption DEF UnderWay, Nics
    <3> QED BY <1>3, <1>13, <2>1, <2>3, <3>1, OpStep
  <2> QED BY <1>14, <2>2, <2>3
<1>16. Levels'
  <2>1. KeepsOthers(range)
    BY <1>10 DEF KeepsOthers
  <2>2. ASSUME NEW n \in Nics, NEW base \in Nat,
               Cardinality(OpenOf(n, range)) = base + (IF Ahead(op[t], n) THEN 1 ELSE 0)
        PROVE  Cardinality(OpenOf(n, range)') = (base + 0) + (IF Ahead(o, n) THEN 1 ELSE 0)
    <3>1. Ahead(op[t], n) <=> k <= n /\ n <= last
      BY <1>1, <1>2, <1>3 DEF Ahead, Nics
    <3>2. Ahead(o, n) <=> k + 1 <= n /\ n <= last
      BY <1>1, <1>3, <1>14 DEF Ahead, Nics, Idle
    <3>3. CASE n = k
      <4>1. IsFiniteSet(OpenOf(k, range)) /\ Cardinality(OpenOf(k, range)) = base + 1
        <5>1. Ahead(op[t], n)
          BY <1>3, <3>1, <3>3 DEF Nics
        <5>2. Cardinality(OpenOf(n, range)) = base + 1
          BY <2>2, <5>1
        <5>3. IsFiniteSet(OpenOf(n, range))
          BY CountOpen
        <5> QED BY <3>3, <5>2, <5>3
      <4>2. OpenOf(k, range) # {}
        BY <4>1, FS_EmptySet
      <4>3. PICK c \in OpenOf(k, range) : OpenOf(k, range)' = OpenOf(k, range) \ {c}
        BY <1>9, <4>2
      <4>4. Cardinality(OpenOf(k, range) \ {c}) = base
        BY <4>1, FS_RemoveElement
      <4>5. ~ Ahead(o, n)
        BY <1>3, <3>2, <3>3 DEF Nics
      <4> QED BY <3>3, <4>3, <4>4, <4>5
    <3>4. CASE n # k
      <4>1. OpenOf(n, range)' = OpenOf(n, range)
        BY <1>10, <3>4
      <4>2. k <= n <=> k + 1 <= n
        BY <1>3, <3>4 DEF Nics
      <4> QED BY <2>2, <3>1, <3>2, <4>1, <4>2
    <3> QED BY <3>3, <3>4
  <2>3. Shifts(t, o, range, 0)
    BY <2>2 DEF Shifts
  <2>4. op[t].kind # "idle" /\ (o = Idle \/ o.range = range) /\ 0 \in {0, 1}
    BY <1>1, <1>14
  <2> QED BY <1>2, <1>3, <1>13, <2>1, <2>3, <2>4, LevelMoves
<1> QED BY <1>2, <1>10, <1>11, <1>12, <1>15, <1>16

\* The calls that were made stay made.
StillMade == \A c \in 1..Len(calls) : c \in 1..Len(calls') /\ calls'[c] = calls[c]

LEMMA StepOwner ==
    ASSUME OwnerInv, [Next]_vars
    PROVE  OwnerInv' /\ StillMade
<1>0. RegionsTyped /\ OpsApart /\ Levels
  BY DEF OwnerInv
<1>1. CASE UNCHANGED <<calls, regions, op>>
  <2>1. RegionsTyped' /\ OpsApart' /\ Levels'
    BY <1>0, <1>1, OwnerFrame
  <2> QED BY <1>1, <2>1 DEF OwnerInv, StillMade
<1>2. ASSUME NEW t \in Threads, NEW range \in Ranges, BeginRegister(t, range)
      PROVE  OwnerInv' /\ StillMade
  <2>1. calls' = Append(calls, range) /\ calls \in Seq(Ranges)
    BY <1>0, <1>2 DEF BeginRegister, RegionsTyped
  <2>2. StillMade
    BY <2>1, AppendProperties DEF StillMade
  <2> QED BY <1>0, <1>2, <2>2, StepBeginRegister DEF OwnerInv
<1>3. ASSUME NEW t \in Threads, NEW range \in Ranges, BeginUnregister(t, range)
      PROVE  OwnerInv' /\ StillMade
  <2>1. StillMade
    BY <1>3 DEF BeginUnregister, StillMade
  <2> QED BY <1>0, <1>3, <2>1, StepBeginUnregister DEF OwnerInv
<1>4. ASSUME NEW t \in Threads, RegisterNic(t) PROVE OwnerInv' /\ StillMade
  <2>1. StillMade
    BY <1>4 DEF RegisterNic, StillMade
  <2> QED BY <1>0, <1>4, <2>1, StepRegisterNic DEF OwnerInv
<1>5. ASSUME NEW t \in Threads, RegisterFails(t) PROVE OwnerInv' /\ StillMade
  <2>1. StillMade
    BY <1>5 DEF RegisterFails, StillMade
  <2> QED BY <1>0, <1>5, <2>1, StepRegisterFails DEF OwnerInv
<1>6. ASSUME NEW t \in Threads, DeregisterNic(t) PROVE OwnerInv' /\ StillMade
  <2>1. StillMade
    BY <1>6 DEF DeregisterNic, StillMade
  <2> QED BY <1>0, <1>6, <2>1, StepDeregisterNic DEF OwnerInv
<1>7. ASSUME NEW t \in Threads, (\E b \in Buffers : PublishBuffer(t, b[1], b[2]))
                \/ (\E a \in Addresses : UnpublishBuffer(t, a)) \/ UnpublishAllBuffers(t)
      PROVE  UNCHANGED <<calls, regions, op>>
  BY <1>7 DEF PublishBuffer, UnpublishBuffer, UnpublishAllBuffers, owner
<1>9. ASSUME Publisher \/ ReadGarbled PROVE UNCHANGED <<calls, regions, op>>
  BY <1>9 DEF Publisher, ReadRkey, ReadGarbled, Read, FinishPublish, owner
<1>8. ASSUME Server \/ QueryRemoteBuffer \/ Reader \/ Reconnect
                \/ (\E call \in DOMAIN calls : UpdateRemoteMemoryInfo(call)) \/ Break \/ UNCHANGED vars
      PROVE  UNCHANGED <<calls, regions, op>>
  BY <1>8 DEF Server, AnswerQuery, SendBuffer, EndAnswer, QueryRemoteBuffer, Reader, Receive,
              ReceiveFails, StoreBuffers, Reconnect, UpdateRemoteMemoryInfo, Break, Reading, owner, vars
<1> QED BY <1>1, <1>2, <1>3, <1>4, <1>5, <1>6, <1>7, <1>8, <1>9 DEF Next

-----------------------------------------------------------------------------
(* The published list, step by step.                                        *)

LEMMA LawfulLater ==
    ASSUME NEW list, Lawful(list, calls), StillMade
    PROVE  Lawful(list, calls')
<1>1. ASSUME NEW key, NEW n, NEW r, Fitting(key, n, r, calls) PROVE Fitting(key, n, r, calls')
  BY <1>1 DEF Fitting, StillMade
<1> QED BY <1>1 DEF Lawful, Entitled

\* Every entry of the list was in it before, but for its length.
FromPub(list) ==
    \A i \in 1..Len(list) : \E j \in 1..Len(pub) :
        list[i].addr = pub[j].addr /\ list[i].rkeys = pub[j].rkeys

\* A buffer that is published already gets a new length.
LEMMA PublishAgain ==
    ASSUME Lawful(pub, calls), NEW b \in Buffers, NEW i \in Entry(b[1]),
           pub' = [pub EXCEPT ![i].length = b[2]]
    PROVE  Lawful(pub', calls) /\ FromPub(pub')
<1>1. pub \in Seq(Buffer) /\ i \in 1..Len(pub) /\ DOMAIN pub = 1..Len(pub) /\ pub[i].addr = b[1]
      /\ pub[i] \in Buffer
  BY DEF Lawful, Entry
<1>2. b = <<b[1], b[2]>>
  BY BuffersAssumption
<1>3. PICK e : e = [pub[i] EXCEPT !.length = b[2]]
  OBVIOUS
<1>4. e \in Buffer /\ e.addr = b[1] /\ e.length = b[2] /\ e.rkeys = pub[i].rkeys
  BY <1>1, <1>3 DEF Buffer
<1>5. pub' = [pub EXCEPT ![i] = e]
  BY <1>3
<1>6. /\ pub' \in Seq(Buffer) /\ Len(pub') = Len(pub) /\ pub'[i] = e
      /\ \A j \in 1..Len(pub) : j # i => pub'[j] = pub[j]
  BY <1>1, <1>4, <1>5, ExceptSeq
<1>7. \A j \in 1..Len(pub) : pub'[j].addr = pub[j].addr /\ pub'[j].rkeys = pub[j].rkeys
  BY <1>1, <1>4, <1>6
<1>8. Entitled(e, calls)
  <2>1. Entitled(pub[i], calls)
    BY <1>1 DEF Lawful
  <2>2. <<e.addr, e.length>> = b
    BY <1>2, <1>4
  <2> QED BY <1>1, <1>4, <2>1, <2>2, Zenon DEF Entitled
<1>9. Lawful(pub', calls)
  BY <1>6, <1>7, <1>8 DEF Lawful
<1> QED BY <1>6, <1>7, <1>9 DEF FromPub

\* A new buffer has the rkeys that were read for it, NIC after NIC.
LEMMA PublishNew ==
    ASSUME RegionsTyped, Lawful(pub, calls), Drafted, FinishPublish
    PROVE  /\ Lawful(pub', calls) /\ Len(pub') = Len(pub) + 1 /\ Len(pub) \in Nat
           /\ \A i \in 1..Len(pub) : pub'[i] = pub[i]
           /\ pub'[Len(pub) + 1].addr = draft.addr /\ pub'[Len(pub) + 1].rkeys = draft.rkeys
<1>1. PICK e : e = [addr |-> draft.addr, length |-> draft.length, rkeys |-> draft.rkeys]
  OBVIOUS
<1>2. /\ Publishing /\ Len(draft.rkeys) = NumNics /\ pub' = Append(pub, e)
      /\ draft.rkeys \in Seq(Keys) /\ NumNics \in Nat
  BY <1>1, NicsAssumption DEF FinishPublish, Drafted
<1>3. /\ <<draft.addr, draft.length>> \in Buffers
      /\ \A i \in 1..Len(pub) : pub[i].addr # draft.addr
      /\ \A n \in 1..Len(draft.rkeys) : Fitting(draft.rkeys[n], n, Home(draft.addr), calls)
  BY <1>2 DEF Drafted
<1>4. draft.addr \in Addresses /\ draft.length \in {x[2] : x \in Buffers}
  <2>1. PICK x \in Buffers : x = <<draft.addr, draft.length>>
    BY <1>3
  <2>2. x[1] = draft.addr /\ x[2] = draft.length
    BY <2>1
  <2> QED BY <2>2 DEF Addresses
<1>5. draft.rkeys \in [Nics -> Keys]
  BY <1>2 DEF Nics
<1>6. e \in Buffer /\ e.addr = draft.addr /\ e.length = draft.length /\ e.rkeys = draft.rkeys
  BY <1>1, <1>4, <1>5 DEF Buffer
<1>7. Entitled(e, calls)
  <2>1. \A n \in Nics : Fitting(e.rkeys[n], n, Home(e.addr), calls)
    BY <1>2, <1>3, <1>6 DEF Nics
  <2> QED BY <1>3, <1>6, <2>1 DEF Entitled
<1>8. /\ pub' \in Seq(Buffer) /\ Len(pub) \in Nat /\ Len(pub') = Len(pub) + 1 /\ pub'[Len(pub) + 1] = e
      /\ \A i \in 1..Len(pub) : pub'[i] = pub[i]
  BY <1>2, <1>6, AppendProperties DEF Lawful
<1>9. Lawful(pub', calls)
  <2>1. \A i \in 1..Len(pub') : i \in 1..Len(pub) \/ i = Len(pub) + 1
    BY <1>8
  <2>2. \A i \in 1..Len(pub') : Entitled(pub'[i], calls)
    BY <1>7, <1>8, <2>1 DEF Lawful
  <2>3. \A i, j \in 1..Len(pub') : pub'[i].addr = pub'[j].addr => i = j
    BY <1>3, <1>6, <1>8, <2>1 DEF Lawful
  <2> QED BY <1>8, <2>2, <2>3 DEF Lawful
<1> QED BY <1>6, <1>8, <1>9

LEMMA Unpublished ==
    ASSUME Lawful(pub, calls), NEW i \in 1..Len(pub),
           pub' = SubSeq(pub, 1, i - 1) \o SubSeq(pub, i + 1, Len(pub))
    PROVE  Lawful(pub', calls) /\ FromPub(pub')
<1> DEFINE at(j) == IF j < i THEN j ELSE j + 1
<1>1. pub \in Seq(Buffer) /\ Len(pub) \in Nat
  BY DEF Lawful
<1>2. /\ pub' \in Seq(Buffer) /\ Len(pub') = Len(pub) - 1
      /\ \A j \in 1..Len(pub') : pub'[j] = pub[at(j)]
  BY <1>1, TakenOut
<1>3. \A j, k \in 1..Len(pub') : at(j) \in 1..Len(pub) /\ (at(j) = at(k) => j = k)
  <2>1. PICK l \in Nat : l = Len(pub) /\ i \in 1..l
    BY <1>1
  <2>2. \A j, k \in 1..(l - 1) : at(j) \in 1..l /\ (at(j) = at(k) => j = k)
    BY <2>1
  <2> QED BY <1>2, <2>1, <2>2
<1> HIDE DEF at
<1>4. Lawful(pub', calls)
  <2>1. \A j \in 1..Len(pub') : Entitled(pub'[j], calls)
    BY <1>2, <1>3 DEF Lawful
  <2>2. ASSUME NEW j \in 1..Len(pub'), NEW k \in 1..Len(pub'), pub'[j].addr = pub'[k].addr PROVE j = k
    <3>1. pub[at(j)].addr = pub[at(k)].addr /\ at(j) \in 1..Len(pub) /\ at(k) \in 1..Len(pub)
      BY <1>2, <1>3, <2>2
    <3>2. at(j) = at(k)
      BY <3>1 DEF Lawful
    <3> QED BY <1>3, <3>2
  <2> QED BY <1>2, <2>1, <2>2 DEF Lawful
<1> QED BY <1>2, <1>3, <1>4 DEF FromPub

-----------------------------------------------------------------------------
(* Careful and StillOpen, step by step.                                     *)

\* No entry is new, nothing that is open was closed, and nobody became careful again.
LEMMA OpenFrame ==
    ASSUME StillOpen, Lawful(pub, calls), IsSeq(pub'), FromPub(pub'), careless \subseteq careless',
           \A n \in Nics : \A range : Relied(range) /\ range \notin careless =>
               OpenOf(n, range) \subseteq OpenOf(n, range)'
    PROVE  StillOpen' /\ \A range : Relied(range)' => Relied(range)
<1>1. ASSUME NEW i \in 1..Len(pub')
      PROVE  \E j \in 1..Len(pub) : Home(pub'[i].addr) = Home(pub[j].addr) /\ pub'[i].rkeys = pub[j].rkeys
  BY DEF FromPub
<1>2. ASSUME NEW range, Relied(range)' PROVE Relied(range)
  <2>1. PICK i \in 1..Len(pub') :
           Home(pub'[i].addr) = range /\ \E n \in Nics : pub'[i].rkeys[n] # <<n, Garbled>>
    BY <1>2 DEF Relied
  <2>2. PICK j \in 1..Len(pub) : Home(pub'[i].addr) = Home(pub[j].addr) /\ pub'[i].rkeys = pub[j].rkeys
    BY <1>1
  <2> QED BY <2>1, <2>2 DEF Relied
<1>3. ASSUME NEW i \in 1..Len(pub'), NEW range \in Ranges, Home(pub'[i].addr) = range,
             range \notin careless', NEW n \in Nics, pub'[i].rkeys[n] # <<n, Garbled>>
      PROVE  \E c \in OpenOf(n, range)' : pub'[i].rkeys[n] = <<n, c>>
  <2>1. PICK j \in 1..Len(pub) : Home(pub'[i].addr) = Home(pub[j].addr) /\ pub'[i].rkeys = pub[j].rkeys
    BY <1>1
  <2>2. range \notin careless /\ Home(pub[j].addr) = range
    BY <1>3, <2>1
  <2>3. Relied(range)
    BY <1>3, <2>1, <2>2 DEF Relied
  <2>4. PICK c \in OpenOf(n, range) : pub[j].rkeys[n] = <<n, c>>
    BY <1>3, <2>1, <2>2 DEF StillOpen, OpenKey
  <2>5. c \in OpenOf(n, range)'
    BY <2>2, <2>3
  <2> QED BY <2>1, <2>4, <2>5
<1>4. StillOpen'
  BY <1>3 DEF StillOpen, OpenKey
<1> QED BY <1>2, <1>4

\* registerMemory begins, with memory that is registered nowhere, or carelessly.
LEMMA CarefulRegister ==
    ASSUME Watchful, NEW t \in Threads, NEW range \in Ranges, BeginRegister(t, range)
    PROVE  /\ Careful' /\ StillOpen'
           /\ \A n \in Nics : \A r : OpenOf(n, r)' = OpenOf(n, r)
<1>1. /\ op[t] = Idle /\ pub' = pub /\ calls' = Append(calls, range) /\ regions' = regions
      /\ op' = [op EXCEPT ![t] = [kind |-> "register", nic |-> 1, last |-> NumNics,
                                call |-> Len(calls) + 1, range |-> range]]
      /\ careless' = IF Registered(range) THEN careless \cup {range} ELSE careless
  BY DEF BeginRegister, Free, Resting, directory
<1>2. /\ RegionsTyped /\ op \in [Threads -> Op] /\ Lawful(pub, calls) /\ StillOpen /\ Careful
  BY DEF Watchful, OwnerInv, OpsApart
<1>3. \A n \in Nics : \A r : OpenOf(n, r)' = OpenOf(n, r)
  <2>1. \A c \in 1..Len(calls) : calls'[c] = calls[c]
    BY <1>1, <1>2, AppendProperties DEF RegionsTyped
  <2>2. \A n \in Nics : Open(n)' = Open(n) /\ Open(n) \subseteq 1..Len(calls)
    BY <1>1, <1>2 DEF RegionsTyped, Open, Held
  <2> QED BY <2>1, <2>2 DEF OpenOf
<1>4. FromPub(pub') /\ IsSeq(pub')
  BY <1>1, <1>2 DEF FromPub, Lawful, IsSeq
<1>5. careless \subseteq careless'
  BY <1>1
<1>6. StillOpen' /\ \A r : Relied(r)' => Relied(r)
  BY <1>2, <1>3, <1>4, <1>5, OpenFrame
<1>7. ASSUME NEW u \in Threads, NEW r \in Ranges, op'[u].kind # "idle", op'[u].range = r, r \notin careless'
      PROVE  ~ Relied(r)'
  <2>1. CASE u = t
    <3>1. r = range /\ ~ Registered(range) /\ range \notin careless
      BY <1>1, <1>2, <1>7, <2>1
    <3>2. \A n \in Nics : OpenOf(n, range) = {}
      BY <3>1 DEF Registered, OpenOf, Open, Held
    <3>3. ~ Relied(range)
      <4>1. SUFFICES ASSUME Relied(range) PROVE FALSE
        OBVIOUS
      <4>2. PICK i \in 1..Len(pub) :
               Home(pub[i].addr) = range /\ \E n \in Nics : pub[i].rkeys[n] # <<n, Garbled>>
        BY <4>1 DEF Relied
      <4>3. PICK n \in Nics : pub[i].rkeys[n] # <<n, Garbled>>
        BY <4>2
      <4>4. \E c \in OpenOf(n, range) : pub[i].rkeys[n] = <<n, c>>
        BY <1>2, <3>1, <4>2, <4>3 DEF StillOpen, OpenKey
      <4> QED BY <3>2, <4>4
    <3> QED BY <1>6, <3>1, <3>3
  <2>2. CASE u # t
    <3>1. op'[u] = op[u] /\ r \notin careless
      BY <1>1, <1>2, <1>5, <1>7, <2>2
    <3> QED BY <1>2, <1>6, <1>7, <3>1 DEF Careful
  <2> QED BY <2>1, <2>2
<1>8. Careful'
  BY <1>7 DEF Careful
<1> QED BY <1>3, <1>6, <1>8

\* A step of t's call, about range, which becomes o, leaves the other memory alone, and
\* Careful holds of o.
Continued(t, o, range) ==
    /\ op' = [op EXCEPT ![t] = o] /\ careless \subseteq careless'
    /\ \A r : Relied(r)' => Relied(r)
    /\ o = Idle \/ o.range = range
    /\ range \notin careless' /\ o # Idle => ~ Relied(range)

LEMMA CarefulMine ==
    ASSUME Watchful, NEW t \in Threads, NEW o, NEW range, Continued(t, o, range)
    PROVE  Careful'
<1>0. op \in [Threads -> Op] /\ Careful
  BY DEF Watchful, OwnerInv, OpsApart
<1>1. ASSUME NEW u \in Threads, NEW r \in Ranges, op'[u].kind # "idle", op'[u].range = r, r \notin careless'
      PROVE  ~ Relied(r)'
  <2>1. CASE u = t
    <3>1. op'[u] = o /\ o # Idle /\ r = range
      BY <1>0, <1>1, <2>1 DEF Idle, Continued
    <3> QED BY <1>1, <3>1 DEF Continued
  <2>2. CASE u # t
    <3>1. op'[u] = op[u] /\ r \notin careless
      BY <1>0, <1>1, <2>2 DEF Continued
    <3> QED BY <1>0, <1>1, <3>1 DEF Careful, Continued
  <2> QED BY <2>1, <2>2
<1> QED BY <1>1 DEF Careful

LEMMA SamePub ==
    ASSUME Watchful, pub' = pub
    PROVE  FromPub(pub') /\ IsSeq(pub')
BY DEF Watchful, FromPub, Lawful, IsSeq

\* A step of a call leaves the lists alone but for its own memory on one NIC.
LEMMA OthersOpen ==
    ASSUME Watchful, NEW t \in Threads, RegisterNic(t) \/ RegisterFails(t) \/ DeregisterNic(t)
    PROVE  /\ pub' = pub /\ careless' = careless /\ op[t].kind # "idle" /\ op[t].range \in Ranges
           /\ \A n \in Nics : \A r : r # op[t].range => OpenOf(n, r)' = OpenOf(n, r)
           /\ \E o : op' = [op EXCEPT ![t] = o] /\ (o = Idle \/ o.range = op[t].range)
<1>0. RegionsTyped /\ OpsApart /\ Levels
  BY DEF Watchful, OwnerInv
<1>1. pub' = pub /\ careless' = careless /\ op[t].kind # "idle"
  BY DEF RegisterNic, RegisterFails, DeregisterNic, directory
<1>2. op[t].range \in Ranges /\ op[t] \in Op
  BY <1>0, <1>1, OpParts
<1>3. CASE RegisterFails(t)
  <2>1. /\ op' = [op EXCEPT ![t] = Rollback(t)] /\ calls' = calls /\ regions' = regions
    BY <1>3 DEF RegisterFails
  <2>2. \A n, r : OpenOf(n, r)' = OpenOf(n, r)
    BY <1>0, <2>1, SameLists
  <2>3. Rollback(t) = Idle \/ Rollback(t).range = op[t].range
    BY <1>2 DEF Rollback, Op
  <2> QED BY <1>1, <1>2, <2>1, <2>2, <2>3
<1>4. CASE RegisterNic(t)
  <2>1. \A n \in Nics : \A r : n # op[t].nic \/ r # op[t].range => OpenOf(n, r)' = OpenOf(n, r)
    BY <1>0, <1>4, StepRegisterNic
  <2>2. \E o : op' = [op EXCEPT ![t] = o] /\ (o = Idle \/ o.range = op[t].range)
    BY <1>0, <1>1, <1>4, AdvanceTo DEF RegisterNic
  <2> QED BY <1>1, <1>2, <2>1, <2>2
<1>5. CASE DeregisterNic(t)
  <2>1. \A n \in Nics : \A r : n # op[t].nic \/ r # op[t].range => OpenOf(n, r)' = OpenOf(n, r)
    BY <1>0, <1>5, StepDeregisterNic
  <2>2. \E o : op' = [op EXCEPT ![t] = o] /\ (o = Idle \/ o.range = op[t].range)
    BY <1>0, <1>1, <1>5, AdvanceTo DEF DeregisterNic
  <2> QED BY <1>1, <1>2, <2>1, <2>2
<1> QED BY <1>3, <1>4, <1>5

LEMMA CarefulOwner ==
    ASSUME Watchful, NEW t \in Threads,
           RegisterNic(t) \/ RegisterFails(t) \/ DeregisterNic(t)
             \/ (\E range \in Ranges : BeginUnregister(t, range))
    PROVE  Careful' /\ StillOpen'
<1>0. RegionsTyped /\ Lawful(pub, calls) /\ StillOpen /\ Careful
  BY DEF Watchful, OwnerInv
<1>1. CASE RegisterNic(t) \/ RegisterFails(t) \/ DeregisterNic(t)
  <2>1. PICK range, o :
           /\ range = op[t].range /\ range \in Ranges /\ op[t].kind # "idle"
           /\ op' = [op EXCEPT ![t] = o] /\ (o = Idle \/ o.range = range)
    BY <1>1, OthersOpen
  <2>2. /\ pub' = pub /\ careless' = careless
        /\ \A n \in Nics : \A r : r # range => OpenOf(n, r)' = OpenOf(n, r)
    BY <1>1, <2>1, OthersOpen
  <2>3. range \notin careless => ~ Relied(range)
    BY <1>0, <2>1 DEF Careful
  <2>4. \A n \in Nics : \A r : Relied(r) /\ r \notin careless => OpenOf(n, r) \subseteq OpenOf(n, r)'
    BY <2>2, <2>3
  <2>5. FromPub(pub') /\ IsSeq(pub')
    BY <2>2, SamePub
  <2>6. StillOpen' /\ \A r : Relied(r)' => Relied(r)
    BY <1>0, <2>2, <2>4, <2>5, OpenFrame
  <2>7. Continued(t, o, range)
    BY <2>1, <2>2, <2>3, <2>6 DEF Continued
  <2> QED BY <2>6, <2>7, CarefulMine
<1>5. ASSUME NEW range \in Ranges, BeginUnregister(t, range) PROVE Careful' /\ StillOpen'
  <2>1. PICK o : o = [kind |-> "unregister", nic |-> 1, last |-> NumNics, call |-> 0, range |-> range]
    OBVIOUS
  <2>2. /\ op' = [op EXCEPT ![t] = o] /\ calls' = calls /\ regions' = regions /\ pub' = pub
        /\ careless' = IF Published(range) THEN careless \cup {range} ELSE careless
    BY <1>5, <2>1 DEF BeginUnregister, directory
  <2>3. \A n, r : OpenOf(n, r)' = OpenOf(n, r)
    BY <1>0, <2>2, SameLists
  <2>4. careless \subseteq careless' /\ FromPub(pub') /\ IsSeq(pub')
    BY <2>2, SamePub
  <2>5. StillOpen' /\ \A r : Relied(r)' => Relied(r)
    BY <1>0, <2>3, <2>4, OpenFrame
  <2>6. range \notin careless' => ~ Relied(range)
    <3>1. DOMAIN pub = 1..Len(pub)
      BY <1>0 DEF Lawful
    <3> QED BY <2>2, <3>1 DEF Relied, Published
  <2>7. o.range = range
    BY <2>1
  <2>20. Continued(t, o, range)
    BY <2>2, <2>4, <2>5, <2>6, <2>7 DEF Continued
  <2> QED BY <2>5, <2>20, CarefulMine
<1> QED BY <1>1, <1>5

\* No call goes on, and what is under way gets no new entry.
LEMMA CarefulSame ==
    ASSUME Watchful, UNCHANGED op, careless \subseteq careless',
           \A u \in Threads, r \in Ranges :
               op[u].kind # "idle" /\ op[u].range = r /\ r \notin careless' =>
                   (Relied(r)' => Relied(r))
    PROVE  Careful'
<1>0. Careful /\ op' = op
  BY DEF Watchful
<1>2. ASSUME NEW u \in Threads, NEW r \in Ranges, op'[u].kind # "idle", op'[u].range = r, r \notin careless'
      PROVE  ~ Relied(r)'
  <2>1. op[u].kind # "idle" /\ op[u].range = r /\ r \notin careless
    BY <1>0, <1>2
  <2> QED BY <1>0, <1>2, <2>1 DEF Careful
<1> QED BY <1>2 DEF Careful

-----------------------------------------------------------------------------
(* publishBuffer, NIC after NIC.                                            *)

LEMMA NoneDrafted == ASSUME draft' = NoDraft PROVE Drafted'
<1>1. draft'.rkeys = <<>> /\ draft'.by = {}
  BY DEF NoDraft
<1>2. <<>> \in Seq(Keys) /\ Len(<<>>) = 0 /\ NumNics \in Nat
  BY Empty, NicsAssumption
<1>3. ~ Publishing'
  BY <1>1 DEF Publishing
<1> QED BY <1>1, <1>2, <1>3, NicsAssumption DEF Drafted

\* The memory of the buffer that is being published.
LEMMA DraftHome ==
    ASSUME Drafted, Publishing
    PROVE  /\ draft.addr \in Addresses /\ Home(draft.addr) \in Ranges
<1>1. PICK b \in Buffers : b = <<draft.addr, draft.length>>
  BY DEF Drafted
<1>2. b[1] = draft.addr
  BY <1>1
<1>3. draft.addr \in Addresses
  BY <1>2 DEF Addresses
<1> QED BY <1>3, AddressHome

\* What has been read stays what it is: no call about the memory begins unnoticed, and
\* what the calls about other memory do is not about this buffer.
LEMMA DraftFrame ==
    ASSUME Drafted, OneLock, StillMade, pub' = pub,
           \/ draft' = draft
           \/ Publishing /\ draft' = [draft EXCEPT !.raced = TRUE],
           NEW home, home = Home(draft.addr),
           Publishing /\ ~ draft'.raced /\ (\A u \in Threads : op[u].range # home) =>
               /\ \A u \in Threads : op'[u].range # home
               /\ \A n \in Nics : OpenOf(n, home)' = OpenOf(n, home)
    PROVE  Drafted'
<1>1. PICK r : draft' = [by |-> draft.by, addr |-> draft.addr, length |-> draft.length,
                         rkeys |-> draft.rkeys, raced |-> r] /\ (~ r => ~ draft.raced)
  BY DEF OneLock
<1>2. /\ draft'.by = draft.by /\ draft'.addr = draft.addr /\ draft'.length = draft.length
      /\ draft'.rkeys = draft.rkeys /\ (~ draft'.raced => ~ draft.raced)
  BY <1>1
<1>3. CASE ~ Publishing
  <2>1. draft' = NoDraft
    BY <1>3 DEF Drafted
  <2> QED BY <2>1, NoneDrafted
<1>4. CASE Publishing
  <2>2. /\ draft.rkeys \in Seq(Keys) /\ Len(draft.rkeys) <= NumNics
        /\ <<draft.addr, draft.length>> \in Buffers
        /\ \A i \in 1..Len(pub) : pub[i].addr # draft.addr
        /\ \A n \in 1..Len(draft.rkeys) : Fitting(draft.rkeys[n], n, home, calls) /\ draft.rkeys[n] # NoKey
    BY <1>4 DEF Drafted
  <2>3. \A n \in 1..Len(draft.rkeys) : Fitting(draft.rkeys[n], n, home, calls')
    BY <2>2 DEF Fitting, StillMade
  <2>4. ASSUME ~ draft'.raced
        PROVE  /\ \A u \in Threads : op'[u].range # home
               /\ \A n \in 1..Len(draft.rkeys) :
                      draft.rkeys[n] = <<n, Garbled>> \/ \E c \in OpenOf(n, home)' : draft.rkeys[n] = <<n, c>>
    <3>1. /\ \A u \in Threads : op[u].range # home
          /\ \A n \in 1..Len(draft.rkeys) : OpenKey(draft.rkeys[n], n, home)
      BY <1>2, <1>4, <2>4 DEF Drafted
    <3>2. /\ \A u \in Threads : op'[u].range # home
          /\ \A n \in Nics : OpenOf(n, home)' = OpenOf(n, home)
      BY <1>4, <2>4, <3>1
    <3>3. \A n \in 1..Len(draft.rkeys) : n \in Nics
      BY <2>2, NicsAssumption DEF Nics
    <3> QED BY <3>1, <3>2, <3>3 DEF OpenKey
  <2>5. Publishing' /\ Home(draft'.addr) = home
    BY <1>2, <1>4 DEF Publishing
  <2> QED BY <1>2, <2>2, <2>3, <2>4, <2>5 DEF Drafted, OpenKey
<1> QED BY <1>3, <1>4

\* The rkey of the next NIC.
LEMMA DraftRead ==
    ASSUME Drafted, OneLock, RegionsTyped, ReadRkey \/ ReadGarbled
    PROVE  Drafted'
<1>1. /\ Publishing /\ Len(draft.rkeys) < NumNics /\ draft.rkeys \in Seq(Keys) /\ Len(draft.rkeys) \in Nat
      /\ UNCHANGED <<calls, regions, op, pub>>
  BY DEF Drafted, ReadRkey, ReadGarbled, Read, owner, directory
<1>2. PICK nic, home : nic = Len(draft.rkeys) + 1 /\ home = Home(draft.addr)
  OBVIOUS
<1>3. nic \in Nics /\ draft.addr \in Addresses
  BY <1>1, <1>2, NicsAssumption, DraftHome DEF Nics
<1>4. PICK key : /\ key = GetRkey(nic, draft.addr) \/ key = <<nic, Garbled>> \/ key = NoKey
                 /\ \/ key = NoKey /\ draft' = NoDraft
                    \/ key # NoKey /\ draft' = [draft EXCEPT !.rkeys = Append(@, key)]
  BY <1>2 DEF ReadRkey, ReadGarbled, Read, Unregistered
<1>5. CASE key = NoKey
  BY <1>4, <1>5, NoneDrafted
<1>6. CASE key # NoKey
  <2>1. key \in Keys /\ Fitting(key, nic, home, calls) /\ OpenKey(key, nic, home)
    <3>1. CASE key = <<nic, Garbled>>
      BY <1>3, <3>1, KeyGarbled DEF Fitting, OpenKey
    <3>2. CASE key = GetRkey(nic, draft.addr)
      BY <1>2, <1>3, <1>6, <3>2, KeyFound
    <3> QED BY <1>4, <1>6, <3>1, <3>2
  <2>2. PICK more : more = Append(draft.rkeys, key)
    OBVIOUS
  <2>3. /\ more \in Seq(Keys) /\ Len(more) = nic /\ more[nic] = key
        /\ \A n \in 1..Len(draft.rkeys) : more[n] = draft.rkeys[n]
    BY <1>1, <1>2, <2>1, <2>2, AppendProperties
  <2>4. draft' = [by |-> draft.by, addr |-> draft.addr, length |-> draft.length,
                  rkeys |-> more, raced |-> draft.raced]
    BY <1>4, <1>6, <2>2 DEF OneLock
  <2>5. /\ draft'.by = draft.by /\ draft'.addr = draft.addr /\ draft'.length = draft.length
        /\ draft'.rkeys = more /\ draft'.raced = draft.raced
    BY <2>4
  <2>6. \A n \in 1..Len(more) : n \in 1..Len(draft.rkeys) \/ n = nic
    BY <1>1, <1>2, <2>3
  <2>7. \A n \in 1..Len(more) : Fitting(more[n], n, home, calls) /\ more[n] # NoKey
    BY <1>1, <1>2, <1>6, <2>1, <2>3, <2>6 DEF Drafted
  <2>8. ~ draft.raced => /\ \A u \in Threads : op[u].range # home
                         /\ \A n \in 1..Len(more) : OpenKey(more[n], n, home)
    BY <1>1, <1>2, <2>1, <2>3, <2>6 DEF Drafted
  <2>9. \A n : OpenOf(n, home)' = OpenOf(n, home)
    BY <1>1, SameLists
  <2>10. ~ draft.raced => \A n \in 1..Len(more) :
            more[n] = <<n, Garbled>> \/ \E c \in OpenOf(n, home)' : more[n] = <<n, c>>
    BY <2>8, <2>9 DEF OpenKey
  <2>11. /\ Publishing' /\ Home(draft'.addr) = home /\ Len(more) <= NumNics
         /\ <<draft.addr, draft.length>> \in Buffers /\ \A i \in 1..Len(pub) : pub[i].addr # draft.addr
    BY <1>1, <1>2, <1>3, <2>3, <2>5 DEF Publishing, Drafted, Nics
  <2> QED BY <1>1, <2>3, <2>5, <2>7, <2>8, <2>10, <2>11 DEF Drafted, OpenKey
<1> QED BY <1>5, <1>6

\* publishBuffer begins with a buffer that is not published.
LEMMA DraftBegins ==
    ASSUME Drafted, Lawful(pub, calls), NEW t \in Threads, NEW b \in Buffers, PublishBuffer(t, b[1], b[2])
    PROVE  Drafted'
<1>1. /\ UNCHANGED <<calls, regions, op>> /\ ~ Publishing
      /\ \/ draft' = draft
         \/ /\ Entry(b[1]) = {} /\ pub' = pub
            /\ draft' = [NoDraft EXCEPT !.by = {t}, !.addr = b[1], !.length = b[2],
                                      !.raced = \E u \in Threads : op[u].range = Home(b[1])]
  BY DEF PublishBuffer, Locked, owner
<1>2. CASE draft' = draft
  <2>1. draft' = NoDraft
    BY <1>1, <1>2 DEF Drafted
  <2> QED BY <2>1, NoneDrafted
<1>3. CASE /\ Entry(b[1]) = {} /\ pub' = pub
           /\ draft' = [NoDraft EXCEPT !.by = {t}, !.addr = b[1], !.length = b[2],
                                     !.raced = \E u \in Threads : op[u].range = Home(b[1])]
  <2>1. PICK r : r = (\E u \in Threads : op[u].range = Home(b[1]))
    OBVIOUS
  <2>2. draft' = [by |-> {t}, addr |-> b[1], length |-> b[2], rkeys |-> <<>>, raced |-> r]
    BY <1>3, <2>1 DEF NoDraft
  <2>3. draft'.addr = b[1] /\ draft'.length = b[2] /\ draft'.rkeys = <<>> /\ draft'.raced = r /\ draft'.by = {t}
    BY <2>2
  <2>4. <<>> \in Seq(Keys) /\ Len(<<>>) = 0 /\ 1..0 = {} /\ NumNics \in Nat
    BY Empty, NicsAssumption
  <2>5. b = <<b[1], b[2]>>
    BY BuffersAssumption
  <2>6. \A i \in 1..Len(pub) : pub[i].addr # b[1]
    BY <1>3 DEF Entry, Lawful
  <2>7. Publishing' /\ (~ r => \A u \in Threads : op'[u].range # Home(b[1]))
    BY <1>1, <2>1, <2>3 DEF Publishing
  <2>8. \A n : n \notin 1..Len(draft'.rkeys)
    BY <2>3, <2>4
  <2>9. ~ draft'.raced => \A u \in Threads : op'[u].range # Home(draft'.addr)
    BY <2>3, <2>7
  <2>10. <<draft'.addr, draft'.length>> \in Buffers /\ \A i \in 1..Len(pub') : pub'[i].addr # draft'.addr
    BY <1>3, <2>3, <2>5, <2>6
  <2>11. draft'.rkeys \in Seq(Keys) /\ Len(draft'.rkeys) <= NumNics
    BY <2>3, <2>4
  <2> QED BY <2>7, <2>8, <2>9, <2>10, <2>11 DEF Drafted
<1> QED BY <1>1, <1>2, <1>3

LEMMA StepDrafted ==
    ASSUME Watchful, StillMade, [Next]_vars
    PROVE  Drafted'
<1>0. /\ RegionsTyped /\ OpsApart /\ Lawful(pub, calls) /\ Drafted /\ OneLock /\ op \in [Threads -> Op]
  BY DEF Watchful, OwnerInv, OpsApart
<1>1. ASSUME NEW t \in Threads, RegisterNic(t) \/ RegisterFails(t) \/ DeregisterNic(t) PROVE Drafted'
  <2>1. PICK range, o :
           /\ range = op[t].range /\ range \in Ranges
           /\ op' = [op EXCEPT ![t] = o] /\ (o = Idle \/ o.range = range)
    BY <1>1, OthersOpen
  <2>2. /\ pub' = pub /\ \A n \in Nics : \A r : r # range => OpenOf(n, r)' = OpenOf(n, r)
    BY <1>1, <2>1, OthersOpen
  <2>3. draft' = draft
    BY <1>1 DEF RegisterNic, RegisterFails, DeregisterNic
  <2>5. PICK home : home = Home(draft.addr)
    OBVIOUS
  <2>4. ASSUME Publishing, \A u \in Threads : op[u].range # home
        PROVE  /\ \A u \in Threads : op'[u].range # home
               /\ \A n \in Nics : OpenOf(n, home)' = OpenOf(n, home)
    <3>1. home \in Ranges /\ range # home
      BY <1>0, <1>1, <2>1, <2>4, <2>5, DraftHome
    <3>2. o.range # home
      BY <2>1, <3>1, NoRange DEF Idle
    <3>3. \A u \in Threads : op'[u].range # home
      BY <1>0, <2>1, <2>4, <3>2
    <3> QED BY <2>2, <3>1, <3>3
  <2> QED BY <1>0, <2>2, <2>3, <2>4, <2>5, DraftFrame
<1>2. ASSUME NEW t \in Threads, NEW range \in Ranges, BeginRegister(t, range) \/ BeginUnregister(t, range)
      PROVE  Drafted'
  <2>1. /\ Race(range) /\ pub' = pub
        /\ \E o : op' = [op EXCEPT ![t] = o] /\ o.range = range
    <3>1. CASE BeginRegister(t, range)
      <4>1. PICK o : o = [kind |-> "register", nic |-> 1, last |-> NumNics,
                          call |-> Len(calls) + 1, range |-> range]
        OBVIOUS
      <4>2. op' = [op EXCEPT ![t] = o] /\ o.range = range
        BY <3>1, <4>1 DEF BeginRegister
      <4> QED BY <3>1, <4>2 DEF BeginRegister, directory
    <3>2. CASE BeginUnregister(t, range)
      <4>1. PICK o : o = [kind |-> "unregister", nic |-> 1, last |-> NumNics, call |-> 0, range |-> range]
        OBVIOUS
      <4>2. op' = [op EXCEPT ![t] = o] /\ o.range = range
        BY <3>2, <4>1 DEF BeginUnregister
      <4> QED BY <3>2, <4>2 DEF BeginUnregister, directory
    <3> QED BY <1>2, <3>1, <3>2
  <2>2. \A n \in Nics : \A r : OpenOf(n, r)' = OpenOf(n, r)
    <3>1. CASE BeginRegister(t, range)
      BY <3>1, CarefulRegister
    <3>2. CASE BeginUnregister(t, range)
      <4>1. UNCHANGED <<calls, regions>>
        BY <3>2 DEF BeginUnregister
      <4> QED BY <1>0, <4>1, SameLists
    <3> QED BY <1>2, <3>1, <3>2
  <2>3. PICK o : op' = [op EXCEPT ![t] = o] /\ o.range = range
    BY <2>1
  <2>4. CASE Publishing /\ Home(draft.addr) = range
    <3>1. draft' = [draft EXCEPT !.raced = TRUE]
      BY <2>1, <2>4 DEF Race
    <3>2. draft'.raced
      BY <1>0, <3>1 DEF OneLock
    <3> QED BY <1>0, <2>1, <2>4, <3>1, <3>2, DraftFrame
  <2>5. CASE ~ (Publishing /\ Home(draft.addr) = range)
    <3>1. draft' = draft
      BY <2>1, <2>5 DEF Race
    <3>2. Publishing /\ (\A u \in Threads : op[u].range # Home(draft.addr)) =>
             \A u \in Threads : op'[u].range # Home(draft.addr)
      BY <1>0, <2>3, <2>5
    <3> QED BY <1>0, <2>1, <2>2, <3>1, <3>2, DraftFrame
  <2> QED BY <2>4, <2>5
<1>3. ASSUME NEW t \in Threads, NEW b \in Buffers, PublishBuffer(t, b[1], b[2]) PROVE Drafted'
  BY <1>0, <1>3, DraftBegins
<1>4. CASE ReadRkey \/ ReadGarbled
  BY <1>0, <1>4, DraftRead
<1>5. CASE FinishPublish
  BY <1>5, NoneDrafted DEF FinishPublish
<1>6. ASSUME NEW t \in Threads, UnpublishAllBuffers(t) \/ (\E a \in Addresses : UnpublishBuffer(t, a))
      PROVE  Drafted'
  <2>1. draft' = draft /\ ~ Publishing
    BY <1>6 DEF UnpublishAllBuffers, UnpublishBuffer, Locked
  <2>2. draft' = NoDraft
    BY <1>0, <2>1 DEF Drafted
  <2> QED BY <2>2, NoneDrafted
<1>7. CASE Server \/ QueryRemoteBuffer \/ Reader \/ Reconnect
             \/ (\E call \in DOMAIN calls : UpdateRemoteMemoryInfo(call)) \/ Break \/ UNCHANGED vars
  <2>1. UNCHANGED <<calls, regions, op, pub, draft>>
    BY <1>7 DEF Server, AnswerQuery, SendBuffer, EndAnswer, QueryRemoteBuffer, Reader, Receive,
              ReceiveFails, StoreBuffers, Reconnect, UpdateRemoteMemoryInfo, Break, Reading, owner,
              directory, vars
  <2>2. \A n, r : OpenOf(n, r)' = OpenOf(n, r)
    BY <1>0, <2>1, SameLists
  <2> QED BY <1>0, <2>1, <2>2, DraftFrame
<1> QED BY <1>1, <1>2, <1>3, <1>4, <1>5, <1>6, <1>7 DEF Next, Publisher

-----------------------------------------------------------------------------
(* Everything about the published list.                                     *)

\* A new entry of memory that a call may be about makes the owner careless with it; of
\* other memory it has open rkeys.
LEMMA FinishWatchful ==
    ASSUME Watchful, FinishPublish
    PROVE  Lawful(pub', calls) /\ Careful' /\ StillOpen' /\ careless' \subseteq Ranges
<1>0. /\ RegionsTyped /\ Lawful(pub, calls) /\ StillOpen /\ Careful /\ Drafted
      /\ careless \subseteq Ranges
  BY DEF Watchful, OwnerInv
<1>1. /\ UNCHANGED <<op, calls, regions>> /\ Publishing /\ Len(draft.rkeys) = NumNics
      /\ careless' = IF draft.raced THEN careless \cup {Home(draft.addr)} ELSE careless
  BY DEF FinishPublish
<1>2. PICK home \in Ranges : home = Home(draft.addr)
  BY <1>0, <1>1, DraftHome
<1>3. careless \subseteq careless' /\ careless' \subseteq Ranges
  BY <1>0, <1>1, <1>2
<1>4. /\ Lawful(pub', calls) /\ Len(pub') = Len(pub) + 1 /\ Len(pub) \in Nat
      /\ \A i \in 1..Len(pub) : pub'[i] = pub[i]
      /\ pub'[Len(pub) + 1].addr = draft.addr /\ pub'[Len(pub) + 1].rkeys = draft.rkeys
  BY <1>0, PublishNew
<1>5. \A i \in 1..Len(pub') : i \in 1..Len(pub) \/ i = Len(pub) + 1
  BY <1>4
<1>6. ASSUME NEW r, r # home, Relied(r)' PROVE Relied(r)
  <2>1. PICK i \in 1..Len(pub') :
           Home(pub'[i].addr) = r /\ \E n \in Nics : pub'[i].rkeys[n] # <<n, Garbled>>
    BY <1>6 DEF Relied
  <2>2. i \in 1..Len(pub)
    BY <1>2, <1>4, <1>5, <1>6, <2>1
  <2> QED BY <1>4, <2>1, <2>2 DEF Relied
<1>7. home \notin careless' => /\ \A u \in Threads : op[u].range # home
                               /\ \A n \in Nics : OpenKey(draft.rkeys[n], n, home)
  BY <1>0, <1>1, <1>2 DEF Drafted, Nics
<1>8. Careful'
  <2>1. ASSUME NEW u \in Threads, NEW r \in Ranges, op[u].kind # "idle", op[u].range = r, r \notin careless'
        PROVE  Relied(r)' => Relied(r)
    BY <1>6, <1>7, <2>1
  <2> QED BY <1>1, <1>3, <2>1, CarefulSame
<1>9. \A n, r : OpenOf(n, r)' = OpenOf(n, r)
  BY <1>0, <1>1, SameLists
<1>10. ASSUME NEW i \in 1..Len(pub'), NEW r \in Ranges, Home(pub'[i].addr) = r, r \notin careless', NEW n \in Nics
      PROVE  pub'[i].rkeys[n] = <<n, Garbled>> \/ \E c \in OpenOf(n, r)' : pub'[i].rkeys[n] = <<n, c>>
  <2>1. CASE i \in 1..Len(pub)
    <3>1. Home(pub[i].addr) = r /\ r \notin careless
      BY <1>3, <1>4, <1>10, <2>1
    <3>2. OpenKey(pub[i].rkeys[n], n, r)
      BY <1>0, <1>10, <2>1, <3>1 DEF StillOpen
    <3> QED BY <1>4, <1>9, <2>1, <3>2 DEF OpenKey
  <2>2. CASE i = Len(pub) + 1
    <3>1. r = home /\ pub'[i].rkeys = draft.rkeys
      BY <1>2, <1>4, <1>10, <2>2
    <3>2. OpenKey(draft.rkeys[n], n, home)
      BY <1>7, <1>10, <3>1
    <3> QED BY <1>9, <3>1, <3>2 DEF OpenKey
  <2> QED BY <1>5, <2>1, <2>2
<1>11. StillOpen'
  BY <1>10 DEF StillOpen, OpenKey
<1> QED BY <1>3, <1>4, <1>8, <1>11

LEMMA StepWatchful ==
    ASSUME Watchful, [Next]_vars
    PROVE  Watchful' /\ StillMade
<1>0. /\ RegionsTyped /\ OpsApart /\ OwnerInv /\ Lawful(pub, calls) /\ StillOpen /\ Careful
      /\ careless \subseteq Ranges /\ OneLock
  BY DEF Watchful, OwnerInv
<1>1. OwnerInv' /\ StillMade /\ OneLock' /\ Drafted'
  BY <1>0, StepOwner, StepLock, StepDrafted
<1>2. ASSUME NEW t \in Threads,
             RegisterNic(t) \/ RegisterFails(t) \/ DeregisterNic(t)
                \/ (\E range \in Ranges : BeginRegister(t, range) \/ BeginUnregister(t, range))
      PROVE  Watchful'
  <2>1. pub' = pub /\ careless' \subseteq Ranges
    BY <1>0, <1>2 DEF RegisterNic, RegisterFails, DeregisterNic, BeginUnregister, BeginRegister, directory
  <2>2. Careful' /\ StillOpen'
    BY <1>2, CarefulRegister, CarefulOwner
  <2>3. Lawful(pub', calls')
    BY <1>0, <1>1, <2>1, LawfulLater
  <2> QED BY <1>1, <2>1, <2>2, <2>3 DEF Watchful
<1>3. CASE FinishPublish
  <2>1. Lawful(pub', calls) /\ Careful' /\ StillOpen' /\ careless' \subseteq Ranges
    BY <1>3, FinishWatchful
  <2>2. Lawful(pub', calls')
    BY <1>1, <2>1, LawfulLater
  <2> QED BY <1>1, <2>1, <2>2 DEF Watchful
<1>4. ASSUME UNCHANGED <<op, calls, regions, careless>>, Lawful(pub', calls), FromPub(pub')
      PROVE  Watchful'
  <2>1. IsSeq(pub')
    BY <1>4 DEF Lawful, IsSeq
  <2>2. \A n, r : OpenOf(n, r)' = OpenOf(n, r)
    BY <1>0, <1>4, SameLists
  <2>3. StillOpen' /\ \A r : Relied(r)' => Relied(r)
    BY <1>0, <1>4, <2>1, <2>2, OpenFrame
  <2>4. Careful'
    BY <1>4, <2>3, CarefulSame
  <2> QED BY <1>0, <1>1, <1>4, <2>3, <2>4 DEF Watchful
<1>8. ASSUME NEW t \in Threads, NEW b \in Buffers, PublishBuffer(t, b[1], b[2]) PROVE Watchful'
  <2>1. UNCHANGED <<op, calls, regions, careless>>
    BY <1>8 DEF PublishBuffer, owner
  <2>2. CASE \E i \in Entry(b[1]) : pub' = [pub EXCEPT ![i].length = b[2]]
    <3>1. Lawful(pub', calls) /\ FromPub(pub')
      BY <1>0, <2>2, PublishAgain
    <3> QED BY <1>4, <2>1, <3>1
  <2>3. CASE pub' = pub
    <3>1. FromPub(pub')
      BY <2>3, SamePub
    <3> QED BY <1>0, <1>4, <2>1, <2>3, <3>1
  <2> QED BY <1>8, <2>2, <2>3 DEF PublishBuffer
<1>5. ASSUME NEW t \in Threads, NEW a \in Addresses, UnpublishBuffer(t, a) PROVE Watchful'
  <2>1. PICK i \in 1..Len(pub) : pub' = SubSeq(pub, 1, i - 1) \o SubSeq(pub, i + 1, Len(pub))
    <3>1. DOMAIN pub = 1..Len(pub)
      BY <1>0 DEF Lawful
    <3> QED BY <1>5, <3>1, Zenon DEF UnpublishBuffer, Entry
  <2>2. Lawful(pub', calls) /\ FromPub(pub')
    BY <1>0, <2>1, Unpublished
  <2>3. UNCHANGED <<op, calls, regions, careless>>
    BY <1>5 DEF UnpublishBuffer, owner
  <2> QED BY <1>4, <2>2, <2>3
<1>6. ASSUME NEW t \in Threads, UnpublishAllBuffers(t) PROVE Watchful'
  <2>1. pub' = <<>> /\ Len(<<>>) = 0 /\ <<>> \in Seq(Buffer)
    BY <1>6, Empty DEF UnpublishAllBuffers
  <2>2. 1..Len(pub') = {}
    BY <2>1
  <2>3. Lawful(pub', calls) /\ FromPub(pub')
    BY <2>1, <2>2 DEF Lawful, FromPub
  <2>4. UNCHANGED <<op, calls, regions, careless>>
    BY <1>6 DEF UnpublishAllBuffers, owner
  <2> QED BY <1>4, <2>3, <2>4
<1>7. ASSUME Server \/ QueryRemoteBuffer \/ Reader \/ Reconnect
                \/ (\E call \in DOMAIN calls : UpdateRemoteMemoryInfo(call)) \/ Break \/ UNCHANGED vars
      PROVE  Watchful'
  <2>1. UNCHANGED <<calls, regions, op, careless, pub>>
    BY <1>7 DEF Server, AnswerQuery, SendBuffer, EndAnswer, QueryRemoteBuffer, Reader, Receive,
              ReceiveFails, StoreBuffers, Reconnect, UpdateRemoteMemoryInfo, Break, Reading, owner,
              directory, vars
  <2>2. FromPub(pub')
    BY <2>1, SamePub
  <2> QED BY <1>0, <1>4, <2>1, <2>2
<1>9. ASSUME ReadRkey \/ ReadGarbled PROVE Watchful'
  <2>1. UNCHANGED <<calls, regions, op, careless, pub>>
    BY <1>9 DEF ReadRkey, ReadGarbled, Read, owner, directory
  <2>2. FromPub(pub')
    BY <2>1, SamePub
  <2> QED BY <1>0, <1>4, <2>1, <2>2
<1> QED BY <1>1, <1>2, <1>3, <1>5, <1>6, <1>7, <1>8, <1>9 DEF Next, Publisher

-----------------------------------------------------------------------------
(* What the reader holds, step by step.                                     *)

LEMMA StepBounded ==
    ASSUME SnapInv, Bounded, [Next]_vars
    PROVE  Bounded'
<1>0. /\ closed \subseteq 1..MaxQueries /\ query.phase \in {"none", "recv", "ok", "error"}
      /\ query.phase # "recv" => query.count = 0
      /\ query = [phase |-> query.phase, socket |-> query.socket, count |-> query.count, got |-> query.got]
      /\ query.socket \in 0..MaxQueries /\ server.socket \in {0, server.answered}
      /\ server.answered \in Nat /\ server.answered <= query.socket /\ MaxQueries \in Nat
      /\ query.phase = "recv" => query.socket > 0
  BY BoundsAssumption DEF Bounded, SnapInv, Shape, NothingEarly
<1>1. CASE UNCHANGED <<closed, query>>
  BY <1>1 DEF Bounded
<1>2. ASSUME NEW t \in Threads,
             RegisterNic(t) \/ RegisterFails(t) \/ DeregisterNic(t) \/ UnpublishAllBuffers(t)
               \/ (\E range \in Ranges : BeginRegister(t, range) \/ BeginUnregister(t, range))
               \/ (\E b \in Buffers : PublishBuffer(t, b[1], b[2]))
               \/ (\E a \in Addresses : UnpublishBuffer(t, a))
      PROVE  UNCHANGED <<closed, query>>
  BY <1>2 DEF RegisterNic, RegisterFails, DeregisterNic, UnpublishAllBuffers, BeginRegister,
              BeginUnregister, PublishBuffer, UnpublishBuffer, Elsewhere
<1>3. ASSUME AnswerQuery \/ SendBuffer \/ Reconnect \/ (\E call \in DOMAIN calls : UpdateRemoteMemoryInfo(call))
                \/ UNCHANGED vars
      PROVE  UNCHANGED <<closed, query>>
  BY <1>3 DEF AnswerQuery, SendBuffer, Reconnect, UpdateRemoteMemoryInfo, vars
<1>4. CASE EndAnswer
  <2>1. server.socket # 0 /\ closed' = closed \cup {server.socket} /\ query' = query
    BY <1>4 DEF EndAnswer, Serving
  <2>2. server.socket \in 1..MaxQueries
    BY <1>0, <2>1
  <2> QED BY <1>0, <2>1, <2>2 DEF Bounded
<1>5. CASE QueryRemoteBuffer
  <2>1. query' = [phase |-> "recv", socket |-> query.socket + 1, count |-> 0, got |-> <<>>] /\ closed' = closed
    BY <1>5 DEF QueryRemoteBuffer, NoQuery
  <2> QED BY <1>0, <2>1 DEF Bounded
<1>6. ASSUME NEW result \in {"ok", "error"}, Returns(result), closed' = closed PROVE Bounded'
  <2>1. query' = [phase |-> result, socket |-> query.socket, count |-> 0, got |-> <<>>]
    BY <1>6 DEF Returns, NoQuery
  <2> QED BY <1>0, <1>6, <2>1 DEF Bounded
<1>7. CASE Receive
  <2>1. query.phase = "recv" /\ closed' = closed
    BY <1>7 DEF Receive
  <2>2. CASE \/ query' = [query EXCEPT !.count = Head(Arrived)]
             \/ query' = [query EXCEPT !.got = Append(query.got, Head(Arrived))]
    <3>1. query'.phase = "recv"
      BY <1>0, <2>1, <2>2
    <3> QED BY <1>0, <2>1, <3>1 DEF Bounded
  <2> QED BY <1>6, <1>7, <2>1, <2>2 DEF Receive
<1>8. CASE ReceiveFails \/ StoreBuffers
  BY <1>6, <1>8 DEF ReceiveFails, StoreBuffers
<1>9. CASE Break
  <2>1. query.phase = "recv" /\ closed' = closed \cup {query.socket} /\ query' = query
    BY <1>9 DEF Break
  <2>2. query.socket \in 1..MaxQueries
    BY <1>0, <2>1
  <2> QED BY <1>0, <2>1, <2>2 DEF Bounded
<1>10. ASSUME Publisher \/ ReadGarbled PROVE UNCHANGED <<closed, query>>
  BY <1>10 DEF Publisher, ReadRkey, ReadGarbled, Read, FinishPublish, Elsewhere
<1> QED BY <1>1, <1>2, <1>3, <1>4, <1>5, <1>7, <1>8, <1>9, <1>10 DEF Next, Server, Reader

\* The whole of a lawful list is a copy with the rkeys of the memory they are for.
LEMMA CopyStored ==
    ASSUME NEW list, Lawful(list, calls), NEW a \in DOMAIN CopyOf(list)
    PROVE  Stored(a, CopyOf(list)[a], calls)
<1>1. list \in Seq(Buffer) /\ DOMAIN list = 1..Len(list)
  BY DEF Lawful
<1>2. PICK i \in DOMAIN list : a = list[i].addr
  BY DEF CopyOf
<1> DEFINE b == CHOOSE x \in {list[j] : j \in DOMAIN list} : x.addr = a
<1>3. b \in {list[j] : j \in DOMAIN list} /\ b.addr = a
  BY <1>2
<1>4. CopyOf(list)[a] = [length |-> b.length, rkeys |-> Reordered(b.rkeys)]
  BY DEF CopyOf
<1> HIDE DEF b
<1>5. Entitled(b, calls)
  BY <1>1, <1>3 DEF Lawful
<1>6. \A n \in Paired : Reordered(b.rkeys)[n] = b.rkeys[n] /\ n \in Nics
  BY NicsAssumption DEF Reordered
<1> QED BY <1>3, <1>4, <1>5, <1>6 DEF Entitled, Stored

\* When the reader stores a list, it is the one that was answered with.
LEMMA StoresAnswer ==
    ASSUME SnapInv, StoreBuffers
    PROVE  query.got = asOf /\ Len(asOf) \in Nat \ {0}
<1>1. query.phase = "recv" /\ query.count > 0 /\ Len(query.got) = query.count
  BY DEF StoreBuffers, Complete
<1>2. Answered
  BY <1>1 DEF SnapInv, Shape, NothingEarly, Answered
<1>3. query.got = asOf
  BY <1>1, <1>2, SameSeq DEF SnapInv, InOrder, FromBuffers, Shape, IsSeq
<1> QED BY <1>1, <1>3 DEF SnapInv, Shape

LEMMA StepRemembered ==
    ASSUME SnapInv, RegionsTyped, Lawful(asOf, calls), Remembered, StillMade, [Next]_vars
    PROVE  Remembered'
<1>0. /\ remote = [buffers |-> remote.buffers, endpoint |-> remote.endpoint, known |-> remote.known]
      /\ remote.endpoint \in [Nics -> Keys]
      /\ \A a \in DOMAIN remote.buffers : Stored(a, remote.buffers[a], calls)
  BY DEF Remembered
<1>1. ASSUME NEW a, NEW info, Stored(a, info, calls) PROVE Stored(a, info, calls')
  <2>1. ASSUME NEW key, NEW n, NEW r, Fitting(key, n, r, calls) PROVE Fitting(key, n, r, calls')
    BY <2>1 DEF Fitting, StillMade
  <2> QED BY <1>1, <2>1 DEF Stored
<1>2. CASE remote' = remote
  BY <1>0, <1>1, <1>2 DEF Remembered
<1>8. CASE StoreBuffers /\ ~ remote.known
  BY <1>2, <1>8 DEF StoreBuffers
<1>3. CASE StoreBuffers /\ remote.known
  <2>1. query.got = asOf /\ Len(asOf) \in Nat \ {0}
    BY <1>3, StoresAnswer
  <2>2. remote'.buffers = CopyOf(asOf)
    BY <1>3, StoreIsSnapshot
  <2>3. /\ remote' = [buffers |-> remote'.buffers, endpoint |-> remote'.endpoint, known |-> remote'.known]
        /\ remote'.endpoint = [n \in Nics |-> IF n \in Paired THEN asOf[1].rkeys[n] ELSE remote.endpoint[n]]
    BY <1>3, <2>1 DEF StoreBuffers
  <2>4. asOf[1] \in Buffer
    BY <2>1 DEF Lawful
  <2>5. remote'.endpoint \in [Nics -> Keys]
    BY <1>0, <2>3, <2>4 DEF Buffer
  <2>6. \A a \in DOMAIN remote'.buffers : Stored(a, remote'.buffers[a], calls')
    BY <1>1, <2>2, CopyStored
  <2> QED BY <2>3, <2>5, <2>6 DEF Remembered
<1>4. CASE Reconnect
  <2>1. remote' = [buffers |-> <<>>, endpoint |-> [n \in Nics |-> NoKey], known |-> TRUE]
    BY <1>4 DEF Reconnect, NoRemote
  <2>2. DOMAIN remote'.buffers = {}
    BY <2>1
  <2> QED BY <2>1, <2>2 DEF Remembered, Keys
<1>5. ASSUME NEW call \in DOMAIN calls, UpdateRemoteMemoryInfo(call) PROVE Remembered'
  <2>1. PICK e : e = [n \in Nics |-> <<n, call>>] /\ remote' = [remote EXCEPT !.endpoint = e]
    BY <1>5 DEF UpdateRemoteMemoryInfo
  <2>2. call \in 1..Len(calls)
    BY DEF RegionsTyped
  <2>3. e \in [Nics -> Keys]
    BY <2>1, <2>2, KeyGiven
  <2>4. remote' = [buffers |-> remote.buffers, endpoint |-> e, known |-> remote.known]
    BY <1>0, <2>1
  <2> QED BY <1>0, <1>1, <2>3, <2>4 DEF Remembered
<1>6. ASSUME NEW t \in Threads,
             RegisterNic(t) \/ RegisterFails(t) \/ DeregisterNic(t) \/ UnpublishAllBuffers(t)
               \/ (\E range \in Ranges : BeginRegister(t, range) \/ BeginUnregister(t, range))
               \/ (\E b \in Buffers : PublishBuffer(t, b[1], b[2]))
               \/ (\E a \in Addresses : UnpublishBuffer(t, a))
      PROVE  remote' = remote
  BY <1>6 DEF RegisterNic, RegisterFails, DeregisterNic, UnpublishAllBuffers, BeginRegister,
              BeginUnregister, PublishBuffer, UnpublishBuffer, Elsewhere
<1>7. ASSUME Server \/ QueryRemoteBuffer \/ Receive \/ ReceiveFails \/ Break \/ UNCHANGED vars
      PROVE  remote' = remote
  BY <1>7 DEF Server, AnswerQuery, SendBuffer, EndAnswer, QueryRemoteBuffer, Receive, ReceiveFails,
              Break, vars
<1>9. ASSUME Publisher \/ ReadGarbled PROVE remote' = remote
  BY <1>9 DEF Publisher, ReadRkey, ReadGarbled, Read, FinishPublish, Elsewhere
<1> QED BY <1>2, <1>3, <1>4, <1>5, <1>6, <1>7, <1>8, <1>9 DEF Next, Reader

LEMMA StepAnswered ==
    ASSUME Lawful(pub, calls), Lawful(asOf, calls), StillMade, [Next]_vars
    PROVE  Lawful(asOf', calls')
<1>1. asOf' \in {asOf, pub, <<>>}
  <2>1. ASSUME NEW t \in Threads,
             RegisterNic(t) \/ RegisterFails(t) \/ DeregisterNic(t) \/ UnpublishAllBuffers(t)
               \/ (\E range \in Ranges : BeginRegister(t, range) \/ BeginUnregister(t, range))
               \/ (\E b \in Buffers : PublishBuffer(t, b[1], b[2]))
               \/ (\E a \in Addresses : UnpublishBuffer(t, a))
      PROVE  asOf' = asOf
    BY <2>1 DEF RegisterNic, RegisterFails, DeregisterNic, UnpublishAllBuffers, BeginRegister,
              BeginUnregister, PublishBuffer, UnpublishBuffer, directory
  <2>2. ASSUME Server \/ Reader PROVE asOf' \in {asOf, pub, <<>>}
    BY <2>2 DEF Server, AnswerQuery, SendBuffer, EndAnswer, Reader, Receive, ReceiveFails, StoreBuffers,
                Returns, directory
  <2>3. ASSUME QueryRemoteBuffer \/ Reconnect \/ (\E call \in DOMAIN calls : UpdateRemoteMemoryInfo(call)) \/ Break
                  \/ UNCHANGED vars
        PROVE  asOf' = asOf
    BY <2>3 DEF QueryRemoteBuffer, Reconnect, UpdateRemoteMemoryInfo, Break, vars
  <2>4. ASSUME Publisher \/ ReadGarbled PROVE asOf' = asOf
    BY <2>4 DEF Publisher, ReadRkey, ReadGarbled, Read, FinishPublish, directory
  <2> QED BY <2>1, <2>2, <2>3, <2>4 DEF Next
<1>2. Lawful(<<>>, calls)
  <2>1. Len(<<>>) = 0 /\ <<>> \in Seq(Buffer)
    BY Empty
  <2> QED BY <2>1 DEF Lawful
<1>3. Lawful(asOf', calls)
  BY <1>1, <1>2
<1> QED BY <1>3, LawfulLater

LEMMA StepDir ==
    ASSUME SnapInv, DirInv, [Next]_vars
    PROVE  DirInv'
<1>1. Watchful' /\ StillMade
  BY StepWatchful DEF DirInv
<1>2. Lawful(asOf', calls')
  BY <1>1, StepAnswered DEF DirInv, Watchful
<1>3. Remembered'
  BY <1>1, StepRemembered DEF DirInv, Watchful, OwnerInv
<1>4. Bounded'
  BY StepBounded DEF DirInv
<1> QED BY <1>1, <1>2, <1>3, <1>4 DEF DirInv

LEMMA InitDir == Init => DirInv
<1> SUFFICES ASSUME Init PROVE DirInv
  OBVIOUS
<1>0. /\ calls = <<>> /\ regions = [n \in Nics |-> <<>>] /\ op = [t \in Threads |-> Idle]
      /\ pub = <<>> /\ asOf = <<>> /\ careless = {} /\ closed = {}
      /\ query = NoQuery /\ draft = NoDraft
  BY DEF Init
<1>1. <<>> \in Seq(Ranges) /\ <<>> \in Seq(Nat) /\ <<>> \in Seq(Buffer) /\ Len(<<>>) = 0 /\ DOMAIN <<>> = {}
  BY Empty
<1>2. NumNics \in Nat \ {0} /\ MaxRegisters \in Nat
  BY NicsAssumption, BoundsAssumption
<1>3. \A n \in Nics : regions[n] = <<>> /\ Open(n) = {} /\ Distinct(regions[n])
  BY <1>0, <1>1 DEF Open, Held, Distinct
<1>4. RegionsTyped
  BY <1>0, <1>1, <1>2, <1>3 DEF RegionsTyped
<1>5. OpsApart
  <2>1. Idle \in Op
    BY <1>2 DEF Idle, Op, Kinds
  <2>2. \A t \in Threads : op[t] = Idle
    BY <1>0
  <2>3. Idle.kind = "idle"
    BY DEF Idle
  <2> QED BY <1>0, <2>1, <2>2, <2>3 DEF OpsApart
<1>6. \A n \in Nics : \A range : OpenOf(n, range) = {}
  BY <1>3 DEF OpenOf
<1>7. Levels
  <2>1. ASSUME NEW range \in Ranges, NEW n \in Nics
        PROVE  Cardinality(OpenOf(n, range)) = 0 + Extra(n, range)
    <3>1. \A t \in Threads : op[t].range # range
      BY <1>0, NoRange DEF Idle
    <3>2. Extra(n, range) = 0
      BY <3>1, ExtraNone
    <3>3. Cardinality(OpenOf(n, range)) = 0
      BY <1>6, FS_EmptySet
    <3> QED BY <3>2, <3>3
  <2>2. \A range \in Ranges : Level(range, 0)
    BY <2>1 DEF Level
  <2> QED BY <2>2 DEF Levels
<1>8. Lawful(<<>>, calls)
  BY <1>1 DEF Lawful
<1>9. Careful
  BY <1>0 DEF Careful, Idle
<1>10. StillOpen
  BY <1>0, <1>1 DEF StillOpen
<1>11. Remembered
  <2>0. PICK known : remote = [buffers |-> <<>>, endpoint |-> [n \in Nics |-> NoKey], known |-> known]
    BY DEF Init, NoRemote
  <2>1. remote.endpoint \in [Nics -> Keys]
    BY <2>0 DEF Keys
  <2>2. DOMAIN remote.buffers = {}
    BY <1>1, <2>0
  <2>3. remote = [buffers |-> remote.buffers, endpoint |-> remote.endpoint, known |-> remote.known]
    BY <2>0
  <2> QED BY <2>1, <2>2, <2>3 DEF Remembered
<1>12. Bounded
  BY <1>0 DEF Bounded, NoQuery
<1>13. Drafted
  <2>1. draft.rkeys = <<>> /\ <<>> \in Seq(Keys) /\ ~ Publishing
    BY <1>0, Empty DEF NoDraft, Publishing
  <2> QED BY <1>0, <1>1, <1>2, <2>1 DEF Drafted
<1> QED BY <1>0, <1>4, <1>5, <1>7, <1>8, <1>9, <1>10, <1>11, <1>12, <1>13, InitLock DEF DirInv, Watchful, OwnerInv

\* The strengthening that the four invariants below follow from: what TLC checks of
\* the directory on two NICs and two pieces of memory, for every number of them.
THEOREM Invariance == Spec => [](SnapInv /\ DirInv)
<1>1. Init => SnapInv /\ DirInv
  BY InitSnap, InitDir
<1>2. SnapInv /\ DirInv /\ [Next]_vars => (SnapInv /\ DirInv)'
  BY StepSnap, StepDir DEF DirInv, Watchful
<1> QED BY <1>1, <1>2, PTL DEF Spec

-----------------------------------------------------------------------------
(* What follows from it.                                                    *)

LEMMA GotBounded ==
    ASSUME SnapInv, Bounded
    PROVE  Len(query.got) <= query.count
<1>0. /\ Len(query.got) \in Nat /\ query.count \in Nat /\ query.socket \in 0..MaxQueries
      /\ server.answered \in Nat /\ server.answered <= query.socket
      /\ query.socket \in 1..MaxQueries => Len(wire[query.socket]) \in Nat
      /\ Len(asOf) \in Nat
  BY DEF SnapInv, Shape, IsSeq
<1>1. CASE query.count = 0
  <2>1. query.got = <<>>
    BY <1>1 DEF SnapInv, NothingEarly
  <2> QED BY <1>1, <2>1, Empty
<1>2. CASE query.count > 0
  <2>1. query.phase = "recv"
    BY <1>2 DEF Bounded
  <2>2. Answered /\ query.socket > 0
    BY <1>0, <1>2, <2>1 DEF SnapInv, NothingEarly, Answered
  <2>3. query.count = Len(asOf) /\ FromBuffers(query.got, wire[query.socket], asOf)
    BY <1>2, <2>2 DEF SnapInv, InOrder
  <2>4. query.socket \in 1..MaxQueries
    BY <1>0, <2>2, BoundsAssumption
  <2>5. \A g, w \in Nat : g + w <= query.count => g <= query.count
    BY <1>0
  <2>6. Len(query.got) + Len(wire[query.socket]) <= query.count
    BY <2>3 DEF FromBuffers
  <2> QED BY <1>0, <2>4, <2>5, <2>6, Zenon
<1> QED BY <1>0, <1>1, <1>2

LEMMA TypeFollows ==
    ASSUME SnapInv, DirInv
    PROVE  TypeOK
<1>0. /\ RegionsTyped /\ OpsApart /\ Lawful(pub, calls) /\ Remembered /\ Bounded
      /\ careless \subseteq Ranges /\ Drafted
  BY DEF DirInv, Watchful, OwnerInv
<1>1. ASSUME NEW n \in Nics, NEW i \in DOMAIN regions[n], NEW j \in DOMAIN regions[n]
      PROVE  regions[n][i] \in DOMAIN calls /\ (regions[n][i] = regions[n][j] => i = j)
  <2>1. regions[n][i] \in Open(n)
    BY DEF Open, Held
  <2>2. DOMAIN calls = 1..Len(calls)
    BY <1>0 DEF RegionsTyped
  <2> QED BY <1>0, <2>1, <2>2 DEF RegionsTyped, Distinct
<1>2. ASSUME NEW t \in Threads
      PROVE  /\ op[t].kind \in {"idle", "register", "rollback", "unregister"}
             /\ op[t].nic \in 0..op[t].last /\ op[t].last \in 0..NumNics
  <2>1. op[t] \in Op
    BY <1>0 DEF OpsApart
  <2>2. CASE op[t].kind = "idle"
    <3>1. op[t] = Idle
      BY <1>0, <2>2 DEF OpsApart
    <3> QED BY <3>1, NicsAssumption DEF Idle
  <2>3. CASE op[t].kind # "idle"
    <3>1. op[t].nic \in 1..op[t].last
      BY <1>0, <2>3 DEF OpsApart, UnderWay
    <3> QED BY <2>1, <3>1 DEF Op, Kinds
  <2> QED BY <2>2, <2>3
<1>3. DOMAIN pub = 1..Len(pub)
  BY <1>0 DEF Lawful
<1>4. \A i, j \in DOMAIN pub : pub[i] \in Buffer /\ (pub[i].addr = pub[j].addr => i = j)
  BY <1>0, <1>3 DEF Lawful, Entitled
<1>5. ASSUME NEW i \in DOMAIN pub, NEW n \in Nics PROVE pub[i].rkeys[n] # NoKey
  <2>0. Entitled(pub[i], calls)
    BY <1>0, <1>3 DEF Lawful
  <2>1. Fitting(pub[i].rkeys[n], n, Home(pub[i].addr), calls)
    BY <2>0 DEF Entitled
  <2>2. <<n, Garbled>> # NoKey /\ \A c \in 1..Len(calls) : <<n, c>> # NoKey
    BY <1>0, KeyGiven, KeyGarbled, Zenon
  <2> QED BY <2>1, <2>2 DEF Fitting
<1>6. server.socket \in 0..MaxQueries /\ closed \subseteq 1..MaxQueries
  BY <1>0, BoundsAssumption DEF SnapInv, Shape, Bounded
<1>7. query.phase \in {"none", "recv", "ok", "error"} /\ Len(query.got) <= query.count
  BY <1>0, GotBounded DEF Bounded
<1>8. remote.endpoint \in [Nics -> Keys]
  BY <1>0 DEF Remembered
<1>9. draft.addr \in Addresses \cup {0} /\ draft.rkeys \in Seq(Keys) /\ Len(draft.rkeys) <= NumNics
  <2>1. CASE Publishing
    BY <1>0, <2>1, DraftHome DEF Drafted
  <2>2. CASE ~ Publishing
    BY <1>0, <2>2 DEF Drafted, NoDraft
  <2> QED BY <2>1, <2>2
<1> QED BY <1>0, <1>1, <1>2, <1>4, <1>5, <1>6, <1>7, <1>8, <1>9 DEF TypeOK

LEMMA LevelBetween ==
    ASSUME RegionsTyped, Levels
    PROVE  AllOrNothing
<1> SUFFICES ASSUME NEW range \in Ranges, \A t \in Threads : op[t].range # range,
                    NEW m \in Nics, NEW n \in Nics
             PROVE  Cardinality({i \in DOMAIN regions[m] : calls[regions[m][i]] = range}) =
                    Cardinality({i \in DOMAIN regions[n] : calls[regions[n][i]] = range})
  BY DEF AllOrNothing
<1>1. PICK base \in Nat : Level(range, base)
  BY DEF Levels
<1>2. Extra(m, range) = 0 /\ Extra(n, range) = 0
  BY ExtraNone
<1>3. Cardinality(OpenOf(m, range)) = Cardinality(OpenOf(n, range))
  BY <1>1, <1>2 DEF Level
<1> QED BY <1>3, CountOpen

LEMMA OpenFollows ==
    ASSUME RegionsTyped, Lawful(pub, calls), StillOpen
    PROVE  PublishedOpen
<1>1. DOMAIN pub = 1..Len(pub)
  BY DEF Lawful
<1> SUFFICES ASSUME NEW i \in DOMAIN pub, Home(pub[i].addr) \notin careless, NEW n \in Nics,
                    pub[i].rkeys[n] # <<n, Garbled>>
             PROVE  \E k \in DOMAIN regions[n] :
                        /\ pub[i].rkeys[n] = <<n, regions[n][k]>>
                        /\ In(pub[i].addr, calls[regions[n][k]])
                        /\ In(pub[i].addr + pub[i].length - 1, calls[regions[n][k]])
  BY DEF PublishedOpen
<1> DEFINE a == pub[i].addr
           len == pub[i].length
<1>2. <<a, len>> \in Buffers
  BY <1>1 DEF Lawful, Entitled
<1>3. /\ a \in Nat /\ len \in Nat \ {0} /\ Home(a) \in Ranges
      /\ \A x \in a .. (a + len - 1) : In(x, Home(a))
  BY <1>2, BufferHome, Zenon
<1>4. PICK c \in OpenOf(n, Home(a)) : pub[i].rkeys[n] = <<n, c>>
  BY <1>1, <1>3 DEF StillOpen, OpenKey
<1>5. PICK k \in DOMAIN regions[n] : c = regions[n][k]
  BY <1>4 DEF OpenOf, Open, Held
<1>6. calls[c] = Home(a)
  BY <1>4 DEF OpenOf
<1>7. a \in a .. (a + len - 1) /\ a + len - 1 \in a .. (a + len - 1)
  BY <1>3
<1>8. In(a, Home(a)) /\ In(a + len - 1, Home(a))
  BY <1>3, <1>7
<1> QED BY <1>4, <1>5, <1>6, <1>8

LEMMA LookupFollows ==
    ASSUME RegionsTyped, Remembered
    PROVE  LookupFindsOwnRkey
<1> SUFFICES ASSUME NEW b \in DOMAIN remote.buffers, NEW n \in Paired,
                    NEW a \in b .. (b + remote.buffers[b].length - 1),
                    NEW k \in GetRkeyForAddr(a, n), k # <<n, Garbled>>
             PROVE  k # NoKey /\ k[1] = n /\ In(a, calls[k[2]])
  BY DEF LookupFindsOwnRkey
<1> DEFINE holds == {x \in DOMAIN remote.buffers : In(a, <<x, remote.buffers[x].length>>)}
<1>1. \A x \in DOMAIN remote.buffers : Stored(x, remote.buffers[x], calls)
  BY DEF Remembered
<1>2. \A x \in DOMAIN remote.buffers : <<x, remote.buffers[x].length>> \in Buffers
  BY <1>1 DEF Stored
<1>3. \A x \in DOMAIN remote.buffers : x \in Nat /\ remote.buffers[x].length \in Nat \ {0}
  BY <1>2, BuffersAssumption
<1>4. b \in holds
  BY <1>3 DEF In
<1>5. PICK x \in holds : k = remote.buffers[x].rkeys[n]
  BY <1>4 DEF GetRkeyForAddr
<1>6. PICK c \in 1..Len(calls) : remote.buffers[x].rkeys[n] = <<n, c>> /\ calls[c] = Home(x)
  BY <1>1, <1>5 DEF Stored, Fitting
<1>7. a \in x .. (x + remote.buffers[x].length - 1)
  BY <1>3 DEF In
<1>8. In(a, Home(x))
  <2> DEFINE e == <<x, remote.buffers[x].length>>
  <2>1. e \in Buffers /\ e[1] = x /\ e[2] = remote.buffers[x].length
    BY <1>2
  <2> HIDE DEF e
  <2>2. \A y \in e[1] .. (e[1] + e[2] - 1) : In(y, Home(e[1]))
    BY <2>1, BufferHome
  <2> QED BY <1>7, <2>1, <2>2
<1>9. n \in Nics
  BY NicsAssumption
<1>10. <<n, c>> # NoKey
  BY <1>9, KeyGiven
<1> QED BY <1>5, <1>6, <1>8, <1>10

\* What is open are registrations that were made, once each; the list has one entry
\* for an address and no rkey of it is 0, for any number of threads, NICs and calls.
THEOREM TypeCorrect == Spec => []TypeOK
BY Invariance, TypeFollows, PTL

\* registerMemory and unregisterMemory are all or nothing, whatever threads register
\* and unregister meanwhile and whichever NIC refuses: a rollback takes back from the
\* NICs before it exactly what the call brought them.
THEOREM NothingHalfRegistered == Spec => []AllOrNothing
<1>1. SnapInv /\ DirInv => AllOrNothing
  BY LevelBetween DEF DirInv, Watchful, OwnerInv
<1> QED BY <1>1, Invariance, PTL

\* As long as the owner was not careless with a piece of memory, the rkeys published
\* of it belong to open registrations of it on every NIC, though publishBuffer reads them
\* NIC after NIC without a lock, while other threads register, fail to register and
\* unregister other memory in the very same lists.  An rkey that was read in the middle of
\* such a change is excepted, and to publish memory while a call about it is under way is
\* careless.
THEOREM PublishedStaysOpen == Spec => []PublishedOpen
<1>1. SnapInv /\ DirInv => PublishedOpen
  BY OpenFollows DEF DirInv, Watchful, OwnerInv
<1> QED BY <1>1, Invariance, PTL

\* getRkeyForAddr returns for an address of a buffer in the reader's copy an rkey of
\* the memory that the address is in, made on that NIC, for every list that was ever
\* published and in whatever order the hash table is gone through: unless that rkey was
\* read, when the buffer was published, from a list in change.
THEOREM LookupIsOwn == Spec => []LookupFindsOwnRkey
<1>1. SnapInv /\ DirInv => LookupFindsOwnRkey
  BY LookupFollows DEF DirInv, Watchful, OwnerInv
<1> QED BY <1>1, Invariance, PTL

-----------------------------------------------------------------------------
(* Why a query never waits for ever: without ENABLED, by the guards of the  *)
(* server, of the publisher and of the reader.                              *)

\* What AnswerQuery, and SendBuffer or EndAnswer, wait for.
ServerMoves ==
    \/ ~ Serving /\ ~ Publishing /\ query.phase = "recv" /\ query.socket > server.answered
    \/ Serving /\ server.next <= Len(pub)
    \/ Serving /\ (server.next > Len(pub) \/ server.socket \in closed)

\* What ReadRkey and FinishPublish wait for.
PublisherMoves == Publishing /\ (Len(draft.rkeys) < NumNics \/ Len(draft.rkeys) = NumNics)

\* What Receive, StoreBuffers and ReceiveFails wait for.
ReaderMoves ==
    \/ query.phase = "recv" /\ Arrived # <<>>
    \/ query.phase = "recv" /\ Complete
    \/ Lost

\* The server closes the connection of every query that it took, at the latest when
\* it takes its hands off it.
TakenInHand ==
    /\ server.next \in Nat
    /\ Answered => server.socket = query.socket \/ query.socket \in closed

LEMMA StepTaken ==
    ASSUME Shape, NothingEarly, TakenInHand, [Next]_vars
    PROVE  TakenInHand'
<1>0. /\ server = [socket |-> server.socket, next |-> server.next, answered |-> server.answered]
      /\ query.socket \in Nat /\ server.answered \in Nat /\ server.answered <= query.socket
      /\ query = [phase |-> query.phase, socket |-> query.socket, count |-> query.count,
                  got |-> query.got]
  BY BoundsAssumption DEF Shape
<1>1. CASE UNCHANGED <<server, closed, query>>
  BY <1>1 DEF TakenInHand, Answered
<1>2. CASE AnswerQuery
  <2>1. /\ server' = [socket |-> query.socket, next |-> 1, answered |-> query.socket]
        /\ UNCHANGED query
    BY <1>2 DEF AnswerQuery
  <2> QED BY <2>1 DEF TakenInHand, Answered
<1>3. CASE SendBuffer
  <2>1. server' = [server EXCEPT !.next = @ + 1] /\ UNCHANGED <<closed, query>>
    BY <1>3 DEF SendBuffer
  <2>2. /\ server'.next = server.next + 1 /\ server'.socket = server.socket
        /\ server'.answered = server.answered
    BY <1>0, <2>1
  <2> QED BY <2>1, <2>2 DEF TakenInHand, Answered
<1>4. CASE EndAnswer
  <2>1. /\ closed' = closed \cup {server.socket} /\ UNCHANGED query
        /\ server' = [server EXCEPT !.socket = 0, !.next = 0]
    BY <1>4 DEF EndAnswer
  <2>2. server'.next = 0 /\ server'.answered = server.answered
    BY <1>0, <2>1
  <2> QED BY <2>1, <2>2 DEF TakenInHand, Answered
<1>5. CASE QueryRemoteBuffer
  <2>1. query'.socket = query.socket + 1 /\ UNCHANGED server
    BY <1>5 DEF QueryRemoteBuffer, NoQuery, Reading
  <2>2. query'.socket # server'.answered
    BY <1>0, <2>1
  <2> QED BY <2>1, <2>2 DEF TakenInHand, Answered
<1>6. CASE Reader
  <2>1. UNCHANGED <<server, closed>>
    BY <1>6 DEF Reader, Receive, ReceiveFails, StoreBuffers, Reading
  <2>2. query.phase = "recv" /\ query'.socket = query.socket
    BY <1>0, <1>6 DEF Reader, Receive, ReceiveFails, StoreBuffers, Lost, Returns, NoQuery
  <2> QED BY <2>1, <2>2 DEF TakenInHand, Answered
<1>7. CASE Break
  <2>1. closed \subseteq closed' /\ UNCHANGED <<server, query>>
    BY <1>7 DEF Break, Reading
  <2> QED BY <2>1 DEF TakenInHand, Answered
<1>8. CASE Reconnect \/ \E call \in DOMAIN calls : UpdateRemoteMemoryInfo(call)
  BY <1>1, <1>8 DEF Reconnect, UpdateRemoteMemoryInfo, Reading
<1>9. ASSUME NEW t \in Threads,
             RegisterNic(t) \/ RegisterFails(t) \/ DeregisterNic(t) \/ UnpublishAllBuffers(t)
               \/ (\E range \in Ranges : BeginRegister(t, range) \/ BeginUnregister(t, range))
               \/ (\E b \in Buffers : PublishBuffer(t, b[1], b[2]))
               \/ (\E a \in Addresses : UnpublishBuffer(t, a))
      PROVE  UNCHANGED <<server, closed, query>>
  BY <1>9 DEF RegisterNic, RegisterFails, DeregisterNic, UnpublishAllBuffers, BeginRegister,
              BeginUnregister, PublishBuffer, UnpublishBuffer, Elsewhere
<1>10. CASE UNCHANGED vars
  BY <1>1, <1>10 DEF vars
<1>11. CASE Publisher \/ ReadGarbled
  BY <1>1, <1>11 DEF Publisher, ReadRkey, ReadGarbled, Read, FinishPublish, Elsewhere
<1> QED BY <1>1, <1>2, <1>3, <1>4, <1>5, <1>6, <1>7, <1>8, <1>9, <1>10, <1>11 DEF Next, Server

\* As long as queryRemoteBuffer has not returned, the server has something to do, if
\* only for another query, or the reader has something to receive, to store, or the
\* loss of the connection to see.
LEMMA SomeoneMoves ==
    ASSUME Shape, NothingEarly, TakenInHand, Drafted, query.phase = "recv"
    PROVE  ServerMoves \/ PublisherMoves \/ ReaderMoves
<1>1. query.socket \in Nat /\ server.answered \in Nat /\ server.answered <= query.socket
  BY BoundsAssumption DEF Shape
<1>2. CASE Serving
  <2>1. Len(pub) \in Nat /\ server.next \in Nat
    BY DEF Shape, IsSeq, TakenInHand
  <2>2. server.next <= Len(pub) \/ server.next > Len(pub)
    BY <2>1
  <2> QED BY <1>2, <2>2 DEF ServerMoves
<1>5. CASE Publishing
  <2>1. Len(draft.rkeys) \in Nat /\ Len(draft.rkeys) <= NumNics /\ NumNics \in Nat
    BY NicsAssumption DEF Drafted
  <2>2. Len(draft.rkeys) < NumNics \/ Len(draft.rkeys) = NumNics
    BY <2>1
  <2> QED BY <1>5, <2>2 DEF PublisherMoves
<1>3. CASE ~ Serving /\ ~ Publishing /\ query.socket > server.answered
  BY <1>3 DEF ServerMoves
<1>4. CASE ~ Serving /\ ~ (query.socket > server.answered)
  <2>1. Answered /\ query.socket > 0 /\ server.socket = 0
    BY <1>1, <1>4 DEF Answered, Serving, NothingEarly
  <2>2. query.socket \in closed
    BY <1>1, <2>1 DEF TakenInHand
  <2> QED BY <2>2 DEF ReaderMoves, Lost
<1> QED BY <1>2, <1>3, <1>4, <1>5

\* A query is never left alone, whichever connection breaks and however many queries
\* were given up before it; when publishBuffer holds the mutex, publishBuffer can go on:
\* QueryNeverStuck, with the guards written out.
THEOREM QueryAlwaysMoves ==
    Spec => [](query.phase = "recv" => ServerMoves \/ PublisherMoves \/ ReaderMoves)
<1>1. Init => TakenInHand
  <2> SUFFICES ASSUME Init PROVE TakenInHand
    OBVIOUS
  <2> QED BY DEF Init, NoQuery, TakenInHand, Answered
<1>2. SnapInv /\ DirInv /\ TakenInHand /\ [Next]_vars => TakenInHand'
  BY StepTaken DEF SnapInv
<1>3. SnapInv /\ DirInv /\ TakenInHand => (query.phase = "recv" => ServerMoves \/ PublisherMoves \/ ReaderMoves)
  BY SomeoneMoves DEF SnapInv, DirInv, Watchful
<1> QED BY <1>1, <1>2, <1>3, Invariance, PTL DEF Spec
====
