--------------------------- MODULE ProxyFlagsProofs ---------------------------
(***************************************************************************)
(* Proofs about what ProxyPipeline's worker and copy thread tell each      *)
(* other: that no chunk is on a ring twice and, as long as no chunk has    *)
(* failed, that every result reaches its chunk, that no flag is used twice *)
(* and that a chunk is posted only after its copy.                         *)
(***************************************************************************)
EXTENDS ProxyPipelineProofs

-----------------------------------------------------------------------------
(* The rings: which chunk is on them, and that it is there once.            *)

\* The chunks of a sequence that grows at its end, loses its head, or is empty.
LEMMA ChunksIn ==
    ASSUME NEW T, NEW s \in Seq(T)
    PROVE  /\ ChunksOf(s) = {x.chunk : x \in ToSet(s)}
           /\ \A x \in T : ChunksOf(Append(s, x)) = ChunksOf(s) \cup {x.chunk}
           /\ s # <<>> => ChunksOf(s) = ChunksOf(Tail(s)) \cup {Head(s).chunk}
           /\ s = <<>> => ChunksOf(s) = {}
<1>0. \A r \in Seq(T) : ChunksOf(r) = {x.chunk : x \in ToSet(r)}
  <2> SUFFICES ASSUME NEW r \in Seq(T) PROVE ChunksOf(r) = {x.chunk : x \in ToSet(r)}
    OBVIOUS
  <2>1. ToSet(r) = {r[i] : i \in 1..Len(r)}
    BY SeqSet
  <2> QED BY <2>1 DEF ChunksOf
<1>1. ASSUME NEW x \in T PROVE ChunksOf(Append(s, x)) = ChunksOf(s) \cup {x.chunk}
  <2>1. Append(s, x) \in Seq(T) /\ ToSet(Append(s, x)) = ToSet(s) \cup {x}
    BY SeqAppend
  <2> QED BY <1>0, <2>1, ZenonT(30)
<1>2. ASSUME s # <<>> PROVE ChunksOf(s) = ChunksOf(Tail(s)) \cup {Head(s).chunk}
  <2>1. Tail(s) \in Seq(T) /\ ToSet(s) = ToSet(Tail(s)) \cup {Head(s)}
    BY <1>2, SeqTail
  <2> QED BY <1>0, <2>1
<1>3. s = <<>> => ChunksOf(s) = {}
  BY DEF ChunksOf
<1> QED BY <1>0, <1>1, <1>2, <1>3

\* A sequence of one element.
LEMMA OnlyOne ==
    ASSUME NEW T, NEW s \in Seq(T), Len(s) <= 1, s # <<>>
    PROVE  Len(s) = 1 /\ s[1] \in T /\ s = <<s[1]>> /\ ChunksOf(s) = {s[1].chunk} /\ ToSet(s) = {s[1]}
<1>1. Len(s) = 1 /\ s[1] \in T
  OBVIOUS
<1>2. s = <<s[1]>>
  BY <1>1
<1>3. 1..1 = {1}
  OBVIOUS
<1>4. ToSet(s) = {s[i] : i \in 1..1} /\ ChunksOf(s) = {s[i].chunk : i \in 1..1}
  BY <1>1, SeqSet DEF ChunksOf
<1> QED BY <1>1, <1>2, <1>3, <1>4

\* What a ring holds, in short.
LEMMA RingTypes ==
    ASSUME Typed
    PROVE  /\ requests \in Seq([chunk : Chunks, gpu : ProxyGpus]) /\ results \in Seq(ResultRecord)
           /\ held \in Seq(ResultRecord) /\ Len(held) <= 1 /\ Ringing \subseteq Chunks
           /\ \A p \in Pipelines : pipe[p].copying \in Seq(CopyRecord)
<1>1. /\ requests \in Seq([chunk : Chunks, gpu : ProxyGpus]) /\ results \in Seq(ResultRecord)
      /\ held \in Seq(ResultRecord) /\ Len(held) <= 1
  BY DEF Typed, Rings
<1>2. Ringing \subseteq Chunks
  <2>1. \A r \in Seq([chunk : Chunks, gpu : ProxyGpus]) : ChunksOf(r) \subseteq Chunks
    <3> SUFFICES ASSUME NEW r \in Seq([chunk : Chunks, gpu : ProxyGpus]) PROVE ChunksOf(r) \subseteq Chunks
      OBVIOUS
    <3>1. ChunksOf(r) = {x.chunk : x \in ToSet(r)} /\ ToSet(r) \subseteq [chunk : Chunks, gpu : ProxyGpus]
      BY ChunksIn, SeqSet
    <3> QED BY <3>1
  <2>2. \A r \in Seq(ResultRecord) : ChunksOf(r) \subseteq Chunks
    <3> SUFFICES ASSUME NEW r \in Seq(ResultRecord) PROVE ChunksOf(r) \subseteq Chunks
      OBVIOUS
    <3>1. ChunksOf(r) = {x.chunk : x \in ToSet(r)} /\ ToSet(r) \subseteq ResultRecord
      BY ChunksIn, SeqSet
    <3> QED BY <3>1 DEF ResultRecord
  <2>3. ChunksOf(requests) \subseteq Chunks /\ ChunksOf(results) \subseteq Chunks /\ ChunksOf(held) \subseteq Chunks
    BY <1>1, <2>1, <2>2
  <2> QED BY <2>3 DEF Ringing
<1> QED BY <1>1, <1>2, PipeParts DEF Typed

\* The pieces of the invariant: the rings are apart, what is on them is being
\* copied, and who copies it waits for it.
Separate ==
    /\ Distinct(requests) /\ Distinct(results)
    /\ ChunksOf(requests) \cap ChunksOf(results) = {} /\ ChunksOf(requests) \cap ChunksOf(held) = {}
    /\ ChunksOf(results) \cap ChunksOf(held) = {}
OnTheWay == \A c \in Ringing : c[2] < nextChunk[c[1]] /\ \A a \in Spots : a[1] = c => a[2] = "copying"
Expected(p, e) ==
    /\ e.got => e.chunk \notin Ringing
    /\ ~e.got /\ p[1] \in ToSet(active) => e.chunk \in Ringing
    /\ ~e.got => e.flag = NoFlag

\* RingsApart is the conjunction of its pieces.
LEMMA RingsParts ==
    RingsApart <=> Separate /\ OnTheWay /\ \A p \in Pipelines : \A e \in ToSet(pipe[p].copying) : Expected(p, e)
BY Zenon DEF RingsApart, Separate, OnTheWay, Expected

\* So it is after a step.
LEMMA RingsPartsAfter ==
    RingsApart' <=> Separate' /\ OnTheWay'
                      /\ \A p \in Pipelines : \A e \in ToSet(pipe'[p].copying) :
                            /\ e.got => e.chunk \notin Ringing'
                            /\ ~e.got /\ p[1] \in ToSet(active') => e.chunk \in Ringing'
                            /\ ~e.got => e.flag = NoFlag
BY Zenon DEF RingsApart, Separate, OnTheWay

\* The steps that leave the rings alone: chunks that they take elsewhere are not on them.
Elsewise ==
    /\ UNCHANGED <<requests, results, held>>
    /\ \A a \in Spots' : a \in Spots \/ a[1] \notin Ringing
    /\ \A p \in Pipelines : \A e \in ToSet(pipe'[p].copying) :
          e \in ToSet(pipe[p].copying) /\ (p[1] \in ToSet(active') => p[1] \in ToSet(active))

\* A step that leaves the rings alone keeps them apart.
LEMMA RingsStill ==
    ASSUME Control, Typed, RingsApart, [Next]_vars, Elsewise, Typed'
    PROVE  RingsApart'
<1>1. Ringing' = Ringing /\ Separate'
  <2>1. requests' = requests /\ results' = results /\ held' = held
    BY DEF Elsewise
  <2>2. /\ ChunksOf(requests)' = ChunksOf(requests) /\ ChunksOf(results)' = ChunksOf(results)
        /\ ChunksOf(held)' = ChunksOf(held)
    BY <2>1 DEF ChunksOf
  <2>3. Distinct(requests)' = Distinct(requests) /\ Distinct(results)' = Distinct(results)
    BY <2>1 DEF Distinct
  <2>4. Separate
    BY RingsParts
  <2> QED BY <2>2, <2>3, <2>4 DEF Ringing, Separate
<1>2. OnTheWay'
  <2> SUFFICES ASSUME NEW c \in Ringing
               PROVE  c[2] < nextChunk'[c[1]] /\ \A a \in Spots' : a[1] = c => a[2] = "copying"
    BY <1>1, Zenon DEF OnTheWay
  <2>1. c[2] < nextChunk[c[1]] /\ \A a \in Spots : a[1] = c => a[2] = "copying"
    BY RingsParts DEF OnTheWay
  <2>2. c \in Chunks
    BY RingTypes
  <2>3. c[1] \in Transfers /\ c[2] \in Nat
    BY <2>2, ChunkTyped
  <2>4. nextChunk[c[1]] <= nextChunk'[c[1]]
    BY <2>3, NextGrows
  <2>5. nextChunk[c[1]] \in Nat /\ nextChunk'[c[1]] \in Nat
    BY <2>3 DEF Typed, Kept
  <2>6. c[2] < nextChunk'[c[1]]
    BY <2>1, <2>3, <2>4, <2>5
  <2> QED BY <2>1, <2>6 DEF Elsewise
<1>3. ASSUME NEW p \in Pipelines, NEW e \in ToSet(pipe'[p].copying)
      PROVE  /\ e.got => e.chunk \notin Ringing
             /\ ~e.got /\ p[1] \in ToSet(active') => e.chunk \in Ringing
             /\ ~e.got => e.flag = NoFlag
  <2>1. e \in ToSet(pipe[p].copying) /\ (p[1] \in ToSet(active') => p[1] \in ToSet(active))
    BY DEF Elsewise
  <2>2. Expected(p, e)
    BY <2>1, RingsParts
  <2> QED BY <2>1, <2>2 DEF Expected
<1> QED BY <1>1, <1>2, <1>3, RingsPartsAfter

\* The steps of the copy thread: a chunk goes from one ring to the next.
LEMMA RingsOnward ==
    ASSUME RingsApart, UNCHANGED <<nextChunk, pipe, wire, cq, active>>, Ringing' = Ringing, Separate'
    PROVE  RingsApart'
<1>1. Spots' = Spots
  BY DEF Spots, PipeSpots, NicSpots
<1>2. OnTheWay'
  BY <1>1, RingsParts DEF OnTheWay
<1>3. \A p \in Pipelines : \A e \in ToSet(pipe[p].copying) : Expected(p, e)
  BY RingsParts
<1> QED BY <1>2, <1>3, RingsPartsAfter DEF Expected

\* A copy in flight belongs to a context that was activated.
LEMMA CopyIsActive ==
    ASSUME Control, Typed, Places, [Next]_vars, Begin, NEW p \in Pipelines, NEW e \in ToSet(pipe[p].copying),
           p[1] \in ToSet(active')
    PROVE  p[1] \in ToSet(active)
<1>1. <<e.chunk, "copying", p>> \in Spots
  BY SpotIs
<1>2. e.chunk[1] = p[1]
  BY DEF Places, Apart, Orderly
<1>3. p[1] \in Transfers /\ status[p[1]] \notin {"idle", "queued"}
  BY <1>1, <1>2, NothingYet
<1>4. status[p[1]] \in {"active", "queued"}
  BY <1>3, BeginControls DEF Control
<1> QED BY <1>3, <1>4 DEF Control, Rounds, Queueing

\* Results are handed to the copies that wait for them.
LEMMA DispatchRings ==
    ASSUME Control, Typed, Typed', Places, RingsApart, [Next]_vars, Dispatch, Spots' \subseteq Spots
    PROVE  RingsApart'
<1>1. results' = <<>> /\ UNCHANGED <<requests, held, active, nextChunk>>
  BY DEF Dispatch, ClientSide
<1>2. Dispatched
  BY DispatchIs
<1>3. Separate
  BY RingsParts
<1>4. /\ ChunksOf(requests)' = ChunksOf(requests) /\ ChunksOf(held)' = ChunksOf(held)
      /\ ChunksOf(results)' = {} /\ Distinct(requests)' = Distinct(requests) /\ Distinct(results)'
  BY <1>1 DEF ChunksOf, Distinct
<1>5. Separate' /\ Ringing' = ChunksOf(requests) \cup ChunksOf(held)
  BY <1>3, <1>4 DEF Separate, Ringing
<1>6. \A c \in Ringing' : c \in Ringing /\ c \notin ChunksOf(results)
  BY <1>3, <1>5 DEF Separate, Ringing
<1>7. \A c \in Ringing : c \in Ringing' \/ c \in ChunksOf(results)
  BY <1>5 DEF Ringing
<1>8. OnTheWay'
  <2>1. OnTheWay
    BY RingsParts
  <2> QED BY <1>1, <1>6, <2>1, Zenon DEF OnTheWay
<1>9. ASSUME NEW p \in Pipelines, NEW f \in ToSet(pipe'[p].copying)
      PROVE  /\ f.got => f.chunk \notin Ringing'
             /\ ~f.got /\ p[1] \in ToSet(active') => f.chunk \in Ringing'
             /\ ~f.got => f.flag = NoFlag
  <2> DEFINE s == pipe[p].copying
             r == pipe'[p].copying
  <2>1. s \in Seq(CopyRecord) /\ r \in Seq(CopyRecord)
    BY <1>2, RingTypes DEF Dispatched, PipeRecord
  <2>2. Len(r) = Len(s) /\ \A i \in 1..Len(s) : Told(s[i], r[i], p)
    BY <1>2 DEF Dispatched
  <2>0. f \in ToSet(r)
    OBVIOUS
  <2> HIDE DEF r
  <2>3. PICK i \in 1..Len(s) : f = r[i]
    BY <2>0, <2>1, <2>2, SeqSet
  <2>4. s[i] \in ToSet(s)
    BY <2>1, SeqSet
  <2>5. PICK e \in ToSet(pipe[p].copying) : Told(e, f, p)
    BY <2>2, <2>3, <2>4
  <2>6. Expected(p, e)
    BY RingsParts
  <2>7. e.got \in BOOLEAN /\ f.got \in BOOLEAN
    <3>1. e \in CopyRecord /\ f \in CopyRecord
      BY <2>0, <2>1, SeqSet
    <3> QED BY <3>1 DEF CopyRecord
  <2>8. \A x \in ToSet(results) : x.chunk \in ChunksOf(results)
    BY RingTypes, ChunksIn
  <2>9. \A c \in ChunksOf(results) : \E x \in ToSet(results) : x.chunk = c
    BY RingTypes, ChunksIn
  <2>10. CASE e.got
    <3>1. f = e /\ e.chunk \notin Ringing
      BY <2>5, <2>6, <2>10 DEF Told, Expected
    <3> QED BY <1>6, <2>10, <3>1
  <2>11. CASE ~e.got /\ f.got
    <3>1. f # e
      BY <2>11
    <3>2. f.chunk = e.chunk /\ \E x \in ToSet(results) : x.chunk = e.chunk
      BY <2>5, <3>1 DEF Told
    <3>3. f.chunk \in ChunksOf(results)
      BY <2>8, <3>2
    <3> QED BY <1>6, <2>11, <3>3
  <2>12. CASE ~e.got /\ ~f.got
    <3>1. f = e /\ e.flag = NoFlag
      BY <2>5, <2>6, <2>12 DEF Told, Expected
    <3>2. ASSUME p[1] \in ToSet(active) PROVE e.chunk \in Ringing'
      <4>1. e.chunk \in Ringing
        BY <2>6, <2>12, <3>2 DEF Expected
      <4>2. ~ \E x \in ToSet(results) : x.chunk = e.chunk
        BY <2>5, <2>12, <3>2 DEF Told
      <4> QED BY <1>7, <2>9, <4>1, <4>2
    <3> QED BY <1>1, <2>12, <3>1, <3>2
  <2> QED BY <2>7, <2>10, <2>11, <2>12
<1> QED BY <1>5, <1>8, <1>9, RingsPartsAfter

\* A copy is asked for.
LEMMA AdvanceRings ==
    ASSUME Control, Typed, Typed', Places, RingsApart, [Next]_vars,
           UNCHANGED <<active, nextChunk, results, held, wire, cq>>,
           NEW p \in Pipelines, NEW e \in CopyRecord, Advanced(p, e)
    PROVE  RingsApart'
<1>1. Places' /\ Moved(e.chunk, "copying", p) /\ <<e.chunk, "pending", p>> \in Spots
  BY AdvancePlaces
<1> DEFINE c == e.chunk
<1>2. /\ requests \in Seq([chunk : Chunks, gpu : ProxyGpus]) /\ results \in Seq(ResultRecord)
      /\ held \in Seq(ResultRecord) /\ Ringing \subseteq Chunks
  BY RingTypes
<1>3. Separate /\ OnTheWay /\ \A q \in Pipelines : \A x \in ToSet(pipe[q].copying) : Expected(q, x)
  BY RingsParts
<1>4. c \notin Ringing
  BY <1>1, <1>3 DEF OnTheWay
<1>5. c \in Chunks /\ c[2] < nextChunk[c[1]]
  BY <1>1 DEF Places, Begun, CopyRecord
<1>6. PICK g \in ProxyGpus : requests' = Append(requests, [chunk |-> c, gpu |-> g])
  BY Zenon DEF Advanced
<1>7. [chunk |-> c, gpu |-> g] \in [chunk : Chunks, gpu : ProxyGpus]
  BY <1>5
<1>8. ChunksOf(requests') = ChunksOf(requests) \cup {c}
  <2> DEFINE x == [chunk |-> c, gpu |-> g]
  <2>1. x \in [chunk : Chunks, gpu : ProxyGpus] /\ x.chunk = c
    BY <1>7
  <2> HIDE DEF x
  <2> DEFINE R == [chunk : Chunks, gpu : ProxyGpus]
             r == Append(requests, x)
  <2>0. requests \in Seq(R) /\ x \in R
    BY <1>2, <2>1
  <2> HIDE DEF R
  <2>2. r \in Seq(R) /\ ToSet(r) = ToSet(requests) \cup {x}
    BY <2>0, SeqAppend
  <2> HIDE DEF r
  <2>3. ChunksOf(r) = {y.chunk : y \in ToSet(r)} /\ ChunksOf(requests) = {y.chunk : y \in ToSet(requests)}
    BY <2>0, <2>2, ChunksIn
  <2>4. ChunksOf(r) = ChunksOf(requests) \cup {c}
    BY <2>1, <2>2, <2>3
  <2> QED BY <1>6, <2>4 DEF r, x
<1>9. Distinct(requests')
  <2> DEFINE x == [chunk |-> c, gpu |-> g]
  <2>1. x \in [chunk : Chunks, gpu : ProxyGpus] /\ x.chunk = c
    BY <1>7
  <2>2. c \notin ChunksOf(requests) /\ Distinct(requests)
    BY <1>3, <1>4 DEF Ringing, Separate
  <2>3. \A y \in ToSet(requests) : y.chunk # c
    BY <1>2, <2>2, ChunksIn
  <2> HIDE DEF x
  <2>4. Distinct(Append(requests, x))
    BY <1>2, <2>1, <2>2, <2>3, DistinctAppend
  <2> QED BY <1>6, <2>4 DEF x
<1> HIDE DEF c
<1>10. Ringing' = Ringing \cup {c}
  BY <1>8 DEF Ringing, ChunksOf
<1>11. Separate'
  <2>1. ChunksOf(results)' = ChunksOf(results) /\ ChunksOf(held)' = ChunksOf(held)
          /\ Distinct(results)' = Distinct(results)
    BY DEF ChunksOf, Distinct
  <2>2. ChunksOf(requests)' = ChunksOf(requests) \cup {c}
    BY <1>8 DEF ChunksOf
  <2>3. Distinct(requests)'
    BY <1>9 DEF Distinct
  <2>4. c \notin ChunksOf(results) /\ c \notin ChunksOf(held)
    BY <1>4 DEF Ringing
  <2> QED BY <1>3, <2>1, <2>2, <2>3, <2>4 DEF Separate
<1>12. OnTheWay'
  <2> SUFFICES ASSUME NEW d \in Ringing \cup {c}
               PROVE  d[2] < nextChunk[d[1]] /\ \A a \in Spots' : a[1] = d => a[2] = "copying"
    BY <1>10, Zenon DEF OnTheWay
  <2>1. CASE d = c
    BY <1>1, <1>5, <2>1 DEF Moved, c
  <2>2. CASE d # c
    <3>1. d[2] < nextChunk[d[1]] /\ \A a \in Spots : a[1] = d => a[2] = "copying"
      BY <1>3, <2>2 DEF OnTheWay
    <3> QED BY <1>1, <2>2, <3>1 DEF Moved, c
  <2> QED BY <2>1, <2>2
<1>13. ASSUME NEW q \in Pipelines, NEW f \in ToSet(pipe'[q].copying)
       PROVE  /\ f.got => f.chunk \notin Ringing'
              /\ ~f.got /\ q[1] \in ToSet(active') => f.chunk \in Ringing'
              /\ ~f.got => f.flag = NoFlag
  <2>1. f \in ToSet(pipe[q].copying) \/ f = e
    <3>1. CASE q = p
      <4>1. pipe'[p].copying = Append(pipe[p].copying, e)
        BY DEF Advanced
      <4>2. ToSet(Append(pipe[p].copying, e)) = ToSet(pipe[p].copying) \cup {e}
        BY RingTypes, SeqAppend
      <4> QED BY <3>1, <4>1, <4>2
    <3>2. CASE q # p
      BY <3>2, Zenon DEF Advanced, Elsewhere
    <3> QED BY <3>1, <3>2
  <2>2. CASE f = e
    <3>1. ~e.got /\ e.flag = NoFlag
      BY DEF Advanced
    <3> QED BY <1>10, <2>2, <3>1 DEF c
  <2>3. CASE f \in ToSet(pipe[q].copying)
    <3>1. Expected(q, f)
      BY <1>3, <2>3
    <3>2. <<f.chunk, "copying", q>> \in Spots
      BY <2>3, SpotIs
    <3>3. f.chunk # c
      <4> SUFFICES ASSUME f.chunk = c PROVE FALSE
        OBVIOUS
      <4>1. <<f.chunk, "copying", q>> = <<c, "pending", p>>
        BY <1>1, <3>2 DEF Places, Single, c
      <4> QED BY <4>1
    <3> QED BY <1>10, <3>1, <3>3 DEF Expected
  <2> QED BY <2>1, <2>2, <2>3
<1> QED BY <1>11, <1>12, <1>13, RingsPartsAfter

\* A request is taken off its ring, and its result is held.
LEMMA LaunchRings ==
    ASSUME Typed, Typed', RingsApart, UNCHANGED <<nextChunk, pipe, wire, cq, active, results>>,
           held = <<>>, requests # <<>>, requests' = Tail(requests),
           NEW x, x.chunk = Head(requests).chunk, held' = <<x>>
    PROVE  RingsApart'
<1>1. requests \in Seq([chunk : Chunks, gpu : ProxyGpus]) /\ results \in Seq(ResultRecord)
  BY RingTypes
<1>2. Separate
  BY RingsParts
<1> DEFINE c == Head(requests).chunk
<1>3. ChunksOf(requests) = ChunksOf(requests') \cup {c} /\ ChunksOf(held) = {}
  <2>1. ChunksOf(requests) = ChunksOf(Tail(requests)) \cup {Head(requests).chunk}
    BY <1>1, ChunksIn
  <2>2. ChunksOf(held) = {}
    BY DEF ChunksOf
  <2> QED BY <2>1, <2>2
<1>4. Distinct(requests') /\ \A r \in ToSet(requests') : r.chunk # c
  BY <1>1, <1>2, DistinctTail DEF Separate
<1>5. c \notin ChunksOf(requests')
  <2>1. Tail(requests) \in Seq([chunk : Chunks, gpu : ProxyGpus])
    BY <1>1, SeqTail
  <2>2. ChunksOf(requests') = {r.chunk : r \in ToSet(requests')}
    BY <2>1, ChunksIn
  <2> QED BY <1>4, <2>2
<1>6. ChunksOf(held') = {c}
  BY DEF ChunksOf
<1> HIDE DEF c
<1>7. /\ ChunksOf(requests)' = ChunksOf(requests') /\ ChunksOf(held)' = {c} /\ ChunksOf(results)' = ChunksOf(results)
      /\ Distinct(requests)' /\ Distinct(results)' = Distinct(results)
  BY <1>4, <1>6 DEF ChunksOf, Distinct
<1>8. Separate'
  BY <1>2, <1>3, <1>5, <1>7 DEF Separate
<1>9. Ringing' = Ringing
  BY <1>3, <1>7 DEF Ringing
<1> QED BY <1>8, <1>9, RingsOnward

\* A held result is pushed.
LEMMA PushRings ==
    ASSUME Typed, Typed', RingsApart, UNCHANGED <<nextChunk, pipe, wire, cq, active, requests>>,
           held # <<>>, results' = results \o held, held' = <<>>
    PROVE  RingsApart'
<1>1. results \in Seq(ResultRecord) /\ held \in Seq(ResultRecord) /\ Len(held) <= 1
  BY RingTypes
<1>2. Separate
  BY RingsParts
<1> DEFINE x == held[1]
<1>3. x \in ResultRecord /\ held = <<x>> /\ ChunksOf(held) = {x.chunk}
  BY <1>1, OnlyOne
<1> HIDE DEF x
<1>4. results' = Append(results, x)
  <2>1. results \o <<x>> = Append(results, x)
    BY <1>1, <1>3
  <2> QED BY <1>3, <2>1
<1>5. ChunksOf(held) = {x.chunk}
  BY <1>3
<1>6. ChunksOf(results') = ChunksOf(results) \cup {x.chunk}
  <2> DEFINE r == Append(results, x)
  <2>1. r \in Seq(ResultRecord) /\ ToSet(r) = ToSet(results) \cup {x}
    BY <1>1, <1>3, SeqAppend
  <2> HIDE DEF r
  <2>2. ChunksOf(r) = {y.chunk : y \in ToSet(r)} /\ ChunksOf(results) = {y.chunk : y \in ToSet(results)}
    BY <1>1, <2>1, ChunksIn
  <2>3. ChunksOf(r) = ChunksOf(results) \cup {x.chunk}
    BY <2>1, <2>2
  <2> QED BY <1>4, <2>3 DEF r
<1>7. Distinct(results')
  <2>1. x.chunk \notin ChunksOf(results) /\ Distinct(results)
    BY <1>2, <1>5 DEF Separate
  <2>2. \A y \in ToSet(results) : y.chunk # x.chunk
    BY <1>1, <2>1, ChunksIn
  <2>3. Distinct(Append(results, x))
    BY <1>1, <1>3, <2>1, <2>2, DistinctAppend
  <2> QED BY <1>4, <2>3
<1>8. ChunksOf(held') = {}
  BY DEF ChunksOf
<1>9. /\ ChunksOf(requests)' = ChunksOf(requests) /\ ChunksOf(held)' = {} /\ ChunksOf(results)' = ChunksOf(results')
      /\ Distinct(results)' /\ Distinct(requests)' = Distinct(requests)
  BY <1>7, <1>8 DEF ChunksOf, Distinct
<1>10. Separate'
  BY <1>2, <1>5, <1>6, <1>9 DEF Separate
<1>11. Ringing' = Ringing
  BY <1>5, <1>6, <1>9 DEF Ringing
<1> QED BY <1>10, <1>11, RingsOnward

\* Every step keeps the rings apart.
LEMMA StepRings == ASSUME Control, Typed, Typed', Places, RingsApart, [Next]_vars PROVE RingsApart'
<1>0. Working
  BY DEF Control, Rounds
<1>1. OnTheWay /\ \A p \in Pipelines : \A e \in ToSet(pipe[p].copying) : Expected(p, e)
  BY RingsParts
<1>2. ASSUME UNCHANGED <<requests, results, held>>, \A a \in Spots' : a \in Spots \/ a[1] \notin Ringing,
             ToSet(active') \subseteq ToSet(active),
             \A p \in Pipelines : ToSet(pipe'[p].copying) \subseteq ToSet(pipe[p].copying)
      PROVE  RingsApart'
  <2>1. Elsewise
    BY <1>2 DEF Elsewise
  <2> QED BY <2>1, RingsStill
<1>3. ASSUME UNCHANGED <<requests, results, held, pipe, wire, cq>>, ToSet(active') \subseteq ToSet(active)
      PROVE  RingsApart'
  <2>1. Spots' = Spots
    BY <1>3 DEF Spots, PipeSpots, NicSpots
  <2> QED BY <1>2, <1>3, <2>1
<1>4. CASE Begin
  <2>1. UNCHANGED <<requests, results, held, pipe, wire, cq>>
    BY <1>4 DEF Begin, copier, nic
  <2>2. Spots' = Spots
    BY <2>1 DEF Spots, PipeSpots, NicSpots
  <2>3. ASSUME NEW p \in Pipelines, NEW e \in ToSet(pipe[p].copying), p[1] \in ToSet(active')
        PROVE  p[1] \in ToSet(active)
    BY <1>4, <2>3, CopyIsActive
  <2>4. Elsewise
    BY <2>1, <2>2, <2>3 DEF Elsewise
  <2> QED BY <2>4, RingsStill
<1>5. CASE Dispatch
  <2>1. Dispatched /\ UNCHANGED <<wire, cq, nextChunk>>
    BY <1>5, DispatchIs DEF Dispatch, nic, ClientSide
  <2>2. \A p \in Pipelines : pipe'[p].pending = pipe[p].pending
    BY <2>1 DEF Dispatched
  <2>3. \A p \in Pipelines :
           /\ Len(pipe'[p].copying) = Len(pipe[p].copying) /\ pipe'[p].copying \in Seq(CopyRecord)
           /\ \A i \in 1..Len(pipe[p].copying) : pipe'[p].copying[i].chunk = pipe[p].copying[i].chunk
    BY <2>1 DEF Dispatched, Told, PipeRecord
  <2>4. Spots' \subseteq Spots
    BY <2>1, <2>2, <2>3, ThinnedPlaces
  <2> QED BY <1>5, <2>4, DispatchRings
<1>6. CASE AdvanceCopy
  <2>1. PICK p \in Pipelines, e \in CopyRecord : Advanced(p, e)
    BY <1>0, <1>6, AdvanceCopyIs
  <2>2. UNCHANGED <<active, nextChunk, results, held, wire, cq>>
    BY <1>6 DEF AdvanceCopy, nic, ClientSide
  <2> QED BY <2>1, <2>2, AdvanceRings
<1>7. CASE AssignProxy
  <2>1. PICK p \in Pipelines : Pended(p)
    BY <1>0, <1>7, AssignProxyIs
  <2>2. UNCHANGED <<wire, cq, active, requests, results, held>>
    BY <1>7 DEF AssignProxy, nic, copier
  <2> DEFINE c == <<p[1], nextChunk[p[1]]>>
  <2>3. Moved(c, "pending", p)
    BY <2>1, <2>2, PendPlaces
  <2>4. c \notin Ringing
    <3>1. nextChunk[p[1]] \in Nat
      BY <2>1 DEF Pended, Chooses, Typed, Kept
    <3>2. ~(c[2] < nextChunk[c[1]])
      BY <3>1
    <3> QED BY <1>1, <3>2 DEF OnTheWay
  <2> HIDE DEF c
  <2>5. \A a \in Spots' : a \in Spots \/ a[1] \notin Ringing
    BY <2>3, <2>4 DEF Moved
  <2>6. ASSUME NEW q \in Pipelines PROVE pipe'[q].copying = pipe[q].copying
    <3>1. CASE q = p
      BY <2>1, <3>1 DEF Pended
    <3>2. CASE q # p
      BY <2>1, <3>2, Zenon DEF Pended, Elsewhere
    <3> QED BY <3>1, <3>2
  <2> QED BY <1>2, <2>2, <2>5, <2>6
<1>8. CASE AssignDirect
  <2>1. PostedDirect(Context, BestNic) /\ UNCHANGED <<pipe, cq, active, requests, results, held>>
    BY <1>0, <1>8, AssignDirectIs DEF AssignDirect, copier
  <2> DEFINE t == Context
  <2>2. PICK w \in WireRecord : w.chunk = <<t, nextChunk[t]>> /\ wire' = wire \cup {w}
    BY <2>1 DEF PostedDirect
  <2>3. Chooses(t)
    BY <2>1 DEF PostedDirect
  <2> HIDE DEF t
  <2> DEFINE c == <<t, nextChunk[t]>>
  <2>4. Moved(c, "wire", w)
    BY <2>1, <2>2, <2>3, DirectPlaces
  <2>5. c \notin Ringing
    <3>1. nextChunk[t] \in Nat
      BY <2>3 DEF Chooses, Typed, Kept
    <3>2. ~(c[2] < nextChunk[c[1]])
      BY <3>1
    <3> QED BY <1>1, <3>2 DEF OnTheWay
  <2> HIDE DEF c
  <2>6. \A a \in Spots' : a \in Spots \/ a[1] \notin Ringing
    BY <2>4, <2>5 DEF Moved
  <2> QED BY <1>2, <2>1, <2>6
<1>9. CASE FreePosted
  <2>1. PICK p \in Pipelines : Reclaimed(p)
    BY <1>0, <1>9, FreePostedIs
  <2>2. UNCHANGED <<nextChunk, wire, cq, active, requests, results, held>>
    BY <1>9 DEF FreePosted, nic, ClientSide, copier
  <2>3. ASSUME NEW q \in Pipelines PROVE pipe'[q].pending = pipe[q].pending /\ pipe'[q].copying = pipe[q].copying
    <3>1. CASE q = p
      BY <2>1, <3>1 DEF Reclaimed
    <3>2. CASE q # p
      BY <2>1, <3>2, Zenon DEF Reclaimed, Elsewhere
    <3> QED BY <3>1, <3>2
  <2>4. \A q \in Pipelines : pipe[q].copying \in Seq(CopyRecord)
    BY RingTypes
  <2>5. Spots' \subseteq Spots
    BY <2>2, <2>3, <2>4, ThinnedPlaces
  <2> QED BY <1>2, <2>2, <2>3, <2>5
<1>10. CASE PostProxy
  <2>1. PICK p \in Pipelines, e \in CopyRecord, w \in WireRecord : Posted(p, e, w)
    BY <1>0, <1>10, PostProxyIs
  <2>2. UNCHANGED <<nextChunk, cq, active, requests, results, held>>
    BY <1>10 DEF PostProxy, ClientSide
  <2>3. Moved(e.chunk, "wire", w) /\ e \in ToSet(pipe[p].copying)
    BY <2>1, <2>2, PostPlaces
  <2>4. e.chunk \notin Ringing
    BY <1>1, <2>1, <2>3 DEF Expected, Posted, CopyDone
  <2>5. \A a \in Spots' : a \in Spots \/ a[1] \notin Ringing
    BY <2>3, <2>4 DEF Moved
  <2>6. ASSUME NEW q \in Pipelines PROVE ToSet(pipe'[q].copying) \subseteq ToSet(pipe[q].copying)
    <3>1. CASE q = p
      <4>1. pipe'[p].copying = Tail(pipe[p].copying) /\ pipe[p].copying # <<>>
        BY <2>1 DEF Posted
      <4> QED BY <3>1, <4>1, RingTypes, SeqTail
    <3>2. CASE q # p
      BY <2>1, <3>2, Zenon DEF Posted, Elsewhere
    <3> QED BY <3>1, <3>2
  <2> QED BY <1>2, <2>2, <2>5, <2>6
<1>11. CASE Poll
  <2>1. Polled /\ UNCHANGED <<active, requests, results, held>>
    BY <1>11, PollIs DEF Poll, copier
  <2>2. Spots' \subseteq Spots
    BY <1>11, PollThins
  <2>3. ASSUME NEW q \in Pipelines PROVE pipe'[q].copying = pipe[q].copying
    <3>1. PICK k : pipe'[q] = [pending |-> pipe[q].pending, copying |-> pipe[q].copying,
                 inflight |-> pipe[q].inflight,
                               arrived |-> pipe[q].arrived + k, assigned |-> pipe[q].assigned - k]
      BY <2>1, Zenon DEF Polled
    <3> QED BY <3>1
  <2> QED BY <1>2, <2>1, <2>2, <2>3
<1>12. CASE Retire
  <2>1. PICK S \in SUBSET Transfers : Retired(S)
    BY <1>12, RetireIs
  <2>2. UNCHANGED <<nextChunk, wire, cq, requests, results, held>>
    BY <1>12, Zenon DEF Retire, nic, ClientSide
  <2>3. ASSUME NEW q \in Pipelines
        PROVE  pipe'[q].pending = pipe[q].pending /\ (pipe'[q].copying = pipe[q].copying \/ pipe'[q].copying = <<>>)
    <3>1. pipe'[q] = IF q[1] \in S THEN [pending |-> pipe[q].pending, copying |-> <<>>, inflight |-> <<>>,
                                         arrived |-> pipe[q].arrived, assigned |-> pipe[q].assigned] ELSE pipe[q]
      BY <2>1, Zenon DEF Retired
    <3> QED BY <3>1
  <2>4. \A q \in Pipelines : pipe[q].copying \in Seq(CopyRecord)
    BY RingTypes
  <2>5. Spots' \subseteq Spots
    BY <2>2, <2>3, <2>4, ThinnedPlaces
  <2>6. ToSet(active') \subseteq ToSet(active)
    BY <2>1 DEF Retired
  <2>7. \A q \in Pipelines : ToSet(pipe'[q].copying) \subseteq ToSet(pipe[q].copying)
    BY <2>3 DEF ToSet
  <2> QED BY <1>2, <2>2, <2>5, <2>6, <2>7
<1>13. CASE Nic \/ NicFails
  <2>1. PICK w \in wire, ok \in BOOLEAN : Complete(w, ok)
    BY <1>13 DEF Nic, NicFails
  <2> DEFINE v == [chunk |-> w.chunk, nic |-> w.nic, ok |-> ok]
  <2>2. /\ pipe' = pipe /\ nextChunk' = nextChunk /\ wire' = wire \ {w} /\ cq' = cq \cup {v} /\ v.chunk = w.chunk
        /\ active' = active /\ requests' = requests /\ results' = results /\ held' = held
    BY <2>1 DEF Complete, worker, copier
  <2> HIDE DEF v
  <2>3. Moved(w.chunk, "cq", v) /\ <<w.chunk, "wire", w>> \in Spots
    BY <2>2, CompletePlaces
  <2>4. w.chunk \notin Ringing
    BY <1>1, <2>3 DEF OnTheWay
  <2>5. \A a \in Spots' : a \in Spots \/ a[1] \notin Ringing
    BY <2>3, <2>4 DEF Moved
  <2> QED BY <1>2, <2>2, <2>5
<1>14. CASE Launch \/ LaunchFails
  <2>1. \E x : x.chunk = Head(requests).chunk /\ held' = <<x>>
    <3>1. CASE Launch
      <4>1. PICK flag : Hold(flag, TRUE)
        BY <3>1 DEF Launch
      <4> QED BY <4>1 DEF Hold
    <3>2. CASE LaunchFails
      BY <3>2 DEF LaunchFails, Hold
    <3> QED BY <1>14, <3>1, <3>2
  <2>2. /\ UNCHANGED <<nextChunk, pipe, wire, cq, active, results>>
        /\ held = <<>> /\ requests # <<>> /\ requests' = Tail(requests)
    BY <1>14 DEF Launch, LaunchFails, Client, CanLaunch, Pop, nic, worker
  <2> QED BY <2>1, <2>2, LaunchRings
<1>15. CASE PushResult
  <2>1. /\ UNCHANGED <<nextChunk, pipe, wire, cq, active, requests>>
        /\ held # <<>> /\ results' = results \o held /\ held' = <<>>
    BY <1>15 DEF PushResult, Client, nic, worker
  <2> QED BY <2>1, PushRings
<1>16. CASE PollFails
  <2>1. UNCHANGED <<requests, results, held, pipe, wire, cq>> /\ ToSet(active') = {}
    BY <1>16 DEF PollFails, copier, nic, ToSet
  <2> QED BY <1>3, <2>1
<1>17. CASE DrainRecycled \/ Gpu
  BY <1>3, <1>17 DEF DrainRecycled, Gpu, FinishCopy, Client, nic, worker
<1>18. CASE (\E t \in Transfers : Start(t)) \/ PostFails
  BY <1>3, <1>18 DEF Start, PostFails, copier, nic, worker
<1>19. CASE AdvanceEnds \/ AssignEnds \/ PostEnds
  BY <1>3, <1>19 DEF AdvanceEnds, AssignEnds, PostEnds, copier, nic
<1>20. CASE UNCHANGED vars
  BY <1>3, <1>20 DEF vars, worker
<1>21. CASE Aside
  BY <1>3, <1>21, AsideStays
<1> QED BY <1>4, <1>5, <1>6, <1>7, <1>8, <1>9, <1>10, <1>11, <1>12, <1>13, <1>14, <1>15, <1>16, <1>17, <1>18, <1>19,
             <1>20, <1>21
        DEF Next, Worker, Aside, CopyThread

\* Sequences that hold no chunk twice and share none.
LEMMA DistinctConcat ==
    ASSUME NEW T, NEW r \in Seq(T), NEW s \in Seq(T), Distinct(r), Distinct(s),
           ChunksOf(r) \cap ChunksOf(s) = {}
    PROVE  Distinct(r \o s) /\ ChunksOf(r \o s) = ChunksOf(r) \cup ChunksOf(s)
<1> DEFINE q == r \o s
           m == Len(r)
           n == Len(s)
<1>1. /\ q \in Seq(T) /\ Len(q) = m + n /\ m \in Nat /\ n \in Nat
      /\ \A i \in 1..(m + n) : i \in 1..m \/ \E j \in 1..n : i = m + j
      /\ ToSet(q) = ToSet(r) \cup ToSet(s)
  BY SeqConcat
<1>2. \A i \in 1..m : r[i].chunk \in ChunksOf(r)
  BY DEF ChunksOf
<1>3. \A i \in 1..n : s[i].chunk \in ChunksOf(s)
  BY DEF ChunksOf
<1>4. ChunksOf(q) = ChunksOf(r) \cup ChunksOf(s)
  <2> HIDE DEF q
  <2>1. /\ ChunksOf(q) = {x.chunk : x \in ToSet(q)} /\ ChunksOf(r) = {x.chunk : x \in ToSet(r)}
        /\ ChunksOf(s) = {x.chunk : x \in ToSet(s)}
    BY <1>1, ChunksIn
  <2> QED BY <1>1, <2>1
<1> HIDE DEF q, m, n
<1>5. \A i \in 1..n : q[m + i] = s[i]
  <2>1. \A k \in 1..Len(s) : (r \o s)[Len(r) + k] = s[k]
    BY SeqConcat
  <2> QED BY <2>1 DEF q, m, n
<1>6. \A i \in 1..m : q[i] = r[i]
  BY SeqConcat DEF q, m, n
<1>7. \A i, j \in 1..m : r[i].chunk = r[j].chunk => i = j
  BY DEF Distinct, m
<1>8. \A i, j \in 1..n : s[i].chunk = s[j].chunk => i = j
  BY DEF Distinct, n
<1>9. ASSUME NEW i \in 1..(m + n), NEW j \in 1..(m + n), q[i].chunk = q[j].chunk
      PROVE  i = j
  <2>1. CASE i \in 1..m /\ j \in 1..m
    BY <1>6, <1>7, <1>9, <2>1
  <2>2. CASE i \in 1..m /\ j \notin 1..m
    <3>1. PICK k \in 1..n : j = m + k
      BY <1>1, <2>2
    <3>2. q[i].chunk = r[i].chunk /\ q[j].chunk = s[k].chunk
      BY <1>5, <1>6, <2>2, <3>1
    <3> QED BY <1>2, <1>3, <1>9, <2>2, <3>2
  <2>3. CASE i \notin 1..m /\ j \in 1..m
    <3>1. PICK k \in 1..n : i = m + k
      BY <1>1, <2>3
    <3>2. q[j].chunk = r[j].chunk /\ q[i].chunk = s[k].chunk
      BY <1>5, <1>6, <2>3, <3>1
    <3> QED BY <1>2, <1>3, <1>9, <2>3, <3>2
  <2>4. CASE i \notin 1..m /\ j \notin 1..m
    <3>1. PICK k \in 1..n : i = m + k
      BY <1>1, <2>4
    <3>2. PICK l \in 1..n : j = m + l
      BY <1>1, <2>4
    <3>3. k = l
      BY <1>5, <1>8, <1>9, <3>1, <3>2
    <3> QED BY <3>1, <3>2, <3>3
  <2> QED BY <2>1, <2>2, <2>3, <2>4
<1>10. Distinct(q)
  BY <1>1, <1>9 DEF Distinct
<1> QED BY <1>4, <1>10 DEF q

\* A chunk comes once in a sequence that holds none twice.
LEMMA ComesOnce ==
    ASSUME NEW T, NEW s \in Seq(T), Distinct(s), NEW c
    PROVE  Cardinality({i \in DOMAIN s : s[i].chunk = c}) = IF c \in ChunksOf(s) THEN 1 ELSE 0
<1> DEFINE I == {i \in DOMAIN s : s[i].chunk = c}
<1>1. DOMAIN s = 1..Len(s)
  BY SeqSet
<1>2. CASE c \notin ChunksOf(s)
  <2>1. I = {}
    BY <1>1, <1>2 DEF ChunksOf
  <2> QED BY <1>2, <2>1, FS_EmptySet
<1>3. CASE c \in ChunksOf(s)
  <2>1. PICK i \in 1..Len(s) : s[i].chunk = c
    BY <1>3 DEF ChunksOf
  <2>2. I = {i}
    BY <1>1, <2>1 DEF Distinct
  <2> QED BY <1>3, <2>2, FS_Singleton
<1> QED BY <1>2, <1>3

\* A sequence over a set is one over a larger set.
LEMMA SeqWider == ASSUME NEW S, NEW T, S \subseteq T, NEW s \in Seq(S) PROVE s \in Seq(T)
OBVIOUS

\* The rings are apart, so a copy that waits has one result coming, and no other has.
LEMMA RingsKeep == ASSUME Control, Typed, RingsApart PROVE ResultsKept
<1> DEFINE T == [chunk : Chunks, gpu : ProxyGpus] \cup ResultRecord
           rest == results \o held
           ring == requests \o rest
<1>1. /\ requests \in Seq([chunk : Chunks, gpu : ProxyGpus]) /\ results \in Seq(ResultRecord)
      /\ held \in Seq(ResultRecord) /\ Len(held) <= 1
  BY RingTypes
<1> DEFINE R == [chunk : Chunks, gpu : ProxyGpus]
<1>0. R \subseteq T /\ ResultRecord \subseteq T /\ requests \in Seq(R)
  BY <1>1
<1> HIDE DEF R, T
<1>2. requests \in Seq(T) /\ results \in Seq(T) /\ held \in Seq(T)
  <2>1. \A s \in Seq(R) : s \in Seq(T)
    BY <1>0, SeqWider
  <2>2. \A s \in Seq(ResultRecord) : s \in Seq(T)
    BY <1>0, SeqWider
  <2> QED BY <1>0, <1>1, <2>1, <2>2
<1> HIDE DEF T
<1>3. Separate
  BY RingsParts
<1>4. Distinct(held)
  <2>1. Len(held) \in Nat
    BY <1>2
  <2> QED BY <1>1, <2>1 DEF Distinct
<1>5. rest \in Seq(T) /\ Distinct(rest) /\ ChunksOf(rest) = ChunksOf(results) \cup ChunksOf(held)
  <2>1. rest \in Seq(T)
    BY <1>2, SeqConcat
  <2>2. Distinct(rest) /\ ChunksOf(rest) = ChunksOf(results) \cup ChunksOf(held)
    BY <1>2, <1>3, <1>4, DistinctConcat DEF Separate
  <2> QED BY <2>1, <2>2
<1> HIDE DEF rest
<1>6. ring \in Seq(T) /\ Distinct(ring) /\ ChunksOf(ring) = ChunksOf(requests) \cup ChunksOf(rest)
  <2>1. ring \in Seq(T)
    BY <1>2, <1>5, SeqConcat
  <2>2. Distinct(requests) /\ ChunksOf(requests) \cap ChunksOf(rest) = {}
    BY <1>3, <1>5 DEF Separate
  <2>3. Distinct(ring) /\ ChunksOf(ring) = ChunksOf(requests) \cup ChunksOf(rest)
    BY <1>2, <1>5, <2>2, DistinctConcat
  <2> QED BY <2>1, <2>3
<1>7. ChunksOf(ring) = Ringing
  BY <1>5, <1>6 DEF Ringing
<1>8. \A c : Coming(c) = {i \in DOMAIN ring : ring[i].chunk = c}
  <2>1. ring = requests \o results \o held
    <3>1. requests \o (results \o held) = (requests \o results) \o held
      BY <1>2, ConcatAssociative
    <3> QED BY <3>1 DEF rest
  <2> QED BY <2>1, Zenon DEF Coming
<1> HIDE DEF ring
<1> SUFFICES ASSUME NEW p \in ToSet(active) \X ProxyNics, NEW e \in ToSet(pipe[p].copying)
             PROVE  Cardinality(Coming(e.chunk)) = IF e.got THEN 0 ELSE 1
  BY DEF ResultsKept
<1>9. Cardinality(Coming(e.chunk)) = IF e.chunk \in Ringing THEN 1 ELSE 0
  BY <1>6, <1>7, <1>8, ComesOnce
<1>10. p \in Pipelines => e.chunk \in Ringing <=> ~e.got
  BY RingsParts DEF Expected
<1>11. p \in Pipelines
  <2>1. ToSet(active) \subseteq Transfers
    BY SeqSet DEF Control, Rounds, Working
  <2> QED BY <2>1 DEF Pipelines
<1> QED BY <1>9, <1>10, <1>11

-----------------------------------------------------------------------------
(* Up to the first failure: flags and results.                              *)

\* A transfer that fails taints the state.
LEMMA StepUnfailed == ASSUME Control, Typed, Unfailed, [Next]_vars PROVE Unfailed'
<1>0. Working
  BY DEF Control, Rounds
<1>1. ASSUME \A t \in Transfers : status'[t] = status[t] \/ status'[t] # "failed" \/ "failed" \in taint'
      PROVE Unfailed'
  BY <1>1, TaintStays DEF Unfailed
<1>2. CASE \E t \in Transfers : Start(t)
  <2>1. PICK t \in Transfers : status' = [status EXCEPT ![t] = "queued"]
    BY <1>2 DEF Start
  <2> QED BY <1>0, <1>1, <2>1 DEF Working
<1>3. CASE Begin
  BY <1>1, <1>3, BeginControls DEF Control
<1>4. CASE Dispatch
  <2> DEFINE refused == {r \in ToSet(results) : ~r.ok /\ Awaiting(r) # {}}
  <2>1. /\ Fail(UNION {{p[1] : p \in Awaiting(r)} : r \in refused})
        /\ taint' = IF refused = {} THEN taint ELSE taint \cup {"failed"}
    BY <1>4, Zenon DEF Dispatch
  <2> HIDE DEF refused
  <2>2. CASE refused = {}
    <3>1. \A t : t \notin UNION {{p[1] : p \in Awaiting(r)} : r \in refused}
      BY <2>2
    <3>2. \A t \in Transfers : status'[t] = status[t]
      BY <1>0, <2>1, <3>1, FailKeeps, Zenon
    <3> QED BY <1>1, <3>2
  <2>3. CASE refused # {}
    BY <1>1, <2>1, <2>3
  <2> QED BY <2>2, <2>3
<1>5. CASE Poll
  <2>1. Fail({w.chunk[1] : w \in {w \in cq : ~w.ok}}) /\ ("failed" \notin taint' => \A w \in cq : w.ok)
    BY <1>5, PollIs DEF Polled
  <2>2. CASE \A w \in cq : w.ok
    <3>1. \A t : t \notin {w.chunk[1] : w \in {w \in cq : ~w.ok}}
      BY <2>2
    <3>2. \A t \in Transfers : status'[t] = status[t]
      BY <1>0, <2>1, <3>1, FailKeeps, Zenon
    <3> QED BY <1>1, <3>2
  <2>3. CASE "failed" \in taint'
    BY <1>1, <2>3
  <2> QED BY <2>1, <2>2, <2>3
<1>6. CASE Retire
  <2>1. PICK S \in SUBSET Transfers : Retired(S)
    BY <1>6, RetireIs
  <2> QED BY <1>1, <2>1 DEF Retired
<1>7. CASE PostFails \/ PollFails
  BY <1>1, <1>7 DEF PostFails, PollFails
<1>8. CASE AdvanceCopy \/ Aside \/ AdvanceEnds \/ AssignDirect \/ AssignProxy \/ AssignEnds
  BY <1>1, <1>8, AsideStays DEF AdvanceCopy, AdvanceEnds, AssignDirect, AssignProxy, AssignEnds
<1>9. CASE FreePosted \/ PostProxy \/ PostEnds
  BY <1>1, <1>9 DEF FreePosted, PostProxy, PostEnds
<1>10. CASE CopyThread \/ LaunchFails
  BY <1>1, <1>10 DEF CopyThread, Launch, DrainRecycled, PushResult, LaunchFails, Client
<1>11. CASE Gpu \/ Nic \/ NicFails
  BY <1>1, <1>11 DEF Gpu, Nic, NicFails, FinishCopy, Complete, Client
<1>12. CASE UNCHANGED vars
  BY <1>1, <1>12 DEF vars
<1> QED BY <1>2, <1>3, <1>4, <1>5, <1>6, <1>7, <1>8, <1>9, <1>10, <1>11, <1>12
        DEF Next, Worker, Aside

\* A transfer that has counted all of its chunks has none left to copy.
LEMMA OverIsEmpty ==
    ASSUME Control, Typed, Places, Counted, NEW p \in Pipelines, completed[p[1]] >= Len(Lens[p[1]])
    PROVE  pipe[p].copying = <<>>
<1> DEFINE t == p[1]
<1>1. t \in Transfers
  BY DEF Pipelines
<1>2. /\ Cardinality(Gone(t)) \in Nat /\ Cardinality(Gone(t)) <= Len(Lens[t]) /\ Len(Lens[t]) \in Nat
      /\ Cardinality(Gone(t)) = Len(Lens[t]) => Gone(t) = 1..Len(Lens[t])
  BY <1>1, GoneIs, ChunkTyped
<1>3. completed[t] \in Nat /\ completed[t] <= Cardinality(Gone(t))
  BY <1>1 DEF Counted, Typed, Kept
<1>4. Gone(t) = 1..Len(Lens[t])
  BY <1>2, <1>3
<1> SUFFICES ASSUME pipe[p].copying # <<>> PROVE FALSE
  OBVIOUS
<1> DEFINE e == Head(pipe[p].copying)
<1>5. e \in ToSet(pipe[p].copying)
  BY RingTypes, SeqTail
<1> HIDE DEF e
<1>6. <<e.chunk, "copying", p>> \in Spots /\ e.chunk[1] = t
  BY <1>5, SpotIs DEF Places, Apart, Orderly
<1>7. e.chunk \in Chunks
  BY <1>6, SpotTyped
<1>8. e.chunk = <<t, e.chunk[2]>> /\ e.chunk[2] \in 1..Len(Lens[t])
  BY <1>6, <1>7, ChunkTyped
<1>9. e.chunk[2] \notin Gone(t)
  BY <1>6, <1>8 DEF Gone
<1> QED BY <1>4, <1>8, <1>9

\* Which chunks a flag is entrusted to.
LEMMA EntrustedIs ==
    ASSUME Control, Typed
    PROVE  \A a : a \in Entrusted <=>
              \/ \E r \in ToSet(results) \cup ToSet(held) : a = <<r.chunk, r.flag>>
              \/ \E p \in Pipelines : p[1] \in ToSet(active) /\ \E e \in ToSet(pipe[p].copying) : e.got
                   /\ a = <<e.chunk, e.flag>>
<1>1. ToSet(results \o held) = ToSet(results) \cup ToSet(held)
  BY RingTypes, SeqConcat
<1>2. ToSet(active) \subseteq Transfers
  BY SeqSet DEF Control, Rounds, Working
<1>3. \A p : p \in ToSet(active) \X ProxyNics <=> p \in Pipelines /\ p[1] \in ToSet(active)
  BY <1>2 DEF Pipelines
<1> QED BY <1>1, <1>3 DEF Entrusted, Received

\* The same in the next state.
LEMMA EntrustedAfter ==
    ASSUME Control', Typed'
    PROVE  \A a : a \in Entrusted' <=>
              \/ \E r \in ToSet(results') \cup ToSet(held') : a = <<r.chunk, r.flag>>
              \/ \E p \in Pipelines : p[1] \in ToSet(active') /\ \E e \in ToSet(pipe'[p].copying) : e.got
                   /\ a = <<e.chunk, e.flag>>
<1>1. ToSet((results \o held)') = ToSet(results') \cup ToSet(held')
  <2>1. results' \in Seq(ResultRecord) /\ held' \in Seq(ResultRecord)
    BY DEF Typed, Rings
  <2> QED BY <2>1, SeqConcat
<1>2. ToSet(active') \subseteq Transfers
  <2>1. active' \in Seq(Transfers)
    BY DEF Control, Rounds, Working
  <2> QED BY <2>1, SeqSet
<1>3. \A p : p \in ToSet(active') \X ProxyNics <=> p \in Pipelines /\ p[1] \in ToSet(active')
  BY <1>2 DEF Pipelines
<1>4. Entrusted' = {<<r.chunk, r.flag>> : r \in ToSet((results \o held)')} \cup
                   UNION {{<<e.chunk, e.flag>> : e \in {e \in ToSet(pipe'[p].copying) : e.got}}
                     : p \in ToSet(active') \X ProxyNics}
  BY Zenon DEF Entrusted, Received, ToSet
<1> QED BY <1>1, <1>3, <1>4

\* A flag that was received is the only one for its chunk.
LEMMA EntrustedChunk ==
    ASSUME Control, Typed, Places, RingsApart,
           NEW p \in Pipelines, NEW e \in ToSet(pipe[p].copying), e.got,
           NEW a \in Entrusted, a[1] = e.chunk
    PROVE  a = <<e.chunk, e.flag>>
<1>1. e.chunk \notin Ringing
  BY RingsParts DEF Expected
<1>2. \A r \in ToSet(results) \cup ToSet(held) : r.chunk \in Ringing
  <2>1. ChunksOf(results) = {r.chunk : r \in ToSet(results)} /\ ChunksOf(held) = {r.chunk : r \in ToSet(held)}
    BY RingTypes, ChunksIn
  <2> QED BY <2>1 DEF Ringing
<1>0. PICK q \in Pipelines : \E f \in ToSet(pipe[q].copying) : a = <<f.chunk, f.flag>>
  BY <1>1, <1>2, EntrustedIs
<1>3. PICK f \in ToSet(pipe[q].copying) : a = <<f.chunk, f.flag>>
  BY <1>0
<1>4. <<e.chunk, "copying", p>> \in Spots /\ <<f.chunk, "copying", q>> \in Spots
  BY SpotIs
<1>5. f.chunk = e.chunk
  BY <1>3
<1>6. p = q
  BY <1>4, <1>5 DEF Places, Single
<1>7. Distinct(pipe[p].copying)
  BY DEF Places, Apart, Orderly
<1>8. e = f
  <2> DEFINE s == pipe[p].copying
  <2>1. s \in Seq(CopyRecord) /\ e \in ToSet(s) /\ f \in ToSet(s) /\ Distinct(s)
    BY <1>3, <1>6, <1>7, RingTypes
  <2> HIDE DEF s
  <2>2. PICK i \in 1..Len(s) : e = s[i]
    BY <2>1, SeqSet
  <2>3. PICK j \in 1..Len(s) : f = s[j]
    BY <2>1, SeqSet
  <2> QED BY <1>5, <2>1, <2>2, <2>3 DEF Distinct
<1> QED BY <1>3, <1>8

\* Steps that keep flags where they are: nothing that is being copied is posted.
LEMMA FlagsStill ==
    ASSUME FlagsOwned, Entrusted' = Entrusted, Drained' = Drained, copies' \subseteq copies, raised' = raised,
           \A w \in wire' : w \in wire \/ \A k \in copies : k.chunk # w.chunk
    PROVE  FlagsOwned'
<1>1. /\ IsInjective(Drained)
      /\ \A a, b \in Entrusted : a[2] = b[2] /\ a[2] # NoFlag => a = b
      /\ \A a \in Entrusted : a[2] \notin ToSet(Drained)
      /\ \A k \in copies : <<k.chunk, k.flag>> \in Entrusted /\ k.flag \notin raised
      /\ \A k \in copies : \A w \in wire : k.chunk # w.chunk
  BY Zenon DEF FlagsOwned
<1>2. IsInjective(Drained)' /\ ToSet(Drained)' = ToSet(Drained)
  BY <1>1 DEF IsInjective, ToSet
<1>3. \A k \in copies' : \A w \in wire' : k.chunk # w.chunk
  BY <1>1
<1>4. \A k \in copies' : <<k.chunk, k.flag>> \in Entrusted' /\ k.flag \notin raised'
  BY <1>1
<1>5. \A a \in Entrusted' : a[2] \notin ToSet(Drained)'
  BY <1>1, <1>2
<1>6. \A a, b \in Entrusted' : a[2] = b[2] /\ a[2] # NoFlag => a = b
  BY <1>1
<1> QED BY <1>2, <1>3, <1>4, <1>5, <1>6, Zenon DEF FlagsOwned

\* Steps that keep the results where they are, and what has been received.
LEMMA EntrustedStill ==
    ASSUME Control, Typed, Control', Typed', UNCHANGED <<results, held>>,
           \A p \in Pipelines : \A e : e.got =>
              (p[1] \in ToSet(active') /\ e \in ToSet(pipe'[p].copying)
                <=> p[1] \in ToSet(active) /\ e \in ToSet(pipe[p].copying))
    PROVE  Entrusted' = Entrusted
<1>1. \A a : a \in Entrusted' <=>
              \/ \E r \in ToSet(results) \cup ToSet(held) : a = <<r.chunk, r.flag>>
              \/ \E p \in Pipelines : p[1] \in ToSet(active') /\ \E e \in ToSet(pipe'[p].copying) : e.got
                   /\ a = <<e.chunk, e.flag>>
  BY EntrustedAfter
<1>2. \A a : a \in Entrusted' <=> a \in Entrusted
  BY <1>1, EntrustedIs
<1> QED BY <1>2

\* What has been received is off the rings, and what a copy brings has not come to a NIC.
LEMMA CopyIsKnown ==
    ASSUME Control, Typed, RingsApart, FlagsOwned, NEW k \in copies
    PROVE  \/ k.chunk \in Ringing
           \/ \E p \in Pipelines : p[1] \in ToSet(active) /\ \E e \in ToSet(pipe[p].copying) : e.chunk = k.chunk
<1>1. <<k.chunk, k.flag>> \in Entrusted
  BY DEF FlagsOwned
<1>2. \A r \in ToSet(results) \cup ToSet(held) : r.chunk \in Ringing
  <2>1. ChunksOf(results) = {r.chunk : r \in ToSet(results)} /\ ChunksOf(held) = {r.chunk : r \in ToSet(held)}
    BY RingTypes, ChunksIn
  <2> QED BY <2>1 DEF Ringing
<1> QED BY <1>1, <1>2, EntrustedIs

\* The requests that are under way, and who waits.
LEMMA AwaitedStill ==
    ASSUME RingsApart, Awaited, Ringing' \subseteq Ringing,
           \A p \in Pipelines : p[1] \in ToSet(active) => \A e \in ToSet(pipe[p].copying) : e.chunk \in Ringing =>
               p[1] \in ToSet(active') /\ \E f \in ToSet(pipe'[p].copying) : f.chunk = e.chunk
    PROVE  Awaited'
<1> SUFFICES ASSUME NEW c \in Ringing
             PROVE  \E p \in Pipelines : p[1] \in ToSet(active') /\ \E e \in ToSet(pipe'[p].copying) : e.chunk = c
  BY Zenon DEF Awaited, ToSet
<1>1. PICK p \in Pipelines : p[1] \in ToSet(active) /\ \E e \in ToSet(pipe[p].copying) : e.chunk = c
  BY DEF Awaited
<1> QED BY <1>1

\* What the step must keep up to a failure.
LEMMA SoundFrom ==
    ASSUME Sound, [Next]_vars, Awaited /\ FlagsOwned /\ "failed" \notin taint' => Awaited' /\ FlagsOwned'
    PROVE  Sound'
BY TaintStays DEF Sound

\* A step that leaves rings, flags and the copies of running transfers alone.
LEMMA QuietSound ==
    ASSUME Control, Typed, Control', Typed', RingsApart, Awaited, FlagsOwned,
           UNCHANGED <<requests, results, held, pool, recycled, raised, copies>>,
           \A p \in Pipelines : \A e : p[1] \in ToSet(active') /\ e \in ToSet(pipe'[p].copying)
                                   <=> p[1] \in ToSet(active) /\ e \in ToSet(pipe[p].copying),
           \A w \in wire' : w \in wire \/ \A k \in copies : k.chunk # w.chunk
    PROVE  Awaited' /\ FlagsOwned'
<1>1. Entrusted' = Entrusted
  BY EntrustedStill
<1>2. Drained' = Drained
  BY DEF Drained
<1>3. FlagsOwned'
  BY <1>1, <1>2, FlagsStill
<1>4. Ringing' = Ringing
  BY DEF Ringing, ChunksOf
<1>5. Awaited'
  BY <1>4, AwaitedStill
<1> QED BY <1>3, <1>5

\* A copy is asked for: nobody has a flag for it.
LEMMA AdvanceSound ==
    ASSUME Control, Typed, Control', Typed', RingsApart, Awaited, FlagsOwned,
           UNCHANGED <<active, results, held, pool, recycled, raised, copies, wire>>,
           NEW p \in Pipelines, NEW e \in CopyRecord, Advanced(p, e)
    PROVE  Awaited' /\ FlagsOwned'
<1>1. ~e.got /\ p[1] \in ToSet(active) /\ pipe'[p].copying = Append(pipe[p].copying, e) /\ Elsewhere(p)
  BY DEF Advanced
<1>2. ToSet(pipe'[p].copying) = ToSet(pipe[p].copying) \cup {e}
  BY <1>1, RingTypes, SeqAppend
<1>3. ASSUME NEW q \in Pipelines, NEW f
      PROVE  f \in ToSet(pipe'[q].copying) <=> f \in ToSet(pipe[q].copying) \/ (q = p /\ f = e)
  <2>1. CASE q = p
    BY <1>2, <2>1
  <2>2. CASE q # p
    BY <1>1, <2>2, Zenon DEF Elsewhere
  <2> QED BY <2>1, <2>2
<1>4. Entrusted' = Entrusted
  BY <1>1, <1>3, EntrustedStill
<1>5. Drained' = Drained
  BY DEF Drained
<1>6. FlagsOwned'
  BY <1>4, <1>5, FlagsStill
<1>7. Ringing' = Ringing \cup {e.chunk}
  <2> DEFINE R == [chunk : Chunks, gpu : ProxyGpus]
  <2>1. PICK g \in ProxyGpus : requests' = Append(requests, [chunk |-> e.chunk, gpu |-> g])
    BY Zenon DEF Advanced
  <2> DEFINE x == [chunk |-> e.chunk, gpu |-> g]
  <2>2. x \in R /\ x.chunk = e.chunk /\ requests \in Seq(R)
    BY RingTypes DEF CopyRecord
  <2> HIDE DEF R, x
  <2> DEFINE r == Append(requests, x)
  <2>3. r \in Seq(R) /\ ToSet(r) = ToSet(requests) \cup {x}
    BY <2>2, SeqAppend
  <2> HIDE DEF r
  <2>4. ChunksOf(r) = {y.chunk : y \in ToSet(r)} /\ ChunksOf(requests) = {y.chunk : y \in ToSet(requests)}
    BY <2>2, <2>3, ChunksIn
  <2>5. ChunksOf(r) = ChunksOf(requests) \cup {e.chunk}
    BY <2>2, <2>3, <2>4
  <2>6. requests' = r
    BY <2>1 DEF r, x
  <2>7. ChunksOf(requests)' = ChunksOf(r) /\ ChunksOf(results)' = ChunksOf(results)
          /\ ChunksOf(held)' = ChunksOf(held)
    BY <2>6 DEF ChunksOf
  <2> QED BY <2>5, <2>7 DEF Ringing
<1>8. Awaited'
  <2> SUFFICES ASSUME NEW c \in Ringing \cup {e.chunk}
               PROVE  \E q \in Pipelines : q[1] \in ToSet(active') /\ \E f \in ToSet(pipe'[q].copying) : f.chunk = c
    BY <1>7, Zenon DEF Awaited, ToSet
  <2>1. CASE c = e.chunk
    BY <1>1, <1>2, <2>1
  <2>2. CASE c \in Ringing
    <3>1. PICK q \in Pipelines : q[1] \in ToSet(active) /\ \E f \in ToSet(pipe[q].copying) : f.chunk = c
      BY <2>2 DEF Awaited
    <3> QED BY <1>3, <3>1
  <2> QED BY <2>1, <2>2
<1> QED BY <1>6, <1>8

\* A chunk is posted whose copy is done: its flag goes back.
LEMMA PostSound ==
    ASSUME Control, Typed, Control', Typed', Places, RingsApart, Awaited, FlagsOwned,
           UNCHANGED <<active, requests, results, held, pool, raised, copies>>,
           NEW p \in Pipelines, NEW e \in CopyRecord, NEW w \in WireRecord, Posted(p, e, w)
    PROVE  Awaited' /\ FlagsOwned'
<1> DEFINE f == e.flag
           own == <<e.chunk, f>>
<1>1. /\ p[1] \in ToSet(active) /\ pipe[p].copying # <<>> /\ e = Head(pipe[p].copying) /\ Elsewhere(p)
      /\ pipe'[p].copying = Tail(pipe[p].copying) /\ e.got /\ f # NoFlag /\ f \in raised
      /\ w.chunk = e.chunk /\ wire' = wire \cup {w} /\ Recycle(<<f>>)
  BY DEF Posted, CopyDone
<1>2. e \in ToSet(pipe[p].copying) /\ ToSet(pipe[p].copying) = ToSet(pipe'[p].copying) \cup {e}
  BY <1>1, RingTypes, SeqTail
<1>3. \A x \in ToSet(pipe'[p].copying) : x.chunk # e.chunk
  <2>1. Distinct(pipe[p].copying)
    BY DEF Places, Apart, Orderly
  <2> QED BY <1>1, <2>1, RingTypes, DistinctTail
<1>4. e.chunk \notin Ringing
  BY <1>1, <1>2, RingsParts DEF Expected
<1>5. own \in Entrusted
  BY <1>1, <1>2, EntrustedIs
<1>6. ASSUME NEW a \in Entrusted, a[1] = e.chunk PROVE a = own
  BY <1>1, <1>2, <1>6, EntrustedChunk
<1>7. ASSUME NEW q \in Pipelines, NEW x
      PROVE  x \in ToSet(pipe'[q].copying) <=> x \in ToSet(pipe[q].copying) /\ ~(q = p /\ x = e)
  <2>1. CASE q = p
    BY <1>2, <1>3, <2>1
  <2>2. CASE q # p
    BY <1>1, <2>2, Zenon DEF Elsewhere
  <2> QED BY <2>1, <2>2
<1>8. ASSUME NEW q \in Pipelines, NEW x \in ToSet(pipe'[q].copying) PROVE x.chunk # e.chunk
  <2>1. CASE q = p
    BY <1>3, <2>1
  <2>2. CASE q # p
    <3>1. <<x.chunk, "copying", q>> \in Spots /\ <<e.chunk, "copying", p>> \in Spots
      BY <1>2, <1>7, SpotIs
    <3>2. x.chunk = e.chunk => <<x.chunk, "copying", q>> = <<e.chunk, "copying", p>>
      BY <3>1 DEF Places, Single
    <3> QED BY <2>2, <3>2
  <2> QED BY <2>1, <2>2
<1>9. \A a : a \in Entrusted' <=> a \in Entrusted /\ a # own
  <2>1. \A r \in ToSet(results) \cup ToSet(held) : r.chunk # e.chunk
    <3>1. ChunksOf(results) = {r.chunk : r \in ToSet(results)} /\ ChunksOf(held) = {r.chunk : r \in ToSet(held)}
      BY RingTypes, ChunksIn
    <3> QED BY <1>4, <3>1 DEF Ringing
  <2>2. \A a : a \in Entrusted' <=>
              \/ \E r \in ToSet(results) \cup ToSet(held) : a = <<r.chunk, r.flag>>
              \/ \E q \in Pipelines : q[1] \in ToSet(active) /\ \E x \in ToSet(pipe'[q].copying) : x.got
                   /\ a = <<x.chunk, x.flag>>
    BY EntrustedAfter
  <2>3. ASSUME NEW a \in Entrusted' PROVE a \in Entrusted /\ a # own
    <3>1. CASE \E r \in ToSet(results) \cup ToSet(held) : a = <<r.chunk, r.flag>>
      BY <2>1, <3>1, EntrustedIs
    <3>2. CASE \E q \in Pipelines : q[1] \in ToSet(active) /\ \E x \in ToSet(pipe'[q].copying) : x.got
                 /\ a = <<x.chunk, x.flag>>
      BY <1>7, <1>8, <3>2, EntrustedIs
    <3> QED BY <2>2, <2>3, <3>1, <3>2
  <2>4. ASSUME NEW a \in Entrusted, a # own PROVE a \in Entrusted'
    <3>1. CASE \E r \in ToSet(results) \cup ToSet(held) : a = <<r.chunk, r.flag>>
      BY <2>2, <3>1
    <3>2. CASE \E q \in Pipelines : q[1] \in ToSet(active) /\ \E x \in ToSet(pipe[q].copying) : x.got
                 /\ a = <<x.chunk, x.flag>>
      BY <1>7, <2>2, <2>4, <3>2
    <3> QED BY <2>4, <3>1, <3>2, EntrustedIs
  <2> QED BY <2>3, <2>4
<1>10. /\ IsInjective(Drained)
       /\ \A a, b \in Entrusted : a[2] = b[2] /\ a[2] # NoFlag => a = b
       /\ \A a \in Entrusted : a[2] \notin ToSet(Drained)
       /\ \A k \in copies : <<k.chunk, k.flag>> \in Entrusted /\ k.flag \notin raised
       /\ \A k \in copies : \A v \in wire : k.chunk # v.chunk
  BY Zenon DEF FlagsOwned
<1>11. f \notin ToSet(Drained) /\ f \in Flags
  BY <1>1, <1>5, <1>10 DEF CopyRecord, Flags
<1>12. \A a \in Entrusted' : a[2] # f
  BY <1>1, <1>5, <1>9, <1>10
<1>13. Drained' = Drained \/ Drained' = Append(Drained, f)
  <2>1. <<f>> \in Seq(Flags) /\ Len(<<f>>) = 1
    BY <1>11
  <2>2. PICK k \in 0..Len(<<f>>) : recycled' = recycled \o SubSeq(<<f>>, 1, k)
    BY <1>1, <2>1, RecycleIs DEF Typed
  <2>3. pool \in Seq(Flags) /\ recycled \in Seq(Flags)
    BY DEF Typed, Rings
  <2>4. CASE k = 0
    <3>1. SubSeq(<<f>>, 1, 0) = <<>>
      BY <2>1
    <3>2. recycled' = recycled
      BY <2>2, <2>3, <2>4, <3>1
    <3> QED BY <3>2 DEF Drained
  <2>5. CASE k = 1
    <3>1. SubSeq(<<f>>, 1, 1) = <<f>>
      <4> DEFINE s == SubSeq(<<f>>, 1, 1)
      <4>1. s \in Seq(Flags) /\ Len(s) = 1 /\ s[1] = f
        BY <2>1, SubSeqProperties
      <4> HIDE DEF s
      <4>2. s = <<f>>
        BY <4>1
      <4> QED BY <4>2 DEF s
    <3>2. recycled' = recycled \o <<f>>
      BY <2>2, <2>5, <3>1
    <3>3. pool \o (recycled \o <<f>>) = (pool \o recycled) \o <<f>>
      BY <2>1, <2>3, ConcatAssociative
    <3>4. (pool \o recycled) \o <<f>> = Append(pool \o recycled, f)
      BY <1>11, <2>3
    <3> QED BY <3>2, <3>3, <3>4 DEF Drained
  <2>6. k \in {0, 1}
    BY <2>1, <2>2
  <2> QED BY <2>4, <2>5, <2>6
<1>14. IsInjective(Drained') /\ ToSet(Drained') \subseteq ToSet(Drained) \cup {f}
  <2>1. Drained \in Seq(Flags)
    BY LaunchFlagIs
  <2>2. CASE Drained' = Drained
    BY <1>10, <2>2
  <2>3. CASE Drained' = Append(Drained, f)
    <3> DEFINE d == Drained
               d2 == Append(d, f)
    <3>1. /\ d2 \in Seq(Flags) /\ Len(d2) = Len(d) + 1 /\ Len(d) \in Nat
          /\ \A i \in 1..Len(d) : d2[i] = d[i] /\ d[i] \in ToSet(d)
          /\ d2[Len(d) + 1] = f /\ ToSet(d2) = ToSet(d) \cup {f} /\ DOMAIN d = 1..Len(d)
      BY <1>11, <2>1, SeqAppend, SeqSet
    <3>2. DOMAIN d2 = 1..Len(d2)
      BY <3>1, SeqSet
    <3> HIDE DEF d, d2
    <3>3. IsInjective(d)
      BY <1>10 DEF d
    <3>4. IsInjective(d2)
      BY <1>11, <3>1, <3>2, <3>3 DEF IsInjective, d
    <3> QED BY <2>3, <3>1, <3>4 DEF d, d2
  <2> QED BY <1>13, <2>2, <2>3
<1> HIDE DEF own, f
<1>15. FlagsOwned'
  <2>1. \A a \in Entrusted' : a[2] \notin ToSet(Drained')
    BY <1>9, <1>10, <1>12, <1>14
  <2>2. \A a, b \in Entrusted' : a[2] = b[2] /\ a[2] # NoFlag => a = b
    BY <1>9, <1>10
  <2>3. \A k \in copies' : <<k.chunk, k.flag>> \in Entrusted' /\ k.flag \notin raised'
    <3> SUFFICES ASSUME NEW k \in copies PROVE <<k.chunk, k.flag>> \in Entrusted' /\ k.flag \notin raised
      OBVIOUS
    <3>1. <<k.chunk, k.flag>> \in Entrusted /\ k.flag \notin raised
      BY <1>10
    <3>2. k.flag # f
      BY <1>1, <3>1
    <3> QED BY <1>9, <3>1, <3>2 DEF own
  <2>4. \A k \in copies' : \A v \in wire' : k.chunk # v.chunk
    <3> SUFFICES ASSUME NEW k \in copies PROVE k.chunk # e.chunk
      BY <1>1, <1>10
    <3>1. <<k.chunk, k.flag>> \in Entrusted /\ k.flag \notin raised
      BY <1>10
    <3>2. k.chunk = e.chunk => <<k.chunk, k.flag>> = own
      BY <1>6, <3>1
    <3> QED BY <1>1, <3>1, <3>2 DEF own
  <2>5. IsInjective(Drained)' /\ ToSet(Drained)' = ToSet(Drained')
    BY <1>14 DEF IsInjective, ToSet
  <2> QED BY <2>1, <2>2, <2>3, <2>4, <2>5, Zenon DEF FlagsOwned
<1>16. Ringing' = Ringing
  BY DEF Ringing, ChunksOf
<1>17. Awaited'
  <2>1. ASSUME NEW q \in Pipelines, q[1] \in ToSet(active), NEW x \in ToSet(pipe[q].copying), x.chunk \in Ringing
        PROVE  q[1] \in ToSet(active') /\ \E y \in ToSet(pipe'[q].copying) : y.chunk = x.chunk
    BY <1>4, <1>7, <2>1
  <2> QED BY <1>16, <2>1, AwaitedStill
<1> QED BY <1>15, <1>17

\* A result is held: its flag is entrusted to its chunk.
LEMMA HoldEntrusts ==
    ASSUME Control, Typed, Control', Typed', UNCHANGED <<results, active, pipe>>, held = <<>>,
           NEW x, held' = <<x>>
    PROVE  \A a : a \in Entrusted' <=> a \in Entrusted \/ a = <<x.chunk, x.flag>>
<1>1. ToSet(held) = {} /\ ToSet(held') = {x}
  BY DEF ToSet
<1>2. \A a : a \in Entrusted' <=>
              \/ \E r \in ToSet(results) \cup {x} : a = <<r.chunk, r.flag>>
              \/ \E p \in Pipelines : p[1] \in ToSet(active) /\ \E e \in ToSet(pipe[p].copying) : e.got
                   /\ a = <<e.chunk, e.flag>>
  BY <1>1, EntrustedAfter
<1>3. \A a : a \in Entrusted <=>
              \/ \E r \in ToSet(results) : a = <<r.chunk, r.flag>>
              \/ \E p \in Pipelines : p[1] \in ToSet(active) /\ \E e \in ToSet(pipe[p].copying) : e.got
                   /\ a = <<e.chunk, e.flag>>
  BY <1>1, EntrustedIs
<1> QED BY <1>2, <1>3

\* The flag of a launch is nobody's, and the pool has it no more.
LEMMA FreshFlag ==
    ASSUME Control, Typed, FlagsOwned, held = <<>>
    PROVE  LaunchFlag \in Flags /\ \A a \in Entrusted : a[2] # LaunchFlag
<1>1. LaunchFlag \in Flags /\ Drained \in Seq(Flags)
  BY LaunchFlagIs
<1>2. CASE Drained # <<>>
  <2>1. LaunchFlag = Drained[Len(Drained)] /\ Len(Drained) \in Nat \ {0}
    BY <1>2, LaunchFlagIs
  <2>2. LaunchFlag \in ToSet(Drained)
    <3>1. Len(Drained) \in 1..Len(Drained)
      BY <2>1
    <3> QED BY <1>1, <2>1, <3>1, SeqSet
  <2> QED BY <1>1, <2>2 DEF FlagsOwned
<1>3. CASE Drained = <<>>
  <2>1. LaunchFlag \notin Known
    BY <1>3, LaunchFlagIs, NewFlagIs DEF Typed, Kept
  <2>2. ASSUME NEW a \in Entrusted PROVE a[2] \in Known
    <3>1. CASE \E r \in ToSet(results) \cup ToSet(held) : a = <<r.chunk, r.flag>>
      BY <3>1 DEF Known, ToSet
    <3>2. CASE \E p \in Pipelines : p[1] \in ToSet(active) /\ \E e \in ToSet(pipe[p].copying) : e.got
                 /\ a = <<e.chunk, e.flag>>
      BY <3>2 DEF Known, Copying
    <3> QED BY <3>1, <3>2, EntrustedIs
  <2> QED BY <1>1, <2>1, <2>2
<1> QED BY <1>2, <1>3

\* Part of an injective sequence is one.
LEMMA FrontInjective ==
    ASSUME Typed, Drained # <<>>, IsInjective(Drained)
    PROVE  /\ IsInjective(Front(Drained)) /\ ToSet(Front(Drained)) \subseteq ToSet(Drained)
           /\ LaunchFlag \notin ToSet(Front(Drained))
<1> DEFINE d == Drained
           r == Front(Drained)
<1>1. /\ d \in Seq(Flags) /\ r \in Seq(Flags) /\ Len(d) \in Nat \ {0} /\ Len(r) = Len(d) - 1
      /\ \A i \in 1..(Len(d) - 1) : r[i] = d[i]
      /\ LaunchFlag = d[Len(d)]
  BY LaunchFlagIs
<1>2. DOMAIN d = 1..Len(d) /\ DOMAIN r = 1..Len(r) /\ \A i \in 1..Len(d) : d[i] \in ToSet(d)
  BY <1>1, SeqSet
<1>0. ToSet(r) = {r[i] : i \in 1..Len(r)}
  BY <1>1, SeqSet
<1>3. IsInjective(d)
  OBVIOUS
<1> HIDE DEF d, r
<1>4. \A i \in 1..Len(r) : i \in 1..Len(d) /\ i # Len(d) /\ r[i] = d[i]
  BY <1>1
<1>5. Len(d) \in 1..Len(d)
  BY <1>1
<1>6. IsInjective(r)
  BY <1>2, <1>3, <1>4 DEF IsInjective
<1>7. ToSet(r) \subseteq ToSet(d)
  BY <1>0, <1>2, <1>4
<1>8. LaunchFlag \notin ToSet(r)
  <2> SUFFICES ASSUME NEW i \in 1..Len(r), r[i] = LaunchFlag PROVE FALSE
    BY <1>0
  <2> QED BY <1>1, <1>2, <1>3, <1>4, <1>5 DEF IsInjective
<1> QED BY <1>6, <1>7, <1>8 DEF d, r

\* What a launch leaves in the pool.
LEMMA LaunchPool ==
    ASSUME Typed, FlagsOwned,
           NEW s, s = IF Drained = <<>> THEN <<>> ELSE Front(Drained)
    PROVE  IsInjective(s) /\ ToSet(s) \subseteq ToSet(Drained) /\ LaunchFlag \notin ToSet(s) /\ s \in Seq(Flags)
<1>1. CASE Drained = <<>>
  BY <1>1 DEF IsInjective, ToSet
<1>2. CASE Drained # <<>>
  BY <1>2, FrontInjective, LaunchFlagIs DEF FlagsOwned
<1> QED BY <1>1, <1>2

\* The chunks that wait for results are the same.
LEMMA RequestAwaited ==
    ASSUME RingsApart, Awaited, UNCHANGED <<active, pipe>>, Ringing' \subseteq Ringing
    PROVE  Awaited'
BY AwaitedStill

\* The head of the requests moves on to the held result.
LEMMA HeadOnward ==
    ASSUME Typed, UNCHANGED results, held = <<>>, requests # <<>>, requests' = Tail(requests),
           NEW x, x.chunk = Head(requests).chunk, held' = <<x>>
    PROVE  Ringing' \subseteq Ringing /\ x.chunk \in Ringing
<1>1. ChunksOf(requests) = ChunksOf(Tail(requests)) \cup {Head(requests).chunk}
  BY RingTypes, ChunksIn
<1>2. /\ ChunksOf(requests)' = ChunksOf(Tail(requests)) /\ ChunksOf(held)' = {x.chunk}
      /\ ChunksOf(results)' = ChunksOf(results)
  BY DEF ChunksOf
<1> QED BY <1>1, <1>2 DEF Ringing

\* A copy that was launched has a flag of its own, and is of a chunk that was not posted.
LEMMA LaunchSound ==
    ASSUME Control, Typed, Control', Typed', RingsApart, Awaited, FlagsOwned, Launch
    PROVE  Awaited' /\ FlagsOwned'
<1> DEFINE c == Head(requests).chunk
           f == LaunchFlag
           x == [chunk |-> c, flag |-> f, ok |-> TRUE]
<1>1. /\ held = <<>> /\ requests # <<>> /\ requests' = Tail(requests) /\ recycled' = <<>>
      /\ pool' = IF Drained = <<>> THEN <<>> ELSE Front(Drained)
      /\ raised' = raised \ {f} /\ held' = <<x>> /\ copies' = copies \cup {[chunk |-> c, flag |-> f]}
      /\ UNCHANGED <<results, active, pipe, wire>>
  BY DEF Launch, CanLaunch, Pop, LaunchFlag, Hold, Running, Client, worker, nic
<1>2. x.chunk = c /\ x.flag = f
  OBVIOUS
<1>3. Ringing' \subseteq Ringing /\ c \in Ringing
  BY <1>1, <1>2, HeadOnward
<1>4. f \in Flags /\ \A a \in Entrusted : a[2] # f
  BY <1>1, FreshFlag
<1>5. \A a : a \in Entrusted' <=> a \in Entrusted \/ a = <<c, f>>
  BY <1>1, <1>2, HoldEntrusts
<1> HIDE DEF x, c, f
<1>6. /\ IsInjective(pool') /\ ToSet(pool') \subseteq ToSet(Drained) /\ f \notin ToSet(pool') /\ pool' \in Seq(Flags)
  BY <1>1, LaunchPool DEF f
<1>7. Drained' = pool'
  BY <1>1, <1>6 DEF Drained
<1>8. /\ IsInjective(Drained)
      /\ \A a, b \in Entrusted : a[2] = b[2] /\ a[2] # NoFlag => a = b
      /\ \A a \in Entrusted : a[2] \notin ToSet(Drained)
      /\ \A k \in copies : <<k.chunk, k.flag>> \in Entrusted /\ k.flag \notin raised
      /\ \A k \in copies : \A v \in wire : k.chunk # v.chunk
  BY Zenon DEF FlagsOwned
<1>9. FlagsOwned'
  <2>1. IsInjective(Drained)' /\ ToSet(Drained)' = ToSet(pool')
    BY <1>6, <1>7 DEF IsInjective, ToSet
  <2>2. \A a, b \in Entrusted' : a[2] = b[2] /\ a[2] # NoFlag => a = b
    BY <1>4, <1>5, <1>8
  <2>3. \A a \in Entrusted' : a[2] \notin ToSet(Drained)'
    BY <1>5, <1>6, <1>8, <2>1
  <2>4. \A k \in copies' : <<k.chunk, k.flag>> \in Entrusted' /\ k.flag \notin raised'
    <3> SUFFICES ASSUME NEW k \in copies' PROVE <<k.chunk, k.flag>> \in Entrusted' /\ k.flag \notin raised'
      OBVIOUS
    <3>1. CASE k \in copies
      BY <1>1, <1>5, <1>8, <3>1
    <3>2. CASE k = [chunk |-> c, flag |-> f]
      <4>1. k.chunk = c /\ k.flag = f
        BY <3>2
      <4> QED BY <1>1, <1>5, <4>1
    <3> QED BY <1>1, <3>1, <3>2
  <2>5. \A v \in wire : v.chunk # c
    <3> SUFFICES ASSUME NEW v \in wire, v.chunk = c PROVE FALSE
      OBVIOUS
    <3>1. <<v.chunk, "wire", v>> \in Spots
      BY SpotIs
    <3>2. \A a \in Spots : a[1] = c => a[2] = "copying"
      BY <1>3, RingsParts DEF OnTheWay
    <3> QED BY <3>1, <3>2
  <2>6. \A k \in copies' : \A v \in wire' : k.chunk # v.chunk
    BY <1>1, <1>8, <2>5
  <2> QED BY <2>1, <2>2, <2>3, <2>4, <2>6, Zenon DEF FlagsOwned
<1>10. Awaited'
  BY <1>1, <1>3, RequestAwaited
<1> QED BY <1>9, <1>10

\* A launch that fails gives its chunk no flag, whether a copy runs or not.
LEMMA LaunchFailsSound ==
    ASSUME Control, Typed, Control', Typed', RingsApart, Awaited, FlagsOwned, LaunchFails
    PROVE  Awaited' /\ FlagsOwned'
<1> DEFINE c == Head(requests).chunk
           f == LaunchFlag
           x == [chunk |-> c, flag |-> NoFlag, ok |-> FALSE]
<1>1. /\ held = <<>> /\ requests # <<>> /\ requests' = Tail(requests) /\ recycled' = <<>> /\ held' = <<x>>
      /\ UNCHANGED <<results, active, pipe, wire>>
      /\ \/ pool' = Drained /\ copies' = copies /\ raised' = raised
         \/ /\ pool' = IF Drained = <<>> THEN <<f>> ELSE Drained
            /\ raised' = raised \ {f} /\ copies' = copies \cup {[chunk |-> c, flag |-> NoFlag]}
  BY DEF LaunchFails, CanLaunch, Pop, LaunchFlag, Hold, Running, Client, worker, nic
<1>2. x.chunk = c /\ x.flag = NoFlag
  OBVIOUS
<1>3. Ringing' \subseteq Ringing /\ c \in Ringing
  BY <1>1, <1>2, HeadOnward
<1>4. f \in Flags /\ (\A a \in Entrusted : a[2] # f) /\ Drained \in Seq(Flags)
  BY <1>1, FreshFlag, LaunchFlagIs
<1>5. \A a : a \in Entrusted' <=> a \in Entrusted \/ a = <<c, NoFlag>>
  BY <1>1, <1>2, HoldEntrusts
<1> HIDE DEF x, c, f
<1>8. /\ IsInjective(Drained)
      /\ \A a, b \in Entrusted : a[2] = b[2] /\ a[2] # NoFlag => a = b
      /\ \A a \in Entrusted : a[2] \notin ToSet(Drained)
      /\ \A k \in copies : <<k.chunk, k.flag>> \in Entrusted /\ k.flag \notin raised
      /\ \A k \in copies : \A v \in wire : k.chunk # v.chunk
  BY Zenon DEF FlagsOwned
<1>6. IsInjective(pool') /\ ToSet(pool') \subseteq ToSet(Drained) \cup {f} /\ pool' \in Seq(Flags)
  <2>1. CASE pool' = Drained
    BY <1>4, <1>8, <2>1
  <2>2. CASE pool' = <<f>>
    BY <1>4, <2>2 DEF IsInjective, ToSet
  <2> QED BY <1>1, <2>1, <2>2
<1>7. Drained' = pool'
  BY <1>1, <1>6 DEF Drained
<1>9. FlagsOwned'
  <2>1. IsInjective(Drained)' /\ ToSet(Drained)' = ToSet(pool')
    BY <1>6, <1>7 DEF IsInjective, ToSet
  <2>2. \A a, b \in Entrusted' : a[2] = b[2] /\ a[2] # NoFlag => a = b
    BY <1>5, <1>8
  <2>3. \A a \in Entrusted' : a[2] \notin ToSet(Drained)'
    <3>1. NoFlag \notin ToSet(pool')
      BY <1>6, SeqSet DEF Flags
    <3> QED BY <1>4, <1>5, <1>6, <1>8, <2>1, <3>1
  <2>4. \A k \in copies' : <<k.chunk, k.flag>> \in Entrusted' /\ k.flag \notin raised'
    <3>1. NoFlag \notin raised
      BY DEF Typed, Rings, Flags
    <3> SUFFICES ASSUME NEW k \in copies' PROVE <<k.chunk, k.flag>> \in Entrusted' /\ k.flag \notin raised'
      OBVIOUS
    <3>2. raised' \subseteq raised
      BY <1>1
    <3>3. CASE k \in copies
      BY <1>5, <1>8, <3>2, <3>3
    <3>4. CASE k = [chunk |-> c, flag |-> NoFlag]
      <4>1. k.chunk = c /\ k.flag = NoFlag
        BY <3>4
      <4> QED BY <1>5, <3>1, <3>2, <4>1
    <3> QED BY <1>1, <3>3, <3>4
  <2>5. \A v \in wire : v.chunk # c
    <3> SUFFICES ASSUME NEW v \in wire, v.chunk = c PROVE FALSE
      OBVIOUS
    <3>1. <<v.chunk, "wire", v>> \in Spots
      BY SpotIs
    <3>2. \A a \in Spots : a[1] = c => a[2] = "copying"
      BY <1>3, RingsParts DEF OnTheWay
    <3> QED BY <3>1, <3>2
  <2>6. \A k \in copies' : \A v \in wire' : k.chunk # v.chunk
    BY <1>1, <1>8, <2>5
  <2> QED BY <2>1, <2>2, <2>3, <2>4, <2>6, Zenon DEF FlagsOwned
<1>10. Awaited'
  BY <1>1, <1>3, RequestAwaited
<1> QED BY <1>9, <1>10

\* A held result is pushed: its flag stays entrusted.
LEMMA PushSound ==
    ASSUME Control, Typed, Control', Typed', RingsApart, Awaited, FlagsOwned, PushResult
    PROVE  Awaited' /\ FlagsOwned'
<1>1. /\ results' = results \o held /\ held' = <<>>
      /\ UNCHANGED <<requests, recycled, pool, copies, raised, active, pipe, wire>>
  BY DEF PushResult, Client, worker, nic
<1>2. /\ results \in Seq(ResultRecord) /\ held \in Seq(ResultRecord)
      /\ ToSet(results \o held) = ToSet(results) \cup ToSet(held)
  BY RingTypes, SeqConcat
<1>3. ToSet(results') \cup ToSet(held') = ToSet(results) \cup ToSet(held)
  <2>1. ToSet(held') = {}
    BY <1>1 DEF ToSet
  <2> QED BY <1>1, <1>2, <2>1
<1>4. Entrusted' = Entrusted
  <2>1. \A a : a \in Entrusted' <=>
              \/ \E r \in ToSet(results') \cup ToSet(held') : a = <<r.chunk, r.flag>>
              \/ \E p \in Pipelines : p[1] \in ToSet(active) /\ \E e \in ToSet(pipe[p].copying) : e.got
                   /\ a = <<e.chunk, e.flag>>
    BY <1>1, EntrustedAfter
  <2>2. \A a : a \in Entrusted' <=> a \in Entrusted
    BY <1>3, <2>1, EntrustedIs
  <2> QED BY <2>2
<1>5. Drained' = Drained
  BY <1>1 DEF Drained
<1>6. FlagsOwned'
  BY <1>1, <1>4, <1>5, FlagsStill
<1>7. Ringing' \subseteq Ringing
  <2> DEFINE r == results \o held
  <2>1. r \in Seq(ResultRecord) /\ ToSet(r) = ToSet(results) \cup ToSet(held)
    BY <1>2, SeqConcat
  <2> HIDE DEF r
  <2>2. /\ ChunksOf(r) = {x.chunk : x \in ToSet(r)} /\ ChunksOf(results) = {x.chunk : x \in ToSet(results)}
        /\ ChunksOf(held) = {x.chunk : x \in ToSet(held)}
    BY <1>2, <2>1, ChunksIn
  <2>3. ChunksOf(results)' = ChunksOf(r) /\ ChunksOf(held)' = {} /\ ChunksOf(requests)' = ChunksOf(requests)
    BY <1>1 DEF ChunksOf, r
  <2> QED BY <2>1, <2>2, <2>3 DEF Ringing
<1>8. Awaited'
  BY <1>1, <1>7, RequestAwaited
<1> QED BY <1>6, <1>8

\* A copy ends: the flag that is raised is that of no other copy.
LEMMA FinishSound ==
    ASSUME Control, Typed, Control', Typed', RingsApart, Awaited, FlagsOwned, NEW k \in copies, FinishCopy(k)
    PROVE  Awaited' /\ FlagsOwned'
<1>1. /\ copies' = copies \ {k} /\ raised' = IF k.flag = NoFlag THEN raised ELSE raised \cup {k.flag}
      /\ UNCHANGED <<requests, results, held, recycled, pool, active, pipe, wire>>
  BY DEF FinishCopy, Client, worker, nic
<1>2. Entrusted' = Entrusted
  BY <1>1, EntrustedStill
<1>3. /\ IsInjective(Drained)
      /\ \A a, b \in Entrusted : a[2] = b[2] /\ a[2] # NoFlag => a = b
      /\ \A a \in Entrusted : a[2] \notin ToSet(Drained)
      /\ \A j \in copies : <<j.chunk, j.flag>> \in Entrusted /\ j.flag \notin raised
      /\ \A j \in copies : \A w \in wire : j.chunk # w.chunk
  BY Zenon DEF FlagsOwned
<1>4. Drained' = Drained
  BY <1>1 DEF Drained
<1>5. ASSUME NEW j \in copies' PROVE j.flag \notin raised'
  <2>1. j \in copies /\ j # k
    BY <1>1
  <2>2. CASE k.flag = NoFlag
    BY <1>1, <1>3, <2>1, <2>2
  <2>3. CASE k.flag # NoFlag
    <3>1. j.flag # k.flag
      <4> SUFFICES ASSUME j.flag = k.flag PROVE FALSE
        OBVIOUS
      <4>1. <<j.chunk, j.flag>> = <<k.chunk, k.flag>>
        <5>1. <<j.chunk, j.flag>> \in Entrusted /\ <<k.chunk, k.flag>> \in Entrusted
          BY <1>3, <2>1
        <5> QED BY <1>3, <2>3, <5>1
      <4>2. j \in [chunk : Chunks, flag : Nat] /\ k \in [chunk : Chunks, flag : Nat]
        BY <2>1 DEF Typed, Hardware
      <4>3. j = k
        BY <4>1, <4>2
      <4> QED BY <2>1, <4>3
    <3> QED BY <1>1, <1>3, <2>1, <2>3, <3>1
  <2> QED BY <2>2, <2>3
<1>6. FlagsOwned'
  <2>1. IsInjective(Drained)' /\ ToSet(Drained)' = ToSet(Drained)
    BY <1>3, <1>4 DEF IsInjective, ToSet
  <2>2. \A j \in copies' : <<j.chunk, j.flag>> \in Entrusted' /\ j.flag \notin raised'
    BY <1>1, <1>2, <1>3, <1>5
  <2>3. \A j \in copies' : \A w \in wire' : j.chunk # w.chunk
    BY <1>1, <1>3
  <2>4. \A a \in Entrusted' : a[2] \notin ToSet(Drained)'
    BY <1>2, <1>3, <2>1
  <2>5. \A a, b \in Entrusted' : a[2] = b[2] /\ a[2] # NoFlag => a = b
    BY <1>2, <1>3
  <2> QED BY <2>1, <2>2, <2>3, <2>4, <2>5, Zenon DEF FlagsOwned
<1>7. Ringing' = Ringing
  BY <1>1 DEF Ringing, ChunksOf
<1>8. Awaited'
  BY <1>1, <1>7, RequestAwaited
<1> QED BY <1>6, <1>8

\* Results are handed over: no flag is recycled, since somebody waits for each.
LEMMA DispatchSound ==
    ASSUME Control, Typed, Control', Typed', RingsApart, Awaited, FlagsOwned, Dispatch, "failed" \notin taint'
    PROVE  Awaited' /\ FlagsOwned'
<1>1. results' = <<>> /\ UNCHANGED <<requests, held, active, pool, copies, raised, wire>>
  BY DEF Dispatch, nic
<1>2. Dispatched
  BY DispatchIs
<1>3. ChunksOf(results) = {r.chunk : r \in ToSet(results)} /\ Separate
  BY RingTypes, ChunksIn, RingsParts
<1>4. ASSUME NEW r \in ToSet(results)
      PROVE  \E p \in Pipelines : p[1] \in ToSet(active) /\ \E e \in ToSet(pipe[p].copying) : e.chunk = r.chunk
               /\ ~e.got
  <2>1. r.chunk \in Ringing
    BY <1>3 DEF Ringing
  <2>2. PICK p \in Pipelines : p[1] \in ToSet(active) /\ \E e \in ToSet(pipe[p].copying) : e.chunk = r.chunk
    BY <2>1 DEF Awaited
  <2>3. PICK e \in ToSet(pipe[p].copying) : e.chunk = r.chunk
    BY <2>2
  <2>4. ~e.got
    BY <2>1, <2>3, RingsParts DEF Expected
  <2> QED BY <2>2, <2>3, <2>4
<1>5. ASSUME NEW r \in ToSet(results) PROVE Awaiting(r) # {}
  <2>1. PICK p \in Pipelines : p[1] \in ToSet(active) /\ \E e \in ToSet(pipe[p].copying) : e.chunk = r.chunk /\ ~e.got
    BY <1>4
  <2>2. PICK e \in ToSet(pipe[p].copying) : e.chunk = r.chunk /\ ~e.got
    BY <2>1
  <2>3. PICK i \in DOMAIN pipe[p].copying : pipe[p].copying[i] = e
    BY DEF ToSet
  <2>4. p \in Awaiting(r)
    BY <2>1, <2>2, <2>3 DEF Awaiting, Waiting
  <2> QED BY <2>4
<1>6. recycled' = recycled
  <2>1. PICK flags \in Seq(Flags) : Recycle(flags) /\ ((\A r \in ToSet(results) : Awaiting(r) # {}) => flags = <<>>)
    BY <1>2, Zenon DEF Dispatched
  <2>2. flags = <<>>
    BY <1>5, <2>1
  <2> QED BY <2>1, <2>2, RecycleIs DEF Typed
<1>7. Drained' = Drained
  BY <1>1, <1>6 DEF Drained
<1>8. \A p \in Pipelines : \A f \in ToSet(pipe'[p].copying) : \E e \in ToSet(pipe[p].copying) : Told(e, f, p)
  <2> SUFFICES ASSUME NEW p \in Pipelines, NEW f \in ToSet(pipe'[p].copying)
               PROVE  \E e \in ToSet(pipe[p].copying) : Told(e, f, p)
    OBVIOUS
  <2> DEFINE s == pipe[p].copying
             r == pipe'[p].copying
  <2>1. s \in Seq(CopyRecord) /\ r \in Seq(CopyRecord) /\ f \in ToSet(r)
    BY <1>2, RingTypes DEF Dispatched, PipeRecord
  <2>2. Len(r) = Len(s) /\ \A i \in 1..Len(s) : Told(s[i], r[i], p)
    BY <1>2 DEF Dispatched
  <2> HIDE DEF r
  <2>3. PICK i \in 1..Len(s) : f = r[i]
    BY <2>1, <2>2, SeqSet
  <2>4. s[i] \in ToSet(s)
    BY <2>1, SeqSet
  <2> QED BY <2>2, <2>3, <2>4
<1>9. \A p \in Pipelines : \A e \in ToSet(pipe[p].copying) : \E f \in ToSet(pipe'[p].copying) : Told(e, f, p)
  <2> SUFFICES ASSUME NEW p \in Pipelines, NEW e \in ToSet(pipe[p].copying)
               PROVE  \E f \in ToSet(pipe'[p].copying) : Told(e, f, p)
    OBVIOUS
  <2> DEFINE s == pipe[p].copying
             r == pipe'[p].copying
  <2>1. s \in Seq(CopyRecord) /\ r \in Seq(CopyRecord) /\ e \in ToSet(s)
    BY <1>2, RingTypes DEF Dispatched, PipeRecord
  <2>2. Len(r) = Len(s) /\ \A i \in 1..Len(s) : Told(s[i], r[i], p)
    BY <1>2 DEF Dispatched
  <2> HIDE DEF s
  <2>3. PICK i \in 1..Len(s) : e = s[i]
    BY <2>1, SeqSet
  <2>4. r[i] \in ToSet(r)
    BY <2>1, <2>2, SeqSet
  <2> QED BY <2>2, <2>3, <2>4
<1>10. \A a : a \in Entrusted' <=>
              \/ \E r \in ToSet(held) : a = <<r.chunk, r.flag>>
              \/ \E p \in Pipelines : p[1] \in ToSet(active) /\ \E f \in ToSet(pipe'[p].copying) : f.got
                   /\ a = <<f.chunk, f.flag>>
  <2>1. ToSet(results') = {}
    BY <1>1 DEF ToSet
  <2> QED BY <1>1, <2>1, EntrustedAfter
<1>11. ASSUME NEW a \in Entrusted' PROVE a \in Entrusted
  <2>1. CASE \E r \in ToSet(held) : a = <<r.chunk, r.flag>>
    BY <2>1, EntrustedIs
  <2>2. CASE \E p \in Pipelines : p[1] \in ToSet(active) /\ \E f \in ToSet(pipe'[p].copying) : f.got
               /\ a = <<f.chunk, f.flag>>
    <3>1. PICK p \in Pipelines : p[1] \in ToSet(active) /\ \E f \in ToSet(pipe'[p].copying) : f.got
                 /\ a = <<f.chunk, f.flag>>
      BY <2>2
    <3>2. PICK f \in ToSet(pipe'[p].copying) : f.got /\ a = <<f.chunk, f.flag>>
      BY <3>1
    <3>3. PICK e \in ToSet(pipe[p].copying) : Told(e, f, p)
      BY <1>8
    <3>4. CASE f = e
      BY <3>1, <3>2, <3>4, EntrustedIs
    <3>5. CASE \E r \in ToSet(results) : r.chunk = e.chunk /\ f.flag = r.flag
      <4>1. f.chunk = e.chunk
        BY <3>3 DEF Told
      <4> QED BY <3>2, <3>5, <4>1, EntrustedIs
    <3> QED BY <3>3, <3>4, <3>5 DEF Told
  <2> QED BY <1>10, <1>11, <2>1, <2>2
<1>12. ASSUME NEW a \in Entrusted PROVE a \in Entrusted'
  <2>1. CASE \E r \in ToSet(held) : a = <<r.chunk, r.flag>>
    BY <1>10, <2>1
  <2>2. CASE \E p \in Pipelines : p[1] \in ToSet(active) /\ \E e \in ToSet(pipe[p].copying) : e.got
               /\ a = <<e.chunk, e.flag>>
    <3>1. PICK p \in Pipelines : p[1] \in ToSet(active) /\ \E e \in ToSet(pipe[p].copying) : e.got
                 /\ a = <<e.chunk, e.flag>>
      BY <2>2
    <3>2. PICK e \in ToSet(pipe[p].copying) : e.got /\ a = <<e.chunk, e.flag>>
      BY <3>1
    <3>3. PICK f \in ToSet(pipe'[p].copying) : Told(e, f, p)
      BY <1>9
    <3>4. f = e
      BY <3>2, <3>3 DEF Told
    <3> QED BY <1>10, <3>1, <3>2, <3>4
  <2>3. CASE \E r \in ToSet(results) : a = <<r.chunk, r.flag>>
    <3>1. PICK r \in ToSet(results) : a = <<r.chunk, r.flag>>
      BY <2>3
    <3>2. PICK p \in Pipelines : p[1] \in ToSet(active) /\ \E e \in ToSet(pipe[p].copying) : e.chunk = r.chunk
                 /\ ~e.got
      BY <1>4
    <3>3. PICK e \in ToSet(pipe[p].copying) : e.chunk = r.chunk /\ ~e.got
      BY <3>2
    <3>4. PICK f \in ToSet(pipe'[p].copying) : Told(e, f, p)
      BY <1>9
    <3>5. f.got /\ f.chunk = e.chunk
      BY <3>2, <3>3, <3>4 DEF Told
    <3>6. PICK x \in ToSet(results) : x.chunk = e.chunk /\ f.flag = x.flag
      BY <3>3, <3>4, <3>5 DEF Told
    <3>7. x = r
      <4>1. results \in Seq(ResultRecord) /\ Distinct(results)
        BY <1>3, RingTypes DEF Separate
      <4>2. PICK i \in 1..Len(results) : x = results[i]
        BY <4>1, SeqSet
      <4>3. PICK j \in 1..Len(results) : r = results[j]
        BY <4>1, SeqSet
      <4> QED BY <3>3, <3>6, <4>1, <4>2, <4>3 DEF Distinct
    <3>8. a = <<f.chunk, f.flag>>
      BY <3>1, <3>3, <3>5, <3>6, <3>7
    <3> QED BY <1>10, <3>2, <3>5, <3>8
  <2> QED BY <2>1, <2>2, <2>3, EntrustedIs
<1>13. Entrusted' = Entrusted
  BY <1>11, <1>12
<1>14. FlagsOwned'
  BY <1>1, <1>7, <1>13, FlagsStill
<1>15. Ringing' \subseteq Ringing
  BY <1>1 DEF Ringing, ChunksOf
<1>16. Awaited'
  <2>1. \A p \in Pipelines : \A e \in ToSet(pipe[p].copying) : \E f \in ToSet(pipe'[p].copying) : f.chunk = e.chunk
    BY <1>9 DEF Told
  <2> QED BY <1>1, <1>15, <2>1, AwaitedStill
<1> QED BY <1>14, <1>16

\* Contexts are retired: one that has not failed has nothing left to copy.
LEMMA RetireSound ==
    ASSUME Control, Typed, Control', Typed', Places, Counted, RingsApart, Unfailed, Awaited, FlagsOwned,
           Retire, "failed" \notin taint
    PROVE  Awaited' /\ FlagsOwned'
<1>1. PICK S \in SUBSET Transfers : Retired(S)
  BY RetireIs
<1>2. UNCHANGED <<wire, requests, results, held, pool, copies, raised>>
  BY Zenon DEF Retire, nic
<1>3. ASSUME NEW p \in Pipelines, p[1] \in S PROVE pipe[p].copying = <<>>
  <2>1. p[1] \in ToSet(active) /\ (Finished(p[1]) \/ completed[p[1]] >= Len(Lens[p[1]]))
    BY <1>1, <1>3 DEF Retired
  <2>2. p[1] \in Transfers
    BY DEF Pipelines
  <2>3. status[p[1]] = "active"
    BY <2>1, <2>2 DEF Control, Rounds, Queueing, Unfailed
  <2>4. completed[p[1]] >= Len(Lens[p[1]])
    BY <2>1, <2>3 DEF Finished
  <2> QED BY <2>4, OverIsEmpty
<1>4. recycled' = recycled
  <2>1. PICK flags \in Seq(Flags) : /\ Recycle(flags)
                                    /\ (\A p \in Pipelines : p[1] \in S => pipe[p].copying = <<>>) => flags = <<>>
    BY <1>1, Zenon DEF Retired
  <2>2. flags = <<>>
    BY <1>3, <2>1
  <2> QED BY <2>1, <2>2, RecycleIs DEF Typed
<1>5. ASSUME NEW p \in Pipelines, NEW e
      PROVE  p[1] \in ToSet(active') /\ e \in ToSet(pipe'[p].copying)
               <=> p[1] \in ToSet(active) /\ e \in ToSet(pipe[p].copying)
  <2>1. ToSet(active') = ToSet(active) \ S
    BY <1>1 DEF Retired
  <2>2. CASE p[1] \in S
    <3>1. e \notin ToSet(pipe[p].copying)
      BY <1>3, <2>2 DEF ToSet
    <3> QED BY <2>1, <2>2, <3>1
  <2>3. CASE p[1] \notin S
    <3>1. pipe'[p] = pipe[p]
      BY <1>1, <2>3, Zenon DEF Retired
    <3> QED BY <2>1, <2>3, <3>1
  <2> QED BY <2>2, <2>3
<1> QED BY <1>2, <1>4, <1>5, QuietSound

\* Every step keeps flags and results in order, up to the first failure.
LEMMA StepSound ==
    ASSUME Control, Typed, Control', Typed', Places, Counted, RingsApart, Unfailed, Sound, [Next]_vars
    PROVE  Sound'
<1> SUFFICES ASSUME Awaited, FlagsOwned, "failed" \notin taint, "failed" \notin taint' PROVE Awaited' /\ FlagsOwned'
  BY SoundFrom, TaintStays
<1>0. Working
  BY DEF Control, Rounds
<1>1. ASSUME UNCHANGED <<requests, results, held, pool, recycled, raised, copies>>,
             \A p \in Pipelines : \A e : p[1] \in ToSet(active') /\ e \in ToSet(pipe'[p].copying)
                                     <=> p[1] \in ToSet(active) /\ e \in ToSet(pipe[p].copying),
             \A w \in wire' : w \in wire \/ \A k \in copies : k.chunk # w.chunk
      PROVE  Awaited' /\ FlagsOwned'
  BY <1>1, QuietSound
<1>2. ASSUME UNCHANGED <<requests, results, held, pool, recycled, raised, copies, pipe, active>>, wire' \subseteq wire
      PROVE  Awaited' /\ FlagsOwned'
  BY <1>1, <1>2
<1>3. CASE Begin
  <2>1. UNCHANGED <<requests, results, held, pool, recycled, raised, copies, pipe, wire>>
    BY <1>3 DEF Begin, copier, nic
  <2>2. ToSet(active) \subseteq ToSet(active')
    BY <1>3, BeginControls DEF Control
  <2>3. ASSUME NEW p \in Pipelines, NEW e
        PROVE  p[1] \in ToSet(active') /\ e \in ToSet(pipe'[p].copying)
                 <=> p[1] \in ToSet(active) /\ e \in ToSet(pipe[p].copying)
    BY <1>3, <2>1, <2>2, CopyIsActive
  <2> QED BY <1>1, <2>1, <2>3
<1>4. CASE Dispatch
  BY <1>4, DispatchSound
<1>5. CASE AdvanceCopy
  <2>1. PICK p \in Pipelines, e \in CopyRecord : Advanced(p, e)
    BY <1>0, <1>5, AdvanceCopyIs
  <2>2. UNCHANGED <<active, results, held, pool, recycled, raised, copies, wire>>
    BY <1>5 DEF AdvanceCopy, nic
  <2> QED BY <2>1, <2>2, AdvanceSound
<1>6. CASE AssignProxy
  <2>1. PICK p \in Pipelines : Pended(p)
    BY <1>0, <1>6, AssignProxyIs
  <2>2. UNCHANGED <<requests, results, held, pool, recycled, raised, copies, active, wire>>
    BY <1>6 DEF AssignProxy, nic, copier
  <2>3. ASSUME NEW q \in Pipelines PROVE pipe'[q].copying = pipe[q].copying
    <3>1. CASE q = p
      BY <2>1, <3>1 DEF Pended
    <3>2. CASE q # p
      BY <2>1, <3>2, Zenon DEF Pended, Elsewhere
    <3> QED BY <3>1, <3>2
  <2> QED BY <1>1, <2>2, <2>3
<1>7. CASE AssignDirect
  <2>1. /\ PostedDirect(Context, BestNic)
        /\ UNCHANGED <<requests, results, held, pool, recycled, raised, copies, active, pipe, cq>>
    BY <1>0, <1>7, AssignDirectIs DEF AssignDirect, copier
  <2> DEFINE t == Context
  <2>2. PICK w \in WireRecord : w.chunk = <<t, nextChunk[t]>> /\ wire' = wire \cup {w}
    BY <2>1 DEF PostedDirect
  <2>3. Chooses(t)
    BY <2>1 DEF PostedDirect
  <2> HIDE DEF t
  <2>4. \A a \in Spots : a[1] # w.chunk
    BY <2>1, <2>2, <2>3, DirectPlaces
  <2>5. w.chunk \notin Ringing
    <3>1. nextChunk[t] \in Nat
      BY <2>3 DEF Chooses, Typed, Kept
    <3>2. ~(w.chunk[2] < nextChunk[w.chunk[1]])
      BY <2>2, <3>1
    <3> QED BY <3>2, RingsParts DEF OnTheWay
  <2>6. ASSUME NEW k \in copies PROVE k.chunk # w.chunk
    <3>1. CASE k.chunk \in Ringing
      BY <2>5, <3>1
    <3>2. CASE \E p \in Pipelines : p[1] \in ToSet(active) /\ \E e \in ToSet(pipe[p].copying) : e.chunk = k.chunk
      <4>1. PICK p \in Pipelines : \E e \in ToSet(pipe[p].copying) : e.chunk = k.chunk
        BY <3>2
      <4>2. <<k.chunk, "copying", p>> \in Spots
        BY <4>1, SpotIs
      <4>3. <<k.chunk, "copying", p>>[1] = k.chunk
        OBVIOUS
      <4> QED BY <2>4, <4>2, <4>3
    <3> QED BY <3>1, <3>2, CopyIsKnown
  <2> QED BY <1>1, <2>1, <2>2, <2>6
<1>8. CASE FreePosted
  <2>1. PICK p \in Pipelines : Reclaimed(p)
    BY <1>0, <1>8, FreePostedIs
  <2>2. UNCHANGED <<requests, results, held, pool, recycled, raised, copies, active, wire>>
    BY <1>8 DEF FreePosted, nic, copier
  <2>3. ASSUME NEW q \in Pipelines PROVE pipe'[q].copying = pipe[q].copying
    <3>1. CASE q = p
      BY <2>1, <3>1 DEF Reclaimed
    <3>2. CASE q # p
      BY <2>1, <3>2, Zenon DEF Reclaimed, Elsewhere
    <3> QED BY <3>1, <3>2
  <2> QED BY <1>1, <2>2, <2>3
<1>9. CASE PostProxy
  <2>1. PICK p \in Pipelines, e \in CopyRecord, w \in WireRecord : Posted(p, e, w)
    BY <1>0, <1>9, PostProxyIs
  <2>2. UNCHANGED <<active, requests, results, held, pool, raised, copies>>
    BY <1>9 DEF PostProxy
  <2> QED BY <2>1, <2>2, PostSound
<1>10. CASE Poll
  <2>1. Polled /\ UNCHANGED <<requests, results, held, pool, recycled, raised, copies, active, wire>>
    BY <1>10, PollIs DEF Poll, copier
  <2>2. ASSUME NEW q \in Pipelines PROVE pipe'[q].copying = pipe[q].copying
    <3>1. PICK k : pipe'[q] = [pending |-> pipe[q].pending, copying |-> pipe[q].copying,
                 inflight |-> pipe[q].inflight,
                               arrived |-> pipe[q].arrived + k, assigned |-> pipe[q].assigned - k]
      BY <2>1, Zenon DEF Polled
    <3> QED BY <3>1
  <2> QED BY <1>1, <2>1, <2>2
<1>11. CASE Retire
  BY <1>11, RetireSound
<1>12. CASE Nic \/ NicFails
  <2>1. PICK w \in wire, ok \in BOOLEAN : Complete(w, ok)
    BY <1>12 DEF Nic, NicFails
  <2>2. /\ UNCHANGED <<requests, results, held, pool, recycled, raised, copies, pipe, active>>
        /\ wire' = wire \ {w}
    BY <2>1 DEF Complete, worker, copier
  <2> QED BY <1>2, <2>2
<1>13. CASE Launch
  BY <1>13, LaunchSound
<1>14. CASE LaunchFails
  BY <1>14, LaunchFailsSound
<1>15. CASE PushResult
  BY <1>15, PushSound
<1>16. CASE Gpu
  <2>1. PICK k \in copies : FinishCopy(k)
    BY <1>16 DEF Gpu
  <2> QED BY <2>1, FinishSound
<1>17. CASE DrainRecycled
  <2>1. /\ pool' = Drained /\ recycled' = <<>>
        /\ UNCHANGED <<requests, results, held, copies, raised, pipe, active, wire>>
    BY <1>17 DEF DrainRecycled, Client, nic, worker
  <2>2. Drained' = Drained
    <3>1. Drained \in Seq(Flags)
      BY LaunchFlagIs
    <3>2. Drained' = pool' \o recycled'
      BY DEF Drained
    <3> QED BY <2>1, <3>1, <3>2
  <2>3. Entrusted' = Entrusted
    BY <2>1, EntrustedStill
  <2>4. Ringing' = Ringing
    BY <2>1 DEF Ringing, ChunksOf
  <2>5. FlagsOwned'
    BY <2>1, <2>2, <2>3, FlagsStill
  <2> QED BY <2>1, <2>4, <2>5, RequestAwaited
<1>18. CASE PostFails \/ PollFails
  BY <1>18 DEF PostFails, PollFails
<1>19. CASE \E t \in Transfers : Start(t)
  BY <1>2, <1>19 DEF Start, copier, nic, worker
<1>20. CASE AdvanceEnds \/ AssignEnds \/ PostEnds
  BY <1>2, <1>20 DEF AdvanceEnds, AssignEnds, PostEnds, copier, nic
<1>21. CASE UNCHANGED vars
  BY <1>2, <1>21 DEF vars, worker, nic, copier
<1>22. CASE Aside
  BY <1>2, <1>22, AsideStays
<1> QED BY <1>3, <1>4, <1>5, <1>6, <1>7, <1>8, <1>9, <1>10, <1>11, <1>12, <1>13, <1>14, <1>15, <1>16, <1>17, <1>18,
             <1>19, <1>20, <1>21, <1>22
        DEF Next, Worker, Aside, CopyThread

-----------------------------------------------------------------------------
(* The whole invariant, and what follows.                                   *)

Inv == Chunked /\ RingsApart /\ Unfailed /\ Sound

\* It holds in the beginning: nothing is on its way.
LEMMA InitInv == Init => Inv
<1> SUFFICES ASSUME Init PROVE Inv
  OBVIOUS
<1>1. Chunked /\ Control /\ Typed
  BY InitChunked DEF Chunked
<1>2. /\ pipe = [p \in Pipelines |-> EmptyPipe] /\ requests = <<>> /\ results = <<>> /\ held = <<>>
      /\ status = [t \in Transfers |-> "idle"] /\ pool = <<>> /\ recycled = <<>> /\ copies = {}
  BY DEF Init
<1>3. \A p \in Pipelines : ToSet(pipe[p].copying) = {}
  BY <1>2 DEF EmptyPipe, ToSet
<1>4. ChunksOf(requests) = {} /\ ChunksOf(results) = {} /\ ChunksOf(held) = {} /\ Ringing = {}
  BY <1>2 DEF ChunksOf, Ringing
<1>5. RingsApart
  <2>1. Distinct(requests) /\ Distinct(results)
    BY <1>2 DEF Distinct
  <2> QED BY <1>3, <1>4, <2>1 DEF RingsApart
<1>6. Unfailed
  BY <1>2 DEF Unfailed
<1>7. Awaited
  BY <1>4 DEF Awaited
<1>8. Drained = <<>>
  BY <1>2 DEF Drained
<1>9. Entrusted = {}
  <2>1. ToSet(results) = {} /\ ToSet(held) = {}
    BY <1>2 DEF ToSet
  <2> QED BY <1>1, <1>3, <2>1, EntrustedIs
<1>10. FlagsOwned
  <2>1. IsInjective(Drained)
    BY <1>8 DEF IsInjective
  <2> QED BY <1>2, <1>9, <2>1 DEF FlagsOwned
<1> QED BY <1>1, <1>5, <1>6, <1>7, <1>10 DEF Inv, Sound

\* Every step keeps it.
LEMMA StepInv == ASSUME Inv, [Next]_vars PROVE Inv'
<1>1. Chunked /\ RingsApart /\ Unfailed /\ Sound /\ Control /\ Typed /\ Places /\ Counted
  BY DEF Inv, Chunked
<1>2. Chunked' /\ Control' /\ Typed'
  BY <1>1, StepChunked DEF Chunked
<1>3. RingsApart'
  BY <1>1, <1>2, StepRings
<1>4. Unfailed'
  BY <1>1, StepUnfailed
<1>5. Sound'
  BY <1>1, <1>2, StepSound
<1> QED BY <1>2, <1>3, <1>4, <1>5 DEF Inv

\* Every behaviour has it.
THEOREM Invariance == Spec => []Inv
<1>1. Inv /\ [Next]_vars => Inv'
  BY StepInv
<1> QED BY <1>1, InitInv, PTL DEF Spec

\* A copy that waits has one result coming.
LEMMA InvResults == Inv => ResultsKept
BY RingsKeep DEF Inv, Chunked

\* Results are kept, always.
THEOREM ResultsAlways == Spec => []ResultsKept
BY Invariance, InvResults, PTL

\* A flag that is idle is nobody's.
LEMMA InvFlags == Inv => FlagsSingle
<1> SUFFICES ASSUME Inv, "failed" \notin taint
             PROVE  /\ IsInjective(Drained)
                    /\ \A a, b \in Entrusted : a[2] = b[2] /\ a[2] # NoFlag => a = b
                    /\ ToSet(Drained) \cap ({a[2] : a \in Entrusted} \cup {k.flag : k \in copies}) = {}
  BY DEF FlagsSingle
<1>1. FlagsOwned
  BY DEF Inv, Sound
<1>2. \A k \in copies : k.flag \notin ToSet(Drained)
  BY <1>1 DEF FlagsOwned
<1> QED BY <1>1, <1>2 DEF FlagsOwned

\* A flag has one owner, always.
THEOREM FlagsAlways == Spec => []FlagsSingle
BY Invariance, InvFlags, PTL

\* What is posted is neither being copied nor about to be.
LEMMA InvPosted == Inv => PostedAfterCopy
<1> SUFFICES ASSUME Inv, "failed" \notin taint, NEW w \in wire
             PROVE  w.chunk \notin {k.chunk : k \in copies} \cup {r.chunk : r \in ToSet(requests)}
  BY DEF PostedAfterCopy
<1>1. \A k \in copies : k.chunk # w.chunk
  BY DEF Inv, Sound, FlagsOwned
<1>2. <<w.chunk, "wire", w>> \in Spots
  BY SpotIs
<1>3. w.chunk \notin Ringing
  BY <1>2, RingsParts DEF Inv, OnTheWay
<1>4. ChunksOf(requests) = {r.chunk : r \in ToSet(requests)}
  BY RingTypes, ChunksIn DEF Inv, Chunked
<1> QED BY <1>1, <1>3, <1>4 DEF Ringing

\* No NIC reads what has not been written, always.
THEOREM PostedAlways == Spec => []PostedAfterCopy
BY Invariance, InvPosted, PTL

===============================================================================
