---------------------------- MODULE ChunkingProofs ----------------------------
(***************************************************************************)
(* Proofs about WrIdEncoding, for every width of its four fields, and      *)
(* about the cutting of a transfer into chunks: for any number of hosts,   *)
(* any lengths and any chunk size below the width of sge.length, the       *)
(* chunks tile the bytes of the call.                                      *)
(***************************************************************************)
EXTENDS Chunking, NaturalsInduction, WellFoundedInduction, TLAPS

\* The lowest field of a word is cut off by a division and read by a remainder.
LEMMA LowestField ==
    ASSUME NEW range \in Nat \ {0}, NEW high \in Nat, NEW low \in 0..(range - 1)
    PROVE  /\ high * range + low \in Nat
           /\ (high * range + low) \div range = high
           /\ (high * range + low) % range = low
OBVIOUS

\* Two divisions are one.
LEMMA DivideTwice ==
    ASSUME NEW a \in Nat, NEW b \in Nat \ {0}, NEW c \in Nat \ {0}
    PROVE  a \div (b * c) = (a \div b) \div c
OBVIOUS

\* A value below its range is what its remainder says.
LEMMA Fits ==
    ASSUME NEW range \in Nat \ {0}, NEW x \in 0..(range - 1)
    PROVE  x % range = x
OBVIOUS

\* The three fields of a completion's wr_id that pollAllNicsForWorker reads are those
\* the work request was posted with, whatever the widths and whatever the index of
\* the chunk: an index wider than its field loses its upper bits and runs into no
\* other field.
THEOREM WrIdRoundTrip ==
    ASSUME NEW nic \in 0..(NicRange - 1), NEW qp \in 0..(QpRange - 1),
           NEW h \in 0..(HandleRange - 1), NEW chunk \in Nat
    PROVE  LET id == Encode(nic, qp, h, chunk)
           IN  DecodeNic(id) = nic /\ DecodeQp(id) = qp /\ DecodeHandle(id) = h
<1> DEFINE low == chunk % ChunkRange
           upper == nic * QpRange + qp
           tag == upper * HandleRange + h
           id == tag * ChunkRange + low
<1>1. /\ NicRange \in Nat \ {0} /\ QpRange \in Nat \ {0}
      /\ HandleRange \in Nat \ {0} /\ ChunkRange \in Nat \ {0}
  BY FieldConstants
<1>2. nic % NicRange = nic /\ qp % QpRange = qp /\ h % HandleRange = h
  BY <1>1, Fits
<1>3. Encode(nic, qp, h, chunk) = id
  BY <1>2 DEF Encode, Tag
<1>4. low \in 0..(ChunkRange - 1)
  BY <1>1
<1>5. upper \in Nat /\ upper \div QpRange = nic /\ upper % QpRange = qp
  BY <1>1, LowestField
<1> HIDE DEF low, upper
<1>6. tag \in Nat /\ tag \div HandleRange = upper /\ tag % HandleRange = h
  BY <1>1, <1>5, LowestField
<1> HIDE DEF tag
<1>7. id \in Nat /\ id \div ChunkRange = tag
  BY <1>1, <1>4, <1>6, LowestField
<1> HIDE DEF id
<1>8. id \div (ChunkRange * HandleRange) = upper
  BY <1>1, <1>6, <1>7, DivideTwice
<1>9. id \div (ChunkRange * HandleRange * QpRange) = nic
  <2>1. ChunkRange * HandleRange \in Nat \ {0}
    BY <1>1
  <2>2. id \div ((ChunkRange * HandleRange) * QpRange) = (id \div (ChunkRange * HandleRange)) \div QpRange
    BY <1>1, <1>7, <2>1, DivideTwice
  <2> QED BY <1>5, <1>8, <2>2
<1> QED BY <1>2, <1>3, <1>5, <1>6, <1>7, <1>8, <1>9 DEF DecodeNic, DecodeQp, DecodeHandle

-----------------------------------------------------------------------------
(* WrIdNamesPoster.                                                         *)

\* The call keeps its handle, and chunks are counted from 0.
WrInv == handle \in Handles /\ next_chunk_idx \in Nat /\ WrIdNamesPoster

\* Before the first post there is no word to read.
LEMMA InitWr == Init => WrInv
BY DEF Init, WrInv, WrIdNamesPoster

\* A post writes the word and remembers its poster.
LEMMA StepWr == WrInv /\ [Next]_vars => WrInv'
<1> SUFFICES ASSUME WrInv, [Next]_vars PROVE WrInv'
  OBVIOUS
<1>1. CASE Prepare
  BY <1>1 DEF Prepare, WrInv, WrIdNamesPoster, callVars, DecodeNic, DecodeQp, DecodeHandle
<1>2. ASSUME NEW nic \in Nics, NEW qp \in 0..(NumQps - 1), Post(nic, qp)
      PROVE  WrInv'
  <2>1. /\ nic \in 0..(NicRange - 1) /\ qp \in 0..(QpRange - 1)
        /\ handle \in 0..(HandleRange - 1)
    BY FieldConstants DEF WrInv
  <2>2. /\ wr_id' = Encode(nic, qp, handle, next_chunk_idx) /\ poster' = <<nic, qp, handle>>
        /\ handle' = handle /\ next_chunk_idx' = next_chunk_idx + 1
    BY <1>2 DEF Post, callVars
  <2>3. /\ DecodeNic(wr_id') = nic /\ DecodeQp(wr_id') = qp /\ DecodeHandle(wr_id') = handle
    BY <2>1, <2>2, WrIdRoundTrip DEF WrInv
  <2> QED BY <2>2, <2>3 DEF WrInv, WrIdNamesPoster, DecodeNic, DecodeQp, DecodeHandle
<1>3. CASE UNCHANGED vars
  BY <1>3 DEF vars, callVars, WrInv, WrIdNamesPoster, DecodeNic, DecodeQp, DecodeHandle
<1> QED BY <1>1, <1>2, <1>3 DEF Next

\* Every completion leads back to the NIC, the queue pair and the transfer of its
\* post, in transfers of any length.
THEOREM WrIdAlwaysNamesPoster == Spec => []WrIdNamesPoster
<1>1. WrInv => WrIdNamesPoster
  BY DEF WrInv
<1> QED BY <1>1, InitWr, StepWr, PTL DEF Spec

-----------------------------------------------------------------------------
(* Recursive functions: there is one, so that CHOOSE chooses it.            *)

\* A set of naturals that is not empty has a least member.
LEMMA LeastNatural ==
    ASSUME NEW T, T \subseteq Nat, T # {}
    PROVE  \E x \in T : \A y \in T : x <= y
<1> DEFINE R == {ss \in Nat \X Nat : ss[1] < ss[2]}
<1>1. IsWellFoundedOn(R, Nat)
  BY NatLessThanWellFounded DEF OpToRel
<1> HIDE DEF R
<1>2. \E x \in T : \A y \in T : ~ (<<y, x>> \in R)
  BY <1>1, WFMin
<1>3. PICK x \in T : \A y \in T : ~ (<<y, x>> \in R)
  BY <1>2
<1>4. \A y \in T : ~ (y < x)
  BY <1>3 DEF R
<1> QED BY <1>4

\* Induction over the naturals, for a set instead of a predicate.
LEMMA NatSetInduction ==
    ASSUME NEW S, 0 \in S, \A n \in Nat : n \in S => n + 1 \in S
    PROVE  Nat \subseteq S
<1>1. SUFFICES ASSUME Nat \ S # {} PROVE FALSE
  OBVIOUS
<1>2. PICK x \in Nat \ S : \A y \in Nat \ S : x <= y
  BY <1>1, LeastNatural
<1>3. x \in Nat /\ x - 1 \in Nat
  BY <1>2
<1>4. x - 1 \in S
  BY <1>2, <1>3
<1>5. (x - 1) + 1 = x
  BY <1>3
<1> QED BY <1>2, <1>3, <1>4, <1>5

\* What f makes of r: at an end its value there, and before it what f makes of the
\* next argument, with an addend if f is a sum.
Result(f, r, ends, next, add, kind) ==
    IF r \in DOMAIN ends THEN ends[r] ELSE IF kind = "sum" THEN f[next[r]] + add[r] ELSE f[next[r]]

\* f is defined on T by recursion towards the arguments that end it.
Recurses(f, T, ends, next, add, kind) == f = [r \in T |-> Result(f, r, ends, next, add, kind)]

\* A measure falls towards the ends.
Falls(m, T, ends, next) ==
    /\ m \in [T -> Nat]
    /\ \A r \in T : r \notin DOMAIN ends => next[r] \in T /\ m[next[r]] < m[r]

\* Then there is such an f.
LEMMA Recursion ==
    ASSUME NEW T, NEW ends, NEW next, NEW add, NEW kind, NEW m, Falls(m, T, ends, next)
    PROVE  \E f : Recurses(f, T, ends, next, add, kind)
<1> USE DEF Falls
<1> DEFINE Good(f, k) == \A r \in T : m[r] < k => f[r] = Result(f, r, ends, next, add, kind)
           S == {k \in Nat : \E f : Good(f, k)}
<1>1. 0 \in S
  <2>1. Good(<<>>, 0)
    OBVIOUS
  <2> QED BY <2>1
<1>2. ASSUME NEW k \in Nat, k \in S PROVE k + 1 \in S
  <2>1. PICK g : Good(g, k)
    BY <1>2
  <2> DEFINE f == [r \in T |-> Result(g, r, ends, next, add, kind)]
  <2>2. ASSUME NEW r \in T, m[r] < k + 1 PROVE f[r] = Result(f, r, ends, next, add, kind)
    <3>1. CASE r \in DOMAIN ends
      BY <3>1 DEF Result
    <3>2. CASE r \notin DOMAIN ends
      <4>1. next[r] \in T /\ m[next[r]] < k
        BY <2>2, <3>2
      <4>2. f[next[r]] = g[next[r]]
        BY <2>1, <4>1
      <4>3. f[r] = Result(g, r, ends, next, add, kind)
        OBVIOUS
      <4> HIDE DEF f
      <4> QED BY <4>2, <4>3, Zenon DEF Result
    <3> QED BY <3>1, <3>2
  <2>3. Good(f, k + 1)
    BY <2>2
  <2> HIDE DEF f, Good
  <2> QED BY <2>3
<1> HIDE DEF S
<1>3. Nat \subseteq S
  BY <1>1, <1>2, NatSetInduction
<1>4. \A k \in Nat : \E f : Good(f, k)
  BY <1>3 DEF S
<1>5. ASSUME NEW g, NEW h, NEW k \in Nat, NEW j \in Nat, Good(g, k), Good(h, j), NEW r \in T, m[r] < k, m[r] < j
      PROVE  g[r] = h[r]
  <2> SUFFICES ASSUME g[r] # h[r] PROVE FALSE
    OBVIOUS
  <2> DEFINE D == {m[x] : x \in {y \in T : m[y] < k /\ m[y] < j /\ g[y] # h[y]}}
  <2>1. D \subseteq Nat /\ m[r] \in D
    BY <1>5
  <2>2. PICK d \in D : \A e \in D : d <= e
    BY <2>1, LeastNatural
  <2>3. PICK x \in T : d = m[x] /\ m[x] < k /\ m[x] < j /\ g[x] # h[x]
    BY <2>2
  <2>4. g[x] = Result(g, x, ends, next, add, kind) /\ h[x] = Result(h, x, ends, next, add, kind)
    BY <1>5, <2>3
  <2>5. x \notin DOMAIN ends
    BY <2>3, <2>4 DEF Result
  <2>6. next[x] \in T /\ m[next[x]] < m[x]
    BY <2>5
  <2>7. g[next[x]] # h[next[x]]
    BY <2>3, <2>4, Zenon DEF Result
  <2>8. m[next[x]] \in D
    BY <1>5, <2>3, <2>6, <2>7
  <2> QED BY <2>1, <2>2, <2>3, <2>6, <2>8
<1> DEFINE G(k) == CHOOSE f : Good(f, k)
           f == [r \in T |-> G(m[r] + 1)[r]]
<1>6. \A k \in Nat : Good(G(k), k)
  <2> HIDE DEF Good
  <2> QED BY <1>4
<1>7. ASSUME NEW r \in T PROVE f[r] = Result(f, r, ends, next, add, kind)
  <2> DEFINE g == G(m[r] + 1)
  <2>0. m[r] \in Nat /\ m[r] + 1 \in Nat
    OBVIOUS
  <2>1. Good(g, m[r] + 1)
    BY <1>6, <2>0
  <2> HIDE DEF G
  <2>2. f[r] = g[r]
    OBVIOUS
  <2>3. g[r] = Result(g, r, ends, next, add, kind)
    BY <2>1, <2>0
  <2>4. CASE r \in DOMAIN ends
    BY <2>2, <2>3, <2>4 DEF Result
  <2>5. CASE r \notin DOMAIN ends
    <3>1. next[r] \in T /\ m[next[r]] \in Nat /\ m[next[r]] < m[r]
      BY <2>5
    <3>2. f[next[r]] = G(m[next[r]] + 1)[next[r]] /\ Good(G(m[next[r]] + 1), m[next[r]] + 1)
      BY <1>6, <3>1
    <3> DEFINE h == G(m[next[r]] + 1)
    <3> HIDE DEF h, g, f, Good
    <3>3. Good(h, m[next[r]] + 1) /\ f[next[r]] = h[next[r]]
      BY <3>2 DEF h
    <3>4. m[next[r]] < m[r] + 1 /\ m[next[r]] < m[next[r]] + 1 /\ m[next[r]] + 1 \in Nat
      BY <2>0, <3>1
    <3>5. g[next[r]] = h[next[r]]
      BY <1>5, <2>0, <2>1, <3>1, <3>3, <3>4
    <3> QED BY <2>2, <2>3, <3>3, <3>5, Zenon DEF Result
  <2> QED BY <2>4, <2>5
<1> HIDE DEF f
<1>8. f = [r \in T |-> f[r]]
  BY DEF f
<1>9. Recurses(f, T, ends, next, add, kind)
  BY <1>7, <1>8 DEF Recurses
<1> QED BY <1>9

-----------------------------------------------------------------------------
(* The running sums of the preparation loop.                                *)

\* f is the running sum of the summands before n.
Sums(f, add) == f = [n \in Nat |-> IF n <= 1 THEN 0 ELSE f[n - 1] + add[n]]

\* A running sum over any summands exists.
LEMMA SumsExist == ASSUME NEW add PROVE \E f : Sums(f, add)
<1> DEFINE ends == [n \in {0, 1} |-> 0]
           next == [n \in Nat |-> n - 1]
           m == [n \in Nat |-> n]
<1>1. \A n \in Nat : n \notin DOMAIN ends => next[n] \in Nat /\ m[next[n]] < m[n]
  OBVIOUS
<1>2. m \in [Nat -> Nat]
  OBVIOUS
<1>3. \A n \in Nat : n \in DOMAIN ends <=> n <= 1
  OBVIOUS
<1>4. \A n \in DOMAIN ends : ends[n] = 0
  OBVIOUS
<1>5. \A n \in Nat : next[n] = n - 1
  OBVIOUS
<1>6. Falls(m, Nat, ends, next)
  BY <1>1, <1>2 DEF Falls
<1> HIDE DEF ends, next, m
<1>7. PICK f : Recurses(f, Nat, ends, next, add, "sum")
  BY <1>6, Recursion
<1>8. f = [n \in Nat |-> Result(f, n, ends, next, add, "sum")]
  BY <1>7, Zenon DEF Recurses
<1>9. \A n \in Nat : Result(f, n, ends, next, add, "sum") = IF n <= 1 THEN 0 ELSE f[n - 1] + add[n]
  BY <1>3, <1>4, <1>5 DEF Result
<1>10. f = [n \in Nat |-> IF n <= 1 THEN 0 ELSE f[n - 1] + add[n]]
  BY <1>8, <1>9
<1> QED BY <1>10, Zenon DEF Sums

\* ChunksBefore and LocalBefore are such sums, and so is the sum in Wanted.
LEMMA ChunksBeforeIs == Sums(ChunksBefore, [n \in Nat |-> NumChunks(lengths[n - 1])])
<1> DEFINE add == [n \in Nat |-> NumChunks(lengths[n - 1])]
           Is(f) == f = [n \in Nat |-> IF n <= 1 THEN 0 ELSE f[n - 1] + NumChunks(lengths[n - 1])]
<1>1. \A n \in Nat : add[n] = NumChunks(lengths[n - 1])
  OBVIOUS
<1>2. ASSUME NEW f PROVE Sums(f, add) <=> Is(f)
  <2> HIDE DEF add
  <2>1. \A n \in Nat : (IF n <= 1 THEN 0 ELSE f[n - 1] + add[n]) = IF n <= 1 THEN 0 ELSE f[n - 1] + NumChunks(lengths[n - 1])
    BY <1>1
  <2>2. [n \in Nat |-> IF n <= 1 THEN 0 ELSE f[n - 1] + add[n]]
          = [n \in Nat |-> IF n <= 1 THEN 0 ELSE f[n - 1] + NumChunks(lengths[n - 1])]
    BY <2>1
  <2> QED BY <2>2 DEF Sums
<1>3. \E f : Is(f)
  BY <1>2, SumsExist
<1>4. ChunksBefore = CHOOSE f : Is(f)
  BY Zenon DEF ChunksBefore
<1> HIDE DEF Is
<1>5. Is(ChunksBefore)
  BY <1>3, <1>4, Zenon
<1> QED BY <1>2, <1>5

\* The sum in Wanted: the bytes of the hosts before h.
Before == CHOOSE f : f = [h \in Nat |-> IF h <= 1 THEN 0 ELSE f[h - 1] + lengths[h - 1]]
\* Where the reference puts the first byte of a host.
First(h) == IF direction = "BROADCAST" THEN 0 ELSE Before[h]

\* The reference sum is the sum of the lengths.
LEMMA BeforeIs == Sums(Before, [n \in Nat |-> lengths[n - 1]])
<1> DEFINE add == [n \in Nat |-> lengths[n - 1]]
           Is(f) == f = [h \in Nat |-> IF h <= 1 THEN 0 ELSE f[h - 1] + lengths[h - 1]]
<1>1. \A n \in Nat : add[n] = lengths[n - 1]
  OBVIOUS
<1>2. ASSUME NEW f PROVE Sums(f, add) <=> Is(f)
  <2> HIDE DEF add
  <2>1. [n \in Nat |-> IF n <= 1 THEN 0 ELSE f[n - 1] + add[n]]
          = [n \in Nat |-> IF n <= 1 THEN 0 ELSE f[n - 1] + lengths[n - 1]]
    BY <1>1
  <2> QED BY <2>1 DEF Sums
<1>3. \E f : Is(f)
  BY <1>2, SumsExist
<1>4. Before = CHOOSE f : Is(f)
  BY Zenon DEF Before
<1> HIDE DEF Is
<1>5. Is(Before)
  BY <1>3, <1>4, Zenon
<1> QED BY <1>2, <1>5

\* The reference, by the names above.
LEMMA WantedIs == Wanted = UNION {{<<First(h) + i, h, i>> : i \in 0..(lengths[h] - 1)} : h \in Hosts}
BY Zenon DEF Wanted, First, Before

\* The running offset of the preparation loop: zero for the first host, and one step.
LEMMA LocalBeforeIs ==
    /\ direction = "BROADCAST" => LocalBefore = [n \in Nat |-> 0]
    /\ direction # "BROADCAST" => Sums(LocalBefore, [n \in Nat |-> lengths[n - 1]])
<1> DEFINE add == [n \in Nat |-> lengths[n - 1]]
           Is(f) == f = [n \in Nat |-> IF n <= 1 \/ direction = "BROADCAST" THEN 0 ELSE f[n - 1] + lengths[n - 1]]
<1>1. \A n \in Nat : add[n] = lengths[n - 1]
  OBVIOUS
<1>4. LocalBefore = CHOOSE f : Is(f)
  BY Zenon DEF LocalBefore
<1>2. CASE direction = "BROADCAST"
  <2>1. ASSUME NEW f PROVE Is(f) <=> f = [n \in Nat |-> 0]
    BY <1>2
  <2>2. \E f : Is(f)
    BY <2>1
  <2> HIDE DEF Is
  <2>3. Is(LocalBefore)
    BY <1>4, <2>2, Zenon
  <2> QED BY <1>2, <2>1, <2>3
<1>3. CASE direction # "BROADCAST"
  <2>1. ASSUME NEW f PROVE Sums(f, add) <=> Is(f)
    <3> HIDE DEF add
    <3>1. [n \in Nat |-> IF n <= 1 THEN 0 ELSE f[n - 1] + add[n]]
          = [n \in Nat |-> IF n <= 1 \/ direction = "BROADCAST" THEN 0 ELSE f[n - 1] + lengths[n - 1]]
      BY <1>1, <1>3
    <3> QED BY <3>1 DEF Sums
  <2>2. \E f : Is(f)
    BY <2>1, SumsExist
  <2> HIDE DEF Is
  <2>3. Is(LocalBefore)
    BY <1>4, <2>2, Zenon
  <2> QED BY <1>3, <2>1, <2>3
<1> QED BY <1>2, <1>3

-----------------------------------------------------------------------------
(* The bisection.                                                           *)

\* One step of it: the middle lies between the ends, so the range gets shorter.
LEMMA MidFacts ==
    ASSUME NEW s \in Search, s.lo < s.hi
    PROVE  /\ Mid(s) \in s.lo .. (s.hi - 1)
           /\ Right(s) \in Search /\ Right(s).lo = Mid(s) + 1 /\ Right(s).hi = s.hi /\ Right(s).host = Mid(s)
           /\ Left(s) \in Search /\ Left(s).lo = s.lo /\ Left(s).hi = Mid(s) /\ Left(s).host = s.host
<1>1. s.lo \in Nat /\ s.hi \in Nat /\ s.host \in Nat /\ s = [lo |-> s.lo, hi |-> s.hi, host |-> s.host]
  BY DEF Search
<1>2. \A d \in Nat \ {0} : d \div 2 \in 0..(d - 1)
  OBVIOUS
<1>3. s.hi - s.lo \in Nat \ {0}
  BY <1>1
<1>4. Mid(s) \in s.lo .. (s.hi - 1)
  BY <1>1, <1>2, <1>3 DEF Mid
<1>5. Mid(s) \in Nat
  BY <1>1, <1>4
<1> HIDE DEF Mid
<1> DEFINE mid == Mid(s)
<1>m. Right(s) = [s EXCEPT !.lo = mid + 1, !.host = mid] /\ Left(s) = [s EXCEPT !.hi = mid]
  BY DEF Right, Left
<1> HIDE DEF mid
<1>r. Right(s) = [lo |-> mid + 1, hi |-> s.hi, host |-> mid]
  BY <1>1, <1>m
<1>l. Left(s) = [lo |-> s.lo, hi |-> mid, host |-> s.host]
  BY <1>1, <1>m
<1>6. Right(s) = [lo |-> Mid(s) + 1, hi |-> s.hi, host |-> Mid(s)]
      /\ Left(s) = [lo |-> s.lo, hi |-> Mid(s), host |-> s.host]
  BY <1>r, <1>l DEF mid
<1> QED BY <1>1, <1>4, <1>5, <1>6 DEF Search

\* at is the recursive function of SearchHost.
Bisects(at, idx) ==
    at = [s \in Search |->
             IF s.lo >= s.hi THEN s.host
             ELSE IF host_chunk_starts[Mid(s)] <= idx THEN at[Right(s)] ELSE at[Left(s)]]

\* The search is the bisection from all hosts.
LEMMA SearchIs ==
    ASSUME NEW idx
    PROVE  \E at : Bisects(at, idx) /\ SearchHost(idx) = at[[lo |-> 1, hi |-> Len(lengths) + 1, host |-> 1]]
<1> DEFINE over == {s \in Search : s.lo >= s.hi}
           ends == [s \in over |-> s.host]
           next == [s \in Search |-> IF host_chunk_starts[Mid(s)] <= idx THEN Right(s) ELSE Left(s)]
           m == [s \in Search |-> IF s.lo >= s.hi THEN 0 ELSE s.hi - s.lo]
<1>1. \A s \in Search : s.lo \in Nat /\ s.hi \in Nat
  BY DEF Search
<1>2. m \in [Search -> Nat]
  BY <1>1
<1>3. ASSUME NEW s \in Search, s \notin DOMAIN ends PROVE next[s] \in Search /\ m[next[s]] < m[s]
  <2>1. s.lo < s.hi /\ s.lo \in Nat /\ s.hi \in Nat
    BY <1>1, <1>3
  <2>2. m[s] = s.hi - s.lo
    BY <2>1
  <2>3. \/ next[s] = Right(s)
        \/ next[s] = Left(s)
    OBVIOUS
  <2>4. ASSUME NEW t \in Search, t.lo >= s.lo, t.hi <= s.hi, t.lo > s.lo \/ t.hi < s.hi PROVE m[t] < m[s]
    <3>1. t.lo \in Nat /\ t.hi \in Nat
      BY <1>1
    <3>2. m[t] = IF t.lo >= t.hi THEN 0 ELSE t.hi - t.lo
      OBVIOUS
    <3> HIDE DEF m
    <3> QED BY <2>1, <2>2, <2>4, <3>1, <3>2
  <2> HIDE DEF m, next
  <2>5. /\ Mid(s) \in s.lo .. (s.hi - 1)
        /\ Right(s) \in Search /\ Right(s).lo = Mid(s) + 1 /\ Right(s).hi = s.hi
        /\ Left(s) \in Search /\ Left(s).lo = s.lo /\ Left(s).hi = Mid(s)
    BY <2>1, MidFacts
  <2>6. m[Right(s)] < m[s]
    BY <2>1, <2>4, <2>5
  <2>7. m[Left(s)] < m[s]
    BY <2>1, <2>4, <2>5
  <2> QED BY <2>3, <2>5, <2>6, <2>7
<1>4. /\ \A s \in Search : s \in DOMAIN ends <=> s.lo >= s.hi
      /\ \A s \in DOMAIN ends : ends[s] = s.host
      /\ \A s \in Search : next[s] = IF host_chunk_starts[Mid(s)] <= idx THEN Right(s) ELSE Left(s)
  OBVIOUS
<1> HIDE DEF over, ends, next, m
<1>5. Falls(m, Search, ends, next)
  BY <1>2, <1>3 DEF Falls
<1>6. \E at : Recurses(at, Search, ends, next, 0, "search")
  BY <1>5, Recursion
<1>7. ASSUME NEW at, Recurses(at, Search, ends, next, 0, "search") PROVE Bisects(at, idx)
  <2>1. at = [s \in Search |-> Result(at, s, ends, next, 0, "search")]
    BY <1>7, Zenon DEF Recurses
  <2>2. ASSUME NEW s \in Search
        PROVE  Result(at, s, ends, next, 0, "search") =
                 IF s.lo >= s.hi THEN s.host
                 ELSE IF host_chunk_starts[Mid(s)] <= idx THEN at[Right(s)] ELSE at[Left(s)]
    BY <1>4 DEF Result
  <2>3. at = [s \in Search |->
             IF s.lo >= s.hi THEN s.host
             ELSE IF host_chunk_starts[Mid(s)] <= idx THEN at[Right(s)] ELSE at[Left(s)]]
    BY <2>1, <2>2
  <2> QED BY <2>3, Zenon DEF Bisects
<1> DEFINE at == CHOOSE f : Bisects(f, idx)
<1>8. \E f : Bisects(f, idx)
  BY <1>6, <1>7
<1>9. Bisects(at, idx)
  BY <1>8, Zenon
<1>10. SearchHost(idx) = at[[lo |-> 1, hi |-> Len(lengths) + 1, host |-> 1]]
  BY Zenon DEF SearchHost, Bisects
<1> HIDE DEF at
<1> QED BY <1>9, <1>10

\* getChunk's search finds the last host that does not start after the chunk.
LEMMA SearchFinds ==
    ASSUME NEW n \in Nat \ {0}, n = Len(lengths), host_chunk_starts \in [1..n -> Nat],
           \A i, j \in 1..n : i <= j => host_chunk_starts[i] <= host_chunk_starts[j],
           host_chunk_starts[1] = 0, NEW idx \in Nat
    PROVE  /\ SearchHost(idx) \in 1..n /\ host_chunk_starts[SearchHost(idx)] <= idx
           /\ \A k \in 1..n : k > SearchHost(idx) => host_chunk_starts[k] > idx
<1> DEFINE start == [lo |-> 1, hi |-> n + 1, host |-> 1]
<1>1. PICK at : Bisects(at, idx) /\ SearchHost(idx) = at[start]
  BY SearchIs
<1> DEFINE Found(h) == /\ h \in 1..n /\ host_chunk_starts[h] <= idx
                       /\ \A k \in 1..n : k > h => host_chunk_starts[k] > idx
           Open(s) == /\ s \in Search /\ 1 <= s.lo /\ s.lo <= s.hi /\ s.hi <= n + 1
                      /\ \A k \in 1..n : k < s.lo => host_chunk_starts[k] <= idx
                      /\ \A k \in 1..n : k >= s.hi => host_chunk_starts[k] > idx
                      /\ s.lo > 1 => s.host = s.lo - 1
           Bad == {s \in Search : Open(s) /\ ~ Found(at[s])}
           D == {s.hi - s.lo : s \in Bad}
<1>2. \A s \in Search : at[s] = IF s.lo >= s.hi THEN s.host
                               ELSE IF host_chunk_starts[Mid(s)] <= idx THEN at[Right(s)] ELSE at[Left(s)]
  BY <1>1 DEF Bisects
<1>3. Bad = {}
  <2> SUFFICES ASSUME Bad # {} PROVE FALSE
    OBVIOUS
  <2>1. D \subseteq Nat /\ D # {}
    <3>1. \A s \in Bad : s.hi - s.lo \in Nat
      BY DEF Search
    <3> QED BY <3>1
  <2>2. PICK d \in D : \A e \in D : d <= e
    BY <2>1, LeastNatural
  <2>3. PICK s \in Bad : d = s.hi - s.lo
    BY <2>2
  <2>4. s \in Search /\ Open(s) /\ ~ Found(at[s]) /\ s.lo \in Nat /\ s.hi \in Nat /\ s.host \in Nat
    BY <2>3 DEF Search
  <2>5. CASE s.lo >= s.hi
    <3>1. s.lo = s.hi /\ at[s] = s.host
      BY <1>2, <2>4, <2>5
    <3>2. s.lo > 1
      <4> SUFFICES ASSUME s.lo = 1 PROVE FALSE
        BY <2>4
      <4>1. 1 \in 1..n /\ 1 >= s.hi
        BY <3>1
      <4>2. host_chunk_starts[1] > idx
        BY <2>4, <4>1
      <4> QED BY <4>2
    <3>3. s.host = s.lo - 1 /\ s.host \in 1..n /\ s.host < s.lo
      BY <2>4, <3>1, <3>2
    <3>4. \A k \in 1..n : k > s.host => k >= s.hi
      BY <2>4, <3>1, <3>3
    <3> QED BY <2>4, <3>1, <3>3, <3>4
  <2>6. CASE s.lo < s.hi
    <3> DEFINE t == IF host_chunk_starts[Mid(s)] <= idx THEN Right(s) ELSE Left(s)
    <3>1. /\ Mid(s) \in s.lo .. (s.hi - 1)
          /\ Right(s) \in Search /\ Right(s).lo = Mid(s) + 1 /\ Right(s).hi = s.hi /\ Right(s).host = Mid(s)
          /\ Left(s) \in Search /\ Left(s).lo = s.lo /\ Left(s).hi = Mid(s) /\ Left(s).host = s.host
      BY <2>4, <2>6, MidFacts
    <3>2. Mid(s) \in 1..n /\ host_chunk_starts[Mid(s)] \in Nat
      BY <2>4, <3>1
    <3>3. at[s] = at[t]
      BY <1>2, <2>4, <2>6
    <3>4. Open(t) /\ t.hi - t.lo < s.hi - s.lo
      <4>1. CASE host_chunk_starts[Mid(s)] <= idx
        <5>1. t = Right(s)
          BY <4>1
        <5>2. \A k \in 1..n : k < Mid(s) + 1 => host_chunk_starts[k] <= idx
          <6> TAKE k \in 1..n
          <6> HAVE k < Mid(s) + 1
          <6>1. host_chunk_starts[k] <= host_chunk_starts[Mid(s)] /\ host_chunk_starts[k] \in Nat
            BY <3>2
          <6> QED BY <3>2, <4>1, <6>1
        <5>3. t \in Search /\ t.lo = Mid(s) + 1 /\ t.hi = s.hi /\ t.host = Mid(s)
          BY <3>1, <5>1
        <5> HIDE DEF t
        <5>4. \A k \in 1..n : k < t.lo => host_chunk_starts[k] <= idx
          BY <5>2, <5>3
        <5>5. \A k \in 1..n : k >= t.hi => host_chunk_starts[k] > idx
          BY <2>4, <5>3
        <5>6. 1 <= t.lo /\ t.lo <= t.hi /\ t.hi <= n + 1 /\ t.host = t.lo - 1 /\ t.hi - t.lo < s.hi - s.lo
          BY <2>4, <3>1, <3>2, <5>3
        <5> QED BY <5>3, <5>4, <5>5, <5>6
      <4>2. CASE ~ (host_chunk_starts[Mid(s)] <= idx)
        <5>1. t = Left(s)
          BY <4>2
        <5>2. \A k \in 1..n : k >= Mid(s) => host_chunk_starts[k] > idx
          <6> TAKE k \in 1..n
          <6> HAVE k >= Mid(s)
          <6>1. host_chunk_starts[Mid(s)] <= host_chunk_starts[k] /\ host_chunk_starts[k] \in Nat
            BY <3>2
          <6> QED BY <3>2, <4>2, <6>1
        <5> HIDE DEF t
        <5> QED BY <2>4, <3>1, <3>2, <5>1, <5>2
      <4> QED BY <4>1, <4>2
    <3> HIDE DEF t, Found, Open
    <3>5. t \in Bad
      BY <2>4, <3>3, <3>4 DEF Open
    <3>6. t.hi - t.lo \in D /\ t.hi - t.lo \in Nat
      BY <2>1, <3>5
    <3>7. d <= t.hi - t.lo
      BY <2>2, <3>6
    <3>8. d \in Nat
      BY <2>1, <2>2
    <3> HIDE DEF D
    <3> QED BY <2>3, <3>4, <3>6, <3>7, <3>8
  <2> QED BY <2>4, <2>5, <2>6
<1>4. Open(start)
  <2>1. start \in Search /\ start.lo = 1 /\ start.hi = n + 1
    BY DEF Search
  <2> QED BY <2>1
<1>5. Found(at[start])
  BY <1>3, <1>4
<1> QED BY <1>1, <1>5

-----------------------------------------------------------------------------
(* A length is cut.                                                         *)

\* The quotient of a division, by products.
LEMMA Quotient ==
    ASSUME NEW d \in Nat \ {0}, NEW i \in Nat, NEW j \in Nat
    PROVE  /\ i \div d \in Nat
           /\ i \div d = j <=> j * d <= i /\ i < j * d + d
OBVIOUS

\* Multiples of a divisor.
LEMMA Products ==
    ASSUME NEW d \in Nat \ {0}, NEW j \in Nat, NEW k \in Nat
    PROVE  /\ j * d \in Nat
           /\ j < k <=> j * d < k * d
           /\ (j + 1) * d = j * d + d
OBVIOUS

\* Every byte lies in one of NumChunks(l) chunks, and none of these is empty.
LEMMA CutFacts ==
    ASSUME NEW l \in Nat, max_chunk_size \in Nat \ {0}
    PROVE  /\ NumChunks(l) \in Nat
           /\ \A i \in 0..(l - 1) : i \div max_chunk_size \in 0..(NumChunks(l) - 1)
           /\ \A j \in 0..(NumChunks(l) - 1) : j * max_chunk_size \in 0..(l - 1)
<1> DEFINE d == max_chunk_size
           q == NumChunks(l)
<1>0. d \in Nat \ {0} /\ l + d - 1 \in Nat
  OBVIOUS
<1>1. q = (l + d - 1) \div d
  BY DEF NumChunks
<1> HIDE DEF q, d
<1>2. q \in Nat
  BY <1>0, <1>1, Quotient
<1>3. q * d \in Nat /\ q * d <= l + d - 1 /\ l + d - 1 < q * d + d
  BY <1>0, <1>1, <1>2, Quotient, Products
<1>4. ASSUME NEW i \in 0..(l - 1) PROVE i \div d \in 0..(q - 1)
  <2> DEFINE k == i \div d
  <2>1. k \in Nat
    BY <1>0, Quotient
  <2> HIDE DEF k
  <2>2. k * d <= i /\ k * d \in Nat
    BY <1>0, <2>1, Quotient, Products DEF k
  <2>3. k * d < q * d
    BY <1>0, <1>3, <2>2
  <2>4. k < q
    BY <1>0, <1>2, <2>1, <2>3, Products
  <2> QED BY <1>2, <2>1, <2>4 DEF k
<1>5. ASSUME NEW j \in 0..(q - 1) PROVE j * d \in 0..(l - 1)
  <2>1. j \in Nat /\ j + 1 \in Nat /\ ~ (q < j + 1)
    BY <1>2
  <2>2. j * d \in Nat /\ (j + 1) * d = j * d + d /\ ~ (q * d < (j + 1) * d)
    BY <1>0, <1>2, <2>1, Products
  <2> QED BY <1>0, <1>3, <2>2
<1> QED BY <1>2, <1>4, <1>5 DEF d, q

\* A running sum of naturals is a natural.
LEMMA SumsNat ==
    ASSUME NEW f, NEW add, Sums(f, add), NEW m \in Nat, \A k \in 2..m : add[k] \in Nat
    PROVE  f[1] = 0 /\ \A k \in 1..m : f[k] \in Nat /\ (k > 1 => f[k] = f[k - 1] + add[k])
<1> DEFINE S == {k \in Nat : k + 1 <= m => f[k + 1] \in Nat}
<1>1. f[1] = 0 /\ \A k \in Nat : k > 1 => f[k] = f[k - 1] + add[k]
  BY DEF Sums
<1>2. 0 \in S
  BY <1>1
<1>3. ASSUME NEW k \in Nat, k \in S PROVE k + 1 \in S
  <2> SUFFICES ASSUME k + 2 <= m PROVE f[k + 2] \in Nat
    OBVIOUS
  <2>1. f[k + 1] \in Nat /\ add[k + 2] \in Nat
    BY <1>3
  <2>2. k + 2 \in Nat /\ k + 2 > 1 /\ (k + 2) - 1 = k + 1
    OBVIOUS
  <2>3. f[k + 2] = f[k + 1] + add[k + 2]
    BY <1>1, <2>2
  <2> QED BY <2>1, <2>3
<1> HIDE DEF S
<1>4. Nat \subseteq S
  BY <1>2, <1>3, NatSetInduction
<1>5. ASSUME NEW k \in 1..m PROVE f[k] \in Nat
  <2>1. k - 1 \in S /\ (k - 1) + 1 = k
    BY <1>4
  <2> QED BY <2>1 DEF S
<1> QED BY <1>1, <1>5

\* What does not fall from one place to the next does not fall.
LEMMA Climbs ==
    ASSUME NEW n \in Nat, NEW f \in [1..n -> Nat], \A i \in 1..(n - 1) : f[i] <= f[i + 1]
    PROVE  \A i, j \in 1..n : i <= j => f[i] <= f[j]
<1> DEFINE S == {d \in Nat : \A i \in 1..n : i + d <= n => f[i] <= f[i + d]}
<1>1. 0 \in S
  OBVIOUS
<1>2. ASSUME NEW d \in Nat, d \in S PROVE d + 1 \in S
  <2> SUFFICES ASSUME NEW i \in 1..n, i + (d + 1) <= n PROVE f[i] <= f[i + (d + 1)]
    OBVIOUS
  <2>1. i + d \in 1..(n - 1) /\ i + d \in 1..n /\ i + (d + 1) \in 1..n /\ (i + d) + 1 = i + (d + 1)
    OBVIOUS
  <2>2. f[i] <= f[i + d] /\ f[i + d] <= f[(i + d) + 1]
    BY <1>2, <2>1
  <2> QED BY <2>1, <2>2
<1> HIDE DEF S
<1>3. Nat \subseteq S
  BY <1>1, <1>2, NatSetInduction
<1>4. ASSUME NEW i \in 1..n, NEW j \in 1..n, i <= j PROVE f[i] <= f[j]
  <2>1. j - i \in S /\ i + (j - i) = j
    BY <1>3, <1>4
  <2> QED BY <2>1 DEF S
<1> QED BY <1>4

-----------------------------------------------------------------------------
(* The chunks tile the call.                                                *)

\* The call: one host at least (transferAsyncStart refuses none), any lengths, any chunk size that fits.
CallOk ==
    /\ direction \in Directions
    /\ lengths \in Seq(Nat) /\ Len(lengths) # 0
    /\ max_chunk_size \in 1..(SgeLimit - 1)

\* The first chunk after those of a host.
After(h) == IF h = Len(lengths) THEN total_chunks ELSE host_chunk_starts[h + 1]

\* The call is prepared.
Laid ==
    /\ host_chunk_starts \in [Hosts -> Nat] /\ host_local_offsets \in [Hosts -> Nat]
    /\ host_chunk_starts[1] = 0 /\ host_local_offsets[1] = 0 /\ total_chunks \in Nat
    /\ \A h \in Hosts : After(h) = host_chunk_starts[h] + NumChunks(lengths[h])
    /\ \A h \in Hosts : h > 1 => host_local_offsets[h] =
           IF direction = "BROADCAST" THEN 0 ELSE host_local_offsets[h - 1] + lengths[h - 1]

\* A byte of the call, and the chunk it is in.
ByteOf(h, i) == <<host_local_offsets[h] + i, h, i>>
ChunkOf(h, i) == host_chunk_starts[h] + (i \div max_chunk_size)

\* The bytes of the chunks before k, and of chunk k.
Until(k) == UNION {{ByteOf(h, i) : i \in {j \in 0..(lengths[h] - 1) : ChunkOf(h, j) < k}} : h \in Hosts}
Of(k) == UNION {{ByteOf(h, i) : i \in {j \in 0..(lengths[h] - 1) : ChunkOf(h, j) = k}} : h \in Hosts}

\* What has moved are the bytes of the chunks that were posted, no more and no less.
TileInv ==
    /\ CallOk
    /\ IF total_chunks = -1 THEN next_chunk_idx = 0 /\ moved = {}
       ELSE Laid /\ next_chunk_idx \in 0..total_chunks /\ moved = Until(next_chunk_idx)


\* The types of a call, and where the bytes of a host lie in its chunks.
LEMMA CallFacts ==
    ASSUME CallOk
    PROVE  /\ Len(lengths) \in Nat \ {0} /\ max_chunk_size \in Nat \ {0}
           /\ \A h \in Hosts : /\ lengths[h] \in Nat /\ NumChunks(lengths[h]) \in Nat
                               /\ \A i \in 0..(lengths[h] - 1) :
                                     i \div max_chunk_size \in 0..(NumChunks(lengths[h]) - 1)
                               /\ \A j \in 0..(NumChunks(lengths[h]) - 1) :
                                     j * max_chunk_size \in 0..(lengths[h] - 1)
<1>1. Len(lengths) \in Nat \ {0} /\ max_chunk_size \in Nat \ {0}
  BY FieldConstants DEF CallOk
<1>2. \A h \in Hosts : lengths[h] \in Nat
  BY DEF CallOk, Hosts
<1> QED BY <1>1, <1>2, CutFacts

\* The offsets in the local buffer are those of the reference.
LEMMA OffsetsAre ==
    ASSUME CallOk, Laid
    PROVE  \A h \in Hosts : host_local_offsets[h] = First(h)
<1> DEFINE n == Len(lengths)
           S == {k \in Nat : k + 1 <= n => host_local_offsets[k + 1] = First(k + 1)}
<1>0. n \in Nat /\ Hosts = 1..n /\ \A h \in Hosts : lengths[h] \in Nat
  BY CallFacts DEF Hosts
<1>1. CASE direction = "BROADCAST"
  <2>1. \A h \in Hosts : h = 1 \/ h > 1
    BY <1>0
  <2> QED BY <1>1, <2>1 DEF Laid, First
<1>2. CASE direction # "BROADCAST"
  <2>1. Before[1] = 0 /\ \A k \in 1..n : k > 1 => Before[k] = Before[k - 1] + lengths[k - 1]
    <3> DEFINE add == [k \in Nat |-> lengths[k - 1]]
    <3>1. \A k \in 2..n : add[k] = lengths[k - 1] /\ add[k] \in Nat
      BY <1>0
    <3>2. Sums(Before, add)
      BY BeforeIs
    <3> HIDE DEF add
    <3>3. Before[1] = 0 /\ \A k \in 1..n : k > 1 => Before[k] = Before[k - 1] + add[k]
      BY <1>0, <3>1, <3>2, SumsNat
    <3> QED BY <1>0, <3>1, <3>3
  <2>2. 0 \in S
    BY <1>2, <2>1 DEF Laid, First
  <2>3. ASSUME NEW k \in Nat, k \in S PROVE k + 1 \in S
    <3> SUFFICES ASSUME k + 2 <= n PROVE host_local_offsets[k + 2] = First(k + 2)
      OBVIOUS
    <3>1. k + 2 \in 1..n /\ k + 2 > 1 /\ (k + 2) - 1 = k + 1
      BY <1>0
    <3>2. host_local_offsets[k + 1] = Before[k + 1]
      BY <1>0, <1>2, <2>3 DEF First
    <3>3. host_local_offsets[k + 2] = host_local_offsets[k + 1] + lengths[k + 1]
      BY <1>0, <1>2, <3>1 DEF Laid
    <3>4. Before[k + 2] = Before[k + 1] + lengths[k + 1]
      BY <2>1, <3>1
    <3> QED BY <1>2, <3>2, <3>3, <3>4 DEF First
  <2> HIDE DEF S
  <2>4. Nat \subseteq S
    BY <2>2, <2>3, NatSetInduction
  <2>5. ASSUME NEW h \in Hosts PROVE host_local_offsets[h] = First(h)
    <3>1. h - 1 \in S /\ (h - 1) + 1 = h /\ h <= n
      BY <1>0, <2>4
    <3> QED BY <3>1 DEF S
  <2> QED BY <2>5
<1> QED BY <1>1, <1>2

\* The bytes of the call, by host and offset.
LEMMA WantedBytes ==
    ASSUME CallOk, Laid
    PROVE  Wanted = UNION {{ByteOf(h, i) : i \in 0..(lengths[h] - 1)} : h \in Hosts}
<1>1. \A h \in Hosts : First(h) = host_local_offsets[h]
  BY OffsetsAre
<1>2. \A h \in Hosts : {<<First(h) + i, h, i>> : i \in 0..(lengths[h] - 1)} = {ByteOf(h, i) : i \in 0..(lengths[h] - 1)}
  BY <1>1 DEF ByteOf
<1> QED BY <1>2, WantedIs

\* The first chunks of the hosts rise from host to host.
LEMMA StartsClimb ==
    ASSUME CallOk, Laid
    PROVE  \A i, j \in Hosts : i <= j => host_chunk_starts[i] <= host_chunk_starts[j]
<1> DEFINE n == Len(lengths)
<1>0. n \in Nat /\ Hosts = 1..n /\ host_chunk_starts \in [1..n -> Nat]
  BY CallFacts DEF Hosts, Laid
<1>1. ASSUME NEW i \in 1..(n - 1) PROVE host_chunk_starts[i] <= host_chunk_starts[i + 1]
  <2>1. i \in Hosts /\ i + 1 \in Hosts /\ i # n
    BY <1>0
  <2>2. host_chunk_starts[i + 1] = host_chunk_starts[i] + NumChunks(lengths[i]) /\ NumChunks(lengths[i]) \in Nat
    BY <2>1, CallFacts DEF Laid, After
  <2> QED BY <1>0, <2>1, <2>2
<1> HIDE DEF n
<1> QED BY <1>0, <1>1, Climbs

\* Of two hosts, the chunks of the first come first.
LEMMA HostsInOrder ==
    ASSUME CallOk, Laid
    PROVE  /\ \A h \in Hosts : After(h) \in Nat
           /\ \A h, k \in Hosts : h < k => After(h) <= host_chunk_starts[k]
<1>0. Len(lengths) \in Nat /\ Hosts = 1..Len(lengths) /\ host_chunk_starts \in [Hosts -> Nat]
  BY CallFacts DEF Hosts, Laid
<1>1. ASSUME NEW h \in Hosts, NEW k \in Hosts, h < k PROVE After(h) <= host_chunk_starts[k]
  <2>1. h + 1 \in Hosts /\ h + 1 <= k /\ h # Len(lengths)
    BY <1>0, <1>1
  <2>2. host_chunk_starts[h + 1] <= host_chunk_starts[k]
    BY <2>1, StartsClimb
  <2> QED BY <2>1, <2>2 DEF After
<1>2. ASSUME NEW h \in Hosts PROVE After(h) \in Nat
  <2>1. NumChunks(lengths[h]) \in Nat
    BY CallFacts
  <2>2. After(h) = host_chunk_starts[h] + NumChunks(lengths[h])
    BY DEF Laid
  <2>3. host_chunk_starts[h] \in Nat
    BY <1>0
  <2> QED BY <2>1, <2>2, <2>3
<1> QED BY <1>1, <1>2

\* A chunk belongs to one host: getChunk finds it, and each byte of the chunk is in it.
LEMMA Located ==
    ASSUME CallOk, Laid, NEW idx \in 0..(total_chunks - 1)
    PROVE  /\ SearchHost(idx) \in Hosts
           /\ idx - host_chunk_starts[SearchHost(idx)] \in 0..(NumChunks(lengths[SearchHost(idx)]) - 1)
           /\ \A h \in Hosts, i \in Nat : i < lengths[h] /\ ChunkOf(h, i) = idx => h = SearchHost(idx)
<1> DEFINE n == Len(lengths)
           f == SearchHost(idx)
<1>0. n \in Nat \ {0} /\ Hosts = 1..n /\ host_chunk_starts \in [1..n -> Nat] /\ idx \in Nat
      /\ host_chunk_starts[1] = 0 /\ total_chunks \in Nat
  BY CallFacts DEF Hosts, Laid
<1>1. f \in 1..n /\ host_chunk_starts[f] <= idx /\ \A k \in 1..n : k > f => host_chunk_starts[k] > idx
  <2>1. \A i, j \in 1..n : i <= j => host_chunk_starts[i] <= host_chunk_starts[j]
    BY <1>0, StartsClimb
  <2> QED BY <1>0, <2>1, SearchFinds
<1> HIDE DEF f
<1>2. idx < After(f)
  <2>1. CASE f = n
    BY <1>0, <2>1 DEF After
  <2>2. CASE f # n
    <3>1. f + 1 \in 1..n /\ f + 1 > f
      BY <1>0, <1>1, <2>2
    <3> QED BY <1>0, <1>1, <2>2, <3>1 DEF After
  <2> QED BY <2>1, <2>2
<1>3. idx - host_chunk_starts[f] \in 0..(NumChunks(lengths[f]) - 1)
  <2>1. After(f) = host_chunk_starts[f] + NumChunks(lengths[f]) /\ NumChunks(lengths[f]) \in Nat
    BY <1>0, <1>1, CallFacts DEF Laid
  <2> QED BY <1>0, <1>1, <1>2, <2>1
<1>4. ASSUME NEW h \in Hosts, NEW i \in Nat, i < lengths[h], ChunkOf(h, i) = idx PROVE h = f
  <2>1. /\ i \div max_chunk_size \in 0..(NumChunks(lengths[h]) - 1) /\ NumChunks(lengths[h]) \in Nat
        /\ lengths[h] \in Nat
    <3>1. lengths[h] \in Nat /\ i \in 0..(lengths[h] - 1)
      BY <1>4, CallFacts
    <3> QED BY <3>1, CallFacts
  <2>2. host_chunk_starts[h] <= idx /\ idx < After(h)
    <3>1. After(h) = host_chunk_starts[h] + NumChunks(lengths[h]) /\ host_chunk_starts[h] \in Nat
      BY <1>0 DEF Laid
    <3> QED BY <1>4, <2>1, <3>1 DEF ChunkOf
  <2>3. ~ (h < f)
    <3> SUFFICES ASSUME h < f PROVE FALSE
      OBVIOUS
    <3>1. After(h) <= host_chunk_starts[f] /\ After(h) \in Nat
      BY <1>0, <1>1, HostsInOrder
    <3> QED BY <1>0, <1>1, <2>2, <3>1
  <2>4. ~ (h > f)
    <3> SUFFICES ASSUME h > f PROVE FALSE
      OBVIOUS
    <3>1. host_chunk_starts[h] > idx /\ host_chunk_starts[h] \in Nat
      BY <1>0, <1>1
    <3> QED BY <1>0, <2>2, <3>1
  <2> QED BY <1>0, <1>1, <2>3, <2>4
<1> QED BY <1>0, <1>1, <1>3, <1>4 DEF f

\* What the NIC moves for a chunk are the bytes of this chunk, and there are some.
LEMMA MovesAre ==
    ASSUME CallOk, Laid, NEW idx \in 0..(total_chunks - 1)
    PROVE  Moves(Chunk(idx)) = Of(idx) /\ Of(idx) # {}
<1> DEFINE f == SearchHost(idx)
           j == idx - host_chunk_starts[f]
           off == j * max_chunk_size
           len == ChunkLength(lengths[f] - off)
           base == host_local_offsets[f]
<1>1. f \in Hosts /\ j \in 0..(NumChunks(lengths[f]) - 1)
  BY Located
<1>2. \A h \in Hosts, i \in Nat : i < lengths[h] /\ ChunkOf(h, i) = idx => h = f
  BY Located
<1>3. Chunk(idx) = [host |-> f, local |-> base + off, remote |-> off, length |-> len]
  BY DEF Chunk
<1>4. lengths[f] \in Nat /\ off \in 0..(lengths[f] - 1) /\ max_chunk_size \in Nat \ {0}
  BY <1>1, CallFacts
<1>5. base \in Nat /\ host_chunk_starts[f] \in Nat
  BY <1>1 DEF Laid
<1>6. j \in Nat /\ idx = host_chunk_starts[f] + j /\ idx \in Nat
  BY <1>1, <1>5 DEF Laid
<1>7. \A i \in Nat : i \div max_chunk_size = j <=> off <= i /\ i < off + max_chunk_size
  BY <1>4, <1>6, Quotient
<1> HIDE DEF f, j, off, base
<1>8. len \in 1..max_chunk_size /\ len <= lengths[f] - off
      /\ \A i \in Nat : i < lengths[f] /\ i < off + max_chunk_size => i < off + len
  BY <1>4 DEF ChunkLength
<1> HIDE DEF len
<1>9. len % SgeLimit = len /\ len \in Nat
  <2>1. SgeLimit \in Nat \ {0} /\ len \in 0..(SgeLimit - 1)
    BY <1>8, FieldConstants DEF CallOk
  <2> QED BY <2>1, Fits
<1>10. Moves(Chunk(idx)) = {<<(base + off) + i, f, off + i>> : i \in 0..(len - 1)}
  BY <1>3, <1>9 DEF Moves
<1>11. ASSUME NEW i \in 0..(len - 1)
       PROVE  /\ off + i \in 0..(lengths[f] - 1) /\ ChunkOf(f, off + i) = idx
              /\ <<(base + off) + i, f, off + i>> = ByteOf(f, off + i)
  <2>1. off + i \in 0..(lengths[f] - 1) /\ off + i \in Nat /\ off <= off + i /\ off + i < off + max_chunk_size
    BY <1>4, <1>8
  <2>2. (off + i) \div max_chunk_size = j
    BY <1>7, <2>1
  <2>3. ChunkOf(f, off + i) = idx
    BY <1>6, <2>2 DEF ChunkOf
  <2>4. (base + off) + i = base + (off + i)
    BY <1>4, <1>5
  <2> QED BY <2>1, <2>3, <2>4 DEF ByteOf, base
<1>12. ASSUME NEW h \in Hosts, NEW r \in 0..(lengths[h] - 1), ChunkOf(h, r) = idx
       PROVE  \E i \in 0..(len - 1) : ByteOf(h, r) = <<(base + off) + i, f, off + i>>
  <2>1. lengths[h] \in Nat /\ r \in Nat /\ r < lengths[h]
    BY CallFacts
  <2>2. h = f
    BY <1>2, <1>12, <2>1
  <2>3. r \div max_chunk_size \in Nat
    BY <1>4, <2>1, Quotient
  <2>4. r \div max_chunk_size = j
    BY <1>5, <1>6, <1>12, <2>2, <2>3 DEF ChunkOf
  <2>5. off <= r /\ r < off + len
    BY <1>7, <1>8, <2>1, <2>2, <2>4
  <2>6. r - off \in 0..(len - 1) /\ (base + off) + (r - off) = base + r /\ off + (r - off) = r
    BY <1>4, <1>5, <1>8, <2>1, <2>5
  <2>7. ByteOf(h, r) = <<base + r, f, r>>
    BY <2>2 DEF ByteOf, base
  <2> QED BY <2>6, <2>7
<1>13. Of(idx) \subseteq Moves(Chunk(idx))
  BY <1>10, <1>12 DEF Of
<1>14. Moves(Chunk(idx)) \subseteq Of(idx)
  BY <1>1, <1>10, <1>11 DEF Of
<1>15. Of(idx) # {}
  <2>1. 0 \in 0..(len - 1)
    BY <1>8
  <2>2. <<(base + off) + 0, f, off + 0>> \in Moves(Chunk(idx))
    BY <1>10, <2>1
  <2> QED BY <1>14, <2>2
<1> QED BY <1>13, <1>14, <1>15


\* One chunk more, and the call as a whole.
LEMMA UntilFacts ==
    ASSUME CallOk, Laid
    PROVE  /\ Until(0) = {} /\ Until(total_chunks) = Wanted
           /\ \A k \in Nat : Until(k) \subseteq Wanted /\ Until(k + 1) = Until(k) \cup Of(k) /\ Of(k) \cap Until(k) = {}
<1>0. /\ \A h \in Hosts : host_chunk_starts[h] \in Nat /\ lengths[h] \in Nat
      /\ max_chunk_size \in Nat \ {0} /\ total_chunks \in Nat
  BY CallFacts DEF Laid
<1>1. ASSUME NEW h \in Hosts, NEW i \in 0..(lengths[h] - 1)
      PROVE  ChunkOf(h, i) \in Nat /\ ChunkOf(h, i) < total_chunks
  <2>1. i \div max_chunk_size \in 0..(NumChunks(lengths[h]) - 1) /\ NumChunks(lengths[h]) \in Nat
    BY CallFacts
  <2>2. After(h) = host_chunk_starts[h] + NumChunks(lengths[h])
    BY DEF Laid
  <2>3. ChunkOf(h, i) \in Nat /\ ChunkOf(h, i) < After(h) /\ After(h) \in Nat
    BY <1>0, <2>1, <2>2 DEF ChunkOf
  <2>4. After(h) <= total_chunks
    <3> DEFINE n == Len(lengths)
    <3>1. n \in Hosts /\ Hosts = 1..n /\ n \in Nat
      BY CallFacts DEF Hosts
    <3>2. After(n) = total_chunks
      BY DEF After
    <3>3. CASE h = n
      BY <1>0, <3>2, <3>3
    <3>4. CASE h < n
      <4>1. After(h) <= host_chunk_starts[n]
        BY <3>1, <3>4, HostsInOrder
      <4>2. After(n) = host_chunk_starts[n] + NumChunks(lengths[n]) /\ NumChunks(lengths[n]) \in Nat
        BY <3>1, CallFacts DEF Laid
      <4>3. host_chunk_starts[n] \in Nat
        BY <1>0, <3>1
      <4> HIDE DEF n
      <4> QED BY <2>3, <3>2, <4>1, <4>2, <4>3
    <3> QED BY <3>1, <3>3, <3>4
  <2> QED BY <1>0, <2>3, <2>4
<1>2. Wanted = UNION {{ByteOf(h, i) : i \in 0..(lengths[h] - 1)} : h \in Hosts}
  BY WantedBytes
<1>3. Until(0) = {}
  BY <1>1 DEF Until
<1>4. ASSUME NEW k \in Nat PROVE Until(k) \subseteq Wanted
  BY <1>2 DEF Until
<1>5. Wanted \subseteq Until(total_chunks)
  BY <1>1, <1>2 DEF Until
<1>6. ASSUME NEW k \in Nat PROVE Until(k + 1) = Until(k) \cup Of(k)
  <2>1. \A h \in Hosts : \A i \in 0..(lengths[h] - 1) : ChunkOf(h, i) < k + 1 <=> ChunkOf(h, i) < k \/ ChunkOf(h, i) = k
    BY <1>1
  <2> QED BY <2>1 DEF Until, Of
<1>7. ASSUME NEW k \in Nat PROVE Of(k) \cap Until(k) = {}
  <2> SUFFICES ASSUME NEW h \in Hosts, NEW i \in 0..(lengths[h] - 1), ChunkOf(h, i) = k,
                      NEW g \in Hosts, NEW j \in 0..(lengths[g] - 1), ChunkOf(g, j) < k,
                      ByteOf(h, i) = ByteOf(g, j)
               PROVE  FALSE
    BY DEF Of, Until
  <2>1. h = g /\ i = j
    BY DEF ByteOf
  <2> QED BY <1>1, <2>1
<1>8. Until(total_chunks) \subseteq Wanted
  BY <1>0, <1>4
<1> QED BY <1>3, <1>4, <1>5, <1>6, <1>7, <1>8

\* Nothing is prepared and nothing has moved.
LEMMA InitTile == Init => TileInv
<1> SUFFICES ASSUME Init PROVE TileInv
  OBVIOUS
<1>1. PICK n \in 1..MaxHosts : lengths \in [1..n -> 0..MaxLength]
  BY DEF Init
<1>2. n \in Nat \ {0} /\ lengths \in Seq(Nat) /\ Len(lengths) = n
  <2>1. n \in Nat \ {0}
    OBVIOUS
  <2>2. lengths \in [1..n -> Nat]
    BY <1>1
  <2> QED BY <2>1, <2>2
<1> QED BY <1>2 DEF Init, TileInv, CallOk

\* The preparation lays the chunks of the hosts one after the other.
LEMMA PrepareLays ==
    ASSUME CallOk, Prepare
    PROVE  Laid' /\ total_chunks' # -1
<1> DEFINE n == Len(lengths)
           chunks == [k \in Nat |-> NumChunks(lengths[k - 1])]
           bytes == [k \in Nat |-> lengths[k - 1]]
<1>0. /\ host_chunk_starts' = [h \in Hosts |-> ChunksBefore[h]]
      /\ host_local_offsets' = [h \in Hosts |-> LocalBefore[h]]
      /\ total_chunks' = ChunksBefore[n + 1]
      /\ lengths' = lengths /\ direction' = direction /\ max_chunk_size' = max_chunk_size
  BY DEF Prepare, callVars
<1>1. n \in Nat \ {0} /\ Hosts = 1..n /\ \A h \in 1..n : lengths[h] \in Nat /\ NumChunks(lengths[h]) \in Nat
  BY CallFacts DEF Hosts
<1>2. /\ ChunksBefore[1] = 0
      /\ \A k \in 1..(n + 1) : ChunksBefore[k] \in Nat
                               /\ (k > 1 => ChunksBefore[k] = ChunksBefore[k - 1] + NumChunks(lengths[k - 1]))
  <2>1. \A k \in 2..(n + 1) : chunks[k] = NumChunks(lengths[k - 1]) /\ chunks[k] \in Nat
    BY <1>1
  <2>2. Sums(ChunksBefore, chunks)
    BY ChunksBeforeIs
  <2>3. n + 1 \in Nat
    BY <1>1
  <2> HIDE DEF chunks, n
  <2>4. ChunksBefore[1] = 0 /\ \A k \in 1..(n + 1) : ChunksBefore[k] \in Nat
                               /\ (k > 1 => ChunksBefore[k] = ChunksBefore[k - 1] + chunks[k])
    BY <2>1, <2>2, <2>3, SumsNat
  <2>5. \A k \in 1..(n + 1) : k > 1 => k \in 2..(n + 1)
    BY <2>3
  <2> QED BY <2>1, <2>4, <2>5
<1>3. /\ LocalBefore[1] = 0
      /\ \A k \in 1..n : LocalBefore[k] \in Nat
                         /\ (k > 1 => LocalBefore[k] = IF direction = "BROADCAST" THEN 0
                                                       ELSE LocalBefore[k - 1] + lengths[k - 1])
  <2>1. CASE direction = "BROADCAST"
    <3>1. LocalBefore = [k \in Nat |-> 0]
      BY <2>1, LocalBeforeIs
    <3> QED BY <1>1, <2>1, <3>1
  <2>2. CASE direction # "BROADCAST"
    <3>1. \A k \in 2..n : bytes[k] = lengths[k - 1] /\ bytes[k] \in Nat
      BY <1>1
    <3>2. Sums(LocalBefore, bytes) /\ n \in Nat
      BY <1>1, <2>2, LocalBeforeIs
    <3> HIDE DEF bytes, n
    <3>3. LocalBefore[1] = 0 /\ \A k \in 1..n : LocalBefore[k] \in Nat
                                 /\ (k > 1 => LocalBefore[k] = LocalBefore[k - 1] + bytes[k])
      BY <3>1, <3>2, SumsNat
    <3>4. \A k \in 1..n : k > 1 => k \in 2..n
      BY <3>2
    <3> QED BY <2>2, <3>1, <3>3, <3>4
  <2> QED BY <2>1, <2>2
<1>4. Hosts' = Hosts /\ \A h \in Hosts : NumChunks(lengths[h])' = NumChunks(lengths[h])
  BY <1>0 DEF Hosts, NumChunks
<1>5. host_chunk_starts' \in [Hosts -> Nat] /\ host_local_offsets' \in [Hosts -> Nat]
  BY <1>0, <1>1, <1>2, <1>3
<1>6. host_chunk_starts'[1] = 0 /\ host_local_offsets'[1] = 0 /\ total_chunks' \in Nat
  BY <1>0, <1>1, <1>2, <1>3
<1>7. ASSUME NEW h \in Hosts PROVE After(h)' = host_chunk_starts'[h] + NumChunks(lengths[h])
  <2>1. h + 1 \in 1..(n + 1) /\ h + 1 > 1 /\ (h + 1) - 1 = h /\ h \in 1..n
    BY <1>1
  <2>2. ChunksBefore[h + 1] = ChunksBefore[h] + NumChunks(lengths[h])
    BY <1>2, <2>1
  <2>3. After(h)' = ChunksBefore[h + 1]
    <3>1. CASE h = n
      BY <1>0, <3>1 DEF After
    <3>2. CASE h # n
      <4>1. h + 1 \in Hosts
        BY <1>1, <3>2
      <4> QED BY <1>0, <3>2, <4>1 DEF After
    <3> QED BY <3>1, <3>2
  <2> QED BY <1>0, <2>2, <2>3
<1>8. ASSUME NEW h \in Hosts, h > 1
      PROVE  host_local_offsets'[h] = IF direction = "BROADCAST" THEN 0 ELSE host_local_offsets'[h - 1] + lengths[h - 1]
  <2>1. h - 1 \in Hosts
    BY <1>1, <1>8
  <2> QED BY <1>0, <1>1, <1>3, <1>8, <2>1
<1>9. Laid'
  <2>1. \A h \in Hosts : After(h)' = host_chunk_starts'[h] + NumChunks(lengths[h])'
    BY <1>4, <1>7
  <2> QED BY <1>0, <1>4, <1>5, <1>6, <1>8, <2>1 DEF Laid
<1> QED BY <1>6, <1>9

\* What depends on the call and its preparation alone.
LEMMA TileFrame ==
    ASSUME UNCHANGED <<callVars, prepVars>>
    PROVE  /\ CallOk' = CallOk /\ Laid' = Laid
           /\ \A k \in Nat : Until(k)' = Until(k)
<1>1. UNCHANGED <<direction, lengths, max_chunk_size, handle, host_chunk_starts, host_local_offsets, total_chunks>>
  BY DEF callVars, prepVars
<1>2. CallOk' = CallOk
  BY <1>1 DEF CallOk
<1>3. Laid' = Laid
  BY <1>1 DEF Laid, After, Hosts, NumChunks
<1>4. ASSUME NEW k \in Nat PROVE Until(k)' = Until(k)
  BY <1>1 DEF Until, ByteOf, ChunkOf, Hosts
<1> QED BY <1>2, <1>3, <1>4

\* Preparation lays the chunks out, a post moves the bytes of one.
LEMMA StepTile == TileInv /\ [Next]_vars => TileInv'
<1> SUFFICES ASSUME TileInv, [Next]_vars PROVE TileInv'
  OBVIOUS
<1>0. CallOk
  BY DEF TileInv
<1>1. CASE Prepare
  <2>1. /\ next_chunk_idx' = next_chunk_idx /\ moved' = moved /\ total_chunks = -1
        /\ UNCHANGED callVars
    BY <1>1 DEF Prepare
  <2>2. CallOk'
    BY <1>0, <2>1 DEF CallOk, callVars
  <2>3. Laid' /\ total_chunks' # -1
    BY <1>0, <1>1, PrepareLays
  <2>4. next_chunk_idx' = 0 /\ moved' = {}
    BY <2>1 DEF TileInv
  <2>5. Until(0)' = {}
    <3>1. /\ Hosts' = Hosts /\ lengths' = lengths /\ max_chunk_size' = max_chunk_size
          /\ max_chunk_size \in Nat \ {0} /\ \A h \in Hosts : lengths[h] \in Nat
      BY <1>0, <2>1, CallFacts DEF Hosts, callVars
    <3>2. \A h \in Hosts : host_chunk_starts'[h] \in Nat
      BY <2>3, <3>1 DEF Laid
    <3>3. ASSUME NEW h \in Hosts, NEW j \in 0..(lengths[h] - 1)
          PROVE  ~ host_chunk_starts'[h] + (j \div max_chunk_size) < 0
      <4>1. j \in Nat
        BY <3>1
      <4>2. j \div max_chunk_size \in Nat
        BY <3>1, <4>1, Quotient
      <4> QED BY <3>2, <4>2
    <3>4. \A h \in Hosts : {j \in 0..(lengths[h] - 1) : host_chunk_starts'[h] + (j \div max_chunk_size) < 0} = {}
      BY <3>3
    <3> QED BY <3>1, <3>4 DEF Until, ChunkOf
  <2>6. 0 \in 0..total_chunks'
    BY <2>3 DEF Laid
  <2>7. Until(next_chunk_idx)' = {}
    BY <2>4, <2>5 DEF Until
  <2> QED BY <2>2, <2>3, <2>4, <2>6, <2>7 DEF TileInv
<1>2. ASSUME NEW nic \in Nics, NEW qp \in 0..(NumQps - 1), Post(nic, qp)
      PROVE  TileInv'
  <2>1. /\ next_chunk_idx < total_chunks /\ moved' = moved \cup Moves(Chunk(next_chunk_idx))
        /\ next_chunk_idx' = next_chunk_idx + 1 /\ UNCHANGED <<callVars, prepVars>>
    BY <1>2 DEF Post
  <2>2. total_chunks # -1
    <3> SUFFICES ASSUME total_chunks = -1 PROVE FALSE
      OBVIOUS
    <3>1. next_chunk_idx = 0
      BY DEF TileInv
    <3> QED BY <2>1, <3>1
  <2>3. Laid /\ next_chunk_idx \in 0..total_chunks /\ moved = Until(next_chunk_idx) /\ total_chunks \in Nat
    BY <2>2 DEF TileInv, Laid
  <2>4. next_chunk_idx \in 0..(total_chunks - 1) /\ next_chunk_idx \in Nat /\ next_chunk_idx + 1 \in 0..total_chunks
    BY <2>1, <2>3
  <2>5. Moves(Chunk(next_chunk_idx)) = Of(next_chunk_idx)
    BY <1>0, <2>3, <2>4, MovesAre
  <2>6. moved' = Until(next_chunk_idx + 1)
    BY <1>0, <2>1, <2>3, <2>4, <2>5, UntilFacts
  <2>7. PICK k \in Nat : k = next_chunk_idx + 1
    BY <2>4
  <2>8. Until(k)' = Until(k) /\ next_chunk_idx' = k
    BY <2>1, <2>7, TileFrame
  <2>9. Until(next_chunk_idx)' = Until(k)
    BY <2>8 DEF Until
  <2>10. CallOk' /\ Laid' /\ total_chunks' = total_chunks
    BY <1>0, <2>1, <2>3, TileFrame DEF prepVars
  <2> QED BY <2>2, <2>4, <2>6, <2>7, <2>8, <2>9, <2>10 DEF TileInv
<1>3. CASE UNCHANGED vars
  <2>1. UNCHANGED <<callVars, prepVars>> /\ next_chunk_idx' = next_chunk_idx /\ moved' = moved
        /\ total_chunks' = total_chunks
    BY <1>3 DEF vars, callVars, prepVars
  <2>2. Until(next_chunk_idx)' = Until(next_chunk_idx)
    BY <2>1 DEF Until, ByteOf, ChunkOf, Hosts, callVars, prepVars
  <2> QED BY <2>1, <2>2, TileFrame DEF TileInv
<1> QED BY <1>1, <1>2, <1>3 DEF Next

\* At every moment the bytes that have moved are those of the chunks posted so far.
THEOREM TilesAlways == Spec => []TileInv
BY InitTile, StepTile, PTL DEF Spec

\* A transfer moves the bytes of its call, each between the two places the reference
\* gives it, and all of them when the last chunk is posted: for any number of hosts,
\* whatever their lengths, zero included, and any chunk size.
THEOREM AlwaysComplete == Spec => []TransferComplete
<1>1. TileInv => TransferComplete
  <2> SUFFICES ASSUME TileInv PROVE TransferComplete
    OBVIOUS
  <2>1. CASE total_chunks = -1
    <3>1. next_chunk_idx = 0 /\ moved = {}
      BY <2>1 DEF TileInv
    <3> QED BY <2>1, <3>1 DEF TransferComplete
  <2>2. CASE total_chunks # -1
    <3>1. CallOk /\ Laid /\ next_chunk_idx \in 0..total_chunks /\ moved = Until(next_chunk_idx) /\ total_chunks \in Nat
      BY <2>2 DEF TileInv, Laid
    <3>2. next_chunk_idx \in Nat
      BY <3>1
    <3> QED BY <3>1, <3>2, UntilFacts DEF TransferComplete
  <2> QED BY <2>1, <2>2
<1> QED BY <1>1, TilesAlways, PTL

\* No chunk is empty, and none moves a byte that another one has moved, at the borders
\* between hosts and next to hosts without a byte as everywhere else.
THEOREM AlwaysDisjoint == Spec => ChunksDisjoint
<1>1. TileInv /\ [Next]_vars =>
         (next_chunk_idx' # next_chunk_idx =>
            Moves(Chunk(next_chunk_idx)) # {} /\ Moves(Chunk(next_chunk_idx)) \cap moved = {})
  <2> SUFFICES ASSUME TileInv, [Next]_vars, next_chunk_idx' # next_chunk_idx
               PROVE  Moves(Chunk(next_chunk_idx)) # {} /\ Moves(Chunk(next_chunk_idx)) \cap moved = {}
    OBVIOUS
  <2>1. next_chunk_idx < total_chunks
    <3>1. ~ Prepare /\ ~ UNCHANGED vars
      BY DEF Prepare, vars
    <3>2. PICK nic \in Nics, qp \in 0..(NumQps - 1) : Post(nic, qp)
      BY <3>1 DEF Next
    <3> QED BY <3>2 DEF Post
  <2>2. total_chunks # -1
    <3> SUFFICES ASSUME total_chunks = -1 PROVE FALSE
      OBVIOUS
    <3>1. next_chunk_idx = 0
      BY DEF TileInv
    <3> QED BY <2>1, <3>1
  <2>3. CallOk /\ Laid /\ next_chunk_idx \in 0..total_chunks /\ moved = Until(next_chunk_idx) /\ total_chunks \in Nat
    BY <2>2 DEF TileInv, Laid
  <2>4. next_chunk_idx \in 0..(total_chunks - 1) /\ next_chunk_idx \in Nat
    BY <2>1, <2>3
  <2> QED BY <2>3, <2>4, MovesAre, UntilFacts
<1>2. TileInv /\ [Next]_vars => [next_chunk_idx' # next_chunk_idx =>
         LET new == Moves(Chunk(next_chunk_idx))
         IN  new # {} /\ new \cap moved = {}]_vars
  BY <1>1
<1> QED BY <1>2, InitTile, StepTile, PTL DEF Spec, ChunksDisjoint
====
