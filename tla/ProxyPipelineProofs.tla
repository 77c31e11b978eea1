-------------------------- MODULE ProxyPipelineProofs --------------------------
(***************************************************************************)
(* Proofs about ProxyPipeline, for any number of transfers, chunks, NICs,  *)
(* GPUs and faults, and any size of rings and buffers: that its variables  *)
(* keep their types, that a chunk is in one place at most, that the loads  *)
(* of NICs and pipelines are what NICs and pipelines hold, that what is    *)
(* missing of a buffer is what its pipelines hold, and that no two chunks  *)
(* share memory of a buffer.                                               *)
(***************************************************************************)
EXTENDS ProxyPipeline, NaturalsInduction, WellFoundedInduction,
        SequenceTheorems, FiniteSetTheorems, TLAPS

-----------------------------------------------------------------------------
(* Naturals and recursive functions: a recursive definition is a CHOOSE,   *)
(* about which nothing is known until it is shown that there is such a     *)
(* function.                                                               *)

\* A set of naturals that is not empty has a least member.
LEMMA LeastNatural ==
    ASSUME NEW T, T \subseteq Nat, T # {}
    PROVE  \E x \in T : \A y \in T : x <= y
<1> DEFINE R == {ss \in Nat \X Nat : ss[1] < ss[2]}
<1>1. IsWellFoundedOn(R, Nat)
  BY NatLessThanWellFounded DEF OpToRel
<1> HIDE DEF R
<1>2. \E x \in T : \A y \in T : ~ (<<y, x>> \in R)
  BY <1>1, WFMin
<1>3. PICK x \in T : \A y \in T : ~ (<<y, x>> \in R)
  BY <1>2
<1>4. \A y \in T : ~ (y < x)
  BY <1>3 DEF R
<1> QED BY <1>4

\* Induction over the naturals, for a set instead of a predicate.
LEMMA NatSetInduction ==
    ASSUME NEW S, 0 \in S, \A n \in Nat : n \in S => n + 1 \in S
    PROVE  Nat \subseteq S
<1>1. SUFFICES ASSUME Nat \ S # {} PROVE FALSE
  OBVIOUS
<1>2. PICK x \in Nat \ S : \A y \in Nat \ S : x <= y
  BY <1>1, LeastNatural
<1>3. x \in Nat /\ x - 1 \in Nat
  BY <1>2
<1>4. x - 1 \in S
  BY <1>2, <1>3
<1>5. (x - 1) + 1 = x
  BY <1>3
<1> QED BY <1>2, <1>3, <1>4, <1>5

\* What f makes of r: at an end its value there, and before it what f makes of the
\* next argument, with an addend if f is a sum or a sequence.
Result(f, r, ends, next, add, kind) ==
    IF r \in DOMAIN ends THEN ends[r]
    ELSE IF kind = "sum" THEN f[next[r]] + add[r]
    ELSE IF kind = "concat" THEN f[next[r]] \o add[r] ELSE f[next[r]]

\* f is defined on T by recursion towards the arguments that end it.
Recurses(f, T, ends, next, add, kind) == f = [r \in T |-> Result(f, r, ends, next, add, kind)]

\* A measure falls towards the ends.
Falls(m, T, ends, next) ==
    /\ m \in [T -> Nat]
    /\ \A r \in T : r \notin DOMAIN ends => next[r] \in T /\ m[next[r]] < m[r]

\* Then there is such an f.
LEMMA Recursion ==
    ASSUME NEW T, NEW ends, NEW next, NEW add, NEW kind, NEW m, Falls(m, T, ends, next)
    PROVE  \E f : Recurses(f, T, ends, next, add, kind)
<1> USE DEF Falls
<1> DEFINE Good(f, k) == \A r \in T : m[r] < k => f[r] = Result(f, r, ends, next, add, kind)
           S == {k \in Nat : \E f : Good(f, k)}
<1>1. 0 \in S
  <2>1. Good(<<>>, 0)
    OBVIOUS
  <2> QED BY <2>1
<1>2. ASSUME NEW k \in Nat, k \in S PROVE k + 1 \in S
  <2>1. PICK g : Good(g, k)
    BY <1>2
  <2> DEFINE f == [r \in T |-> Result(g, r, ends, next, add, kind)]
  <2>2. ASSUME NEW r \in T, m[r] < k + 1 PROVE f[r] = Result(f, r, ends, next, add, kind)
    <3>1. CASE r \in DOMAIN ends
      BY <3>1 DEF Result
    <3>2. CASE r \notin DOMAIN ends
      <4>1. next[r] \in T /\ m[next[r]] < k
        BY <2>2, <3>2
      <4>2. f[next[r]] = g[next[r]]
        BY <2>1, <4>1
      <4>3. f[r] = Result(g, r, ends, next, add, kind)
        OBVIOUS
      <4> HIDE DEF f
      <4> QED BY <4>2, <4>3, Zenon DEF Result
    <3> QED BY <3>1, <3>2
  <2>3. Good(f, k + 1)
    BY <2>2
  <2> HIDE DEF f, Good
  <2> QED BY <2>3
<1> HIDE DEF S
<1>3. Nat \subseteq S
  BY <1>1, <1>2, NatSetInduction
<1>4. \A k \in Nat : \E f : Good(f, k)
  BY <1>3 DEF S
<1>5. ASSUME NEW g, NEW h, NEW k \in Nat, NEW j \in Nat, Good(g, k), Good(h, j), NEW r \in T, m[r] < k, m[r] < j
      PROVE  g[r] = h[r]
  <2> SUFFICES ASSUME g[r] # h[r] PROVE FALSE
    OBVIOUS
  <2> DEFINE D == {m[x] : x \in {y \in T : m[y] < k /\ m[y] < j /\ g[y] # h[y]}}
  <2>1. D \subseteq Nat /\ m[r] \in D
    BY <1>5
  <2>2. PICK d \in D : \A e \in D : d <= e
    BY <2>1, LeastNatural
  <2>3. PICK x \in T : d = m[x] /\ m[x] < k /\ m[x] < j /\ g[x] # h[x]
    BY <2>2
  <2>4. g[x] = Result(g, x, ends, next, add, kind) /\ h[x] = Result(h, x, ends, next, add, kind)
    BY <1>5, <2>3
  <2>5. x \notin DOMAIN ends
    BY <2>3, <2>4 DEF Result
  <2>6. next[x] \in T /\ m[next[x]] < m[x]
    BY <2>5
  <2>7. g[next[x]] # h[next[x]]
    BY <2>3, <2>4, Zenon DEF Result
  <2>8. m[next[x]] \in D
    BY <1>5, <2>3, <2>6, <2>7
  <2> QED BY <2>1, <2>2, <2>3, <2>6, <2>8
<1> DEFINE G(k) == CHOOSE f : Good(f, k)
           f == [r \in T |-> G(m[r] + 1)[r]]
<1>6. \A k \in Nat : Good(G(k), k)
  <2> HIDE DEF Good
  <2> QED BY <1>4
<1>7. ASSUME NEW r \in T PROVE f[r] = Result(f, r, ends, next, add, kind)
  <2> DEFINE g == G(m[r] + 1)
  <2>0. m[r] \in Nat /\ m[r] + 1 \in Nat
    OBVIOUS
  <2>1. Good(g, m[r] + 1)
    BY <1>6, <2>0
  <2> HIDE DEF G
  <2>2. f[r] = g[r]
    OBVIOUS
  <2>3. g[r] = Result(g, r, ends, next, add, kind)
    BY <2>1, <2>0
  <2>4. CASE r \in DOMAIN ends
    BY <2>2, <2>3, <2>4 DEF Result
  <2>5. CASE r \notin DOMAIN ends
    <3>1. next[r] \in T /\ m[next[r]] \in Nat /\ m[next[r]] < m[r]
      BY <2>5
    <3>2. f[next[r]] = G(m[next[r]] + 1)[next[r]] /\ Good(G(m[next[r]] + 1), m[next[r]] + 1)
      BY <1>6, <3>1
    <3> DEFINE h == G(m[next[r]] + 1)
    <3> HIDE DEF h, g, f, Good
    <3>3. Good(h, m[next[r]] + 1) /\ f[next[r]] = h[next[r]]
      BY <3>2 DEF h
    <3>4. m[next[r]] < m[r] + 1 /\ m[next[r]] < m[next[r]] + 1 /\ m[next[r]] + 1 \in Nat
      BY <2>0, <3>1
    <3>5. g[next[r]] = h[next[r]]
      BY <1>5, <2>0, <2>1, <3>1, <3>3, <3>4
    <3> QED BY <2>2, <2>3, <3>3, <3>5, Zenon DEF Result
  <2> QED BY <2>4, <2>5
<1> HIDE DEF f
<1>8. f = [r \in T |-> f[r]]
  BY DEF f
<1>9. Recurses(f, T, ends, next, add, kind)
  BY <1>7, <1>8 DEF Recurses
<1> QED BY <1>9

-----------------------------------------------------------------------------
(* Sequences.                                                               *)

\* Sequences of a set laid end to end are a sequence of the set.
LEMMA FlattenTyped ==
    ASSUME NEW T, NEW seqs \in Seq(Seq(T))
    PROVE  FlattenSeq(seqs) \in Seq(T)
<1> DEFINE n == Len(seqs)
<1>0. n \in Nat /\ \A i \in 1..n : seqs[i] \in Seq(T)
  OBVIOUS
<1>1. CASE n = 0
  <2>1. seqs = <<>>
    BY <1>1
  <2> QED BY <1>1, <2>1 DEF FlattenSeq
<1>2. CASE n # 0
  <2> DEFINE ends == [i \in {1} |-> seqs[1]]
             next == [i \in 1..n |-> i - 1]
             m == [i \in 1..n |-> i]
             Is(f) == f = [i \in 1..n |-> IF i = 1 THEN seqs[i] ELSE f[i - 1] \o seqs[i]]
  <2>1. m \in [1..n -> Nat]
    BY <1>0
  <2>2. \A i \in 1..n : i \notin DOMAIN ends => next[i] \in 1..n /\ m[next[i]] < m[i]
    BY <1>0
  <2>3. Falls(m, 1..n, ends, next)
    BY <2>1, <2>2 DEF Falls
  <2>4. /\ \A i \in 1..n : (i \in DOMAIN ends <=> i = 1) /\ next[i] = i - 1
        /\ ends[1] = seqs[1]
    OBVIOUS
  <2> HIDE DEF ends, next, m
  <2>5. PICK f : Recurses(f, 1..n, ends, next, seqs, "concat")
    BY <2>3, Recursion
  <2>6. f = [i \in 1..n |-> Result(f, i, ends, next, seqs, "concat")]
    BY <2>5, Zenon DEF Recurses
  <2>7. \A i \in 1..n : Result(f, i, ends, next, seqs, "concat") = IF i = 1 THEN seqs[i] ELSE f[i - 1] \o seqs[i]
    BY <2>4 DEF Result
  <2>8. f = [i \in 1..n |-> IF i = 1 THEN seqs[i] ELSE f[i - 1] \o seqs[i]]
    BY <2>6, <2>7
  <2>9. \E g : Is(g)
    BY <2>8
  <2>10. FlattenSeq(seqs) = (CHOOSE g : Is(g))[n]
    BY <1>2, Zenon DEF FlattenSeq
  <2> HIDE DEF Is
  <2>11. PICK g : Is(g) /\ FlattenSeq(seqs) = g[n]
    BY <2>9, <2>10, Zenon
  <2> DEFINE S == {k \in Nat : k \in 1..n => g[k] \in Seq(T)}
  <2>12. \A i \in 1..n : g[i] = IF i = 1 THEN seqs[i] ELSE g[i - 1] \o seqs[i]
    BY <2>11 DEF Is
  <2>13. 0 \in S
    OBVIOUS
  <2>14. ASSUME NEW k \in Nat, k \in S PROVE k + 1 \in S
    <3> SUFFICES ASSUME k + 1 \in 1..n PROVE g[k + 1] \in Seq(T)
      OBVIOUS
    <3>1. CASE k = 0
      BY <1>0, <2>12, <3>1
    <3>2. CASE k # 0
      <4>1. k \in 1..n /\ (k + 1) - 1 = k /\ k + 1 # 1
        BY <3>2, <1>0
      <4>2. g[k] \in Seq(T) /\ seqs[k + 1] \in Seq(T) /\ g[k + 1] = g[k] \o seqs[k + 1]
        BY <1>0, <2>12, <2>14, <4>1
      <4> QED BY <4>2
    <3> QED BY <3>1, <3>2
  <2> HIDE DEF S
  <2>15. Nat \subseteq S
    BY <2>13, <2>14, NatSetInduction
  <2>16. n \in 1..n
    BY <1>0, <1>2
  <2> QED BY <1>0, <2>11, <2>15, <2>16 DEF S
<1> QED BY <1>1, <1>2

\* What Only keeps: the elements that are in S.
LEMMA OnlyKeeps ==
    ASSUME NEW T, NEW s \in Seq(T), NEW S
    PROVE  Only(s, S) \in Seq(T) /\ ToSet(Only(s, S)) = ToSet(s) \cap S
<1> DEFINE n == Len(s)
           add == [i \in 0..n |-> IF s[i] \in S THEN <<s[i]>> ELSE <<>>]
           ends == [i \in {0} |-> <<>>]
           next == [i \in 0..n |-> i - 1]
           m == [i \in 0..n |-> i]
           Is(f) == f = [i \in 0..n |->
                           IF i = 0 THEN <<>> ELSE f[i - 1] \o (IF s[i] \in S THEN <<s[i]>> ELSE <<>>)]
<1>0. n \in Nat /\ \A i \in 1..n : s[i] \in T
  OBVIOUS
<1>1. m \in [0..n -> Nat]
  BY <1>0
<1>2. \A i \in 0..n : i \notin DOMAIN ends => next[i] \in 0..n /\ m[next[i]] < m[i]
  BY <1>0
<1>3. Falls(m, 0..n, ends, next)
  BY <1>1, <1>2 DEF Falls
<1>4. /\ \A i \in 0..n : (i \in DOMAIN ends <=> i = 0) /\ next[i] = i - 1
      /\ ends[0] = <<>>
      /\ \A i \in 0..n : add[i] = IF s[i] \in S THEN <<s[i]>> ELSE <<>>
  OBVIOUS
<1> HIDE DEF ends, next, m, add
<1>5. PICK f : Recurses(f, 0..n, ends, next, add, "concat")
  BY <1>3, Recursion
<1>6. f = [i \in 0..n |-> Result(f, i, ends, next, add, "concat")]
  BY <1>5, Zenon DEF Recurses
<1>7. \A i \in 0..n : Result(f, i, ends, next, add, "concat")
                        = IF i = 0 THEN <<>> ELSE f[i - 1] \o (IF s[i] \in S THEN <<s[i]>> ELSE <<>>)
  BY <1>4 DEF Result
<1>8. f = [i \in 0..n |-> IF i = 0 THEN <<>> ELSE f[i - 1] \o (IF s[i] \in S THEN <<s[i]>> ELSE <<>>)]
  BY <1>6, <1>7
<1>9. \E g : Is(g)
  BY <1>8
<1>10. Only(s, S) = (CHOOSE g : Is(g))[n]
  BY Zenon DEF Only
<1> HIDE DEF Is
<1>11. PICK g : Is(g) /\ Only(s, S) = g[n]
  BY <1>9, <1>10, Zenon
<1>12. \A i \in 0..n : g[i] = IF i = 0 THEN <<>> ELSE g[i - 1] \o (IF s[i] \in S THEN <<s[i]>> ELSE <<>>)
  BY <1>11 DEF Is
<1> DEFINE Kept(k) == g[k] \in Seq(T) /\ ToSet(g[k]) = {s[i] : i \in 1..k} \cap S
           K == {k \in Nat : k \in 0..n => Kept(k)}
<1>13. 0 \in K
  <2>0. 0 \in 0..n /\ 0 \in Nat
    BY <1>0
  <2>1. g[0] = IF 0 = 0 THEN <<>> ELSE g[0 - 1] \o (IF s[0] \in S THEN <<s[0]>> ELSE <<>>)
    BY <1>12, <2>0, Zenon
  <2>2. g[0] = <<>>
    BY <2>1
  <2>3. ToSet(g[0]) = {} /\ g[0] \in Seq(T) /\ {s[i] : i \in 1..0} = {}
    BY <2>2 DEF ToSet
  <2>4. Kept(0)
    BY <2>3
  <2> HIDE DEF Kept
  <2> QED BY <2>0, <2>4
<1>14. ASSUME NEW k \in Nat, k \in K PROVE k + 1 \in K
  <2> SUFFICES ASSUME k + 1 \in 0..n PROVE Kept(k + 1)
    OBVIOUS
  <2>1. k \in 0..n /\ (k + 1) - 1 = k /\ k + 1 # 0 /\ k + 1 \in 1..n
    BY <1>0
  <2>2. g[k] \in Seq(T) /\ ToSet(g[k]) = {s[i] : i \in 1..k} \cap S /\ s[k + 1] \in T
    BY <1>0, <1>14, <2>1
  <2>3. {s[i] : i \in 1..(k + 1)} = {s[i] : i \in 1..k} \cup {s[k + 1]}
    <3>1. \A i : i \in 1..(k + 1) <=> i \in 1..k \/ i = k + 1
      BY <2>1
    <3> QED BY <3>1
  <2>4. CASE s[k + 1] \in S
    <3>1. g[k + 1] = g[k] \o <<s[k + 1]>>
      BY <1>12, <2>1, <2>4
    <3>2. g[k + 1] \in Seq(T) /\ ToSet(g[k + 1]) = ToSet(g[k]) \cup {s[k + 1]}
      <4>1. /\ Len(g[k + 1]) = Len(g[k]) + 1 /\ g[k + 1][Len(g[k]) + 1] = s[k + 1]
            /\ \A i \in 1..Len(g[k]) : g[k + 1][i] = g[k][i]
            /\ Len(g[k]) \in Nat /\ DOMAIN g[k] = 1..Len(g[k])
            /\ DOMAIN g[k + 1] = 1..(Len(g[k]) + 1) /\ g[k + 1] \in Seq(T)
        BY <2>2, <3>1
      <4>2. \A i : i \in 1..(Len(g[k]) + 1) <=> i \in 1..Len(g[k]) \/ i = Len(g[k]) + 1
        BY <4>1
      <4> QED BY <4>1, <4>2 DEF ToSet
    <3> QED BY <2>2, <2>3, <2>4, <3>2
  <2>5. CASE s[k + 1] \notin S
    <3>1. g[k + 1] = g[k] \o <<>>
      BY <1>12, <2>1, <2>5
    <3>2. g[k + 1] = g[k]
      BY <2>2, <3>1
    <3> QED BY <2>2, <2>3, <2>5, <3>2
  <2> QED BY <2>4, <2>5
<1> HIDE DEF K
<1>15. Nat \subseteq K
  BY <1>13, <1>14, NatSetInduction
<1>16. Kept(n)
  <2>1. n \in K /\ n \in 0..n
    BY <1>0, <1>15
  <2> HIDE DEF Kept
  <2> QED BY <2>1 DEF K
<1>17. {s[i] : i \in 1..n} = ToSet(s)
  BY DEF ToSet
<1> QED BY <1>11, <1>16, <1>17

\* A finite set of numbers has its ascending sequence.
LEMMA AscendingTyped ==
    ASSUME NEW S, IsFiniteSet(S), S \subseteq Nat
    PROVE  Cardinality(S) \in Nat /\ Ascending(S) \in [1..Cardinality(S) -> S]
<1> DEFINE Sorted(s, k) == \A i, j \in 1..k : i < j => s[i] < s[j]
           K == {k \in Nat : \A A \in SUBSET S : Cardinality(A) = k => \E s \in [1..k -> A] : Sorted(s, k)}
<1>1. 0 \in K
  <2>1. ASSUME NEW A \in SUBSET S, Cardinality(A) = 0 PROVE \E s \in [1..0 -> A] : Sorted(s, 0)
    <3>1. <<>> \in [1..0 -> A] /\ Sorted(<<>>, 0)
      OBVIOUS
    <3> QED BY <3>1
  <2> HIDE DEF Sorted
  <2> QED BY <2>1
<1>2. ASSUME NEW k \in Nat, k \in K PROVE k + 1 \in K
  <2> SUFFICES ASSUME NEW A \in SUBSET S, Cardinality(A) = k + 1 PROVE \E s \in [1..(k + 1) -> A] : Sorted(s, k + 1)
    OBVIOUS
  <2>1. IsFiniteSet(A) /\ A # {} /\ A \subseteq Nat
    <3>1. IsFiniteSet(A)
      BY FS_Subset
    <3>2. A # {}
      BY FS_EmptySet
    <3> QED BY <3>1, <3>2
  <2>2. PICK x \in A : \A y \in A : x <= y
    BY <2>1, LeastNatural
  <2>3. Cardinality(A \ {x}) = k
    <3>1. Cardinality(A \ {x}) = Cardinality(A) - 1
      BY <2>1, FS_RemoveElement
    <3> QED BY <3>1
  <2>4. PICK s \in [1..k -> A \ {x}] : Sorted(s, k)
    BY <1>2, <2>3
  <2> DEFINE t == [i \in 1..(k + 1) |-> IF i = 1 THEN x ELSE s[i - 1]]
  <2>5. t \in [1..(k + 1) -> A]
    <3>1. \A i \in 1..(k + 1) : i # 1 => i - 1 \in 1..k
      OBVIOUS
    <3> QED BY <2>4, <3>1
  <2>6. ASSUME NEW i \in 1..(k + 1), NEW j \in 1..(k + 1), i < j PROVE t[i] < t[j]
    <3>1. j # 1 /\ j - 1 \in 1..k /\ t[j] = s[j - 1] /\ s[j - 1] \in A \ {x}
      BY <2>4, <2>6
    <3>2. CASE i = 1
      <4>1. t[i] = x /\ x \in Nat /\ s[j - 1] \in Nat /\ x <= s[j - 1] /\ s[j - 1] # x
        BY <2>1, <2>2, <3>1, <3>2
      <4> QED BY <3>1, <4>1
    <3>3. CASE i # 1
      <4>1. i - 1 \in 1..k /\ i - 1 < j - 1 /\ t[i] = s[i - 1]
        BY <2>6, <3>3
      <4> QED BY <2>4, <3>1, <4>1
    <3> QED BY <3>2, <3>3
  <2> HIDE DEF t
  <2> QED BY <2>5, <2>6
<1> HIDE DEF K
<1>3. Nat \subseteq K
  BY <1>1, <1>2, NatSetInduction
<1> DEFINE n == Cardinality(S)
<1>4. n \in Nat
  BY FS_CardinalityType
<1>5. \E s \in [1..n -> S] : Sorted(s, n)
  BY <1>3, <1>4 DEF K
<1>6. \E s \in [1..n -> S] : \A i, j \in DOMAIN s : i < j => s[i] < s[j]
  <2>1. PICK s \in [1..n -> S] : Sorted(s, n)
    BY <1>5
  <2>2. DOMAIN s = 1..n
    BY <2>1
  <2> QED BY <2>1, <2>2
<1> QED BY <1>4, <1>6 DEF Ascending

-----------------------------------------------------------------------------
(* Sums over finite sets.                                                   *)

\* g is the recursive function of MapThenFoldSet for it.
SumRec(g, f, S) ==
    g = [s \in SUBSET S |-> IF s = {} THEN 0
                            ELSE LET x == CHOOSE x \in s : TRUE IN f[x] + g[s \ {x}]]

\* There is one.
LEMMA SumRecExists ==
    ASSUME NEW f, NEW S, IsFiniteSet(S), \A x \in S : f[x] \in Nat
    PROVE  \E g : SumRec(g, f, S)
<1> DEFINE pick(s) == CHOOSE x \in s : TRUE
           ends == [s \in {{}} |-> 0]
           next == [s \in SUBSET S |-> s \ {pick(s)}]
           add == [s \in SUBSET S |-> f[pick(s)]]
           m == [s \in SUBSET S |-> Cardinality(s)]
<1>1. m \in [SUBSET S -> Nat]
  <2>1. \A s \in SUBSET S : Cardinality(s) \in Nat
    BY FS_Subset, FS_CardinalityType
  <2> QED BY <2>1
<1>2. ASSUME NEW s \in SUBSET S, s \notin DOMAIN ends PROVE next[s] \in SUBSET S /\ m[next[s]] < m[s]
  <2>1. s # {}
    BY <1>2
  <2>2. pick(s) \in s
    BY <2>1
  <2>3. next[s] = s \ {pick(s)} /\ next[s] \in SUBSET S
    OBVIOUS
  <2>4. IsFiniteSet(s)
    BY FS_Subset
  <2> HIDE DEF pick
  <2>5. Cardinality(s \ {pick(s)}) = Cardinality(s) - 1 /\ Cardinality(s) \in Nat
    BY <2>2, <2>4, FS_RemoveElement, FS_CardinalityType
  <2> QED BY <2>3, <2>5
<1>3. Falls(m, SUBSET S, ends, next)
  BY <1>1, <1>2 DEF Falls
<1>4. /\ \A s \in SUBSET S : (s \in DOMAIN ends <=> s = {}) /\ next[s] = s \ {pick(s)} /\ add[s] = f[pick(s)]
      /\ ends[{}] = 0
  OBVIOUS
<1> HIDE DEF ends, next, m, add
<1>5. PICK g : Recurses(g, SUBSET S, ends, next, add, "sum")
  BY <1>3, Recursion
<1>6. g = [s \in SUBSET S |-> Result(g, s, ends, next, add, "sum")]
  BY <1>5, Zenon DEF Recurses
<1> DEFINE T == {s \in SUBSET S : g[s] \in Nat}
<1>7. \A s \in SUBSET S : g[s] = IF s = {} THEN 0 ELSE g[s \ {pick(s)}] + f[pick(s)]
  <2>1. \A s \in SUBSET S : g[s] = Result(g, s, ends, next, add, "sum")
    BY <1>6
  <2> HIDE DEF pick
  <2> QED BY <1>4, <2>1 DEF Result
<1>8. SUBSET S \subseteq T
  <2> DEFINE K == {k \in Nat : \A s \in SUBSET S : Cardinality(s) = k => g[s] \in Nat}
  <2>1. 0 \in K
    <3>1. ASSUME NEW s \in SUBSET S, Cardinality(s) = 0 PROVE g[s] \in Nat
      <4>1. s = {}
        BY <3>1, FS_Subset, FS_EmptySet
      <4> QED BY <1>7, <4>1
    <3> QED BY <3>1
  <2>2. ASSUME NEW k \in Nat, k \in K PROVE k + 1 \in K
    <3> SUFFICES ASSUME NEW s \in SUBSET S, Cardinality(s) = k + 1 PROVE g[s] \in Nat
      OBVIOUS
    <3>1. IsFiniteSet(s) /\ s # {}
      BY FS_Subset, FS_EmptySet
    <3>2. pick(s) \in s
      BY <3>1
    <3> HIDE DEF pick
    <3>3. Cardinality(s \ {pick(s)}) = k
      <4>1. Cardinality(s \ {pick(s)}) = Cardinality(s) - 1
        BY <3>1, <3>2, FS_RemoveElement
      <4> QED BY <4>1
    <3>4. g[s \ {pick(s)}] \in Nat /\ f[pick(s)] \in Nat
      BY <2>2, <3>2, <3>3
    <3>5. g[s] = g[s \ {pick(s)}] + f[pick(s)]
      BY <1>7, <3>1, Zenon
    <3> QED BY <3>4, <3>5
  <2> HIDE DEF K
  <2>3. Nat \subseteq K
    BY <2>1, <2>2, NatSetInduction
  <2>4. ASSUME NEW s \in SUBSET S PROVE g[s] \in Nat
    <3>1. Cardinality(s) \in Nat
      BY FS_Subset, FS_CardinalityType
    <3> QED BY <2>3, <3>1 DEF K
  <2> QED BY <2>4
<1>9. ASSUME NEW s \in SUBSET S
      PROVE  g[s] = IF s = {} THEN 0 ELSE f[pick(s)] + g[s \ {pick(s)}]
  <2>1. CASE s = {}
    BY <1>7, <2>1
  <2>2. CASE s # {}
    <3>1. pick(s) \in s
      BY <2>2
    <3> HIDE DEF pick
    <3>2. g[s \ {pick(s)}] \in Nat /\ f[pick(s)] \in Nat
      BY <1>8, <3>1
    <3>3. g[s] = g[s \ {pick(s)}] + f[pick(s)]
      BY <1>7, <2>2, Zenon
    <3> QED BY <2>2, <3>2, <3>3
  <2> QED BY <2>1, <2>2
<1>10. g = [s \in SUBSET S |-> g[s]]
  <2> DEFINE R(s) == Result(g, s, ends, next, add, "sum")
  <2>1. g = [s \in SUBSET S |-> R(s)]
    BY <1>6
  <2> HIDE DEF R
  <2> QED BY <2>1
<1>11. g = [s \in SUBSET S |-> IF s = {} THEN 0 ELSE f[pick(s)] + g[s \ {pick(s)}]]
  <2> HIDE DEF pick
  <2> QED BY <1>9, <1>10
<1> QED BY <1>11, Zenon DEF SumRec

\* All that there are agree.
LEMMA SumRecAgrees ==
    ASSUME NEW f, NEW S, NEW R, NEW g, NEW h, SumRec(g, f, S), SumRec(h, f, R),
           NEW A \in SUBSET S, A \subseteq R, IsFiniteSet(A)
    PROVE  g[A] = h[A]
<1> DEFINE pick(s) == CHOOSE x \in s : TRUE
           K == {k \in Nat : \A s \in SUBSET A : Cardinality(s) = k => g[s] = h[s]}
<1>1. \A s \in SUBSET S : g[s] = IF s = {} THEN 0 ELSE f[pick(s)] + g[s \ {pick(s)}]
  <2>1. g = [s \in SUBSET S |-> IF s = {} THEN 0 ELSE f[pick(s)] + g[s \ {pick(s)}]]
    BY Zenon DEF SumRec
  <2> DEFINE R1(s) == IF s = {} THEN 0 ELSE f[pick(s)] + g[s \ {pick(s)}]
  <2>2. g = [s \in SUBSET S |-> R1(s)]
    BY <2>1
  <2> HIDE DEF R1
  <2>3. \A s \in SUBSET S : g[s] = R1(s)
    BY <2>2
  <2> QED BY <2>3, Zenon DEF R1
<1>2. \A s \in SUBSET R : h[s] = IF s = {} THEN 0 ELSE f[pick(s)] + h[s \ {pick(s)}]
  <2>1. h = [s \in SUBSET R |-> IF s = {} THEN 0 ELSE f[pick(s)] + h[s \ {pick(s)}]]
    BY Zenon DEF SumRec
  <2> DEFINE R1(s) == IF s = {} THEN 0 ELSE f[pick(s)] + h[s \ {pick(s)}]
  <2>2. h = [s \in SUBSET R |-> R1(s)]
    BY <2>1
  <2> HIDE DEF R1
  <2>3. \A s \in SUBSET R : h[s] = R1(s)
    BY <2>2
  <2> QED BY <2>3, Zenon DEF R1
<1>3. 0 \in K
  <2>1. ASSUME NEW s \in SUBSET A, Cardinality(s) = 0 PROVE g[s] = h[s]
    <3>1. s = {} /\ s \in SUBSET S /\ s \in SUBSET R
      BY <2>1, FS_Subset, FS_EmptySet
    <3> QED BY <1>1, <1>2, <3>1
  <2> QED BY <2>1
<1>4. ASSUME NEW k \in Nat, k \in K PROVE k + 1 \in K
  <2> SUFFICES ASSUME NEW s \in SUBSET A, Cardinality(s) = k + 1 PROVE g[s] = h[s]
    OBVIOUS
  <2>1. IsFiniteSet(s) /\ s # {} /\ s \in SUBSET S /\ s \in SUBSET R
    BY FS_Subset, FS_EmptySet
  <2>2. pick(s) \in s
    BY <2>1
  <2> HIDE DEF pick
  <2>3. Cardinality(s \ {pick(s)}) = k
    <3>1. Cardinality(s \ {pick(s)}) = Cardinality(s) - 1
      BY <2>1, <2>2, FS_RemoveElement
    <3> QED BY <3>1
  <2>4. g[s \ {pick(s)}] = h[s \ {pick(s)}]
    BY <1>4, <2>3
  <2> QED BY <1>1, <1>2, <2>1, <2>4
<1> HIDE DEF K
<1>5. Nat \subseteq K
  BY <1>3, <1>4, NatSetInduction
<1>6. Cardinality(A) \in Nat
  BY FS_CardinalityType
<1> QED BY <1>5, <1>6 DEF K

\* What a sum is, element by element.
LEMMA SumFacts ==
    ASSUME NEW f, NEW S, IsFiniteSet(S), \A x \in S : f[x] \in Nat
    PROVE  /\ Total(f, S) \in Nat /\ (S = {} => Total(f, S) = 0)
           /\ \A x \in S : Total(f, S) = f[x] + Total(f, S \ {x})
<1> DEFINE pick(s) == CHOOSE x \in s : TRUE
<1>1. PICK g : SumRec(g, f, S)
  BY SumRecExists
<1>2. ASSUME NEW A \in SUBSET S PROVE Total(f, A) = g[A]
  <2>1. IsFiniteSet(A) /\ \A x \in A : f[x] \in Nat
    BY FS_Subset
  <2> DEFINE Is(h) == h = [s \in SUBSET A |-> IF s = {} THEN 0
                            ELSE LET x == CHOOSE x \in s : TRUE IN f[x] + h[s \ {x}]]
  <2>2. \E h : Is(h)
    <3>1. PICK h : SumRec(h, f, A)
      BY <2>1, SumRecExists
    <3>2. Is(h)
      BY <3>1, Zenon DEF SumRec
    <3> HIDE DEF Is
    <3> QED BY <3>2
  <2>3. Total(f, A) = (CHOOSE h : Is(h))[A]
    BY Zenon DEF Total, MapThenSumSet, MapThenFoldSet
  <2> HIDE DEF Is
  <2>4. PICK h : Is(h) /\ Total(f, A) = h[A]
    BY <2>2, <2>3, Zenon
  <2>5. SumRec(h, f, A)
    BY <2>4, Zenon DEF Is, SumRec
  <2> QED BY <1>1, <2>1, <2>4, <2>5, SumRecAgrees
<1>3. ASSUME NEW A \in SUBSET S
      PROVE  Total(f, A) = IF A = {} THEN 0 ELSE f[pick(A)] + Total(f, A \ {pick(A)})
  <2> DEFINE R1(s) == IF s = {} THEN 0 ELSE f[pick(s)] + g[s \ {pick(s)}]
  <2>1. g = [s \in SUBSET S |-> R1(s)]
    BY <1>1, Zenon DEF SumRec
  <2> HIDE DEF R1
  <2>2. g[A] = R1(A)
    BY <2>1
  <2>3. A \ {pick(A)} \in SUBSET S
    OBVIOUS
  <2> HIDE DEF pick
  <2> QED BY <1>2, <2>2, <2>3, Zenon DEF R1
<1> DEFINE Fine(A) == Total(f, A) \in Nat /\ \A x \in A : Total(f, A) = f[x] + Total(f, A \ {x})
           K == {k \in Nat : \A A \in SUBSET S : Cardinality(A) = k => Fine(A)}
<1>10. ASSUME NEW A \in SUBSET S PROVE Total(f, A) \in Nat
  <2> DEFINE J == {k \in Nat : \A B \in SUBSET S : Cardinality(B) = k => Total(f, B) \in Nat}
  <2>1. 0 \in J
    <3>1. ASSUME NEW B \in SUBSET S, Cardinality(B) = 0 PROVE Total(f, B) \in Nat
      <4>1. B = {}
        BY <3>1, FS_Subset, FS_EmptySet
      <4> HIDE DEF pick
      <4>2. Total(f, B) = 0
        BY <1>3, <4>1, Zenon
      <4> QED BY <4>2
    <3> QED BY <3>1
  <2>2. ASSUME NEW k \in Nat, k \in J PROVE k + 1 \in J
    <3> SUFFICES ASSUME NEW B \in SUBSET S, Cardinality(B) = k + 1 PROVE Total(f, B) \in Nat
      OBVIOUS
    <3>1. IsFiniteSet(B) /\ B # {}
      BY FS_Subset, FS_EmptySet
    <3>2. pick(B) \in B
      BY <3>1
    <3>3. Total(f, B) = f[pick(B)] + Total(f, B \ {pick(B)})
      BY <1>3, <3>1, Zenon
    <3> HIDE DEF pick
    <3>4. Cardinality(B \ {pick(B)}) = Cardinality(B) - 1
      BY <3>1, <3>2, FS_RemoveElement
    <3>5. Cardinality(B \ {pick(B)}) = k /\ B \ {pick(B)} \in SUBSET S
      BY <3>4
    <3>6. Total(f, B \ {pick(B)}) \in Nat /\ f[pick(B)] \in Nat
      BY <2>2, <3>2, <3>5
    <3> QED BY <3>3, <3>6
  <2> HIDE DEF J
  <2>3. Nat \subseteq J
    BY <2>1, <2>2, NatSetInduction
  <2>4. Cardinality(A) \in Nat
    BY FS_Subset, FS_CardinalityType
  <2> QED BY <2>3, <2>4 DEF J
<1>4. 0 \in K
  <2>1. ASSUME NEW A \in SUBSET S, Cardinality(A) = 0 PROVE Fine(A)
    <3>1. A = {}
      BY <2>1, FS_Subset, FS_EmptySet
    <3>2. Total(f, A) = 0
      BY <1>3, <3>1
    <3> QED BY <3>1, <3>2
  <2> HIDE DEF Fine
  <2> QED BY <2>1
<1>5. ASSUME NEW k \in Nat, k \in K PROVE k + 1 \in K
  <2> SUFFICES ASSUME NEW A \in SUBSET S, Cardinality(A) = k + 1 PROVE Fine(A)
    OBVIOUS
  <2>1. IsFiniteSet(A) /\ A # {}
    BY FS_Subset, FS_EmptySet
  <2> DEFINE a == pick(A)
  <2>2. a \in A
    BY <2>1
  <2>3. Total(f, A) = f[a] + Total(f, A \ {a})
    BY <1>3, <2>1, Zenon
  <2> HIDE DEF a, Fine
  <2>4. ASSUME NEW x \in A PROVE Fine(A \ {x}) /\ f[x] \in Nat
    <3>1. Cardinality(A \ {x}) = Cardinality(A) - 1
      BY <2>1, FS_RemoveElement
    <3>2. Cardinality(A \ {x}) = k
      BY <3>1
    <3> QED BY <1>5, <3>2
  <2>5. Total(f, A \ {a}) \in Nat /\ f[a] \in Nat
    BY <2>2, <2>4 DEF Fine
  <2>6. ASSUME NEW x \in A PROVE Total(f, A) = f[x] + Total(f, A \ {x})
    <3>1. CASE x = a
      BY <2>3, <3>1
    <3>2. CASE x # a
      <4>1. x \in A \ {a} /\ a \in A \ {x} /\ (A \ {a}) \ {x} = (A \ {x}) \ {a}
        BY <2>2, <3>2
      <4>2. Total(f, A \ {a}) = f[x] + Total(f, (A \ {a}) \ {x})
        BY <2>2, <2>4, <4>1 DEF Fine
      <4>3. Total(f, A \ {x}) = f[a] + Total(f, (A \ {x}) \ {a})
        BY <2>4, <4>1 DEF Fine
      <4>4. Total(f, (A \ {x}) \ {a}) \in Nat
        <5>1. (A \ {x}) \ {a} \in SUBSET S
          OBVIOUS
        <5> QED BY <1>10, <5>1
      <4>5. Total(f, A \ {a}) = f[x] + Total(f, (A \ {x}) \ {a})
        BY <4>1, <4>2
      <4>6. f[x] \in Nat
        BY <2>4
      <4>7. PICK r \in Nat : r = Total(f, (A \ {x}) \ {a})
        BY <4>4
      <4>8. Total(f, A) = f[a] + (f[x] + r) /\ Total(f, A \ {x}) = f[a] + r
        BY <2>3, <4>3, <4>5, <4>7
      <4> QED BY <2>5, <4>6, <4>8
    <3> QED BY <3>1, <3>2
  <2>7. Total(f, A) \in Nat
    BY <2>3, <2>5
  <2> QED BY <2>6, <2>7 DEF Fine
<1> HIDE DEF K
<1>6. Nat \subseteq K
  BY <1>4, <1>5, NatSetInduction
<1>7. Cardinality(S) \in Nat /\ S \in SUBSET S
  BY FS_CardinalityType
<1>8. Fine(S)
  <2> HIDE DEF Fine
  <2> QED BY <1>6, <1>7 DEF K
<1>9. S = {} => Total(f, S) = 0
  BY <1>3
<1> QED BY <1>8, <1>9

\* The sum of a sequence of numbers is a number.
LEMMA SumIs ==
    ASSUME NEW s, NEW n \in Nat, s \in [1..n -> Nat]
    PROVE  Sum(s) = Total(s, 1..n) /\ Sum(s) \in Nat
<1>1. IsFiniteSet(1..n) /\ \A i \in 1..n : s[i] \in Nat
  <2>1. 1 \in Int /\ n \in Int
    OBVIOUS
  <2> QED BY <2>1, FS_Interval
<1>2. Total(s, 1..n) \in Nat
  BY <1>1, SumFacts
<1>3. DOMAIN s = 1..n
  OBVIOUS
<1>4. Sum(s) = Total(s, 1..n)
  BY <1>3, Zenon DEF Sum, FoldSeq, FoldFunction, FoldFunctionOnSet, Total, MapThenSumSet
<1> QED BY <1>2, <1>4

-----------------------------------------------------------------------------
(* What the assumptions say.                                                *)

\* The sizes.
LEMMA Sizing ==
    /\ NumTransfers \in Nat \ {0} /\ NumGpus \in Nat \ {0} /\ NumNics \in Nat \ {0}
    /\ BufferSize \in Nat \ {0} /\ RingCapacity \in Nat \ {0} /\ MaxOutstanding \in Nat \ {0}
    /\ MaxActivePxn \in Nat \ {0} /\ Alpha \in Nat /\ MaxFaults \in Nat
    /\ Lens \in [Transfers -> Seq(1..BufferSize) \ {<<>>}]
BY SizesAssumption

\* Transfers, NICs, pipelines and chunks are finitely many.
LEMMA Finiteness ==
    /\ IsFiniteSet(Transfers) /\ IsFiniteSet(Nics) /\ IsFiniteSet(ProxyNics) /\ IsFiniteSet(Pipelines)
    /\ ProxyNics \subseteq Nics /\ Nics \subseteq Nat /\ DirectNics \subseteq Nics
    /\ DirectNics \cap ProxyNics = {}
<1>1. IsFiniteSet(Transfers) /\ IsFiniteSet(Nics) /\ Nics \subseteq Nat
  BY Sizing, FS_Interval DEF Transfers, Nics
<1>2. Reachable \subseteq Nics
  BY TopologyAssumption DEF Reachable
<1>3. Affine \subseteq Nics
  BY <1>2 DEF Affine, Keep
<1>4. DirectNics \subseteq Nics
  BY TopologyAssumption DEF DirectNics, Keep
<1>5. ProxyNics \subseteq Nics /\ DirectNics \cap ProxyNics = {}
  BY <1>3 DEF ProxyNics
<1>6. IsFiniteSet(ProxyNics)
  BY <1>1, <1>5, FS_Subset
<1>7. IsFiniteSet(Pipelines)
  BY <1>1, <1>6, FS_Product DEF Pipelines
<1> QED BY <1>1, <1>4, <1>5, <1>6, <1>7

\* The GPU of a NIC on the way over a proxy.
LEMMA ProxyGpuTyped == \A n \in ProxyNics : ProxyGpu(n) \in Gpus
<1> SUFFICES ASSUME NEW n \in ProxyNics PROVE ProxyGpu(n) \in Gpus
  OBVIOUS
<1> DEFINE S == {g \in Gpus : n \in NicsOf[g]}
           D == {NumGpus - g : g \in S}
<1>1. n \in Reachable
  BY DEF ProxyNics, Affine, Keep
<1>2. S # {}
  BY <1>1, TopologyAssumption DEF Reachable
<1>3. D \subseteq Nat /\ D # {}
  BY <1>2, Sizing DEF Gpus
<1>4. PICK d \in D : \A e \in D : d <= e
  BY <1>3, LeastNatural
<1>5. PICK g \in S : d = NumGpus - g
  BY <1>4
<1>6. \A h \in S : g >= h
  <2> TAKE h \in S
  <2>1. d <= NumGpus - h
    BY <1>4
  <2>2. g \in Nat /\ h \in Nat /\ NumGpus \in Nat
    BY Sizing DEF Gpus
  <2> QED BY <1>5, <2>1, <2>2
<1>7. Max(S) \in S
  BY <1>5, <1>6 DEF Max
<1> QED BY <1>7 DEF ProxyGpu, NicToGpu

\* A chunk is a pair of a transfer and an index into its lengths.
LEMMA ChunkTyped ==
    /\ \A c \in Chunks : /\ c[1] \in Transfers /\ c[2] \in 1..Len(Lens[c[1]]) /\ c = <<c[1], c[2]>>
                         /\ LenOf(c) \in 1..BufferSize
    /\ \A t \in Transfers : Len(Lens[t]) \in Nat \ {0} /\ \A i \in 1..Len(Lens[t]) : <<t, i>> \in Chunks
<1>1. ASSUME NEW t \in Transfers
      PROVE  /\ Lens[t] \in Seq(1..BufferSize) /\ Len(Lens[t]) \in Nat \ {0} /\ DOMAIN Lens[t] = 1..Len(Lens[t])
             /\ \A i \in 1..Len(Lens[t]) : Lens[t][i] \in 1..BufferSize
  BY Sizing
<1>2. \A c : c \in Chunks <=> \E t \in Transfers : \E i \in 1..Len(Lens[t]) : c = <<t, i>>
  BY <1>1 DEF Chunks
<1>3. ASSUME NEW c \in Chunks
      PROVE  /\ c[1] \in Transfers /\ c[2] \in 1..Len(Lens[c[1]]) /\ c = <<c[1], c[2]>>
             /\ LenOf(c) \in 1..BufferSize
  <2>1. PICK t \in Transfers : \E i \in 1..Len(Lens[t]) : c = <<t, i>>
    BY <1>2
  <2>2. PICK i \in 1..Len(Lens[t]) : c = <<t, i>>
    BY <2>1
  <2> QED BY <1>1, <2>2 DEF LenOf
<1> QED BY <1>1, <1>2, <1>3

-----------------------------------------------------------------------------
(* The tasks of the worker.                                                 *)

\* The tasks of a round that serves the transfers S.
Busy(S) ==
    {<<"dispatch">>, <<"poll">>} \cup {<<"assign", t>> : t \in S}
    \cup {<<"advance", t, n>> : t \in S, n \in ProxyNics} \cup {<<"post", t, n>> : t \in S, n \in ProxyNics}
TasksOf(S) == Busy(S) \cup {<<"retire">>}

\* A round ends with its "retire", and has no other.
Ordered(s) == \A i \in 1..Len(s) : s[i] = <<"retire">> <=> i = Len(s)

\* What the name of a task says of its parts.
LEMMA TaskParts ==
    ASSUME NEW S, NEW task \in TasksOf(S)
    PROVE  /\ task[1] \in {"dispatch", "poll", "retire", "assign", "advance", "post"}
           /\ task[1] = "retire" <=> task = <<"retire">>
           /\ task[1] = "assign" => task[2] \in S /\ task = <<"assign", task[2]>>
           /\ task[1] \in {"advance", "post"} =>
                 task[2] \in S /\ task[3] \in ProxyNics /\ task = <<task[1], task[2], task[3]>>
<1>1. CASE task \in {<<"dispatch">>, <<"poll">>, <<"retire">>}
  BY <1>1
<1>2. CASE \E t \in S : task = <<"assign", t>>
  <2>1. PICK t \in S : task = <<"assign", t>>
    BY <1>2
  <2>2. task[1] = "assign" /\ task[2] = t /\ task # <<"retire">>
    BY <2>1
  <2> QED BY <2>1, <2>2
<1>3. CASE \E op \in {"advance", "post"}, t \in S, n \in ProxyNics : task = <<op, t, n>>
  <2>1. PICK op \in {"advance", "post"}, t \in S, n \in ProxyNics : task = <<op, t, n>>
    BY <1>3
  <2>2. task[1] = op /\ task[2] = t /\ task[3] = n /\ task # <<"retire">>
    BY <2>1
  <2> QED BY <2>1, <2>2
<1> QED BY <1>1, <1>2, <1>3 DEF TasksOf, Busy

\* A filtered rest of the round.
LEMMA NextTaskIs ==
    ASSUME NEW S, tasks \in Seq(TasksOf(S)), tasks # <<>>, Ordered(tasks), NextTask
    PROVE  /\ tasks' \in Seq(TasksOf(S)) /\ Ordered(tasks')
           /\ Head(tasks)[1] = "retire" => tasks' = <<>>
           /\ Head(tasks)[1] # "retire" => tasks' # <<>>
<1> DEFINE n == Len(tasks)
           left == {i \in 2..n : ~Void(tasks[i])}
<1>0. /\ n \in Nat \ {0} /\ \A i \in 1..n : tasks[i] \in TasksOf(S)
      /\ \A i \in 1..n : tasks[i] = <<"retire">> <=> i = n
      /\ Head(tasks) = tasks[1]
  BY DEF Ordered
<1>1. tasks' = IF left = {} THEN <<>> ELSE SubSeq(tasks, Min(left), n)
  BY DEF NextTask
<1>2. Head(tasks)[1] = "retire" <=> n = 1
  <2>1. tasks[1][1] = "retire" <=> tasks[1] = <<"retire">>
    BY <1>0, TaskParts
  <2> QED BY <1>0, <2>1
<1>3. ~Void(<<"retire">>)
  BY DEF Void
<1>4. n # 1 => n \in left
  BY <1>0, <1>3
<1>5. CASE left = {}
  <2>1. tasks' = <<>>
    BY <1>1, <1>5
  <2> QED BY <1>2, <1>4, <1>5, <2>1 DEF Ordered
<1>6. CASE left # {}
  <2>1. PICK m \in left : \A j \in left : m <= j
    <3>1. left \subseteq Nat
      BY <1>0
    <3> QED BY <1>6, <3>1, LeastNatural
  <2>2. Min(left) \in left
    BY <2>1 DEF Min
  <2>3. PICK k \in 2..n : tasks' = SubSeq(tasks, k, n)
    BY <1>1, <1>6, <2>2
  <2>4. /\ tasks' \in Seq(TasksOf(S)) /\ Len(tasks') = n - k + 1
        /\ \A i \in 1..(n - k + 1) : tasks'[i] = tasks[i + k - 1]
    BY <1>0, <2>3
  <2>5. Ordered(tasks')
    <3> SUFFICES ASSUME NEW i \in 1..(n - k + 1)
                 PROVE  tasks'[i] = <<"retire">> <=> i = n - k + 1
      BY <2>4 DEF Ordered
    <3>1. i + k - 1 \in 1..n /\ (i + k - 1 = n <=> i = n - k + 1)
      BY <1>0
    <3>2. tasks'[i] = tasks[i + k - 1]
      BY <2>4
    <3> QED BY <1>0, <3>1, <3>2
  <2>6. n # 1 /\ Len(tasks') # 0
    <3>1. k \in Nat /\ 2 <= k /\ k <= n
      BY <1>0
    <3> HIDE DEF n
    <3> QED BY <1>0, <2>4, <3>1
  <2>7. tasks' # <<>>
    BY <2>6
  <2> QED BY <1>2, <2>4, <2>5, <2>6, <2>7
<1> QED BY <1>5, <1>6

\* The tasks of one transfer.
LEMMA TasksTyped ==
    ASSUME NEW S, NEW t \in S
    PROVE  Serve(t) \in Seq(Busy(S)) /\ ServeAgain(t) \in Seq(Busy(S))
<1>1. ASSUME NEW op \in {"advance", "post"} PROVE Tasks(op, t) \in Seq(Busy(S))
  <2> DEFINE n == Cardinality(ProxyNics)
  <2>1. n \in Nat /\ Ascending(ProxyNics) \in [1..n -> ProxyNics]
    <3>1. ProxyNics \subseteq Nat
      BY Finiteness
    <3> QED BY <3>1, Finiteness, AscendingTyped
  <2>2. \A i \in 1..n : <<op, t, Ascending(ProxyNics)[i]>> \in Busy(S)
    BY <2>1 DEF Busy
  <2> HIDE DEF n
  <2>3. [i \in 1..n |-> <<op, t, Ascending(ProxyNics)[i]>>] \in Seq(Busy(S))
    BY <2>1, <2>2
  <2> QED BY <2>3 DEF Tasks, n
<1>2. <<<<"assign", t>>>> \in Seq(Busy(S))
  BY DEF Busy
<1>3. Tasks("advance", t) \in Seq(Busy(S)) /\ Tasks("post", t) \in Seq(Busy(S))
  BY <1>1
<1>4. Tasks("advance", t) \o <<<<"assign", t>>>> \o Tasks("post", t) \in Seq(Busy(S))
  BY <1>2, <1>3
<1>5. Tasks("advance", t) \o Tasks("post", t) \in Seq(Busy(S))
  BY <1>3
<1> QED BY <1>4, <1>5 DEF Serve, ServeAgain

\* A round serves its contexts, and ends with "retire".
LEMMA RoundTyped ==
    ASSUME NEW contexts \in Seq(Transfers)
    PROVE  /\ Round(contexts) \in Seq(TasksOf(ToSet(contexts))) /\ Ordered(Round(contexts))
           /\ Round(contexts) # <<>>
<1> DEFINE S == ToSet(contexts)
           A == FlattenSeq([i \in DOMAIN contexts |-> Serve(contexts[i])])
           B == FlattenSeq([i \in DOMAIN contexts |-> ServeAgain(contexts[i])])
           first == <<<<"dispatch">>>> \o A \o <<<<"poll">>, <<"dispatch">>>> \o B
<1>1. \A i \in DOMAIN contexts : contexts[i] \in S
  BY DEF ToSet
<1>2. \A i \in DOMAIN contexts : Serve(contexts[i]) \in Seq(Busy(S)) /\ ServeAgain(contexts[i]) \in Seq(Busy(S))
  <2> HIDE DEF S
  <2> QED BY <1>1, TasksTyped
<1>3. /\ [i \in DOMAIN contexts |-> Serve(contexts[i])] \in Seq(Seq(Busy(S)))
      /\ [i \in DOMAIN contexts |-> ServeAgain(contexts[i])] \in Seq(Seq(Busy(S)))
  <2>1. DOMAIN contexts = 1..Len(contexts) /\ Len(contexts) \in Nat
    OBVIOUS
  <2> HIDE DEF S
  <2> QED BY <1>2, <2>1
<1>4. A \in Seq(Busy(S)) /\ B \in Seq(Busy(S))
  <2> HIDE DEF S
  <2> QED BY <1>3, FlattenTyped
<1>5. <<<<"dispatch">>>> \in Seq(Busy(S)) /\ <<<<"poll">>, <<"dispatch">>>> \in Seq(Busy(S))
  BY DEF Busy
<1> HIDE DEF S, A, B
<1>6. first \in Seq(Busy(S))
  BY <1>4, <1>5
<1>7. Round(contexts) = first \o <<<<"retire">>>>
  <2>1. Round(contexts) = <<<<"dispatch">>>> \o A \o <<<<"poll">>, <<"dispatch">>>> \o B \o <<<<"retire">>>>
    BY DEF Round, ForEach, A, B
  <2> QED BY <2>1
<1> HIDE DEF first
<1>8. <<"retire">> \notin Busy(S)
  <2> SUFFICES ASSUME <<"retire">> \in Busy(S) PROVE FALSE
    OBVIOUS
  <2>1. PICK task \in Busy(S) : task = <<"retire">>
    OBVIOUS
  <2>2. task[1] = "retire"
    BY <2>1
  <2>3. task[1] # "retire"
    BY DEF Busy
  <2> QED BY <2>2, <2>3
<1>9. PICK n \in Nat : n = Len(first)
  BY <1>6
<1>10. /\ Round(contexts) \in Seq(TasksOf(S)) /\ Len(Round(contexts)) = n + 1
       /\ \A i \in 1..n : Round(contexts)[i] = first[i] /\ first[i] \in Busy(S)
       /\ Round(contexts)[n + 1] = <<"retire">>
  <2>1. first \in Seq(TasksOf(S)) /\ <<<<"retire">>>> \in Seq(TasksOf(S))
    BY <1>6 DEF TasksOf
  <2> QED BY <1>6, <1>7, <1>9, <2>1
<1>11. Ordered(Round(contexts))
  <2> SUFFICES ASSUME NEW i \in 1..(n + 1) PROVE Round(contexts)[i] = <<"retire">> <=> i = n + 1
    BY <1>10 DEF Ordered
  <2>1. i \in 1..n \/ i = n + 1
    OBVIOUS
  <2> QED BY <1>8, <1>10, <2>1
<1>12. Round(contexts) # <<>>
  BY <1>10
<1> QED BY <1>10, <1>11, <1>12 DEF S

-----------------------------------------------------------------------------
(* Transfers, from their start to their end.                                *)

Statuses == {"idle", "queued", "active", "done", "failed"}

\* What the worker knows of its transfers and what it has to do for them.
Working ==
    /\ status \in [Transfers -> Statuses]
    /\ queue \in Seq(Transfers) /\ active \in Seq(Transfers)
    /\ tasks \in Seq(TasksOf(ToSet(active))) /\ Ordered(tasks)

\* The queue holds those that wait for the worker, once; the worker has those that are
\* active, and the failed ones up to the end of its round.
Queueing ==
    /\ \A i, j \in 1..Len(queue) : queue[i] = queue[j] => i = j
    /\ \A t \in Transfers : t \in ToSet(queue) <=> status[t] = "queued"
    /\ \A t \in ToSet(active) : status[t] \in {"active", "failed"}
    /\ \A t \in Transfers : status[t] = "active" => t \in ToSet(active)
    /\ tasks = <<>> => \A t \in ToSet(active) : status[t] = "active"

Rounds == Working /\ Queueing

\* Whom a task is about.
LEMMA Contexts ==
    ASSUME Working
    PROVE  /\ At("assign") => Context \in ToSet(active) /\ Context \in Transfers
           /\ At("advance") \/ At("post") =>
                 /\ Context \in ToSet(active) /\ Context \in Transfers
                 /\ Pipeline \in Pipelines /\ Pipeline[1] = Context /\ Pipeline[2] \in ProxyNics
<1>1. ToSet(active) \subseteq Transfers
  BY DEF Working, ToSet
<1>2. tasks # <<>> => Head(tasks) \in TasksOf(ToSet(active))
  BY DEF Working
<1>3. At("assign") => Context \in ToSet(active)
  BY <1>2, TaskParts DEF At, Context
<1>4. At("advance") \/ At("post") => Context \in ToSet(active) /\ Head(tasks)[3] \in ProxyNics
  BY <1>2, TaskParts DEF At, Context
<1> QED BY <1>1, <1>3, <1>4 DEF Pipeline, Context, Pipelines, At

\* The rest of the round, when the state of the contexts stays.
LEMMA NextTaskKeeps ==
    ASSUME Working, tasks # <<>>, NextTask, active' = active
    PROVE  /\ tasks' \in Seq(TasksOf(ToSet(active)))' /\ Ordered(tasks')
           /\ Head(tasks)[1] # "retire" => tasks' # <<>>
           /\ Head(tasks)[1] = "retire" => tasks' = <<>>
<1> DEFINE S == ToSet(active)
<1>1. tasks \in Seq(TasksOf(S)) /\ Ordered(tasks)
  BY DEF Working
<1>2. ToSet(active)' = S
  BY DEF ToSet
<1> HIDE DEF S
<1>3. /\ tasks' \in Seq(TasksOf(S)) /\ Ordered(tasks')
      /\ Head(tasks)[1] # "retire" => tasks' # <<>>
      /\ Head(tasks)[1] = "retire" => tasks' = <<>>
  BY <1>1, NextTaskIs
<1>4. TasksOf(ToSet(active))' = TasksOf(S)
  BY <1>2 DEF TasksOf, Busy
<1> QED BY <1>3, <1>4

\* A failure keeps the transfers apart.
LEMMA FailKeeps ==
    ASSUME Working, NEW S, Fail(S)
    PROVE  /\ status' \in [Transfers -> Statuses]
           /\ \A t \in Transfers : /\ status'[t] = status[t] \/ (t \in S /\ status'[t] = "failed" /\ ~Finished(t))
                                   /\ t \notin S => status'[t] = status[t]
                                   /\ t \in S => status'[t] \in {"done", "failed"}
BY DEF Working, Fail, Finished, Statuses

\* The tasks that neither activate nor retire.
LEMMA OneTask ==
    ASSUME Rounds, active' = active, queue' = queue, status' \in [Transfers -> Statuses],
           \A t \in Transfers : status'[t] = status[t] \/ (status[t] = "active" /\ status'[t] = "failed"),
           tasks # <<>>, Stay \/ (NextTask /\ Head(tasks)[1] # "retire")
    PROVE  Rounds'
<1>1. tasks' # <<>> /\ tasks' \in Seq(TasksOf(ToSet(active)))' /\ Ordered(tasks')
  <2>1. CASE Stay
    BY <2>1 DEF Rounds, Working, Stay, TasksOf, Busy, ToSet
  <2>2. CASE NextTask /\ Head(tasks)[1] # "retire"
    BY <2>2, NextTaskKeeps DEF Rounds
  <2> QED BY <2>1, <2>2
<1>2. Working'
  <2>1. TasksOf(ToSet(active))' = TasksOf(ToSet(active'))
    BY DEF TasksOf, Busy, ToSet
  <2> QED BY <1>1, <2>1 DEF Rounds, Working, Ordered
<1>3. Queueing'
  <2>1. ToSet(active) \subseteq Transfers /\ ToSet(active)' = ToSet(active) /\ ToSet(queue)' = ToSet(queue)
    BY DEF Rounds, Working, ToSet
  <2>2. \A t \in Transfers : status'[t] = "queued" <=> status[t] = "queued"
    OBVIOUS
  <2>3. \A t \in ToSet(active) : status'[t] \in {"active", "failed"}
    BY <2>1 DEF Rounds, Queueing
  <2>4. \A t \in Transfers : status'[t] = "active" => t \in ToSet(active)
    BY DEF Rounds, Queueing
  <2> QED BY <1>1, <2>1, <2>2, <2>3, <2>4 DEF Rounds, Queueing
<1> QED BY <1>2, <1>3 DEF Rounds

\* A completion is of a transfer that has begun.
CqBegun == \A w \in cq : w.chunk[1] \in Transfers => status[w.chunk[1]] \notin {"idle", "queued"}

\* A client starts a transfer.
LEMMA StartControls == ASSUME Rounds, NEW t \in Transfers, Start(t) PROVE Rounds'
<1>1. /\ status[t] = "idle" /\ status' = [status EXCEPT ![t] = "queued"] /\ queue' = Append(queue, t)
      /\ active' = active /\ tasks' = tasks
  BY DEF Start, worker, MayStart
<1>2. /\ status' \in [Transfers -> Statuses] /\ queue' \in Seq(Transfers)
      /\ status'[t] = "queued" /\ \A s \in Transfers \ {t} : status'[s] = status[s]
  BY <1>1 DEF Rounds, Working, Statuses
<1>3. /\ ToSet(active)' = ToSet(active) /\ TasksOf(ToSet(active))' = TasksOf(ToSet(active))
      /\ ToSet(active) \subseteq Transfers
  BY <1>1 DEF TasksOf, Busy, ToSet, Rounds, Working
<1>4. Working'
  BY <1>1, <1>2, <1>3 DEF Rounds, Working, Ordered
<1>5. /\ Len(queue') = Len(queue) + 1 /\ \A i \in 1..Len(queue) : queue'[i] = queue[i]
      /\ queue'[Len(queue) + 1] = t /\ Len(queue) \in Nat
  BY <1>1 DEF Rounds, Working
<1>6. t \notin ToSet(queue)
  BY <1>1 DEF Rounds, Queueing
<1>7. \A i \in 1..Len(queue) : queue[i] # t
  BY <1>6 DEF ToSet, Rounds, Working
<1>8. \A i, j \in 1..Len(queue') : queue'[i] = queue'[j] => i = j
  BY <1>5, <1>7 DEF Rounds, Queueing
<1>9. ToSet(queue)' = ToSet(queue) \cup {t}
  <2>1. DOMAIN queue = 1..Len(queue) /\ DOMAIN queue' = 1..(Len(queue) + 1)
    BY <1>2, <1>5 DEF Rounds, Working
  <2>2. \A i : i \in 1..(Len(queue) + 1) <=> i \in 1..Len(queue) \/ i = Len(queue) + 1
    BY <1>5
  <2> QED BY <1>5, <2>1, <2>2 DEF ToSet
<1>10. \A s \in Transfers : s \in ToSet(queue)' <=> status'[s] = "queued"
  BY <1>2, <1>9 DEF Rounds, Queueing
<1>11. t \notin ToSet(active)
  BY <1>1 DEF Rounds, Queueing
<1>12. Queueing'
  BY <1>1, <1>2, <1>3, <1>8, <1>10, <1>11 DEF Rounds, Queueing
<1> QED BY <1>4, <1>12 DEF Rounds

\* The worker activates what waits, up to its cap.
LEMMA BeginControls ==
    ASSUME Rounds, Begin
    PROVE  /\ Rounds' /\ ToSet(active) \subseteq ToSet(active')
           /\ \A t \in Transfers : /\ status'[t] = IF t \in ToSet(active') THEN "active" ELSE status[t]
                                   /\ t \in ToSet(active') => status[t] \in {"active", "queued"}
<1> DEFINE free == IF Len(active) < MaxActivePxn THEN MaxActivePxn - Len(active) ELSE 0
           k == Min({free, Len(queue)})
           now == active \o SubSeq(queue, 1, k)
<1>1. /\ tasks = <<>> /\ active' = now /\ tasks' = Round(now) /\ queue' = SubSeq(queue, k + 1, Len(queue))
      /\ status' = [t \in Transfers |-> IF t \in ToSet(now) THEN "active" ELSE status[t]]
  BY DEF Begin
<1>2. queue \in Seq(Transfers) /\ active \in Seq(Transfers) /\ Len(queue) \in Nat /\ Len(active) \in Nat
  BY DEF Rounds, Working
<1>3. k \in 0..Len(queue)
  <2>1. free \in Nat
    BY <1>2, Sizing
  <2> HIDE DEF free
  <2>2. \E x \in {free, Len(queue)} : \A y \in {free, Len(queue)} : x <= y
    BY <1>2, <2>1
  <2>3. k \in {free, Len(queue)} /\ \A y \in {free, Len(queue)} : k <= y
    BY <2>2 DEF Min
  <2> QED BY <1>2, <2>1, <2>3
<1> HIDE DEF k
<1>4. /\ SubSeq(queue, 1, k) \in Seq(Transfers) /\ Len(SubSeq(queue, 1, k)) = k
      /\ \A i \in 1..k : SubSeq(queue, 1, k)[i] = queue[i]
  BY <1>2, <1>3
<1>5. now \in Seq(Transfers) /\ ToSet(now) = ToSet(active) \cup {queue[i] : i \in 1..k}
  <2>1. now \in Seq(Transfers) /\ Len(now) = Len(active) + k
    BY <1>2, <1>4
  <2>2. \A i \in 1..Len(active) : now[i] = active[i]
    BY <1>2, <1>4
  <2>3. \A i \in 1..k : now[Len(active) + i] = queue[i]
    BY <1>2, <1>3, <1>4
  <2>4. DOMAIN now = 1..(Len(active) + k) /\ DOMAIN active = 1..Len(active) /\ k \in Nat
    BY <1>2, <1>3, <2>1
  <2> HIDE DEF now
  <2>5. \A i \in 1..(Len(active) + k) : i \in 1..Len(active)
          \/ (i - Len(active) \in 1..k /\ i = Len(active) + (i - Len(active)))
    BY <1>2, <2>4
  <2>6. \A i \in 1..k : Len(active) + i \in DOMAIN now
    BY <1>2, <2>4
  <2>7. \A i \in 1..Len(active) : i \in DOMAIN now
    BY <1>2, <2>4
  <2>8. ASSUME NEW i \in DOMAIN now PROVE now[i] \in ToSet(active) \cup {queue[j] : j \in 1..k}
    <3>1. CASE i \in 1..Len(active)
      BY <2>2, <2>4, <3>1 DEF ToSet
    <3>2. CASE i \notin 1..Len(active)
      <4>1. PICK j \in 1..k : i = Len(active) + j
        BY <2>4, <2>5, <2>8, <3>2
      <4> QED BY <2>3, <4>1
    <3> QED BY <3>1, <3>2
  <2>9. \A x \in ToSet(active) : x \in ToSet(now)
    BY <2>2, <2>4, <2>7 DEF ToSet
  <2>10. \A j \in 1..k : queue[j] \in ToSet(now)
    BY <2>3, <2>6 DEF ToSet
  <2>11. \A x \in ToSet(now) : x \in ToSet(active) \cup {queue[j] : j \in 1..k}
    BY <2>8 DEF ToSet
  <2> QED BY <2>1, <2>9, <2>10, <2>11 DEF now
<1> HIDE DEF now
<1>6. ToSet(active)' = ToSet(now) /\ TasksOf(ToSet(active))' = TasksOf(ToSet(now))
  BY <1>1 DEF ToSet, TasksOf, Busy
<1>7. tasks' \in Seq(TasksOf(ToSet(active)))' /\ Ordered(tasks') /\ tasks' # <<>>
  BY <1>1, <1>5, <1>6, RoundTyped
<1>8. /\ queue' \in Seq(Transfers) /\ Len(queue') = Len(queue) - k
      /\ \A i \in 1..(Len(queue) - k) : queue'[i] = queue[i + k]
  BY <1>1, <1>2, <1>3
<1>9. status' \in [Transfers -> Statuses]
  BY <1>1 DEF Rounds, Working, Statuses
<1>10. Working'
  BY <1>1, <1>5, <1>7, <1>8, <1>9 DEF Working, Ordered
<1>11. \A i, j \in 1..Len(queue) : queue[i] = queue[j] => i = j
  BY DEF Rounds, Queueing
<1>12. \A i, j \in 1..Len(queue') : queue'[i] = queue'[j] => i = j
  <2> SUFFICES ASSUME NEW i \in 1..(Len(queue) - k), NEW j \in 1..(Len(queue) - k), queue'[i] = queue'[j] PROVE i = j
    BY <1>8
  <2>1. i + k \in 1..Len(queue) /\ j + k \in 1..Len(queue)
    BY <1>2, <1>3
  <2>2. i + k = j + k
    BY <1>8, <1>11, <2>1
  <2> QED BY <1>2, <1>3, <2>2
<1>13. ToSet(queue)' = ToSet(queue) \ {queue[i] : i \in 1..k}
  <2>1. DOMAIN queue = 1..Len(queue) /\ DOMAIN queue' = 1..(Len(queue) - k)
    BY <1>2, <1>3, <1>8
  <2>2. ASSUME NEW i \in 1..(Len(queue) - k) PROVE queue'[i] \in ToSet(queue) \ {queue[j] : j \in 1..k}
    <3>1. i + k \in 1..Len(queue) /\ i + k \notin 1..k
      BY <1>2, <1>3
    <3>2. \A j \in 1..k : j \in 1..Len(queue) /\ j # i + k
      BY <1>2, <1>3, <3>1
    <3>3. \A j \in 1..k : queue[j] # queue[i + k]
      BY <1>11, <3>1, <3>2
    <3> QED BY <1>8, <2>1, <3>1, <3>3 DEF ToSet
  <2>3. ASSUME NEW j \in 1..Len(queue), queue[j] \notin {queue[i] : i \in 1..k} PROVE queue[j] \in ToSet(queue')
    <3>1. j \notin 1..k
      BY <2>3
    <3>2. j - k \in 1..(Len(queue) - k) /\ (j - k) + k = j
      BY <1>2, <1>3, <3>1
    <3> QED BY <1>8, <2>1, <3>2 DEF ToSet
  <2>4. ToSet(queue)' = ToSet(queue')
    BY DEF ToSet
  <2>5. \A x \in ToSet(queue') : x \in ToSet(queue) \ {queue[i] : i \in 1..k}
    BY <2>1, <2>2 DEF ToSet
  <2>6. \A x \in ToSet(queue) \ {queue[i] : i \in 1..k} : x \in ToSet(queue')
    BY <2>1, <2>3 DEF ToSet
  <2> QED BY <2>4, <2>5, <2>6
<1>14. \A i \in 1..k : queue[i] \in ToSet(queue) /\ queue[i] \in Transfers
  <2>1. \A i \in 1..k : i \in 1..Len(queue) /\ i \in DOMAIN queue
    BY <1>2, <1>3
  <2> QED BY <1>2, <2>1 DEF ToSet
<1>15. \A t \in Transfers : status'[t] = IF t \in ToSet(now) THEN "active" ELSE status[t]
  BY <1>1
<1>16. \A t \in Transfers : t \in ToSet(queue)' <=> status'[t] = "queued"
  <2> TAKE t \in Transfers
  <2>1. t \in ToSet(queue) <=> status[t] = "queued"
    BY DEF Rounds, Queueing
  <2>2. t \in ToSet(active) => status[t] # "queued"
    BY DEF Rounds, Queueing
  <2> QED BY <1>5, <1>13, <1>15, <2>1, <2>2
<1>17. ToSet(now) \subseteq Transfers
  BY <1>5 DEF ToSet
<1>18. \A t \in Transfers : status'[t] = "active" => t \in ToSet(now)
  BY <1>5, <1>15 DEF Rounds, Queueing
<1>19. Queueing'
  BY <1>6, <1>12, <1>15, <1>16, <1>17, <1>18 DEF Queueing
<1>20. active' = now /\ ToSet(active') = ToSet(now)
  BY <1>1 DEF ToSet
<1>21. \A t \in Transfers : t \in ToSet(now) => status[t] \in {"active", "queued"}
  <2> SUFFICES ASSUME NEW t \in Transfers, t \in ToSet(now) PROVE status[t] \in {"active", "queued"}
    OBVIOUS
  <2>1. CASE t \in ToSet(active)
    BY <1>1, <2>1 DEF Rounds, Queueing
  <2>2. CASE t \in {queue[i] : i \in 1..k}
    BY <1>14, <2>2 DEF Rounds, Queueing
  <2> QED BY <1>5, <2>1, <2>2
<1> QED BY <1>5, <1>10, <1>15, <1>19, <1>20, <1>21 DEF Rounds

\* Finished transfers leave the worker.
LEMMA RetireControls == ASSUME Rounds, Retire PROVE Rounds'
<1> DEFINE over == {t \in ToSet(active) : Finished(t) \/ completed[t] >= Len(Lens[t])}
<1>1. /\ At("retire") /\ NextTask /\ active' = Only(active, Transfers \ over) /\ queue' = queue
      /\ status' = [t \in Transfers |-> IF t \in over /\ ~Finished(t) THEN "done" ELSE status[t]]
  BY Zenon DEF Retire, ClientSide
<1>2. active \in Seq(Transfers) /\ ToSet(active) \subseteq Transfers
  BY DEF Rounds, Working, ToSet
<1>3. active' \in Seq(Transfers) /\ ToSet(active') = ToSet(active) \ over
  <2> HIDE DEF over
  <2>1. active' \in Seq(Transfers) /\ ToSet(active') = ToSet(active) \cap (Transfers \ over)
    BY <1>1, <1>2, OnlyKeeps
  <2> QED BY <1>2, <2>1
<1>4. tasks' = <<>>
  <2>1. tasks # <<>> /\ Head(tasks)[1] = "retire"
    BY <1>1 DEF At
  <2> QED BY <1>1, <2>1, NextTaskIs DEF Rounds, Working
<1>5. Working'
  <2>1. status' \in [Transfers -> Statuses]
    BY <1>1 DEF Rounds, Working, Statuses
  <2>2. tasks' \in Seq(TasksOf(ToSet(active))') /\ Ordered(tasks')
    BY <1>4 DEF Ordered
  <2> QED BY <1>1, <1>3, <2>1, <2>2 DEF Rounds, Working, Ordered
<1>6. Queueing'
  <2>1. ToSet(active)' = ToSet(active) \ over /\ ToSet(queue)' = ToSet(queue)
    BY <1>1, <1>3 DEF ToSet
  <2>2. \A t \in Transfers : status'[t] = IF t \in over /\ ~Finished(t) THEN "done" ELSE status[t]
    BY <1>1
  <2>3. over \subseteq ToSet(active) /\ \A t \in ToSet(active) \ over : ~Finished(t)
    OBVIOUS
  <2>4. \A t \in ToSet(active) : status[t] \in {"active", "failed"}
    BY DEF Rounds, Queueing
  <2>5. \A t \in ToSet(active) \ over : status[t] = "active"
    BY <2>3, <2>4 DEF Finished
  <2> HIDE DEF over
  <2>6. \A t \in ToSet(active)' : status'[t] = "active"
    BY <1>2, <2>1, <2>2, <2>5
  <2>7. \A t \in Transfers : t \in ToSet(queue)' <=> status'[t] = "queued"
    <3> TAKE t \in Transfers
    <3>1. t \in ToSet(queue) <=> status[t] = "queued"
      BY DEF Rounds, Queueing
    <3>2. t \in over => status[t] # "queued"
      BY <2>3, <2>4
    <3> QED BY <2>1, <2>2, <3>1, <3>2
  <2>8. \A t \in Transfers : status'[t] = "active" => t \in ToSet(active)'
    <3> SUFFICES ASSUME NEW t \in Transfers, status'[t] = "active" PROVE t \in ToSet(active)'
      OBVIOUS
    <3>1. status[t] = "active" /\ ~(t \in over /\ ~Finished(t))
      BY <2>2
    <3>2. t \notin over
      BY <3>1 DEF Finished
    <3> QED BY <2>1, <3>1, <3>2 DEF Rounds, Queueing
  <2> QED BY <1>1, <2>6, <2>7, <2>8, ZenonT(30) DEF Rounds, Queueing
<1> QED BY <1>5, <1>6 DEF Rounds

\* A fatal error of the completion queue fails all that are active.
LEMMA PollFailsControls == ASSUME Rounds, PollFails PROVE Rounds'
<1>1. /\ Fail(ToSet(active)) /\ active' = <<>> /\ tasks' = <<>> /\ queue' = queue
  BY DEF PollFails, ClientSide
<1>2. ToSet(active') = {} /\ ToSet(active)' = {} /\ ToSet(queue)' = ToSet(queue)
  BY <1>1 DEF ToSet
<1>3. /\ status' \in [Transfers -> Statuses]
      /\ \A t \in Transfers : status'[t] = status[t] \/ (t \in ToSet(active) /\ status'[t] = "failed")
      /\ \A t \in ToSet(active) : t \in Transfers => status'[t] \in {"done", "failed"}
  BY <1>1, FailKeeps DEF Rounds
<1>4. Working'
  BY <1>1, <1>3 DEF Rounds, Working, Ordered
<1>5. \A t \in Transfers : t \in ToSet(queue)' <=> status'[t] = "queued"
  <2> TAKE t \in Transfers
  <2>1. t \in ToSet(queue) <=> status[t] = "queued"
    BY DEF Rounds, Queueing
  <2>2. t \in ToSet(active) => status[t] # "queued"
    BY DEF Rounds, Queueing
  <2> QED BY <1>2, <1>3, <2>1, <2>2
<1>6. \A t \in Transfers : status'[t] # "active"
  <2> SUFFICES ASSUME NEW t \in Transfers, status'[t] = "active" PROVE FALSE
    OBVIOUS
  <2>1. status[t] = "active"
    BY <1>3
  <2>2. t \in ToSet(active)
    BY <2>1 DEF Rounds, Queueing
  <2> QED BY <1>3, <2>2
<1>7. Queueing'
  BY <1>1, <1>2, <1>5, <1>6 DEF Rounds, Queueing
<1> QED BY <1>4, <1>7 DEF Rounds

\* A failure of transfers that have begun fails active ones.
LEMMA FailBegun ==
    ASSUME Rounds, NEW S, Fail(S), \A t \in S : t \in Transfers => status[t] \notin {"idle", "queued"}
    PROVE  /\ status' \in [Transfers -> Statuses]
           /\ \A t \in Transfers : status'[t] = status[t] \/ (status[t] = "active" /\ status'[t] = "failed")
<1>1. /\ status' \in [Transfers -> Statuses]
      /\ \A t \in Transfers : status'[t] = status[t] \/ (t \in S /\ status'[t] = "failed" /\ ~Finished(t))
  BY FailKeeps DEF Rounds
<1>2. \A t \in Transfers : t \in S /\ ~Finished(t) => status[t] = "active"
  BY DEF Rounds, Working, Statuses, Finished
<1> QED BY <1>1, <1>2

\* tryAlloc and what its caller does with what it returns.
Trying == LoadAlloc \/ StartAgain \/ NoSpace \/ AdvanceCopy \/ AdvanceRingFull \/ FreeRefused

\* The steps of tryAlloc and of a reset that change nothing but the allocators, ...
Aside == ResetAlloc \/ ResetFree \/ LoadAlloc \/ StartAgain \/ NoSpace \/ AdvanceRingFull \/ FreeRefused

\* ... the worker's tasks, and what is known to have gone wrong.
LEMMA AsideStays ==
    ASSUME Aside
    PROVE  /\ UNCHANGED <<status, queue, active, nextChunk, completed, pipe, requests, results, recycled, held,
                          pool, raised, out, copies, wire, cq, faults>>
           /\ taint' \in {taint, taint \cup {"reset"}}
BY DEF Aside, ResetAlloc, ResetFree, LoadAlloc, StartAgain, NoSpace, AdvanceRingFull, FreeRefused, Take, Disturb,
       worker, copier, nic, ClientSide

\* tryAlloc and its caller change no transfer.
LEMMA TryingStays ==
    ASSUME Trying
    PROVE  /\ Advancing /\ At("advance") /\ (Stay \/ NextTask)
           /\ UNCHANGED <<status, active, ClientSide, reset, results, recycled, held, pool, copies, raised,
                          nic, faults>>
BY DEF Trying, LoadAlloc, StartAgain, NoSpace, AdvanceCopy, AdvanceRingFull, FreeRefused, Take, Advancing,
       copier, allocator

\* Every step.
LEMMA StepRounds == ASSUME Rounds, CqBegun, [Next]_vars PROVE Rounds'
<1>0. ASSUME UNCHANGED <<status, queue, active, tasks>> PROVE Rounds'
  BY <1>0 DEF Rounds, Working, Queueing, ToSet, TasksOf, Busy, Ordered
<1>1. ASSUME UNCHANGED <<status, queue, active>>, tasks # <<>>, Stay \/ (NextTask /\ Head(tasks)[1] # "retire")
      PROVE  Rounds'
  BY <1>1, OneTask DEF Rounds, Working
<1>2. /\ ToSet(active) \subseteq Transfers /\ \A t \in ToSet(active) : status[t] \in {"active", "failed"}
  BY Contexts DEF Rounds, Working, Queueing, ToSet
<1>3. ASSUME NEW S, Fail(S), \A t \in S : t \in Transfers => status[t] \notin {"idle", "queued"},
             UNCHANGED <<queue, active>>, tasks # <<>>, NextTask /\ Head(tasks)[1] # "retire"
      PROVE  Rounds'
  BY <1>3, FailBegun, OneTask
<1>4. CASE \E t \in Transfers : Start(t)
  BY <1>4, StartControls
<1>5. CASE Begin
  BY <1>5, BeginControls
<1>6. CASE Dispatch
  <2>1. At("dispatch") /\ NextTask /\ UNCHANGED <<queue, active>>
    BY <1>6 DEF Dispatch, ClientSide
  <2> DEFINE S == UNION {{p[1] : p \in Awaiting(r)} : r \in {r \in ToSet(results) : ~r.ok /\ Awaiting(r) # {}}}
  <2>2. Fail(S)
    BY <1>6 DEF Dispatch
  <2>3. \A t \in S : t \in ToSet(active)
    BY DEF Awaiting
  <2> HIDE DEF S
  <2>4. tasks # <<>> /\ Head(tasks)[1] # "retire"
    BY <2>1 DEF At
  <2> QED BY <1>2, <1>3, <2>1, <2>2, <2>3, <2>4
<1>7. CASE Trying \/ AdvanceEnds
  <2>1. At("advance") /\ UNCHANGED <<status, queue, active>> /\ (Stay \/ NextTask)
    BY <1>7, TryingStays DEF AdvanceEnds, ClientSide
  <2>2. tasks # <<>> /\ Head(tasks)[1] # "retire"
    BY <2>1 DEF At
  <2> QED BY <1>1, <2>1, <2>2
<1>8. CASE AssignDirect \/ AssignProxy \/ AssignEnds
  <2>1. At("assign") /\ UNCHANGED <<status, queue, active>> /\ (Stay \/ NextTask)
    BY <1>8 DEF AssignDirect, AssignProxy, AssignEnds, CanAssign, AssignNext, ClientSide
  <2>2. tasks # <<>> /\ Head(tasks)[1] # "retire"
    BY <2>1 DEF At
  <2> QED BY <1>1, <2>1, <2>2
<1>9. CASE FreePosted \/ PostProxy \/ PostEnds
  <2>1. At("post") /\ UNCHANGED <<status, queue, active>> /\ (Stay \/ NextTask)
    BY <1>9 DEF FreePosted, PostProxy, PostEnds, CanPost, Posting, ClientSide
  <2>2. tasks # <<>> /\ Head(tasks)[1] # "retire"
    BY <2>1 DEF At
  <2> QED BY <1>1, <2>1, <2>2
<1>10. CASE Poll
  <2>1. At("poll") /\ NextTask /\ UNCHANGED <<queue, active>>
    BY <1>10 DEF Poll
  <2> DEFINE S == {w.chunk[1] : w \in cq \ {w \in cq : w.ok}}
  <2>2. Fail(S)
    BY <1>10 DEF Poll
  <2>3. \A t \in S : t \in Transfers => status[t] \notin {"idle", "queued"}
    BY DEF CqBegun
  <2> HIDE DEF S
  <2>4. tasks # <<>> /\ Head(tasks)[1] # "retire"
    BY <2>1 DEF At
  <2> QED BY <1>3, <2>1, <2>2, <2>3, <2>4
<1>11. CASE Retire
  BY <1>11, RetireControls
<1>12. CASE PostFails
  <2>2. At("assign") \/ At("post")
    BY <1>12 DEF PostFails, CanPost, Posting, CanAssign
  <2>3. Fail({Context}) /\ NextTask /\ UNCHANGED <<queue, active>>
    BY <1>12 DEF PostFails, ClientSide
  <2>4. Context \in ToSet(active)
    BY <2>2, Contexts DEF Rounds
  <2>5. tasks # <<>> /\ Head(tasks)[1] # "retire"
    BY <2>2 DEF At
  <2> QED BY <1>2, <1>3, <2>3, <2>4, <2>5
<1>13. CASE PollFails
  BY <1>13, PollFailsControls
<1>14. CASE CopyThread \/ LaunchFails
  <2>1. UNCHANGED <<status, queue, active, tasks>>
    BY <1>14 DEF CopyThread, LaunchFails, Launch, DrainRecycled, PushResult, Client, worker
  <2> QED BY <1>0, <2>1
<1>15. CASE Gpu \/ Nic \/ NicFails
  <2>1. UNCHANGED <<status, queue, active, tasks>>
    BY <1>15 DEF Gpu, Nic, NicFails, FinishCopy, Complete, Client, worker
  <2> QED BY <1>0, <2>1
<1>16. CASE UNCHANGED vars
  BY <1>0, <1>16 DEF vars
<1>17. CASE ResetAlloc \/ ResetFree
  BY <1>0, <1>17 DEF ResetAlloc, ResetFree, worker
<1> QED BY <1>17, <1>4, <1>5, <1>6, <1>7, <1>8, <1>9, <1>10, <1>11, <1>12, <1>13, <1>14, <1>15,
    <1>16 DEF Next, Worker, Trying

-----------------------------------------------------------------------------
(* The invariant.                                                           *)

CopyRecord == [chunk : Chunks, addr : 0..(BufferSize - 1), flag : Nat, got : BOOLEAN]
PipeRecord == [pending : Seq(Chunks), copying : Seq(CopyRecord), inflight : Seq(Nat), arrived : Nat, assigned : Int]
ResultRecord == [chunk : Chunks, flag : Nat, ok : BOOLEAN]
WireRecord == [chunk : Chunks, nic : Nics, addr : -1..(BufferSize - 1)]
CqRecord == [chunk : Chunks, nic : Nics, ok : BOOLEAN]

\* What the worker keeps of transfers, pipelines, NICs and buffers.
Kept ==
    /\ nextChunk \in [Transfers -> Nat] /\ completed \in [Transfers -> Nat]
    /\ \A t \in Transfers : nextChunk[t] \in 1..(Len(Lens[t]) + 1)
    /\ pipe \in [Pipelines -> PipeRecord]
    /\ out \in [Nics -> Int]
    /\ buffer \in [Gpus -> [alloc : 0..BufferSize, freed : Nat]]

\* tryAlloc is under way only for a chunk that waits for it, and what it found fits.
Trial ==
    /\ trying \in [at : {"no", "full", "fits", "refused"}, cur : 0..BufferSize]
    /\ trying.at # "no" => Advancing
    /\ trying.at = "fits" => Fits(trying.cur, Wanted)
    /\ reset \in [done : SUBSET ProxyNics, half : ProxyNics \cup {0}]
Control == Rounds /\ Trial

\* What the rings and the copy thread hold.
Rings ==
    /\ requests \in Seq([chunk : Chunks, gpu : ProxyGpus]) /\ Len(requests) <= RingCapacity
    /\ results \in Seq(ResultRecord) /\ Len(results) <= RingCapacity
    /\ held \in Seq(ResultRecord) /\ Len(held) <= 1
    /\ pool \in Seq(Flags) /\ recycled \in Seq(Flags) /\ Len(recycled) <= RingCapacity
    /\ raised \subseteq Flags

\* What the hardware works on.
Hardware ==
    /\ copies \subseteq [chunk : Chunks, flag : Nat] /\ IsFiniteSet(copies)
    /\ wire \subseteq WireRecord /\ IsFiniteSet(wire)
    /\ cq \subseteq CqRecord /\ IsFiniteSet(cq)
    /\ taint \subseteq {"reset", "failed", "leak"} /\ faults \in 0..MaxFaults

Typed == Kept /\ Rings /\ Hardware

\* Where the chunks are that have been assigned to a NIC and are not completed.
PipeSpots == [p \in Pipelines |->
    {<<c, "pending", p>> : c \in ToSet(pipe[p].pending)}
    \cup {<<e.chunk, "copying", p>> : e \in ToSet(pipe[p].copying)}]
NicSpots == {<<w.chunk, "wire", w>> : w \in wire} \cup {<<w.chunk, "cq", w>> : w \in cq}
Spots == NicSpots \cup UNION {PipeSpots[p] : p \in Pipelines}

\* No two members of a sequence are the same; of records, about the same chunk.
Once(s) == \A i, j \in 1..Len(s) : s[i] = s[j] => i = j
Distinct(s) == \A i, j \in 1..Len(s) : s[i].chunk = s[j].chunk => i = j

\* A chunk is in one place at most, and in a pipeline of its transfer.
Single == \A a, b \in Spots : a[1] = b[1] => a = b
Orderly(r, t) ==
    /\ Once(r.pending) /\ \A c \in ToSet(r.pending) : c[1] = t
    /\ Distinct(r.copying) /\ \A e \in ToSet(r.copying) : e.chunk[1] = t
Apart == \A p \in Pipelines : Orderly(pipe[p], p[1])

\* A chunk has a place only after it was assigned, and none was before a transfer begins.
Begun ==
    /\ \A a \in Spots : a[1][2] < nextChunk[a[1][1]]
    /\ \A t \in Transfers : status[t] \in {"idle", "queued"} => nextChunk[t] = 1
Places == Single /\ Apart /\ Begun

\* A transfer counts a completion for a chunk that is in no place any more.
Gone(t) == {i \in 1..(nextChunk[t] - 1) : <<t, i>> \notin {a[1] : a \in Spots}}
Counted == \A t \in Transfers : completed[t] <= Cardinality(Gone(t))

\* The work requests S that are on a NIC, and those of a pipeline.
OnNic(S, n) == {w \in S : w.nic = n}
Of(S, p) == {w \in S : w.chunk[1] = p[1] /\ w.nic = p[2]}
Used(p) == Len(pipe[p].pending) + Len(pipe[p].copying) + Cardinality(Of(wire, p)) + Cardinality(Of(cq, p))
Loads ==
    /\ \A n \in Nics : out[n] = Cardinality(OnNic(wire, n)) + Cardinality(OnNic(cq, n)) /\ out[n] <= MaxOutstanding
    /\ \A p \in Pipelines : pipe[p].assigned >= Used(p) /\ (~Finished(p[1]) => pipe[p].assigned = Used(p))

\* The chunks a request or a result is about.
ChunksOf(s) == {s[i].chunk : i \in 1..Len(s)}
Ringing == ChunksOf(requests) \cup ChunksOf(results) \cup ChunksOf(held)

\* The rings hold a chunk once: one that waits for its copy, unless its transfer is gone.
RingsApart ==
    /\ Distinct(requests) /\ Distinct(results)
    /\ ChunksOf(requests) \cap ChunksOf(results) = {} /\ ChunksOf(requests) \cap ChunksOf(held) = {}
    /\ ChunksOf(results) \cap ChunksOf(held) = {}
    /\ \A c \in Ringing : c[2] < nextChunk[c[1]] /\ \A a \in Spots : a[1] = c => a[2] = "copying"
    /\ \A p \in Pipelines : \A e \in ToSet(pipe[p].copying) :
          /\ e.got => e.chunk \notin Ringing
          /\ ~e.got /\ p[1] \in ToSet(active) => e.chunk \in Ringing
          /\ ~e.got => e.flag = NoFlag

\* Up to the first failure.
Unfailed == \A t \in Transfers : status[t] = "failed" => "failed" \in taint
Awaited ==
    \A c \in Ringing :
        \E p \in Pipelines : p[1] \in ToSet(active) /\ \E e \in ToSet(pipe[p].copying) : e.chunk = c
FlagsOwned ==
    /\ IsInjective(Drained)
    /\ \A a, b \in Entrusted : a[2] = b[2] /\ a[2] # NoFlag => a = b
    /\ \A a \in Entrusted : a[2] \notin ToSet(Drained)
    /\ \A k \in copies : <<k.chunk, k.flag>> \in Entrusted /\ k.flag \notin raised
    /\ \A k \in copies : \A w \in wire : k.chunk # w.chunk
Sound == "failed" \notin taint => Awaited /\ FlagsOwned

-----------------------------------------------------------------------------
(* Sequences and their elements.                                            *)

\* The elements of a sequence are finitely many.
LEMMA SeqSet ==
    ASSUME NEW T, NEW s \in Seq(T)
    PROVE  /\ Len(s) \in Nat /\ DOMAIN s = 1..Len(s) /\ ToSet(s) = {s[i] : i \in 1..Len(s)}
           /\ ToSet(s) \subseteq T /\ IsFiniteSet(ToSet(s))
<1>1. Len(s) \in Nat /\ DOMAIN s = 1..Len(s) /\ \A i \in 1..Len(s) : s[i] \in T
  OBVIOUS
<1>2. ToSet(s) = {s[i] : i \in 1..Len(s)} /\ ToSet(s) \subseteq T
  BY <1>1 DEF ToSet
<1>3. s \in Surjection(1..Len(s), ToSet(s))
  BY <1>1, <1>2 DEF Surjection
<1>4. 1 \in Int /\ Len(s) \in Int
  BY <1>1
<1>5. IsFiniteSet(1..Len(s))
  BY <1>4, FS_Interval
<1> QED BY <1>1, <1>2, <1>3, <1>5, FS_Surjection

\* One more element.
LEMMA SeqAppend ==
    ASSUME NEW T, NEW s \in Seq(T), NEW x \in T
    PROVE  /\ Append(s, x) \in Seq(T) /\ Len(Append(s, x)) = Len(s) + 1
           /\ \A i \in 1..Len(s) : Append(s, x)[i] = s[i]
           /\ Append(s, x)[Len(s) + 1] = x
           /\ ToSet(Append(s, x)) = ToSet(s) \cup {x}
<1>1. /\ Append(s, x) \in Seq(T) /\ Len(Append(s, x)) = Len(s) + 1 /\ Len(s) \in Nat
      /\ \A i \in 1..Len(s) : Append(s, x)[i] = s[i]
      /\ Append(s, x)[Len(s) + 1] = x
  OBVIOUS
<1> DEFINE r == Append(s, x)
<1>2. ToSet(r) = {r[i] : i \in 1..(Len(s) + 1)} /\ ToSet(s) = {s[i] : i \in 1..Len(s)}
  BY <1>1, SeqSet
<1>3. \A i : i \in 1..(Len(s) + 1) <=> i \in 1..Len(s) \/ i = Len(s) + 1
  BY <1>1
<1> HIDE DEF r
<1>4. ToSet(r) = ToSet(s) \cup {x}
  BY <1>1, <1>2, <1>3 DEF r
<1> QED BY <1>1, <1>4 DEF r

\* One element less.
LEMMA SeqTail ==
    ASSUME NEW T, NEW s \in Seq(T), s # <<>>
    PROVE  /\ Head(s) = s[1] /\ Head(s) \in T /\ Head(s) \in ToSet(s) /\ 1 \in 1..Len(s) /\ Len(s) \in Nat
           /\ Tail(s) \in Seq(T) /\ Len(Tail(s)) = Len(s) - 1
           /\ \A i \in 1..(Len(s) - 1) : Tail(s)[i] = s[i + 1] /\ i + 1 \in 1..Len(s)
           /\ ToSet(s) = ToSet(Tail(s)) \cup {Head(s)}
<1>1. /\ Head(s) = s[1] /\ Head(s) \in T /\ Len(s) \in Nat /\ Len(s) # 0
      /\ Tail(s) \in Seq(T) /\ Len(Tail(s)) = Len(s) - 1
      /\ \A i \in 1..(Len(s) - 1) : Tail(s)[i] = s[i + 1]
  OBVIOUS
<1> DEFINE r == Tail(s)
           n == Len(s)
<1>2. ToSet(r) = {r[i] : i \in 1..(n - 1)} /\ ToSet(s) = {s[i] : i \in 1..n}
  BY <1>1, SeqSet
<1> HIDE DEF r, n
<1>3. n \in Nat /\ n # 0 /\ 1 \in 1..n /\ \A i \in 1..(n - 1) : i + 1 \in 1..n
  BY <1>1 DEF n
<1>4. ASSUME NEW i \in 1..n, i # 1 PROVE i - 1 \in 1..(n - 1) /\ s[i] = r[i - 1]
  <2>1. i - 1 \in 1..(n - 1) /\ (i - 1) + 1 = i
    BY <1>3, <1>4
  <2> QED BY <1>1, <2>1 DEF r, n
<1>5. ToSet(s) = ToSet(r) \cup {s[1]}
  <2>1. \A x \in ToSet(s) : x \in ToSet(r) \cup {s[1]}
    BY <1>2, <1>4
  <2>2. \A x \in ToSet(r) : x \in ToSet(s)
    BY <1>1, <1>2, <1>3 DEF r, n
  <2>3. s[1] \in ToSet(s)
    BY <1>2, <1>3
  <2> QED BY <2>1, <2>2, <2>3
<1> QED BY <1>1, <1>3, <1>5 DEF r, n

\* Two sequences laid end to end.
LEMMA SeqConcat ==
    ASSUME NEW T, NEW r \in Seq(T), NEW s \in Seq(T)
    PROVE  /\ r \o s \in Seq(T) /\ Len(r \o s) = Len(r) + Len(s) /\ Len(r) \in Nat /\ Len(s) \in Nat
           /\ \A i \in 1..Len(r) : (r \o s)[i] = r[i]
           /\ \A i \in 1..Len(s) : (r \o s)[Len(r) + i] = s[i]
           /\ \A i \in 1..(Len(r) + Len(s)) : i \in 1..Len(r) \/ \E j \in 1..Len(s) : i = Len(r) + j
           /\ ToSet(r \o s) = ToSet(r) \cup ToSet(s)
<1> DEFINE q == r \o s
           m == Len(r)
           n == Len(s)
<1>1. /\ q \in Seq(T) /\ Len(q) = m + n /\ m \in Nat /\ n \in Nat
      /\ \A i \in 1..m : q[i] = r[i]
      /\ \A i \in 1..n : q[m + i] = s[i]
  OBVIOUS
<1>2. /\ ToSet(q) = {q[i] : i \in 1..(m + n)} /\ ToSet(r) = {r[i] : i \in 1..m}
      /\ ToSet(s) = {s[i] : i \in 1..n}
  BY <1>1, SeqSet
<1> HIDE DEF q, m, n
<1>3. ASSUME NEW i \in 1..(m + n) PROVE i \in 1..m \/ \E j \in 1..n : i = m + j
  <2>1. i \in 1..m \/ (i - m \in 1..n /\ i = m + (i - m))
    BY <1>1
  <2> QED BY <2>1
<1>4. \A i \in 1..m : i \in 1..(m + n)
  BY <1>1
<1>5. \A i \in 1..n : m + i \in 1..(m + n)
  BY <1>1
<1>6. ToSet(q) = ToSet(r) \cup ToSet(s)
  <2>1. ASSUME NEW x \in ToSet(q) PROVE x \in ToSet(r) \cup ToSet(s)
    <3>1. PICK i \in 1..(m + n) : x = q[i]
      BY <1>2
    <3>2. CASE i \in 1..m
      BY <1>1, <1>2, <3>1, <3>2
    <3>3. CASE \E j \in 1..n : i = m + j
      BY <1>1, <1>2, <3>1, <3>3
    <3> QED BY <1>3, <3>2, <3>3
  <2>2. \A x \in ToSet(r) : x \in ToSet(q)
    BY <1>1, <1>2, <1>4
  <2>3. \A x \in ToSet(s) : x \in ToSet(q)
    BY <1>1, <1>2, <1>5
  <2> QED BY <2>1, <2>2, <2>3
<1> QED BY <1>1, <1>3, <1>6 DEF q, m, n

\* The flags of finitely many things are finitely many.
LEMMA FlagsFinite == ASSUME NEW S, IsFiniteSet(S) PROVE IsFiniteSet({x.flag : x \in S})
<1> DEFINE f == [x \in S |-> x.flag]
<1>1. f \in Surjection(S, {x.flag : x \in S})
  BY DEF Surjection
<1> QED BY <1>1, FS_Surjection

\* The smaller of two.
LEMMA MinOfTwo ==
    ASSUME NEW a \in Int, NEW b \in Int
    PROVE  Min({a, b}) \in {a, b} /\ Min({a, b}) <= a /\ Min({a, b}) <= b
<1>1. \E x \in {a, b} : \A y \in {a, b} : x <= y
  OBVIOUS
<1>2. Min({a, b}) \in {a, b} /\ \A y \in {a, b} : Min({a, b}) <= y
  BY <1>1 DEF Min
<1> QED BY <1>2

\* Flags are given back as far as the ring has room.
LEMMA RecycleIs ==
    ASSUME Rings, NEW flags \in Seq(Flags), Recycle(flags)
    PROVE  /\ recycled' \in Seq(Flags) /\ Len(recycled') <= RingCapacity
           /\ \E k \in 0..Len(flags) : recycled' = recycled \o SubSeq(flags, 1, k)
           /\ flags = <<>> => recycled' = recycled
<1> DEFINE k == Min({Len(flags), RingCapacity - Len(recycled)})
<1>1. recycled' = recycled \o SubSeq(flags, 1, k)
  BY DEF Recycle
<1>2. /\ recycled \in Seq(Flags) /\ Len(recycled) \in Nat /\ Len(flags) \in Nat /\ RingCapacity \in Nat
      /\ Len(recycled) <= RingCapacity
  BY Sizing DEF Rings
<1>3. k \in {Len(flags), RingCapacity - Len(recycled)} /\ k <= Len(flags) /\ k <= RingCapacity - Len(recycled)
  <2>1. Len(flags) \in Int /\ RingCapacity - Len(recycled) \in Int
    BY <1>2
  <2> QED BY <2>1, MinOfTwo
<1> HIDE DEF k
<1>4. k \in 0..Len(flags)
  BY <1>2, <1>3
<1>5. SubSeq(flags, 1, k) \in Seq(Flags) /\ Len(SubSeq(flags, 1, k)) = k
  BY <1>2, <1>4
<1>6. recycled' \in Seq(Flags) /\ Len(recycled') = Len(recycled) + k
  BY <1>1, <1>2, <1>5
<1>7. flags = <<>> => recycled' = recycled
  <2> SUFFICES ASSUME flags = <<>> PROVE recycled' = recycled
    OBVIOUS
  <2>1. k = 0
    BY <1>2, <1>4
  <2>2. SubSeq(flags, 1, k) = <<>>
    <3>1. 1 \in Int /\ k \in Int /\ k < 1
      BY <2>1
    <3> QED BY <3>1, SubSeqEmpty
  <2>3. recycled \o <<>> = recycled
    BY <1>2, ConcatEmptySeq
  <2> QED BY <1>1, <2>2, <2>3, Zenon
<1>8. Len(recycled') <= RingCapacity
  BY <1>2, <1>3, <1>4, <1>6
<1>9. \E j \in 0..Len(flags) : recycled' = recycled \o SubSeq(flags, 1, j)
  BY <1>1, <1>4
<1> QED BY <1>6, <1>7, <1>8, <1>9

\* A flag that is made is not one of those in use.
LEMMA NewFlagIs ==
    ASSUME Rings, Hardware, pipe \in [Pipelines -> PipeRecord]
    PROVE  NewFlag \in Flags /\ NewFlag \notin Known
<1>1. IsFiniteSet(ToSet(Drained))
  <2>1. Drained \in Seq(Flags)
    BY DEF Rings, Drained
  <2> QED BY <2>1, SeqSet
<1>2. IsFiniteSet({r.flag : r \in ToSet(results)})
  <2>1. IsFiniteSet(ToSet(results))
    BY SeqSet DEF Rings
  <2> QED BY <2>1, FlagsFinite
<1>3. IsFiniteSet({k.flag : k \in copies})
  BY FlagsFinite DEF Hardware
<1>4. IsFiniteSet(UNION {{e.flag : e \in ToSet(s)} : s \in Copying})
  <2> DEFINE f == [p \in Pipelines |-> {e.flag : e \in ToSet(pipe[p].copying)}]
             T == {{e.flag : e \in ToSet(s)} : s \in Copying}
  <2>1. f \in Surjection(Pipelines, T)
    <3>1. \A p \in Pipelines : f[p] \in T
      BY DEF Copying
    <3>2. \A t \in T : \E p \in Pipelines : f[p] = t
      BY DEF Copying
    <3> HIDE DEF T
    <3>3. f \in [Pipelines -> T]
      BY <3>1
    <3> QED BY <3>2, <3>3 DEF Surjection
  <2>2. IsFiniteSet(T)
    <3> HIDE DEF T, f
    <3> QED BY <2>1, Finiteness, FS_Surjection
  <2>3. \A t \in T : IsFiniteSet(t)
    <3> SUFFICES ASSUME NEW p \in Pipelines PROVE IsFiniteSet({e.flag : e \in ToSet(pipe[p].copying)})
      BY DEF Copying
    <3>1. pipe[p].copying \in Seq(CopyRecord)
      BY DEF PipeRecord
    <3>2. IsFiniteSet(ToSet(pipe[p].copying))
      BY <3>1, SeqSet
    <3> QED BY <3>2, FlagsFinite
  <2> HIDE DEF T
  <2>4. IsFiniteSet(UNION T)
    BY <2>2, <2>3, FS_UNION
  <2> QED BY <2>4 DEF T
<1>5. IsFiniteSet(Known)
  <2>1. IsFiniteSet(ToSet(Drained) \cup {r.flag : r \in ToSet(results)})
    BY <1>1, <1>2, FS_Union
  <2>2. IsFiniteSet(ToSet(Drained) \cup {r.flag : r \in ToSet(results)} \cup {k.flag : k \in copies})
    BY <1>3, <2>1, FS_Union
  <2>3. IsFiniteSet(ToSet(Drained) \cup {r.flag : r \in ToSet(results)} \cup {k.flag : k \in copies}
                      \cup UNION {{e.flag : e \in ToSet(s)} : s \in Copying})
    BY <1>4, <2>2, FS_Union
  <2> QED BY <2>3 DEF Known
<1>6. PICK n \in Nat : n = Cardinality(Known)
  BY <1>5, FS_CardinalityType
<1> DEFINE S == 1..(n + 1) \ Known
<1>7. S # {}
  <2> SUFFICES ASSUME 1..(n + 1) \subseteq Known PROVE FALSE
    OBVIOUS
  <2>1. Cardinality(1..(n + 1)) <= n
    BY <1>5, <1>6, FS_Subset
  <2>2. 1 \in Int /\ n + 1 \in Int
    BY <1>6
  <2>3. Cardinality(1..(n + 1)) = n + 1
    BY <1>6, <2>2, FS_Interval
  <2> QED BY <1>6, <2>1, <2>3
<1>8. S \subseteq Nat
  BY <1>6
<1> HIDE DEF S
<1>9. \E x \in S : \A y \in S : x <= y
  BY <1>7, <1>8, LeastNatural
<1>10. NewFlag = Min(S)
  BY <1>6 DEF NewFlag, S
<1>11. Min(S) \in S
  BY <1>9 DEF Min
<1>12. NewFlag \in S
  BY <1>10, <1>11
<1> QED BY <1>12 DEF S, Flags, NoFlag

\* The initial state.
LEMMA InitTyped == Init => Typed
<1> SUFFICES ASSUME Init PROVE Typed
  OBVIOUS
<1>1. Kept
  <2>1. EmptyPipe \in PipeRecord
    BY DEF EmptyPipe, PipeRecord
  <2>2. EmptyBuffer \in [alloc : 0..BufferSize, freed : Nat]
    BY Sizing DEF EmptyBuffer
  <2>3. \A t \in Transfers : 1 \in 1..(Len(Lens[t]) + 1)
    BY ChunkTyped
  <2> QED BY <2>1, <2>2, <2>3 DEF Init, Kept
<1>2. Rings
  BY Sizing DEF Init, Rings, Flags
<1>3. Hardware
  BY FS_EmptySet, Sizing DEF Init, Hardware
<1> QED BY <1>1, <1>2, <1>3 DEF Typed

-----------------------------------------------------------------------------
(* What the steps of the worker do to its pipelines.                        *)

\* The other pipelines stay.
Elsewhere(p) == \A q \in Pipelines : q # p => pipe'[q] = pipe[q]

\* The first pending chunk of p is on its way into the buffer.
Advanced(p, e) ==
    /\ p[1] \in ToSet(active) /\ ~Finished(p[1])
    /\ pipe[p].pending # <<>> /\ e.chunk = Head(pipe[p].pending) /\ ~e.got /\ e.flag = NoFlag
    /\ Elsewhere(p)
    /\ pipe'[p] = [pending |-> Tail(pipe[p].pending), copying |-> Append(pipe[p].copying, e),
                   inflight |-> pipe[p].inflight, arrived |-> pipe[p].arrived, assigned |-> pipe[p].assigned]
    /\ Len(requests) < RingCapacity
    /\ \E g \in ProxyGpus : requests' = Append(requests, [chunk |-> e.chunk, gpu |-> g])
    /\ trying.at = "fits" /\ e.addr = trying.cur /\ Target = ProxyGpu(p[2])
    /\ e.addr + LenOf(e.chunk) <= BufferSize
    /\ buffer' = [buffer EXCEPT ![ProxyGpu(p[2])].alloc = e.addr + LenOf(e.chunk)]

\* The parts of a pipeline.
LEMMA PipeParts ==
    ASSUME Kept, NEW p \in Pipelines
    PROVE  /\ pipe[p].pending \in Seq(Chunks) /\ pipe[p].copying \in Seq(CopyRecord)
           /\ pipe[p].inflight \in Seq(Nat) /\ pipe[p].arrived \in Nat /\ pipe[p].assigned \in Int
           /\ pipe[p] = [pending |-> pipe[p].pending, copying |-> pipe[p].copying, inflight |-> pipe[p].inflight,
                         arrived |-> pipe[p].arrived, assigned |-> pipe[p].assigned]
BY DEF Kept, PipeRecord

\* The chunk that the worker seeks space for, and the buffer it seeks it in.
LEMMA TargetIs ==
    ASSUME Working, Kept, Advancing
    PROVE  /\ Pipeline \in Pipelines /\ Pipeline[1] = Context /\ Context \in ToSet(active)
           /\ Pipeline[2] \in ProxyNics /\ Target = ProxyGpu(Pipeline[2]) /\ Target \in ProxyGpus /\ Target \in Gpus
           /\ Head(pipe[Pipeline].pending) \in Chunks
           /\ Wanted = LenOf(Head(pipe[Pipeline].pending)) /\ Wanted \in 1..BufferSize
           /\ buffer[Target] \in [alloc : 0..BufferSize, freed : Nat]
<1>1. At("advance") /\ pipe[Pipeline].pending # <<>>
  BY DEF Advancing
<1>2. /\ Pipeline \in Pipelines /\ Pipeline[1] = Context /\ Context \in ToSet(active)
      /\ Pipeline[2] \in ProxyNics
  BY <1>1, Contexts
<1>3. Target = ProxyGpu(Pipeline[2])
  BY DEF Target, Pipeline
<1>4. Target \in ProxyGpus /\ Target \in Gpus
  BY <1>2, <1>3, ProxyGpuTyped DEF ProxyGpus
<1>5. Head(pipe[Pipeline].pending) \in Chunks
  BY <1>1, <1>2, PipeParts, SeqTail
<1>6. Wanted = LenOf(Head(pipe[Pipeline].pending)) /\ Wanted \in 1..BufferSize
  BY <1>5, ChunkTyped DEF Wanted
<1>7. buffer[Target] \in [alloc : 0..BufferSize, freed : Nat]
  BY <1>4 DEF Kept
<1> QED BY <1>2, <1>3, <1>4, <1>5, <1>6, <1>7

\* What it takes lies in the buffer.
LEMMA TakeIs ==
    ASSUME Control, Kept, Take
    PROVE  /\ Advancing /\ Stay /\ trying.at = "fits"
           /\ trying.cur \in 0..(BufferSize - 1) /\ trying.cur + Wanted \in 0..BufferSize
           /\ buffer' = [buffer EXCEPT ![Target].alloc = trying.cur + Wanted]
<1>1. /\ Advancing /\ Stay /\ trying.at = "fits"
      /\ buffer' = [buffer EXCEPT ![Target].alloc = trying.cur + Wanted]
  BY DEF Take
<1>2. Wanted \in 1..BufferSize
  BY <1>1, TargetIs DEF Control, Rounds
<1>3. trying.cur \in 0..BufferSize /\ trying.cur + Wanted <= BufferSize
  BY <1>1 DEF Control, Trial, Fits
<1> QED BY <1>1, <1>2, <1>3, Sizing

\* AdvanceCopy moves the first chunk of a pipeline into its ring buffer.
LEMMA AdvanceCopyIs ==
    ASSUME Control, Typed, AdvanceCopy
    PROVE  \E p \in Pipelines, e \in CopyRecord : Advanced(p, e)
<1> DEFINE p == Pipeline
           c == Head(pipe[p].pending)
           g == ProxyGpu(p[2])
           addr == trying.cur
           e == [chunk |-> c, addr |-> addr, flag |-> NoFlag, got |-> FALSE]
<1>0. Take /\ Kept /\ Working
  BY DEF AdvanceCopy, Typed, Control, Rounds
<1>2. p \in Pipelines /\ p[1] = Context /\ p[1] \in ToSet(active) /\ p[2] \in ProxyNics /\ Target = g
  BY <1>0, TakeIs, TargetIs
<1>1. /\ ~Finished(Context) /\ pipe[p].pending # <<>> /\ trying.at = "fits"
      /\ buffer' = [buffer EXCEPT ![g].alloc = addr + LenOf(c)]
      /\ requests' = Append(requests, [chunk |-> c, gpu |-> g])
      /\ pipe' = [pipe EXCEPT ![p].pending = Tail(@), ![p].copying = Append(@, e)]
      /\ ~Full(requests)
  BY <1>0, <1>2 DEF AdvanceCopy, Take, Advancing, Wanted
<1>4. c \in Chunks /\ LenOf(c) \in 1..BufferSize
  BY <1>0, TakeIs, TargetIs
<1>6. addr \in 0..(BufferSize - 1) /\ addr + LenOf(c) <= BufferSize
  <2>1. trying.cur \in 0..(BufferSize - 1) /\ trying.cur + Wanted \in 0..BufferSize /\ Wanted = LenOf(c)
    BY <1>0, TakeIs, TargetIs
  <2> QED BY <2>1, Sizing
<1> HIDE DEF p
<1>3. /\ pipe[p].pending \in Seq(Chunks) /\ pipe[p].copying \in Seq(CopyRecord)
  BY <1>2, PipeParts DEF Typed
<1>5. g \in ProxyGpus /\ g \in Gpus
  BY <1>2, ProxyGpuTyped DEF ProxyGpus
<1> HIDE DEF c, g, addr
<1>7. e \in CopyRecord /\ e.chunk = c /\ ~e.got /\ e.flag = NoFlag /\ e.addr = addr
  BY <1>4, <1>6 DEF CopyRecord, NoFlag
<1> HIDE DEF e
<1>8. /\ Elsewhere(p)
      /\ pipe'[p] = [pending |-> Tail(pipe[p].pending), copying |-> Append(pipe[p].copying, e),
                   inflight |-> pipe[p].inflight, arrived |-> pipe[p].arrived, assigned |-> pipe[p].assigned]
  <2>1. pipe \in [Pipelines -> PipeRecord]
    BY DEF Typed, Kept
  <2>2. Elsewhere(p)
    BY <1>1, <1>2, <2>1 DEF Elsewhere
  <2>3. pipe'[p] = [pipe[p] EXCEPT !.pending = Tail(pipe[p].pending), !.copying = Append(pipe[p].copying, e)]
    BY <1>1, <1>2, <2>1
  <2>4. pipe[p] \in PipeRecord
    BY <1>2, <2>1
  <2> QED BY <2>2, <2>3, <2>4 DEF PipeRecord
<1>9. Len(requests) < RingCapacity
  BY <1>1, Sizing DEF Full, Typed, Rings
<1>10. Advanced(p, e)
  BY <1>1, <1>2, <1>5, <1>6, <1>7, <1>8, <1>9 DEF Advanced, c, g, addr
<1> QED BY <1>2, <1>7, <1>10

\* An entry e of pipeline p becomes f: a result may have come for it.
Told(e, f, p) ==
    /\ f.chunk = e.chunk /\ f.addr = e.addr
    /\ f = e \/ (~e.got /\ f.got /\ \E r \in ToSet(results) : r.chunk = e.chunk /\ f.flag = r.flag)
    /\ p[1] \in ToSet(active) /\ ~e.got /\ (\E r \in ToSet(results) : r.chunk = e.chunk) => f.got

\* The results are given to those that await them.
Dispatched ==
    /\ pipe' \in [Pipelines -> PipeRecord]
    /\ \A p \in Pipelines :
          /\ pipe'[p].pending = pipe[p].pending /\ pipe'[p].inflight = pipe[p].inflight
          /\ pipe'[p].arrived = pipe[p].arrived /\ pipe'[p].assigned = pipe[p].assigned
          /\ Len(pipe'[p].copying) = Len(pipe[p].copying)
          /\ \A i \in 1..Len(pipe[p].copying) : Told(pipe[p].copying[i], pipe'[p].copying[i], p)
    /\ "failed" \notin taint' => taint' = taint /\ \A r \in ToSet(results) : r.ok \/ Awaiting(r) = {}
    /\ \E flags \in Seq(Flags) : Recycle(flags) /\ ((\A r \in ToSet(results) : Awaiting(r) # {}) => flags = <<>>)

\* What Dispatch makes of an entry is that entry, or the entry with its result.
LEMMA ToldIs ==
    ASSUME Typed, NEW p \in Pipelines, NEW i \in 1..Len(pipe[p].copying)
    PROVE  LET e == pipe[p].copying[i]
               fed == p \in UNION {Awaiting(r) : r \in ToSet(results)}
           IN  /\ Informed(e) \in CopyRecord
               /\ fed => Told(e, Informed(e), p)
               /\ ~fed => Told(e, e, p)
<1> DEFINE e == pipe[p].copying[i]
           mine == {r \in ToSet(results) : r.chunk = e.chunk}
           fed == p \in UNION {Awaiting(r) : r \in ToSet(results)}
           pick == CHOOSE r \in mine : TRUE
<1>1. e \in CopyRecord /\ i \in DOMAIN pipe[p].copying
  <2>1. pipe[p].copying \in Seq(CopyRecord)
    BY PipeParts DEF Typed
  <2> QED BY <2>1
<1>2. ToSet(results) \subseteq ResultRecord
  BY SeqSet DEF Typed, Rings
<1>3. Informed(e) = IF Waiting(e) /\ mine # {} THEN [e EXCEPT !.got = TRUE, !.flag = pick.flag] ELSE e
  BY DEF Informed
<1>4. ~fed => ~(p[1] \in ToSet(active) /\ ~e.got /\ \E r \in ToSet(results) : r.chunk = e.chunk)
  <2> SUFFICES ASSUME p[1] \in ToSet(active), ~e.got, NEW r \in ToSet(results), r.chunk = e.chunk PROVE fed
    OBVIOUS
  <2>1. p \in Awaiting(r)
    BY <1>1 DEF Awaiting, Waiting
  <2> QED BY <2>1
<1>5. ~fed => Told(e, e, p)
  BY <1>4, Zenon DEF Told
<1>6. mine # {} => pick \in mine
  OBVIOUS
<1> HIDE DEF e, fed, pick
<1>7. CASE Waiting(e) /\ mine # {}
  <2>1. pick \in ToSet(results) /\ pick.chunk = e.chunk /\ pick.flag \in Nat
    BY <1>2, <1>6, <1>7 DEF ResultRecord
  <2> DEFINE f == Informed(e)
  <2>2. f = [e EXCEPT !.got = TRUE, !.flag = pick.flag]
    BY <1>3, <1>7
  <2>3. f \in CopyRecord /\ f.chunk = e.chunk /\ f.addr = e.addr /\ f.got = TRUE /\ f.flag = pick.flag
    BY <1>1, <2>1, <2>2 DEF CopyRecord
  <2> HIDE DEF f
  <2>4. Told(e, f, p)
    BY <1>7, <2>1, <2>3 DEF Told, Waiting
  <2> QED BY <1>5, <2>3, <2>4 DEF f, e, fed
<1>8. CASE ~(Waiting(e) /\ mine # {})
  <2>1. Informed(e) = e
    BY <1>3, <1>8
  <2>2. ~(~e.got /\ \E r \in ToSet(results) : r.chunk = e.chunk)
    BY <1>8 DEF Waiting
  <2>3. Told(e, e, p)
    BY <2>2, Zenon DEF Told
  <2> QED BY <1>1, <2>1, <2>3 DEF e, fed
<1> QED BY <1>7, <1>8

\* Dispatch gives the results to those that await them.
LEMMA DispatchIs == ASSUME Typed, Dispatch PROVE Dispatched
<1> DEFINE fed == UNION {Awaiting(r) : r \in ToSet(results)}
           refused == {r \in ToSet(results) : ~r.ok /\ Awaiting(r) # {}}
           S == {r \in ToSet(results) : Awaiting(r) = {} /\ r.flag # NoFlag}
           orphans == Only(results, S)
           flags == [i \in DOMAIN orphans |-> orphans[i].flag]
<1>1. /\ pipe' = [p \in Pipelines |-> IF p \in fed
                     THEN [pipe[p] EXCEPT !.copying = [i \in DOMAIN pipe[p].copying |-> Informed(pipe[p].copying[i])]]
                     ELSE pipe[p]]
      /\ taint' = IF refused = {} THEN taint ELSE taint \cup {"failed"}
      /\ Recycle(flags)
  BY DEF Dispatch
<1>2. ASSUME NEW p \in Pipelines
      PROVE  /\ pipe'[p] \in PipeRecord
             /\ pipe'[p].pending = pipe[p].pending /\ pipe'[p].inflight = pipe[p].inflight
             /\ pipe'[p].arrived = pipe[p].arrived /\ pipe'[p].assigned = pipe[p].assigned
             /\ Len(pipe'[p].copying) = Len(pipe[p].copying)
             /\ \A i \in 1..Len(pipe[p].copying) : Told(pipe[p].copying[i], pipe'[p].copying[i], p)
  <2> DEFINE s == pipe[p].copying
             told == [i \in 1..Len(s) |-> Informed(s[i])]
  <2>1. /\ pipe[p] \in PipeRecord /\ s \in Seq(CopyRecord) /\ Len(s) \in Nat /\ DOMAIN s = 1..Len(s)
    BY PipeParts, <1>2 DEF Typed, Kept
  <2>2. \A i \in 1..Len(s) : /\ Informed(s[i]) \in CopyRecord
                             /\ p \in fed => Told(s[i], Informed(s[i]), p)
                             /\ p \notin fed => Told(s[i], s[i], p)
    BY <1>2, ToldIs
  <2>3. told \in Seq(CopyRecord) /\ Len(told) = Len(s) /\ \A i \in 1..Len(s) : told[i] = Informed(s[i])
    BY <2>1, <2>2
  <2>4. pipe'[p] = IF p \in fed THEN [pipe[p] EXCEPT !.copying = told] ELSE pipe[p]
    BY <1>1, <2>1
  <2> HIDE DEF told, fed
  <2>5. CASE p \in fed
    <3>1. /\ pipe'[p] \in PipeRecord /\ pipe'[p].copying = told
          /\ pipe'[p].pending = pipe[p].pending /\ pipe'[p].inflight = pipe[p].inflight
          /\ pipe'[p].arrived = pipe[p].arrived /\ pipe'[p].assigned = pipe[p].assigned
      BY <2>1, <2>3, <2>4, <2>5 DEF PipeRecord
    <3> QED BY <2>2, <2>3, <2>5, <3>1
  <2>6. CASE p \notin fed
    BY <2>1, <2>2, <2>4, <2>6
  <2> QED BY <2>5, <2>6
<1>3. pipe' \in [Pipelines -> PipeRecord]
  <2>1. DOMAIN pipe' = Pipelines /\ pipe' = [p \in Pipelines |-> pipe'[p]]
    BY <1>1
  <2> QED BY <1>2, <2>1
<1>4. "failed" \notin taint' => taint' = taint /\ \A r \in ToSet(results) : r.ok \/ Awaiting(r) = {}
  BY <1>1
<1>5. results \in Seq(ResultRecord) /\ ToSet(results) \subseteq ResultRecord
  BY SeqSet DEF Typed, Rings
<1>6. orphans \in Seq(ResultRecord) /\ ToSet(orphans) = ToSet(results) \cap S
  <2> HIDE DEF S
  <2> QED BY <1>5, OnlyKeeps
<1> HIDE DEF orphans
<1>7. flags \in Seq(Flags) /\ Len(flags) = Len(orphans)
  <2>1. /\ Len(orphans) \in Nat /\ DOMAIN orphans = 1..Len(orphans)
        /\ \A i \in 1..Len(orphans) : orphans[i] \in S /\ orphans[i] \in ResultRecord
    BY <1>6, SeqSet
  <2>2. \A i \in 1..Len(orphans) : orphans[i].flag \in Flags
    BY <2>1 DEF Flags, ResultRecord
  <2> QED BY <2>1, <2>2
<1>8. (\A r \in ToSet(results) : Awaiting(r) # {}) => flags = <<>>
  <2> SUFFICES ASSUME \A r \in ToSet(results) : Awaiting(r) # {} PROVE flags = <<>>
    OBVIOUS
  <2>1. S = {}
    OBVIOUS
  <2>2. ToSet(orphans) = {}
    BY <1>6, <2>1
  <2>3. /\ Len(orphans) \in Nat /\ ToSet(orphans) = {orphans[i] : i \in 1..Len(orphans)}
    BY <1>6, SeqSet
  <2>4. Len(orphans) = 0
    <3> SUFFICES ASSUME Len(orphans) # 0 PROVE FALSE
      OBVIOUS
    <3>1. 1 \in 1..Len(orphans)
      BY <2>3
    <3> QED BY <2>2, <2>3, <3>1
  <2> HIDE DEF flags
  <2> QED BY <1>7, <2>4
<1> HIDE DEF flags
<1>9. \E f \in Seq(Flags) : Recycle(f) /\ ((\A r \in ToSet(results) : Awaiting(r) # {}) => f = <<>>)
  BY <1>1, <1>7, <1>8
<1> QED BY <1>2, <1>3, <1>4, <1>9 DEF Dispatched

\* Transfer t has its next chunk assigned.
Chooses(t) ==
    /\ t \in ToSet(active) /\ t \in Transfers
    /\ nextChunk[t] \in 1..Len(Lens[t]) /\ <<t, nextChunk[t]>> \in Chunks
    /\ nextChunk' = [nextChunk EXCEPT ![t] = nextChunk[t] + 1]

\* It waits in pipeline p.
Pended(p) ==
    /\ Chooses(p[1]) /\ Elsewhere(p)
    /\ pipe'[p] = [pending |-> Append(pipe[p].pending, <<p[1], nextChunk[p[1]]>>), copying |-> pipe[p].copying,
                   inflight |-> pipe[p].inflight, arrived |-> pipe[p].arrived, assigned |-> pipe[p].assigned + 1]

\* Assigning takes the next chunk of a transfer of the worker.
LEMMA ChoosesIs ==
    ASSUME Working, Typed, CanAssign, AssignNext
    PROVE  Chooses(Context)
<1>1. At("assign") /\ nextChunk[Context] <= Len(Lens[Context]) /\ nextChunk' = [nextChunk EXCEPT ![Context] = @ + 1]
  BY DEF CanAssign, AssignNext
<1>2. Context \in ToSet(active) /\ Context \in Transfers
  BY <1>1, Contexts
<1> DEFINE t == Context
<1> HIDE DEF t
<1>3. nextChunk[t] \in 1..(Len(Lens[t]) + 1) /\ Len(Lens[t]) \in Nat /\ t \in Transfers
  BY <1>2, ChunkTyped DEF Typed, Kept, t
<1>4. nextChunk[t] \in 1..Len(Lens[t])
  BY <1>1, <1>3 DEF t
<1>5. <<t, nextChunk[t]>> \in Chunks
  BY <1>3, <1>4, ChunkTyped
<1> QED BY <1>1, <1>2, <1>4, <1>5 DEF Chooses, t

\* AssignProxy appends the next chunk to the pipeline of the NIC with the least load.
LEMMA AssignProxyIs ==
    ASSUME Working, Typed, AssignProxy
    PROVE  \E p \in Pipelines : Pended(p)
<1> DEFINE p == <<Context, BestNic>>
<1>1. /\ CanAssign /\ AssignNext /\ BestNic \in ProxyNics
      /\ pipe' = [pipe EXCEPT ![p].pending = Append(@, <<Context, nextChunk[Context]>>), ![p].assigned = @ + 1]
  BY DEF AssignProxy
<1>2. Chooses(Context)
  BY <1>1, ChoosesIs
<1>3. p \in Pipelines /\ p[1] = Context
  BY <1>1, <1>2 DEF Pipelines, Chooses
<1> HIDE DEF p
<1>4. pipe \in [Pipelines -> PipeRecord]
  BY DEF Typed, Kept
<1>5. Elsewhere(p)
  BY <1>1, <1>3, <1>4 DEF Elsewhere
<1>6. pipe'[p] = [pipe[p] EXCEPT !.pending = Append(pipe[p].pending, <<p[1], nextChunk[p[1]]>>),
                                 !.assigned = pipe[p].assigned + 1]
  BY <1>1, <1>3, <1>4
<1>7. pipe[p] \in PipeRecord
  BY <1>3, <1>4
<1>8. pipe'[p] = [pending |-> Append(pipe[p].pending, <<p[1], nextChunk[p[1]]>>), copying |-> pipe[p].copying,
                   inflight |-> pipe[p].inflight, arrived |-> pipe[p].arrived, assigned |-> pipe[p].assigned + 1]
  BY <1>6, <1>7 DEF PipeRecord
<1> QED BY <1>2, <1>3, <1>5, <1>8 DEF Pended

\* A work request for the next chunk of t is on NIC n.
PostedDirect(t, n) ==
    /\ Chooses(t) /\ n \in DirectNics
    /\ \E w \in WireRecord : /\ w.chunk = <<t, nextChunk[t]>> /\ w.nic = n /\ w.addr = -1
                             /\ wire' = wire \cup {w}
    /\ out' = [out EXCEPT ![n] = out[n] + 1]

\* AssignDirect posts the next chunk on the NIC with the least load.
LEMMA AssignDirectIs ==
    ASSUME Working, Typed, AssignDirect
    PROVE  BestNic \in DirectNics /\ Open # {} /\ PostedDirect(Context, BestNic)
<1> DEFINE w == [chunk |-> <<Context, nextChunk[Context]>>, nic |-> BestNic, addr |-> -1]
<1>1. /\ CanAssign /\ AssignNext /\ BestNic \in DirectNics /\ Open # {}
      /\ wire' = wire \cup {w} /\ out' = [out EXCEPT ![BestNic] = @ + 1]
  BY DEF AssignDirect, CanAssign
<1>2. Chooses(Context)
  BY <1>1, ChoosesIs
<1>3. w \in WireRecord
  <2>1. BestNic \in Nics /\ <<Context, nextChunk[Context]>> \in Chunks
    BY <1>1, <1>2, Finiteness DEF Chooses
  <2>2. -1 \in -1..(BufferSize - 1)
    BY Sizing
  <2> QED BY <2>1, <2>2 DEF WireRecord
<1>4. w.chunk = <<Context, nextChunk[Context]>> /\ w.nic = BestNic /\ w.addr = -1
  OBVIOUS
<1> HIDE DEF w
<1> QED BY <1>1, <1>2, <1>3, <1>4 DEF PostedDirect

\* The space of posted chunks of p that were completed is given back.
Reclaimed(p) ==
    /\ p[1] \in ToSet(active) /\ p[2] \in ProxyNics /\ Elsewhere(p)
    /\ \E k \in 0..Len(pipe[p].inflight) :
          /\ pipe[p].arrived <= Len(pipe[p].inflight) => k = pipe[p].arrived
          /\ pipe'[p] = [pending |-> pipe[p].pending, copying |-> pipe[p].copying,
                         inflight |-> SubSeq(pipe[p].inflight, k + 1, Len(pipe[p].inflight)), arrived |-> 0,
                         assigned |-> pipe[p].assigned]
          /\ buffer' = [buffer EXCEPT ![ProxyGpu(p[2])] =
                           Release(buffer[ProxyGpu(p[2])], Sum(SubSeq(pipe[p].inflight, 1, k)))]

\* FreePosted gives back the space of a front of the posted chunks of a pipeline.
LEMMA FreePostedIs ==
    ASSUME Working, Typed, FreePosted
    PROVE  \E p \in Pipelines : Reclaimed(p)
<1> DEFINE p == Pipeline
           k == Min({pipe[p].arrived, Len(pipe[p].inflight)})
           g == ProxyGpu(p[2])
<1>1. /\ At("post")
      /\ pipe' = [pipe EXCEPT ![p].arrived = 0, ![p].inflight = SubSeq(@, k + 1, Len(@))]
      /\ buffer' = [buffer EXCEPT ![g] = Release(buffer[g], Sum(SubSeq(pipe[p].inflight, 1, k)))]
  BY DEF FreePosted, Posting
<1>2. p \in Pipelines /\ p[1] \in ToSet(active) /\ p[2] \in ProxyNics
  BY <1>1, Contexts
<1> HIDE DEF p
<1>3. pipe[p].inflight \in Seq(Nat) /\ pipe[p].arrived \in Nat
  BY <1>2, PipeParts DEF Typed
<1>4. k \in 0..Len(pipe[p].inflight) /\ (pipe[p].arrived <= Len(pipe[p].inflight) => k = pipe[p].arrived)
  <2>1. Len(pipe[p].inflight) \in Int /\ pipe[p].arrived \in Int
    BY <1>3
  <2>2. k \in {pipe[p].arrived, Len(pipe[p].inflight)} /\ k <= Len(pipe[p].inflight)
          /\ k <= pipe[p].arrived
    BY <2>1, MinOfTwo, Zenon
  <2> HIDE DEF k
  <2> QED BY <1>3, <2>1, <2>2
<1> HIDE DEF k
<1>5. pipe \in [Pipelines -> PipeRecord]
  BY DEF Typed, Kept
<1>6. Elsewhere(p)
  BY <1>1, <1>2, <1>5 DEF Elsewhere
<1>7. pipe'[p] = [pipe[p] EXCEPT !.arrived = 0, !.inflight = SubSeq(pipe[p].inflight, k + 1, Len(pipe[p].inflight))]
  BY <1>1, <1>2, <1>5
<1>8. pipe[p] \in PipeRecord
  BY <1>2, <1>5
<1>9. pipe'[p] = [pending |-> pipe[p].pending, copying |-> pipe[p].copying,
                  inflight |-> SubSeq(pipe[p].inflight, k + 1, Len(pipe[p].inflight)), arrived |-> 0,
                  assigned |-> pipe[p].assigned]
  BY <1>7, <1>8 DEF PipeRecord
<1> QED BY <1>1, <1>2, <1>4, <1>6, <1>9 DEF Reclaimed, g

\* Entry e, the first of pipeline p, is posted: work request w.
Posted(p, e, w) ==
    /\ p[1] \in ToSet(active) /\ p[2] \in ProxyNics /\ ~Finished(p[1])
    /\ pipe[p].copying # <<>> /\ e = Head(pipe[p].copying) /\ CopyDone(e)
    /\ w.chunk = e.chunk /\ w.nic = p[2] /\ w.addr = e.addr /\ wire' = wire \cup {w}
    /\ Elsewhere(p)
    /\ pipe'[p] = [pending |-> pipe[p].pending, copying |-> Tail(pipe[p].copying),
                   inflight |-> Append(pipe[p].inflight, LenOf(e.chunk)), arrived |-> pipe[p].arrived,
                   assigned |-> pipe[p].assigned]
    /\ Recycle(<<e.flag>>)
    /\ out[p[2]] < MaxOutstanding /\ out' = [out EXCEPT ![p[2]] = out[p[2]] + 1]

\* PostProxy posts the first copied chunk of a pipeline.
LEMMA PostProxyIs ==
    ASSUME Working, Typed, PostProxy
    PROVE  \E p \in Pipelines, e \in CopyRecord, w \in WireRecord : Posted(p, e, w)
<1> DEFINE p == Pipeline
           e == Head(pipe[p].copying)
           w == [chunk |-> e.chunk, nic |-> p[2], addr |-> e.addr]
<1>1. /\ At("post") /\ ~Finished(Context) /\ pipe[p].copying # <<>> /\ CopyDone(e) /\ out[p[2]] < MaxOutstanding
      /\ wire' = wire \cup {w}
      /\ pipe' = [pipe EXCEPT ![p].copying = Tail(@), ![p].inflight = Append(@, LenOf(e.chunk))]
      /\ Recycle(<<e.flag>>)
      /\ out' = [out EXCEPT ![p[2]] = @ + 1]
  BY DEF PostProxy, CanPost, Posting
<1>2. p \in Pipelines /\ p[1] = Context /\ p[1] \in ToSet(active) /\ p[2] \in ProxyNics
  BY <1>1, Contexts
<1> HIDE DEF p
<1>3. pipe[p].copying \in Seq(CopyRecord)
  BY <1>2, PipeParts DEF Typed
<1>4. e \in CopyRecord
  BY <1>1, <1>3, SeqTail
<1> HIDE DEF e
<1>5. w \in WireRecord /\ w.chunk = e.chunk /\ w.nic = p[2] /\ w.addr = e.addr
  <2>1. p[2] \in Nics
    BY <1>2, Finiteness
  <2>2. e.addr \in -1..(BufferSize - 1)
    BY <1>4, Sizing DEF CopyRecord
  <2> QED BY <1>4, <2>1, <2>2 DEF WireRecord, CopyRecord
<1> HIDE DEF w
<1>6. pipe \in [Pipelines -> PipeRecord]
  BY DEF Typed, Kept
<1>7. Elsewhere(p)
  BY <1>1, <1>2, <1>6 DEF Elsewhere
<1>8. pipe'[p] = [pipe[p] EXCEPT !.copying = Tail(pipe[p].copying),
                                 !.inflight = Append(pipe[p].inflight, LenOf(e.chunk))]
  BY <1>1, <1>2, <1>6
<1>9. pipe[p] \in PipeRecord
  BY <1>2, <1>6
<1>10. pipe'[p] = [pending |-> pipe[p].pending, copying |-> Tail(pipe[p].copying),
                   inflight |-> Append(pipe[p].inflight, LenOf(e.chunk)), arrived |-> pipe[p].arrived,
                   assigned |-> pipe[p].assigned]
  BY <1>8, <1>9 DEF PipeRecord
<1>11. Posted(p, e, w)
  BY <1>1, <1>2, <1>5, <1>7, <1>10 DEF Posted, e
<1> QED BY <1>2, <1>4, <1>5, <1>11

\* The completions are counted.
Polled ==
    /\ completed' = [t \in Transfers |-> completed[t] + Cardinality({w \in cq : w.ok /\ w.chunk[1] = t})]
    /\ \A p \in Pipelines :
          LET k == Cardinality({w \in cq : w.ok /\ w.chunk[1] = p[1] /\ w.nic = p[2]})
          IN  pipe'[p] = [pending |-> pipe[p].pending, copying |-> pipe[p].copying, inflight |-> pipe[p].inflight,
                          arrived |-> pipe[p].arrived + k, assigned |-> pipe[p].assigned - k]
    /\ out' = [n \in Nics |-> out[n] - Cardinality(OnNic(cq, n))]
    /\ Fail({w.chunk[1] : w \in {w \in cq : ~w.ok}})
    /\ cq' = {} /\ wire' = wire
    /\ taint' \in {taint, taint \cup {"failed"}} /\ ("failed" \notin taint' => \A w \in cq : w.ok)

\* Some of the completions are finitely many.
LEMMA CqFinite ==
    ASSUME Hardware, NEW S, S \subseteq cq
    PROVE  IsFiniteSet(S) /\ Cardinality(S) \in Nat
BY FS_Subset, FS_CardinalityType DEF Hardware

\* Poll counts the completions and empties the completion queue.
LEMMA PollIs == ASSUME Typed, Poll PROVE Polled
<1> DEFINE good == {w \in cq : w.ok}
           Arrived(p) == Cardinality({w \in good : w.chunk[1] = p[1] /\ w.nic = p[2]})
<1>1. /\ completed' = [t \in Transfers |-> completed[t] + Cardinality({w \in good : w.chunk[1] = t})]
      /\ pipe' = [p \in Pipelines |-> Arrive(p, Arrived(p))]
      /\ Fail({w.chunk[1] : w \in cq \ good})
      /\ taint' = IF cq = good THEN taint ELSE taint \cup {"failed"}
      /\ out' = [n \in Nics |-> out[n] - Cardinality({w \in cq : w.nic = n})]
      /\ cq' = {} /\ wire' = wire
  BY DEF Poll
<1>2. \A t : {w \in good : w.chunk[1] = t} = {w \in cq : w.ok /\ w.chunk[1] = t}
  OBVIOUS
<1>3. completed' = [t \in Transfers |-> completed[t] + Cardinality({w \in cq : w.ok /\ w.chunk[1] = t})]
  BY <1>1, <1>2
<1>4. ASSUME NEW p \in Pipelines
      PROVE  LET k == Cardinality({w \in cq : w.ok /\ w.chunk[1] = p[1] /\ w.nic = p[2]})
             IN  pipe'[p] = [pending |-> pipe[p].pending, copying |-> pipe[p].copying,
                             inflight |-> pipe[p].inflight, arrived |-> pipe[p].arrived + k,
                             assigned |-> pipe[p].assigned - k]
  <2> DEFINE k == Cardinality({w \in cq : w.ok /\ w.chunk[1] = p[1] /\ w.nic = p[2]})
  <2>1. {w \in good : w.chunk[1] = p[1] /\ w.nic = p[2]} = {w \in cq : w.ok /\ w.chunk[1] = p[1] /\ w.nic = p[2]}
    OBVIOUS
  <2>2. pipe'[p] = Arrive(p, k)
    BY <1>1, <1>4, <2>1
  <2> HIDE DEF k
  <2>3. pipe'[p] = [pipe[p] EXCEPT !.arrived = pipe[p].arrived + k, !.assigned = pipe[p].assigned - k]
    BY <2>2 DEF Arrive
  <2>4. pipe[p] \in PipeRecord
    BY <1>4 DEF Typed, Kept
  <2>5. pipe'[p] = [pending |-> pipe[p].pending, copying |-> pipe[p].copying,
                    inflight |-> pipe[p].inflight, arrived |-> pipe[p].arrived + k,
                    assigned |-> pipe[p].assigned - k]
    BY <2>3, <2>4 DEF PipeRecord
  <2> QED BY <2>5 DEF k
<1>5. cq \ good = {w \in cq : ~w.ok}
  OBVIOUS
<1>6. taint' \in {taint, taint \cup {"failed"}} /\ ("failed" \notin taint' => \A w \in cq : w.ok)
  BY <1>1
<1>7. out' = [n \in Nics |-> out[n] - Cardinality(OnNic(cq, n))]
  BY <1>1 DEF OnNic
<1>8. Fail({w.chunk[1] : w \in {w \in cq : ~w.ok}})
  BY <1>1, <1>5
<1> QED BY <1>1, <1>3, <1>4, <1>6, <1>7, <1>8, Zenon DEF Polled

\* The transfers of S leave the worker.
Retired(S) ==
    /\ S = {t \in ToSet(active) : Finished(t) \/ completed[t] >= Len(Lens[t])}
    /\ active' \in Seq(Transfers) /\ ToSet(active') = ToSet(active) \ S
    /\ status' = [t \in Transfers |-> IF t \in S /\ ~Finished(t) THEN "done" ELSE status[t]]
    /\ \A p \in Pipelines : pipe'[p] = IF p[1] \in S
          THEN [pending |-> pipe[p].pending, copying |-> <<>>, inflight |-> <<>>, arrived |-> pipe[p].arrived,
                assigned |-> pipe[p].assigned]
          ELSE pipe[p]
    /\ buffer' = [g \in Gpus |-> Release(buffer[g], Space(g, S))]
    /\ \E flags \in Seq(Flags) : /\ Recycle(flags)
                                 /\ (\A p \in Pipelines : p[1] \in S => pipe[p].copying = <<>>) => flags = <<>>

\* A sequence of nothing is empty.
LEMMA SeqOfNone == ASSUME NEW s \in Seq({}) PROVE s = <<>>
OBVIOUS

\* Retire takes away the transfers that are over, with their flags and their space.
LEMMA RetireIs == ASSUME Control, Typed, Retire PROVE \E S \in SUBSET Transfers : Retired(S)
<1> DEFINE S == {t \in ToSet(active) : Finished(t) \/ completed[t] >= Len(Lens[t])}
           row == Ascending(ProxyNics)
           over == Only(active, S)
           Column(t) == ForEach(LAMBDA n :
                            [j \in DOMAIN pipe[<<t, n>>].copying |-> pipe[<<t, n>>].copying[j].flag], row)
           flags == ForEach(LAMBDA t : ForEach(LAMBDA n :
                        [j \in DOMAIN pipe[<<t, n>>].copying |-> pipe[<<t, n>>].copying[j].flag], row), over)
           T == UNION {{e.flag : e \in ToSet(pipe[p].copying)} : p \in {p \in Pipelines : p[1] \in S}}
<1>1. /\ active' = Only(active, Transfers \ S)
      /\ status' = [t \in Transfers |-> IF t \in S /\ ~Finished(t) THEN "done" ELSE status[t]]
      /\ buffer' = [g \in Gpus |-> Release(buffer[g], Total([p \in Pipelines |-> FreedByCleanup(p)], S \X On(g)))]
      /\ Recycle(Only(flags, Flags))
      /\ pipe' = [p \in Pipelines |-> IF p[1] \in S
                     THEN [pipe[p] EXCEPT !.copying = <<>>, !.inflight = <<>>] ELSE pipe[p]]
  BY Zenon DEF Retire
<1>2. active \in Seq(Transfers) /\ ToSet(active) \subseteq Transfers
  BY SeqSet DEF Control, Rounds, Working
<1>3. S \subseteq Transfers
  BY <1>2
<1>4. active' \in Seq(Transfers) /\ ToSet(active') = ToSet(active) \ S
  <2> HIDE DEF S
  <2>1. active' \in Seq(Transfers) /\ ToSet(active') = ToSet(active) \cap (Transfers \ S)
    BY <1>1, <1>2, OnlyKeeps, Zenon
  <2> QED BY <1>2, <2>1
<1>5. over \in Seq(Transfers) /\ ToSet(over) \subseteq S
  <2> HIDE DEF S
  <2> QED BY <1>2, OnlyKeeps
<1>6. row \in Seq(ProxyNics)
  <2>1. ProxyNics \subseteq Nat
    BY Finiteness
  <2>2. Cardinality(ProxyNics) \in Nat /\ row \in [1..Cardinality(ProxyNics) -> ProxyNics]
    BY <2>1, Finiteness, AscendingTyped
  <2> HIDE DEF row
  <2> QED BY <2>2
<1> HIDE DEF over, row, S
<1>7. ASSUME NEW t \in S PROVE Column(t) \in Seq(T)
  <2> DEFINE Cell(n) == [j \in DOMAIN pipe[<<t, n>>].copying |-> pipe[<<t, n>>].copying[j].flag]
  <2>1. ASSUME NEW n \in ProxyNics PROVE Cell(n) \in Seq(T)
    <3> DEFINE s == pipe[<<t, n>>].copying
    <3>1. <<t, n>> \in Pipelines /\ <<t, n>>[1] \in S
      BY <1>3, <1>7, <2>1 DEF Pipelines
    <3>2. s \in Seq(CopyRecord)
      BY <3>1, PipeParts DEF Typed
    <3>3. Len(s) \in Nat /\ DOMAIN s = 1..Len(s) /\ \A j \in 1..Len(s) : s[j] \in ToSet(s)
      BY <3>2, SeqSet
    <3>4. \A j \in 1..Len(s) : s[j].flag \in T
      BY <3>1, <3>3
    <3> HIDE DEF s, T
    <3>5. [j \in 1..Len(s) |-> s[j].flag] \in Seq(T)
      BY <3>3, <3>4
    <3> QED BY <3>3, <3>5 DEF s
  <2> HIDE DEF T
  <2>2. Len(row) \in Nat /\ DOMAIN row = 1..Len(row) /\ \A i \in 1..Len(row) : row[i] \in ProxyNics
    BY <1>6
  <2>3. \A i \in 1..Len(row) : Cell(row[i]) \in Seq(T)
    BY <2>1, <2>2
  <2> HIDE DEF Cell
  <2>4. [i \in DOMAIN row |-> Cell(row[i])] \in Seq(Seq(T))
    BY <2>2, <2>3
  <2>5. Column(t) = FlattenSeq([i \in DOMAIN row |-> Cell(row[i])])
    BY DEF ForEach, Cell
  <2> HIDE DEF Column
  <2> QED BY <2>4, <2>5, FlattenTyped
<1>8. flags \in Seq(T)
  <2> HIDE DEF T
  <2>1. Len(over) \in Nat /\ DOMAIN over = 1..Len(over) /\ \A i \in 1..Len(over) : over[i] \in S
    BY <1>5, SeqSet
  <2>2. \A i \in 1..Len(over) : Column(over[i]) \in Seq(T)
    BY <1>7, <2>1, Zenon
  <2>3. flags = FlattenSeq([i \in DOMAIN over |-> Column(over[i])])
    BY DEF ForEach
  <2> HIDE DEF Column
  <2>4. [i \in DOMAIN over |-> Column(over[i])] \in Seq(Seq(T))
    BY <2>1, <2>2
  <2> QED BY <2>3, <2>4, FlattenTyped, Zenon
<1> DEFINE given == Only(flags, Flags)
<1>9. given \in Seq(T) /\ ToSet(given) \subseteq Flags
  <2> HIDE DEF flags, T
  <2> QED BY <1>8, OnlyKeeps
<1>10. Recycle(given)
  BY <1>1, Zenon
<1> HIDE DEF given, flags, Column
<1>11. given \in Seq(Flags)
  <2> HIDE DEF T
  <2>1. Len(given) \in Nat /\ DOMAIN given = 1..Len(given) /\ \A i \in 1..Len(given) : given[i] \in Flags
    BY <1>9, SeqSet
  <2>2. given = [i \in 1..Len(given) |-> given[i]]
    BY <1>9
  <2> QED BY <2>1, <2>2
<1>12. (\A p \in Pipelines : p[1] \in S => pipe[p].copying = <<>>) => given = <<>>
  <2> SUFFICES ASSUME \A p \in Pipelines : p[1] \in S => pipe[p].copying = <<>> PROVE given = <<>>
    OBVIOUS
  <2>1. T = {}
    BY DEF ToSet
  <2> HIDE DEF T
  <2> QED BY <1>9, <2>1, SeqOfNone
<1>13. ASSUME NEW p \in Pipelines
       PROVE  pipe'[p] = IF p[1] \in S
                THEN [pending |-> pipe[p].pending, copying |-> <<>>, inflight |-> <<>>, arrived |-> pipe[p].arrived,
                      assigned |-> pipe[p].assigned]
                ELSE pipe[p]
  <2>1. pipe'[p] = IF p[1] \in S THEN [pipe[p] EXCEPT !.copying = <<>>, !.inflight = <<>>] ELSE pipe[p]
    BY <1>1, <1>13, Zenon
  <2>2. pipe[p] \in PipeRecord
    BY <1>13 DEF Typed, Kept
  <2> QED BY <2>1, <2>2 DEF PipeRecord
<1>14. buffer' = [g \in Gpus |-> Release(buffer[g], Space(g, S))]
  BY <1>1, Zenon DEF Space, FreedByCleanup
<1>15. \E f \in Seq(Flags) : /\ Recycle(f)
                             /\ (\A p \in Pipelines : p[1] \in S => pipe[p].copying = <<>>) => f = <<>>
  BY <1>10, <1>11, <1>12
<1>16. S = {t \in ToSet(active) : Finished(t) \/ completed[t] >= Len(Lens[t])}
  BY DEF S
<1> QED BY <1>1, <1>3, <1>4, <1>13, <1>14, <1>15, <1>16, Zenon DEF Retired

-----------------------------------------------------------------------------
(* Every step keeps the types.                                              *)

\* What a step that leaves a part alone does to it.
LEMMA Frames ==
    /\ Kept /\ UNCHANGED <<nextChunk, completed, pipe, out, buffer>> => Kept'
    /\ Rings /\ UNCHANGED <<requests, results, recycled, held, pool, raised>> => Rings'
    /\ Hardware /\ UNCHANGED <<copies, wire, cq, taint, faults>> => Hardware'
<1>1. Kept /\ UNCHANGED <<nextChunk, completed, pipe, out, buffer>> => Kept'
  BY DEF Kept
<1>2. Rings /\ UNCHANGED <<requests, results, recycled, held, pool, raised>> => Rings'
  BY DEF Rings
<1>3. Hardware /\ UNCHANGED <<copies, wire, cq, taint, faults>> => Hardware'
  BY DEF Hardware
<1> QED BY <1>1, <1>2, <1>3

\* A pipeline that changes alone.
LEMMA PipeTyped ==
    ASSUME Kept, NEW p \in Pipelines, Elsewhere(p), pipe'[p] \in PipeRecord,
           pipe' = [q \in Pipelines |-> pipe'[q]]
    PROVE  pipe' \in [Pipelines -> PipeRecord]
<1>1. \A q \in Pipelines : pipe'[q] \in PipeRecord
  BY DEF Kept, Elsewhere
<1> QED BY <1>1

\* The actions keep pipe a function.
LEMMA PipeFunction ==
    ASSUME Kept, AdvanceCopy \/ AssignProxy \/ FreePosted \/ PostProxy \/ Poll \/ Retire
    PROVE  pipe' = [q \in Pipelines |-> pipe'[q]]
<1>0. pipe \in [Pipelines -> PipeRecord]
  BY DEF Kept
<1>1. CASE AdvanceCopy
  <2>1. \E r : pipe' = [pipe EXCEPT ![Pipeline] = r]
    BY <1>0, <1>1 DEF AdvanceCopy
  <2> QED BY <1>0, <2>1
<1>2. CASE AssignProxy
  <2>1. \E p, r : pipe' = [pipe EXCEPT ![p] = r]
    BY <1>0, <1>2, ZenonT(30) DEF AssignProxy
  <2> QED BY <1>0, <2>1
<1>3. CASE FreePosted
  <2>1. \E r : pipe' = [pipe EXCEPT ![Pipeline] = r]
    BY <1>0, <1>3 DEF FreePosted
  <2> QED BY <1>0, <2>1
<1>4. CASE PostProxy
  <2>1. \E r : pipe' = [pipe EXCEPT ![Pipeline] = r]
    BY <1>0, <1>4 DEF PostProxy
  <2> QED BY <1>0, <2>1
<1>5. CASE Poll
  BY <1>5 DEF Poll
<1>6. CASE Retire
  BY <1>6, Zenon DEF Retire
<1> QED BY <1>1, <1>2, <1>3, <1>4, <1>5, <1>6

\* A chunk has at least one byte.
LEMMA LenTyped == ASSUME NEW c \in Chunks PROVE LenOf(c) \in Nat /\ LenOf(c) > 0
<1>1. LenOf(c) \in 1..BufferSize
  BY ChunkTyped
<1>2. BufferSize \in Nat
  BY Sizing
<1> QED BY <1>1, <1>2

\* What a sequence of numbers adds up to.
LEMMA SumNat == ASSUME NEW s \in Seq(Nat) PROVE Sum(s) \in Nat
<1>1. Len(s) \in Nat /\ s \in [1..Len(s) -> Nat]
  OBVIOUS
<1> QED BY <1>1, SumIs

\* The space a pipeline holds.
LEMMA SizesTyped == ASSUME Kept, NEW p \in Pipelines PROVE Sizes(p) \in Seq(Nat) /\ Sum(Sizes(p)) \in Nat
<1> DEFINE s == pipe[p].copying
           lens == [i \in 1..Len(s) |-> LenOf(s[i].chunk)]
<1>1. s \in Seq(CopyRecord) /\ pipe[p].inflight \in Seq(Nat) /\ DOMAIN s = 1..Len(s) /\ Len(s) \in Nat
  BY PipeParts, SeqSet
<1>2. \A i \in 1..Len(s) : LenOf(s[i].chunk) \in Nat
  <2> HIDE DEF s
  <2>0. \A i \in 1..Len(s) : s[i] \in CopyRecord
    BY <1>1
  <2>1. \A i \in 1..Len(s) : s[i].chunk \in Chunks
    BY <2>0 DEF CopyRecord
  <2>2. ASSUME NEW i \in 1..Len(s) PROVE LenOf(s[i].chunk) \in Nat
    BY <2>1, LenTyped
  <2> QED BY <2>2
<1>3. Sizes(p) = lens \o pipe[p].inflight
  BY <1>1 DEF Sizes
<1> HIDE DEF s
<1>4. lens \in Seq(Nat)
  BY <1>1, <1>2
<1>5. Sizes(p) \in Seq(Nat)
  <2> HIDE DEF lens
  <2> QED BY <1>1, <1>3, <1>4
<1> QED BY <1>5, SumNat

\* The space of the transfers S in a buffer.
LEMMA SpaceTyped == ASSUME Kept, NEW S \in SUBSET Transfers, NEW g PROVE Space(g, S) \in Nat
<1> DEFINE f == [p \in Pipelines |-> Sum(Sizes(p))]
           R == S \X On(g)
<1>1. R \subseteq Pipelines
  BY DEF On, Pipelines
<1>2. IsFiniteSet(R)
  BY <1>1, Finiteness, FS_Subset
<1>3. \A x \in R : f[x] \in Nat
  BY <1>1, SizesTyped
<1> HIDE DEF f, R
<1>4. Total(f, R) \in Nat
  BY <1>2, <1>3, SumFacts
<1> QED BY <1>4 DEF Space, f, R

\* Space that is given back.
LEMMA ReleaseTyped ==
    ASSUME NEW b \in [alloc : 0..BufferSize, freed : Nat], NEW len \in Nat
    PROVE  Release(b, len) \in [alloc : 0..BufferSize, freed : Nat] /\ Release(b, len).alloc = b.alloc
           /\ Release(b, len).freed = b.freed + len
<1>1. Release(b, len) = [b EXCEPT !.freed = b.freed + len]
  BY DEF Release
<1> QED BY <1>1

\* The client and the worker's control.
LEMMA StartTyped == ASSUME Control, Typed, NEW t \in Transfers, Start(t) PROVE Typed'
BY Frames DEF Start, copier, nic, Typed

\* Dispatch keeps the types.
LEMMA DispatchTyped == ASSUME Typed, Dispatch PROVE Typed'
<1>1. Dispatched
  BY DispatchIs
<1>2. UNCHANGED <<nextChunk, completed, out, buffer, requests, held, pool, raised, copies, wire, cq, faults>>
        /\ results' = <<>>
  BY DEF Dispatch, ClientSide, nic, allocator
<1>3. Kept'
  BY <1>1, <1>2 DEF Kept, Typed, Dispatched
<1>4. Rings'
  <2>1. PICK flags \in Seq(Flags) : Recycle(flags)
    BY <1>1 DEF Dispatched
  <2>2. recycled' \in Seq(Flags) /\ Len(recycled') <= RingCapacity
    BY <2>1, RecycleIs DEF Typed
  <2> QED BY <1>2, <2>2, Sizing DEF Rings, Typed
<1>5. Hardware'
  <2>1. taint' \in {taint, taint \cup {"failed"}}
    BY DEF Dispatch
  <2> QED BY <1>2, <2>1 DEF Hardware, Typed
<1> QED BY <1>3, <1>4, <1>5 DEF Typed

\* AdvanceCopy keeps the types.
LEMMA AdvanceTyped == ASSUME Control, Typed, AdvanceCopy PROVE Typed'
<1>1. CASE AdvanceCopy
  <2>0. UNCHANGED <<nextChunk, completed, out, results, recycled, held, pool, raised, copies, wire, cq, taint,
          faults>>
    BY <1>1 DEF AdvanceCopy, Take, ClientSide, nic
  <2>1. PICK p \in Pipelines, e \in CopyRecord : Advanced(p, e)
    BY <1>1, AdvanceCopyIs DEF Control, Rounds
  <2> DEFINE b == buffer[ProxyGpu(p[2])]
  <2>2. /\ pipe[p].pending \in Seq(Chunks) /\ pipe[p].copying \in Seq(CopyRecord) /\ pipe[p].pending # <<>>
        /\ pipe[p].inflight \in Seq(Nat) /\ pipe[p].arrived \in Nat /\ pipe[p].assigned \in Int
    BY <2>1, PipeParts DEF Typed, Advanced
  <2>3. pipe'[p] \in PipeRecord
    <3>1. Tail(pipe[p].pending) \in Seq(Chunks) /\ Append(pipe[p].copying, e) \in Seq(CopyRecord)
      BY <2>2
    <3> QED BY <2>1, <2>2, <3>1 DEF PipeRecord, Advanced
  <2>4. pipe' \in [Pipelines -> PipeRecord]
    BY <1>1, <2>1, <2>3, PipeFunction, PipeTyped DEF Typed, Advanced
  <2>5. buffer' \in [Gpus -> [alloc : 0..BufferSize, freed : Nat]]
    <3>1. ProxyGpu(p[2]) \in Gpus /\ b \in [alloc : 0..BufferSize, freed : Nat]
      BY ProxyGpuTyped DEF Pipelines, Typed, Kept
    <3>4. e.chunk \in Chunks /\ e.addr \in 0..(BufferSize - 1)
      BY DEF CopyRecord
    <3>5. LenOf(e.chunk) \in Nat
      BY <3>4, LenTyped
    <3>6. e.addr + LenOf(e.chunk) <= BufferSize
      BY <2>1 DEF Advanced
    <3>2. /\ e.addr \in Nat /\ LenOf(e.chunk) \in Nat /\ e.addr + LenOf(e.chunk) <= BufferSize
      BY <3>4, <3>5, <3>6
    <3>3. e.addr + LenOf(e.chunk) \in 0..BufferSize
      BY <3>2, Sizing
    <3> HIDE DEF b
    <3> QED BY <2>1, <3>1, <3>3 DEF Advanced, Typed, Kept, b
  <2>6. Kept'
    BY <2>0, <2>4, <2>5 DEF Kept, Typed
  <2>7. Rings'
    <3>1. PICK g \in ProxyGpus : requests' = Append(requests, [chunk |-> e.chunk, gpu |-> g])
      BY <2>1 DEF Advanced
    <3>2. [chunk |-> e.chunk, gpu |-> g] \in [chunk : Chunks, gpu : ProxyGpus]
      BY DEF CopyRecord
    <3>3. requests \in Seq([chunk : Chunks, gpu : ProxyGpus]) /\ Len(requests) < RingCapacity
      BY <2>1 DEF Rings, Typed, Advanced
    <3>4. requests' \in Seq([chunk : Chunks, gpu : ProxyGpus]) /\ Len(requests') = Len(requests) + 1
      BY <3>1, <3>2, <3>3, SeqAppend
    <3>5. Len(requests') <= RingCapacity
      BY <3>3, <3>4, Sizing
    <3> QED BY <2>0, <3>4, <3>5 DEF Rings, Typed
  <2>8. Hardware'
    BY <2>0, Frames DEF Typed
  <2> QED BY <2>6, <2>7, <2>8 DEF Typed
<1> QED BY <1>1

\* So do a reset and tryAlloc.
LEMMA AsideTyped == ASSUME Control, Typed, Aside PROVE Typed'
<1>0. Kept /\ Working /\ Trial
  BY DEF Typed, Control, Rounds
<1>1. EmptyBuffer \in [alloc : 0..BufferSize, freed : Nat]
  BY Sizing DEF EmptyBuffer
<1>2. buffer \in [Gpus -> [alloc : 0..BufferSize, freed : Nat]]
  BY <1>0 DEF Kept
<1>3. buffer' \in [Gpus -> [alloc : 0..BufferSize, freed : Nat]]
  <2>1. CASE ResetAlloc
    <3>1. PICK n \in ProxyNics : buffer' = [buffer EXCEPT ![ProxyGpu(n)].alloc = 0]
      BY <2>1 DEF ResetAlloc
    <3>2. ProxyGpu(n) \in Gpus /\ 0 \in 0..BufferSize
      BY ProxyGpuTyped, Sizing
    <3> QED BY <1>2, <3>1, <3>2
  <2>2. CASE ResetFree
    <3>1. reset.half \in ProxyNics /\ buffer' = [buffer EXCEPT ![ProxyGpu(reset.half)].freed = 0]
      BY <1>0, <2>2 DEF ResetFree, Trial
    <3>2. ProxyGpu(reset.half) \in Gpus
      BY <3>1, ProxyGpuTyped
    <3> QED BY <1>2, <3>1, <3>2
  <2>3. CASE LoadAlloc \/ NoSpace
    BY <1>2, <2>3 DEF LoadAlloc, NoSpace
  <2>4. CASE StartAgain
    BY <1>1, <1>2, <2>4 DEF StartAgain
  <2>5. CASE AdvanceRingFull
    <3>1. trying.cur + Wanted \in 0..BufferSize /\ buffer' = [buffer EXCEPT ![Target].alloc = trying.cur + Wanted]
      BY <1>0, <2>5, TakeIs DEF AdvanceRingFull
    <3>2. Target \in Gpus
      BY <1>0, <2>5, TargetIs DEF AdvanceRingFull, Take
    <3> QED BY <1>2, <3>1, <3>2
  <2>6. CASE FreeRefused
    <3>1. Advancing /\ buffer' = [buffer EXCEPT ![Target] = Release(buffer[Target], Wanted)]
      BY <2>6 DEF FreeRefused
    <3>2. Target \in Gpus /\ buffer[Target] \in [alloc : 0..BufferSize, freed : Nat] /\ Wanted \in Nat
      BY <1>0, <3>1, TargetIs, Sizing
    <3>3. Release(buffer[Target], Wanted) \in [alloc : 0..BufferSize, freed : Nat]
      BY <3>2, ReleaseTyped
    <3> QED BY <1>2, <3>1, <3>2, <3>3
  <2> QED BY <2>1, <2>2, <2>3, <2>4, <2>5, <2>6 DEF Aside
<1>4. Kept'
  BY <1>0, <1>3, AsideStays DEF Kept
<1>5. Rings'
  BY AsideStays, Frames DEF Typed
<1>6. Hardware'
  BY AsideStays DEF Typed, Hardware
<1> QED BY <1>4, <1>5, <1>6 DEF Typed

\* AssignDirect and AssignProxy keep the types.
LEMMA AssignTyped == ASSUME Control, Typed, AssignDirect \/ AssignProxy PROVE Typed'
<1>1. CASE AssignDirect
  <2>0. UNCHANGED <<completed, pipe, buffer, requests, results, recycled, held, pool, raised, copies, cq, taint,
          faults>>
    BY <1>1 DEF AssignDirect, copier, allocator
  <2>1. PICK t \in Transfers, n \in Nics : PostedDirect(t, n)
    <3>1. PostedDirect(Context, BestNic)
      BY <1>1, AssignDirectIs DEF Control, Rounds
    <3>2. Context \in Transfers /\ BestNic \in Nics
      BY <3>1, Finiteness DEF PostedDirect, Chooses
    <3> QED BY <3>1, <3>2
  <2>2. PICK w \in WireRecord : wire' = wire \cup {w}
    BY <2>1 DEF PostedDirect
  <2>3. Kept'
    <3>1. nextChunk' \in [Transfers -> Nat] /\ \A s \in Transfers : nextChunk'[s] \in 1..(Len(Lens[s]) + 1)
      <4>1. nextChunk[t] + 1 \in 1..(Len(Lens[t]) + 1)
        <5>1. nextChunk[t] \in 1..Len(Lens[t]) /\ Len(Lens[t]) \in Nat
          BY <2>1, ChunkTyped DEF PostedDirect, Chooses
        <5> QED BY <5>1
      <4> QED BY <2>1, <4>1 DEF PostedDirect, Chooses, Kept, Typed
    <3>2. out' \in [Nics -> Int]
      BY <2>1 DEF PostedDirect, Kept, Typed
    <3> QED BY <2>0, <3>1, <3>2 DEF Kept, Typed
  <2>4. Hardware'
    <3>1. wire' \subseteq WireRecord /\ IsFiniteSet(wire')
      BY <2>2, FS_AddElement DEF Hardware, Typed
    <3> QED BY <2>0, <3>1 DEF Hardware, Typed
  <2> QED BY <2>0, <2>3, <2>4, Frames DEF Typed
<1>2. CASE AssignProxy
  <2>0. UNCHANGED <<completed, out, buffer, requests, results, recycled, held, pool, raised, copies, wire, cq, taint,
          faults>>
    BY <1>2 DEF AssignProxy, copier, nic, allocator
  <2>1. PICK p \in Pipelines : Pended(p)
    BY <1>2, AssignProxyIs DEF Control, Rounds
  <2>2. pipe'[p] \in PipeRecord
    <3>1. /\ pipe[p].pending \in Seq(Chunks) /\ pipe[p].copying \in Seq(CopyRecord)
          /\ pipe[p].inflight \in Seq(Nat) /\ pipe[p].arrived \in Nat /\ pipe[p].assigned \in Int
      BY <2>1, PipeParts DEF Typed
    <3>2. Append(pipe[p].pending, <<p[1], nextChunk[p[1]]>>) \in Seq(Chunks)
      BY <2>1, <3>1 DEF Pended, Chooses
    <3> QED BY <2>1, <3>1, <3>2 DEF PipeRecord, Pended
  <2>3. pipe' \in [Pipelines -> PipeRecord]
    BY <1>2, <2>1, <2>2, PipeFunction, PipeTyped DEF Typed, Pended
  <2>4. nextChunk' \in [Transfers -> Nat] /\ \A s \in Transfers : nextChunk'[s] \in 1..(Len(Lens[s]) + 1)
    <3> DEFINE t == p[1]
    <3>1. nextChunk[t] \in 1..Len(Lens[t]) /\ Len(Lens[t]) \in Nat /\ t \in Transfers
      BY <2>1, ChunkTyped DEF Pended, Chooses
    <3>2. nextChunk[t] + 1 \in 1..(Len(Lens[t]) + 1)
      BY <3>1
    <3> QED BY <2>1, <3>1, <3>2 DEF Pended, Chooses, Kept, Typed
  <2>5. Kept'
    BY <2>0, <2>3, <2>4 DEF Kept, Typed
  <2> QED BY <2>0, <2>5, Frames DEF Typed
<1> QED BY <1>1, <1>2

\* FreePosted and PostProxy keep the types.
LEMMA PostTyped == ASSUME Control, Typed, FreePosted \/ PostProxy PROVE Typed'
<1>1. CASE FreePosted
  <2>0. UNCHANGED <<nextChunk, completed, out, requests, results, recycled, held, pool, raised, copies, wire, cq,
          taint, faults>>
    BY <1>1 DEF FreePosted, copier, nic, ClientSide
  <2>1. PICK p \in Pipelines : Reclaimed(p)
    BY <1>1, FreePostedIs DEF Control, Rounds
  <2> DEFINE s == pipe[p].inflight
             g == ProxyGpu(p[2])
  <2>2. PICK k \in 0..Len(s) :
          /\ pipe'[p] = [pending |-> pipe[p].pending, copying |-> pipe[p].copying,
                         inflight |-> SubSeq(s, k + 1, Len(s)), arrived |-> 0, assigned |-> pipe[p].assigned]
          /\ buffer' = [buffer EXCEPT ![g] = Release(buffer[g], Sum(SubSeq(s, 1, k)))]
    BY <2>1 DEF Reclaimed
  <2>3. /\ pipe[p].pending \in Seq(Chunks) /\ pipe[p].copying \in Seq(CopyRecord)
        /\ s \in Seq(Nat) /\ pipe[p].assigned \in Int
    BY PipeParts DEF Typed
  <2> HIDE DEF s
  <2>4. SubSeq(s, k + 1, Len(s)) \in Seq(Nat) /\ SubSeq(s, 1, k) \in Seq(Nat)
    <3>1. Len(s) \in Nat /\ k \in 0..Len(s)
      BY <2>3
    <3> QED BY <2>3, <3>1
  <2>5. pipe'[p] \in PipeRecord
    BY <2>2, <2>3, <2>4 DEF PipeRecord
  <2>6. pipe' \in [Pipelines -> PipeRecord]
    BY <1>1, <2>1, <2>5, PipeFunction, PipeTyped DEF Typed, Reclaimed
  <2>7. g \in Gpus /\ buffer[g] \in [alloc : 0..BufferSize, freed : Nat]
    BY ProxyGpuTyped DEF Pipelines, Typed, Kept
  <2> HIDE DEF g
  <2>8. Release(buffer[g], Sum(SubSeq(s, 1, k))) \in [alloc : 0..BufferSize, freed : Nat]
    BY <2>4, <2>7, SumNat, ReleaseTyped
  <2>9. Kept'
    BY <2>0, <2>2, <2>6, <2>7, <2>8 DEF Kept, Typed
  <2> QED BY <2>0, <2>9, Frames DEF Typed
<1>2. CASE PostProxy
  <2>0. UNCHANGED <<nextChunk, completed, buffer, requests, results, held, pool, raised, copies, cq, taint, faults>>
    BY <1>2 DEF PostProxy, ClientSide, allocator
  <2>1. PICK p \in Pipelines, e \in CopyRecord, w \in WireRecord : Posted(p, e, w)
    BY <1>2, PostProxyIs DEF Control, Rounds
  <2>2. /\ pipe[p].pending \in Seq(Chunks) /\ pipe[p].copying \in Seq(CopyRecord) /\ pipe[p].copying # <<>>
        /\ pipe[p].inflight \in Seq(Nat) /\ pipe[p].arrived \in Nat /\ pipe[p].assigned \in Int
    BY <2>1, PipeParts DEF Typed, Posted
  <2>3. pipe'[p] \in PipeRecord
    <3>1. e.chunk \in Chunks
      BY DEF CopyRecord
    <3>2. LenOf(e.chunk) \in Nat
      BY <3>1, LenTyped
    <3>3. Tail(pipe[p].copying) \in Seq(CopyRecord)
      BY <2>2, SeqTail
    <3>4. Append(pipe[p].inflight, LenOf(e.chunk)) \in Seq(Nat)
      BY <2>2, <3>2
    <3> QED BY <2>1, <2>2, <3>3, <3>4 DEF PipeRecord, Posted
  <2>4. pipe' \in [Pipelines -> PipeRecord]
    BY <1>2, <2>1, <2>3, PipeFunction, PipeTyped DEF Typed, Posted
  <2>5. out' \in [Nics -> Int]
    <3>1. p[2] \in Nics
      BY Finiteness DEF Pipelines
    <3> QED BY <2>1, <3>1 DEF Posted, Kept, Typed
  <2>6. Kept'
    BY <2>0, <2>4, <2>5 DEF Kept, Typed
  <2>7. Rings'
    <3>1. e.flag \in Flags
      BY <2>1 DEF Posted, CopyDone, CopyRecord, Flags
    <3>2. <<e.flag>> \in Seq(Flags)
      BY <3>1
    <3>3. recycled' \in Seq(Flags) /\ Len(recycled') <= RingCapacity
      BY <2>1, <3>2, RecycleIs DEF Posted, Typed
    <3> QED BY <2>0, <3>3 DEF Rings, Typed
  <2>8. Hardware'
    <3>1. wire' \subseteq WireRecord /\ IsFiniteSet(wire')
      BY <2>1, FS_AddElement DEF Hardware, Typed, Posted
    <3> QED BY <2>0, <3>1 DEF Hardware, Typed
  <2> QED BY <2>6, <2>7, <2>8 DEF Typed
<1> QED BY <1>1, <1>2

\* Poll keeps the types.
LEMMA PollTyped == ASSUME Typed, Poll PROVE Typed'
<1>0. UNCHANGED <<nextChunk, buffer, requests, results, recycled, held, pool, raised, copies, faults>>
  BY DEF Poll, copier, allocator
<1>1. Polled
  BY PollIs
<1>2. ASSUME NEW S, S \subseteq cq PROVE Cardinality(S) \in Nat
  BY <1>2, CqFinite DEF Typed
<1>3. pipe' \in [Pipelines -> PipeRecord]
  <2> SUFFICES ASSUME NEW p \in Pipelines PROVE pipe'[p] \in PipeRecord
    <3>1. pipe' = [q \in Pipelines |-> pipe'[q]]
      BY PipeFunction DEF Typed
    <3> QED BY <3>1
  <2> DEFINE k == Cardinality({w \in cq : w.ok /\ w.chunk[1] = p[1] /\ w.nic = p[2]})
  <2>1. k \in Nat
    BY <1>2
  <2>2. /\ pipe[p].pending \in Seq(Chunks) /\ pipe[p].copying \in Seq(CopyRecord)
        /\ pipe[p].inflight \in Seq(Nat) /\ pipe[p].arrived \in Nat /\ pipe[p].assigned \in Int
    BY PipeParts DEF Typed
  <2>3. pipe'[p] = [pending |-> pipe[p].pending, copying |-> pipe[p].copying, inflight |-> pipe[p].inflight,
                    arrived |-> pipe[p].arrived + k, assigned |-> pipe[p].assigned - k]
    BY <1>1 DEF Polled
  <2> HIDE DEF k
  <2> QED BY <2>1, <2>2, <2>3, SMTT(30) DEF PipeRecord
<1>4. completed' \in [Transfers -> Nat]
  <2>1. \A t \in Transfers : Cardinality({w \in cq : w.ok /\ w.chunk[1] = t}) \in Nat
    BY <1>2
  <2> QED BY <1>1, <2>1 DEF Polled, Typed, Kept
<1>5. out' \in [Nics -> Int]
  <2>1. \A n \in Nics : Cardinality(OnNic(cq, n)) \in Nat
    BY <1>2 DEF OnNic
  <2> QED BY <1>1, <2>1 DEF Polled, Typed, Kept
<1>6. Kept'
  BY <1>0, <1>3, <1>4, <1>5 DEF Kept, Typed
<1>7. Hardware'
  BY <1>0, <1>1, FS_EmptySet DEF Hardware, Typed, Polled
<1> QED BY <1>0, <1>6, <1>7, Frames DEF Typed

\* Retire keeps the types.
LEMMA RetireTyped == ASSUME Control, Typed, Retire PROVE Typed'
<1>0. UNCHANGED <<nextChunk, completed, out, requests, results, held, pool, raised, copies, wire, cq, taint, faults>>
  BY Zenon DEF Retire, ClientSide, nic
<1>1. PICK S \in SUBSET Transfers : Retired(S)
  BY RetireIs
<1>2. pipe' \in [Pipelines -> PipeRecord]
  <2> SUFFICES ASSUME NEW p \in Pipelines PROVE pipe'[p] \in PipeRecord
    <3>1. pipe' = [q \in Pipelines |-> pipe'[q]]
      BY PipeFunction DEF Typed
    <3> QED BY <3>1
  <2>2. /\ pipe[p].pending \in Seq(Chunks) /\ pipe[p].copying \in Seq(CopyRecord)
        /\ pipe[p].inflight \in Seq(Nat) /\ pipe[p].arrived \in Nat /\ pipe[p].assigned \in Int
    BY PipeParts DEF Typed
  <2>3. [pending |-> pipe[p].pending, copying |-> <<>>, inflight |-> <<>>, arrived |-> pipe[p].arrived,
         assigned |-> pipe[p].assigned] \in PipeRecord
    BY <2>2 DEF PipeRecord
  <2> QED BY <1>1, <2>3 DEF Retired, Typed, Kept
<1>3. buffer' \in [Gpus -> [alloc : 0..BufferSize, freed : Nat]]
  <2>1. \A g \in Gpus : Space(g, S) \in Nat /\ buffer[g] \in [alloc : 0..BufferSize, freed : Nat]
    BY SpaceTyped DEF Typed, Kept
  <2>2. \A g \in Gpus : Release(buffer[g], Space(g, S)) \in [alloc : 0..BufferSize, freed : Nat]
    BY <2>1, ReleaseTyped
  <2> QED BY <1>1, <2>2 DEF Retired
<1>4. Kept'
  BY <1>0, <1>2, <1>3 DEF Kept, Typed
<1>5. Rings'
  <2>1. PICK flags \in Seq(Flags) : Recycle(flags)
    BY <1>1 DEF Retired
  <2>2. recycled' \in Seq(Flags) /\ Len(recycled') <= RingCapacity
    BY <2>1, RecycleIs DEF Typed
  <2> QED BY <1>0, <2>2 DEF Rings, Typed
<1> QED BY <1>0, <1>4, <1>5, Frames DEF Typed

\* The flag a copy is launched with.
LaunchFlag == IF Drained = <<>> THEN NewFlag ELSE Last(Drained)

\* It is a flag, and what stays in the pool are flags.
LEMMA LaunchFlagIs ==
    ASSUME Typed
    PROVE  /\ Drained \in Seq(Flags) /\ LaunchFlag \in Flags
           /\ Drained # <<>> => /\ Front(Drained) \in Seq(Flags) /\ Len(Drained) \in Nat \ {0}
                                /\ Len(Front(Drained)) = Len(Drained) - 1
                                /\ \A i \in 1..(Len(Drained) - 1) : Front(Drained)[i] = Drained[i]
                                /\ LaunchFlag = Drained[Len(Drained)]
           /\ Drained = <<>> => LaunchFlag = NewFlag
<1>1. Drained \in Seq(Flags)
  BY DEF Drained, Typed, Rings
<1>2. CASE Drained = <<>>
  <2>1. NewFlag \in Flags
    BY NewFlagIs DEF Typed, Kept
  <2> QED BY <1>1, <1>2, <2>1 DEF LaunchFlag
<1>3. CASE Drained # <<>>
  <2> DEFINE s == Drained
             n == Len(s)
  <2>1. s \in Seq(Flags) /\ n \in Nat \ {0} /\ s[n] \in Flags
    BY <1>1, <1>3
  <2>2. Front(Drained) = SubSeq(s, 1, n - 1) /\ Last(Drained) = s[n]
    BY DEF Front, Last
  <2> HIDE DEF s
  <2>3. SubSeq(s, 1, n - 1) \in Seq(Flags) /\ Len(SubSeq(s, 1, n - 1)) = n - 1
        /\ \A i \in 1..(n - 1) : SubSeq(s, 1, n - 1)[i] = s[i]
    <3>1. \A i \in 1..n : s[i] \in Flags
      BY <2>1
    <3> HIDE DEF n
    <3>2. /\ 1 \in Int /\ n - 1 \in Int /\ (1 <= n - 1 \/ n - 1 = 0) /\ \A i \in 1..(n - 1) : s[i] \in Flags
      BY <2>1, <3>1
    <3>3. /\ SubSeq(s, 1, n - 1) \in Seq(Flags)
          /\ Len(SubSeq(s, 1, n - 1)) = IF 1 <= n - 1 THEN n - 1 - 1 + 1 ELSE 0
          /\ \A i \in 1..(n - 1 - 1 + 1) : SubSeq(s, 1, n - 1)[i] = s[1 + i - 1]
      BY <3>2, SubSeqProperties
    <3>4. n - 1 - 1 + 1 = n - 1 /\ \A i \in 1..(n - 1) : 1 + i - 1 = i
      BY <2>1
    <3> QED BY <2>1, <3>2, <3>3, <3>4
  <2> QED BY <1>1, <1>3, <2>1, <2>2, <2>3 DEF LaunchFlag, s
<1> QED BY <1>2, <1>3

\* The copy thread.
LEMMA CopyThreadTyped == ASSUME Typed, CopyThread \/ LaunchFails PROVE Typed'
<1>0. UNCHANGED <<nextChunk, completed, pipe, out, buffer, wire, cq, taint>>
  BY DEF CopyThread, Launch, LaunchFails, DrainRecycled, PushResult, Client, nic, allocator
<1>1. Kept'
  BY <1>0, Frames DEF Typed
<1>2. requests # <<>> => Tail(requests) \in Seq([chunk : Chunks, gpu : ProxyGpus])
        /\ Len(Tail(requests)) <= RingCapacity
                         /\ Head(requests).chunk \in Chunks
  <2> SUFFICES ASSUME requests # <<>> PROVE Tail(requests) \in Seq([chunk : Chunks, gpu : ProxyGpus])
        /\ Len(Tail(requests)) <= RingCapacity /\ Head(requests).chunk \in Chunks
    OBVIOUS
  <2>1. requests \in Seq([chunk : Chunks, gpu : ProxyGpus]) /\ Len(requests) <= RingCapacity
    BY DEF Typed, Rings
  <2>2. Head(requests) \in [chunk : Chunks, gpu : ProxyGpus]
          /\ Tail(requests) \in Seq([chunk : Chunks, gpu : ProxyGpus])
        /\ Len(Tail(requests)) = Len(requests) - 1 /\ Len(requests) \in Nat
    BY <2>1, SeqTail
  <2> QED BY <2>1, <2>2, Sizing
<1>3. ASSUME NEW flag \in Nat, NEW ok \in BOOLEAN, requests # <<>>, Hold(flag, ok)
      PROVE  held' \in Seq(ResultRecord) /\ Len(held') <= 1
  <2>1. [chunk |-> Head(requests).chunk, flag |-> flag, ok |-> ok] \in ResultRecord
    BY <1>2, <1>3 DEF ResultRecord
  <2> QED BY <1>3, <2>1 DEF Hold
<1>4. ASSUME NEW flag \in Nat, requests # <<>>, Running(flag)
      PROVE  copies' \subseteq [chunk : Chunks, flag : Nat] /\ IsFiniteSet(copies')
  <2> DEFINE k == [chunk |-> Head(requests).chunk, flag |-> flag]
  <2>1. k \in [chunk : Chunks, flag : Nat]
    BY <1>2, <1>4
  <2>2. copies' = copies \cup {k}
    BY <1>4 DEF Running
  <2> HIDE DEF k
  <2> QED BY <2>1, <2>2, FS_AddElement DEF Typed, Hardware
<1>5. Drained \in Seq(Flags) /\ LaunchFlag \in Flags /\ LaunchFlag \in Nat /\ Len(<<>>) <= RingCapacity
  BY LaunchFlagIs, Sizing DEF Flags
<1>6. CASE Launch
  <2>1. /\ requests # <<>> /\ requests' = Tail(requests) /\ recycled' = <<>> /\ results' = results
        /\ pool' = IF Drained = <<>> THEN <<>> ELSE Front(Drained)
        /\ raised' = raised \ {LaunchFlag} /\ Hold(LaunchFlag, TRUE) /\ Running(LaunchFlag) /\ faults' = faults
    BY <1>6 DEF Launch, CanLaunch, Pop, LaunchFlag
  <2>2. pool' \in Seq(Flags)
    BY <2>1, LaunchFlagIs
  <2>3. held' \in Seq(ResultRecord) /\ Len(held') <= 1
    BY <1>3, <1>5, <2>1
  <2>4. Rings'
    BY <1>2, <1>5, <2>1, <2>2, <2>3 DEF Rings, Typed
  <2>5. copies' \subseteq [chunk : Chunks, flag : Nat] /\ IsFiniteSet(copies')
    BY <1>4, <1>5, <2>1
  <2>6. Hardware'
    BY <1>0, <2>1, <2>5 DEF Hardware, Typed
  <2> QED BY <1>1, <2>4, <2>6 DEF Typed
<1>7. CASE LaunchFails
  <2>1. /\ requests # <<>> /\ requests' = Tail(requests) /\ recycled' = <<>> /\ results' = results
        /\ Hold(NoFlag, FALSE) /\ Fault
        /\ \/ pool' = Drained /\ copies' = copies /\ raised' = raised
           \/ pool' = (IF Drained = <<>> THEN <<LaunchFlag>> ELSE Drained) /\ raised' = raised \ {LaunchFlag}
              /\ Running(NoFlag)
    BY <1>7 DEF LaunchFails, CanLaunch, Pop, LaunchFlag
  <2>2. NoFlag \in Nat
    BY DEF NoFlag
  <2>3. pool' \in Seq(Flags) /\ raised' \subseteq Flags
    <3>1. <<LaunchFlag>> \in Seq(Flags) /\ pool \in Seq(Flags)
      BY <1>5 DEF Typed, Rings
    <3>2. pool' \in {Drained, <<LaunchFlag>>} /\ raised' \subseteq raised
      BY <2>1
    <3> QED BY <1>5, <3>1, <3>2 DEF Typed, Rings
  <2>4. held' \in Seq(ResultRecord) /\ Len(held') <= 1
    BY <1>3, <2>1, <2>2
  <2>5. Rings'
    BY <1>2, <1>5, <2>1, <2>3, <2>4 DEF Rings, Typed
  <2>6. copies' \subseteq [chunk : Chunks, flag : Nat] /\ IsFiniteSet(copies')
    BY <1>4, <2>1, <2>2 DEF Typed, Hardware
  <2>7. faults' \in 0..MaxFaults
    BY <2>1, Sizing DEF Fault, Typed, Hardware
  <2>8. Hardware'
    BY <1>0, <2>6, <2>7 DEF Hardware, Typed
  <2> QED BY <1>1, <2>5, <2>8 DEF Typed
<1>8. CASE DrainRecycled
  <2>1. pool' = Drained /\ recycled' = <<>> /\ UNCHANGED <<requests, results, held, copies, raised, faults>>
    BY <1>8 DEF DrainRecycled
  <2>2. Rings'
    BY <1>5, <2>1 DEF Rings, Typed
  <2> QED BY <1>0, <1>1, <2>1, <2>2, Frames DEF Typed
<1>9. CASE PushResult
  <2>1. /\ held # <<>> /\ ~Full(results) /\ results' = results \o held /\ held' = <<>>
        /\ UNCHANGED <<requests, recycled, pool, copies, raised, faults>>
    BY <1>9 DEF PushResult
  <2>2. results \in Seq(ResultRecord) /\ Len(results) < RingCapacity /\ held \in Seq(ResultRecord) /\ Len(held) <= 1
    BY <2>1, Sizing DEF Full, Typed, Rings
  <2>3. results' \in Seq(ResultRecord) /\ Len(results') = Len(results) + Len(held) /\ Len(results) \in Nat
          /\ Len(held) \in Nat
    BY <2>1, <2>2, SeqConcat
  <2>4. Len(results') <= RingCapacity
    BY <2>2, <2>3, Sizing
  <2>5. held' \in Seq(ResultRecord) /\ Len(held') <= 1
    BY <2>1
  <2>6. Rings'
    BY <2>1, <2>3, <2>4, <2>5 DEF Rings, Typed
  <2> QED BY <1>0, <1>1, <2>1, <2>6, Frames DEF Typed
<1> QED BY <1>6, <1>7, <1>8, <1>9 DEF CopyThread

\* The hardware.
LEMMA HardwareTyped == ASSUME Typed, Gpu \/ Nic \/ NicFails PROVE Typed'
<1>1. CASE Gpu
  <2>1. PICK k \in copies : FinishCopy(k)
    BY <1>1 DEF Gpu
  <2>2. /\ copies' = copies \ {k} /\ raised' = IF k.flag = NoFlag THEN raised ELSE raised \cup {k.flag}
        /\ UNCHANGED <<nextChunk, completed, pipe, out, buffer, wire, cq, taint, requests, results, recycled, held,
             pool, faults>>
    BY <2>1 DEF FinishCopy, Client, nic, allocator
  <2>3. raised' \subseteq Flags
    BY <2>2 DEF Typed, Rings, Hardware, Flags
  <2>4. Rings'
    BY <2>2, <2>3 DEF Rings, Typed
  <2>5. copies' \subseteq [chunk : Chunks, flag : Nat] /\ IsFiniteSet(copies')
    BY <2>2, FS_RemoveElement DEF Typed, Hardware
  <2>6. Hardware'
    BY <2>2, <2>5 DEF Hardware, Typed
  <2> QED BY <2>2, <2>4, <2>6, Frames DEF Typed
<1>2. CASE Nic \/ NicFails
  <2>1. PICK w \in wire, ok \in BOOLEAN : Complete(w, ok) /\ (UNCHANGED faults \/ Fault)
    BY <1>2 DEF Nic, NicFails
  <2> DEFINE v == [chunk |-> w.chunk, nic |-> w.nic, ok |-> ok]
  <2>2. /\ wire' = wire \ {w} /\ cq' = cq \cup {v}
        /\ UNCHANGED <<nextChunk, completed, pipe, out, buffer, requests, results, recycled, held, pool, copies,
             raised, taint>>
    BY <2>1 DEF Complete, copier, allocator
  <2>3. v \in CqRecord
    BY DEF Typed, Hardware, WireRecord, CqRecord
  <2> HIDE DEF v
  <2>4. wire' \subseteq WireRecord /\ IsFiniteSet(wire') /\ cq' \subseteq CqRecord /\ IsFiniteSet(cq')
    BY <2>2, <2>3, FS_AddElement, FS_RemoveElement DEF Typed, Hardware
  <2>5. faults' \in 0..MaxFaults
    BY <2>1, Sizing DEF Fault, Typed, Hardware
  <2>6. Hardware'
    BY <2>2, <2>4, <2>5 DEF Hardware, Typed
  <2> QED BY <2>2, <2>6, Frames DEF Typed
<1> QED BY <1>1, <1>2

\* Every step.
LEMMA StepTyped == ASSUME Control, Typed, [Next]_vars PROVE Typed'
<1>0. ASSUME UNCHANGED <<nextChunk, completed, pipe, out, buffer, requests, results, recycled, held, pool, raised,
                         copies, wire, cq>>,
             taint' \in {taint, taint \cup {"failed"}, taint \cup {"failed", "leak"}}, faults' \in 0..MaxFaults
      PROVE  Typed'
  <2>1. Hardware'
    BY <1>0 DEF Typed, Hardware
  <2> QED BY <1>0, <2>1, Frames DEF Typed
<1>1. faults \in 0..MaxFaults /\ (Fault => faults' \in 0..MaxFaults)
  BY Sizing DEF Fault, Typed, Hardware
<1>2. CASE \E t \in Transfers : Start(t)
  BY <1>2, StartTyped
<1>3. CASE Begin
  BY <1>0, <1>1, <1>3 DEF Begin, copier, nic, allocator
<1>4. CASE Dispatch
  BY <1>4, DispatchTyped
<1>5. CASE AdvanceCopy \/ Aside
  BY <1>5, AdvanceTyped, AsideTyped
<1>6. CASE AdvanceEnds \/ AssignEnds \/ PostEnds
  BY <1>0, <1>1, <1>6 DEF AdvanceEnds, AssignEnds, PostEnds, ClientSide, copier, nic, allocator
<1>7. CASE AssignDirect \/ AssignProxy
  BY <1>7, AssignTyped
<1>8. CASE FreePosted \/ PostProxy
  BY <1>8, PostTyped
<1>9. CASE Poll
  BY <1>9, PollTyped
<1>10. CASE Retire
  BY <1>10, RetireTyped
<1>11. CASE PostFails \/ PollFails
  BY <1>0, <1>1, <1>11 DEF PostFails, PollFails, ClientSide, copier, nic, allocator
<1>12. CASE CopyThread \/ LaunchFails
  BY <1>12, CopyThreadTyped
<1>13. CASE Gpu \/ Nic \/ NicFails
  BY <1>13, HardwareTyped
<1>14. CASE UNCHANGED vars
  BY <1>0, <1>1, <1>14 DEF vars
<1> QED BY <1>2, <1>3, <1>4, <1>5, <1>6, <1>7, <1>8, <1>9, <1>10, <1>11, <1>12, <1>13, <1>14 DEF Next, Worker, Aside

-----------------------------------------------------------------------------
(* How far tryAlloc is.                                                     *)

\* The resets of the client.
LEMMA ResetKept ==
    ASSUME Trial, [Next]_vars PROVE reset' \in [done : SUBSET ProxyNics, half : ProxyNics \cup {0}]
<1>1. CASE reset' = reset
  BY <1>1 DEF Trial
<1>2. CASE ResetAlloc
  BY <1>2 DEF ResetAlloc, Trial
<1>3. CASE ResetFree
  <2>1. reset' = [done |-> reset.done \cup {reset.half}, half |-> 0] /\ reset.half # 0
    BY <1>3 DEF ResetFree
  <2> QED BY <2>1 DEF Trial
<1>4. CASE \E t \in Transfers : Start(t)
  BY <1>4 DEF Start, NoReset
<1>5. CASE Worker \/ PostFails \/ PollFails
  <2>1. reset' = reset
    BY <1>5 DEF Worker, PostFails, PollFails, Begin, Dispatch, LoadAlloc, StartAgain, NoSpace, AdvanceCopy,
       AdvanceRingFull, FreeRefused, AdvanceEnds, AssignDirect, AssignProxy, AssignEnds, FreePosted, PostProxy,
       PostEnds, Poll, Retire, allocator
  <2> QED BY <1>1, <2>1
<1>6. CASE CopyThread \/ LaunchFails \/ Gpu \/ Nic \/ NicFails
  <2>1. reset' = reset
    BY <1>6 DEF CopyThread, LaunchFails, Launch, DrainRecycled, PushResult, Gpu, Nic, NicFails, FinishCopy, Complete,
       Client, allocator
  <2> QED BY <1>1, <2>1
<1>7. CASE UNCHANGED vars
  BY <1>1, <1>7 DEF vars
<1> QED BY <1>2, <1>3, <1>4, <1>5, <1>6, <1>7 DEF Next

\* Every step keeps the worker in its tryAlloc, and the chunk it wants in its place.
LEMMA StepTrial == ASSUME Rounds, Trial, Kept, [Next]_vars PROVE Trial'
<1>0. reset' \in [done : SUBSET ProxyNics, half : ProxyNics \cup {0}]
  BY ResetKept
<1>1. ASSUME trying.at = "no", trying' = trying PROVE Trial'
  BY <1>0, <1>1 DEF Trial
<1>2. ASSUME UNCHANGED <<trying, tasks, pipe>>, \A t \in Transfers : ~Finished(t) => ~Finished(t)' PROVE Trial'
  <2>1. CASE trying.at = "no"
    BY <1>1, <1>2, <2>1
  <2>2. CASE trying.at # "no"
    <3>1. Advancing
      BY <2>2 DEF Trial
    <3>2. Context \in Transfers
      BY <3>1, TargetIs DEF Rounds, Pipelines
    <3>3. ~Finished(Context)
      BY <3>1 DEF Advancing
    <3>4. Advancing'
      BY <1>2, <3>1, <3>2, <3>3 DEF Advancing, At, Context, Pipeline, Finished
    <3>5. Wanted' = Wanted
      BY <1>2 DEF Wanted, Pipeline
    <3> QED BY <1>0, <1>2, <3>4, <3>5 DEF Trial, Fits
  <2> QED BY <2>1, <2>2
<1>3. ASSUME NEW op, At(op), op # "advance", trying' = trying PROVE Trial'
  <2>1. trying.at = "no"
    BY <1>3 DEF Trial, Advancing, At
  <2> QED BY <1>1, <1>3, <2>1
<1>4. ASSUME Advancing, trying' = NotTrying PROVE Trial'
  BY <1>0, <1>4, Sizing DEF Trial, NotTrying
<1>5. ASSUME Advancing, Stay, UNCHANGED <<status, pipe>>
      PROVE  Advancing' /\ Wanted' = Wanted
  BY <1>5 DEF Advancing, Wanted, At, Context, Pipeline, Finished, Stay
<1>6. CASE \E t \in Transfers : Start(t)
  <2>1. PICK t \in Transfers : Start(t)
    BY <1>6
  <2>2. UNCHANGED <<trying, tasks, pipe>> /\ status' = [status EXCEPT ![t] = "queued"]
    BY <2>1 DEF Start, worker
  <2>3. \A s \in Transfers : ~Finished(s) => ~Finished(s)'
    BY <2>2 DEF Finished, Rounds, Working
  <2> QED BY <1>2, <2>2, <2>3
<1>7. CASE ResetAlloc \/ ResetFree
  <2>1. UNCHANGED <<trying, tasks, pipe, status>>
    BY <1>7 DEF ResetAlloc, ResetFree, worker
  <2> QED BY <1>2, <2>1 DEF Finished
<1>8. CASE Begin
  <2>1. trying' = trying /\ tasks = <<>>
    BY <1>8 DEF Begin, allocator
  <2>2. trying.at = "no"
    BY <2>1 DEF Trial, Advancing, At
  <2> QED BY <1>1, <2>1, <2>2
<1>9. CASE Dispatch \/ Poll \/ Retire \/ PollFails
  <2>1. trying' = trying /\ (At("dispatch") \/ At("poll") \/ At("retire"))
    BY <1>9 DEF Dispatch, Poll, Retire, PollFails, allocator
  <2> QED BY <1>3, <2>1
<1>10. CASE AssignDirect \/ AssignProxy \/ AssignEnds \/ FreePosted \/ PostProxy \/ PostEnds \/ PostFails
  <2>1. trying' = trying /\ (At("assign") \/ At("post"))
    BY <1>10 DEF AssignDirect, AssignProxy, AssignEnds, FreePosted, PostProxy, PostEnds, PostFails,
        CanAssign, CanPost,
       Posting, allocator
  <2> QED BY <1>3, <2>1
<1>11. CASE AdvanceEnds
  <2>1. trying' = trying /\ trying.at = "no"
    BY <1>11 DEF AdvanceEnds, Trial, allocator
  <2> QED BY <1>1, <2>1
<1>12. CASE LoadAlloc
  <2>1. Advancing /\ Stay /\ UNCHANGED <<status, pipe>> /\ trying' = Loaded
    BY <1>12 DEF LoadAlloc
  <2>2. buffer[Target].alloc \in 0..BufferSize
    BY <2>1, TargetIs DEF Rounds
  <2>3. Advancing' /\ Wanted' = Wanted
    BY <1>5, <2>1
  <2>4. trying'.at \in {"full", "fits"} /\ (trying'.at = "fits" => Fits(trying'.cur, Wanted))
        /\ trying' \in [at : {"no", "full", "fits", "refused"}, cur : 0..BufferSize]
    BY <2>1, <2>2 DEF Loaded
  <2>5. trying'.at = "fits" => Fits(trying'.cur, Wanted')
    BY <2>3, <2>4
  <2> QED BY <1>0, <2>3, <2>4, <2>5 DEF Trial, Fits
<1>13. CASE StartAgain
  <2>1. Advancing /\ Stay /\ UNCHANGED <<status, pipe>> /\ trying' = [at |-> "fits", cur |-> 0]
    BY <1>13 DEF StartAgain
  <2>2. Wanted \in 1..BufferSize
    BY <2>1, TargetIs DEF Rounds
  <2>3. Advancing' /\ Wanted' = Wanted
    BY <1>5, <2>1
  <2>4. Fits(0, Wanted')
    BY <2>2, <2>3, Sizing DEF Fits
  <2> QED BY <1>0, <2>1, <2>3, <2>4, Sizing DEF Trial, Fits
<1>14. CASE NoSpace \/ AdvanceCopy \/ FreeRefused
  <2>1. Advancing /\ trying' = NotTrying
    BY <1>14 DEF NoSpace, AdvanceCopy, Take, FreeRefused
  <2> QED BY <1>4, <2>1
<1>15. CASE AdvanceRingFull
  <2>1. Advancing /\ Stay /\ UNCHANGED <<status, pipe>> /\ trying' = [at |-> "refused", cur |-> 0]
    BY <1>15 DEF AdvanceRingFull, Take
  <2>2. Advancing'
    BY <1>5, <2>1
  <2> QED BY <1>0, <2>1, <2>2, Sizing DEF Trial
<1>16. CASE CopyThread \/ LaunchFails \/ Gpu \/ Nic \/ NicFails
  <2>1. UNCHANGED <<trying, tasks, pipe, status>>
    BY <1>16 DEF CopyThread, LaunchFails, Launch, DrainRecycled, PushResult, Gpu, Nic, NicFails, FinishCopy, Complete,
       Client, allocator, worker
  <2> QED BY <1>2, <2>1 DEF Finished
<1>17. CASE UNCHANGED vars
  BY <1>2, <1>17 DEF vars, Finished
<1> QED BY <1>6, <1>7, <1>8, <1>9, <1>10, <1>11, <1>12, <1>13, <1>14, <1>15, <1>16, <1>17 DEF Next, Worker

\* Together.
LEMMA StepControl == ASSUME Control, Kept, CqBegun, [Next]_vars PROVE Control'
BY StepRounds, StepTrial DEF Control

-----------------------------------------------------------------------------
(* Chunks and their places.                                                 *)

\* The places are those of the pipelines and those of the NICs.
LEMMA SpotsAre == \A a : a \in Spots <=> a \in NicSpots \/ \E p \in Pipelines : a \in PipeSpots[p]
BY DEF Spots

\* What is in a place is a chunk; in a pipeline it is one of its transfer.
LEMMA SpotTyped ==
    ASSUME Typed
    PROVE  \A a \in Spots : a[1] \in Chunks /\ a[2] \in {"pending", "copying", "wire", "cq"}
<1>1. ASSUME NEW p \in Pipelines, NEW a \in PipeSpots[p] PROVE a[1] \in Chunks /\ a[2] \in {"pending", "copying"}
  <2>1. /\ ToSet(pipe[p].pending) \subseteq Chunks /\ ToSet(pipe[p].copying) \subseteq CopyRecord
    BY PipeParts, SeqSet DEF Typed
  <2> QED BY <2>1 DEF PipeSpots, CopyRecord
<1>2. ASSUME NEW a \in NicSpots PROVE a[1] \in Chunks /\ a[2] \in {"wire", "cq"}
  BY DEF NicSpots, Typed, Hardware, WireRecord, CqRecord
<1> QED BY <1>1, <1>2, SpotsAre

\* The places of a pipeline, and of a work request.
LEMMA SpotIs ==
    /\ \A p \in Pipelines : /\ \A c \in ToSet(pipe[p].pending) : <<c, "pending", p>> \in Spots
                            /\ \A e \in ToSet(pipe[p].copying) : <<e.chunk, "copying", p>> \in Spots
    /\ \A w \in wire : <<w.chunk, "wire", w>> \in Spots
    /\ \A w \in cq : <<w.chunk, "cq", w>> \in Spots
<1>1. /\ \A p \in Pipelines : \A a \in PipeSpots[p] : a \in Spots
      /\ \A a \in NicSpots : a \in Spots
  BY SpotsAre
<1>2. ASSUME NEW p \in Pipelines
      PROVE  /\ \A c \in ToSet(pipe[p].pending) : <<c, "pending", p>> \in PipeSpots[p]
             /\ \A e \in ToSet(pipe[p].copying) : <<e.chunk, "copying", p>> \in PipeSpots[p]
  BY DEF PipeSpots
<1>3. /\ \A w \in wire : <<w.chunk, "wire", w>> \in NicSpots
      /\ \A w \in cq : <<w.chunk, "cq", w>> \in NicSpots
  BY DEF NicSpots
<1> QED BY <1>1, <1>2, <1>3

\* Chunk c is now in place <<kind, x>> and nothing else has moved, though chunks may have left.
Moved(c, kind, x) == Spots' \subseteq {a \in Spots : a[1] # c} \cup {<<c, kind, x>>}

\* A chunk that leaves its place for another one has moved.
LEMMA MovedFrom ==
    ASSUME Single, NEW s \in Spots, NEW kind, NEW x, Spots' \subseteq (Spots \ {s}) \cup {<<s[1], kind, x>>}
    PROVE  Moved(s[1], kind, x)
BY DEF Single, Moved

\* After a move every chunk is still in one place at most.
LEMMA MoveSingle == ASSUME Single, NEW c, NEW kind, NEW x, Moved(c, kind, x) PROVE Single'
BY DEF Single, Moved

\* So it is when chunks only leave.
LEMMA LessSingle == ASSUME Single, Spots' \subseteq Spots PROVE Single'
BY DEF Single

\* What was assigned stays assigned.
LEMMA BegunKept ==
    ASSUME Typed, Begun, NEW T, Spots' \subseteq Spots \cup T,
           \A a \in T : a[1][2] < nextChunk'[a[1][1]],
           \A t \in Transfers : nextChunk'[t] \in Nat /\ nextChunk[t] <= nextChunk'[t]
    PROVE  \A a \in Spots' : a[1][2] < nextChunk'[a[1][1]]
<1> SUFFICES ASSUME NEW a \in Spots, a[1][2] < nextChunk[a[1][1]] PROVE a[1][2] < nextChunk'[a[1][1]]
  BY DEF Begun
<1>1. a[1] \in Chunks
  BY SpotTyped
<1>2. a[1][1] \in Transfers /\ a[1][2] \in Nat
  <2>1. a[1][1] \in Transfers /\ a[1][2] \in 1..Len(Lens[a[1][1]]) /\ Len(Lens[a[1][1]]) \in Nat
    BY <1>1, ChunkTyped
  <2> QED BY <2>1
<1>3. nextChunk[a[1][1]] \in Nat
  BY <1>2 DEF Typed, Kept
<1> QED BY <1>2, <1>3

\* No transfer goes back to before its beginning.
LEMMA Onward ==
    ASSUME Control, [Next]_vars
    PROVE  \A t \in Transfers : status'[t] \in {"idle", "queued"} => status[t] \in {"idle", "queued"}
<1>1. ASSUME NEW S, Fail(S)
      PROVE \A t \in Transfers : status'[t] \in {"idle", "queued"} => status[t] \in {"idle", "queued"}
  BY <1>1 DEF Fail
<1>2. CASE \E t \in Transfers : Start(t)
  BY <1>2 DEF Start, Control, Rounds, Working, MayStart
<1>3. CASE Begin
  <2>1. \E S : status' = [t \in Transfers |-> IF t \in S THEN "active" ELSE status[t]]
    BY <1>3 DEF Begin
  <2> QED BY <2>1
<1>4. CASE Dispatch \/ Poll \/ PostFails \/ PollFails
  <2>1. \E S : Fail(S)
    BY <1>4 DEF Dispatch, Poll, PostFails, PollFails
  <2> QED BY <1>1, <2>1
<1>5. CASE Retire
  <2>1. \E S : status' = [t \in Transfers |-> IF t \in S /\ ~Finished(t) THEN "done" ELSE status[t]]
    BY <1>5, Zenon DEF Retire
  <2> QED BY <2>1
<1>6. CASE UNCHANGED status
  BY <1>6
<1>7. CASE Aside
  BY <1>7, AsideStays
<1> QED BY <1>2, <1>3, <1>4, <1>5, <1>6, <1>7 DEF Next, Worker, Aside, vars, AdvanceCopy, AdvanceEnds,
           AssignDirect, AssignProxy, AssignEnds, FreePosted, PostProxy, PostEnds, CopyThread, Launch,
               DrainRecycled, PushResult,
           LaunchFails, Gpu, Nic, NicFails, FinishCopy, Complete, Client

\* A transfer that has not begun has nothing anywhere.
LEMMA NothingYet ==
    ASSUME Typed, Places, NEW a \in Spots
    PROVE  a[1][1] \in Transfers /\ status[a[1][1]] \notin {"idle", "queued"}
<1>1. a[1] \in Chunks /\ a[1][2] < nextChunk[a[1][1]]
  BY SpotTyped DEF Places, Begun
<1>2. a[1][1] \in Transfers /\ a[1][2] \in 1..Len(Lens[a[1][1]])
  BY <1>1, ChunkTyped
<1>3. nextChunk[a[1][1]] # 1
  BY <1>1, <1>2
<1> QED BY <1>2, <1>3 DEF Places, Begun

\* What is in the completion queue belongs to a transfer that has begun.
LEMMA CqHasBegun == ASSUME Typed, Places PROVE CqBegun
BY NothingYet, SpotIs DEF CqBegun

-----------------------------------------------------------------------------
(* Every step keeps the places.                                             *)

\* What is where after a step.
LEMMA PlacesAfter ==
    \A a : a \in Spots' <=>
        \/ \E p \in Pipelines : \E c \in ToSet(pipe'[p].pending) : a = <<c, "pending", p>>
        \/ \E p \in Pipelines : \E e \in ToSet(pipe'[p].copying) : a = <<e.chunk, "copying", p>>
        \/ \E w \in wire' : a = <<w.chunk, "wire", w>>
        \/ \E w \in cq' : a = <<w.chunk, "cq", w>>
<1>1. \A a : a \in NicSpots' <=> (\E w \in wire' : a = <<w.chunk, "wire", w>>)
        \/ (\E w \in cq' : a = <<w.chunk, "cq", w>>)
  BY DEF NicSpots
<1>2. \A p \in Pipelines : \A a : a \in PipeSpots'[p] <=>
         \/ \E c \in ToSet(pipe'[p].pending) : a = <<c, "pending", p>>
         \/ \E e \in ToSet(pipe'[p].copying) : a = <<e.chunk, "copying", p>>
  BY DEF PipeSpots
<1>3. \A a : a \in Spots' <=> a \in NicSpots' \/ \E p \in Pipelines : a \in PipeSpots'[p]
  BY DEF Spots
<1> QED BY <1>1, <1>2, <1>3

\* The chunks in the pipelines and on the NICs but for pipeline p are where they were.
NewIn(p) ==
    /\ wire' \subseteq wire /\ cq' \subseteq cq
    /\ \A q \in Pipelines : q = p \/ pipe'[q] = pipe[q]

\* What is in a place that was in none is in that pipeline.
LEMMA PipesAfter ==
    ASSUME NEW p \in Pipelines, NewIn(p)
    PROVE  \A a \in Spots' : \/ a \in Spots
                             \/ \E c \in ToSet(pipe'[p].pending) : a = <<c, "pending", p>>
                             \/ \E e \in ToSet(pipe'[p].copying) : a = <<e.chunk, "copying", p>>
<1> SUFFICES ASSUME NEW a \in Spots', a \notin Spots
             PROVE  \/ \E c \in ToSet(pipe'[p].pending) : a = <<c, "pending", p>>
                    \/ \E e \in ToSet(pipe'[p].copying) : a = <<e.chunk, "copying", p>>
  OBVIOUS
<1>1. CASE \E w \in wire' : a = <<w.chunk, "wire", w>>
  BY <1>1, SpotIs DEF NewIn
<1>2. CASE \E w \in cq' : a = <<w.chunk, "cq", w>>
  BY <1>2, SpotIs DEF NewIn
<1>3. ASSUME NEW q \in Pipelines, NEW c \in ToSet(pipe'[q].pending), a = <<c, "pending", q>> PROVE q = p
  BY <1>3, SpotIs DEF NewIn
<1>4. ASSUME NEW q \in Pipelines, NEW e \in ToSet(pipe'[q].copying), a = <<e.chunk, "copying", q>> PROVE q = p
  BY <1>4, SpotIs DEF NewIn
<1> QED BY <1>1, <1>2, <1>3, <1>4, PlacesAfter

\* Sequences without doubles, one element shorter or longer.
LEMMA OnceTail ==
    ASSUME NEW T, NEW s \in Seq(T), s # <<>>, Once(s)
    PROVE  Once(Tail(s)) /\ Head(s) \notin ToSet(Tail(s))
<1> DEFINE r == Tail(s)
<1>1. /\ Head(s) = s[1] /\ 1 \in 1..Len(s) /\ Len(s) \in Nat /\ r \in Seq(T) /\ Len(r) = Len(s) - 1
      /\ \A i \in 1..(Len(s) - 1) : r[i] = s[i + 1] /\ i + 1 \in 1..Len(s)
  BY SeqTail
<1>2. ToSet(r) = {r[i] : i \in 1..Len(r)}
  BY <1>1, SeqSet
<1> HIDE DEF r
<1>3. Once(r)
  <2>1. ASSUME NEW i \in 1..Len(r), NEW j \in 1..Len(r), r[i] = r[j] PROVE i + 1 = j + 1
    BY <1>1, <2>1 DEF Once
  <2>2. ASSUME NEW i \in 1..Len(r), NEW j \in 1..Len(r), r[i] = r[j] PROVE i = j
    BY <2>1, <2>2, <1>1
  <2> QED BY <2>2 DEF Once
<1>4. ASSUME NEW i \in 1..Len(r) PROVE r[i] # Head(s)
  <2>1. i + 1 # 1 /\ r[i] = s[i + 1] /\ i + 1 \in 1..Len(s)
    BY <1>1
  <2> QED BY <1>1, <2>1 DEF Once
<1> QED BY <1>2, <1>3, <1>4 DEF r

\* An element that is not in a sequence can be appended to it.
LEMMA OnceAppend ==
    ASSUME NEW T, NEW s \in Seq(T), NEW x \in T, Once(s), x \notin ToSet(s)
    PROVE  Once(Append(s, x))
<1> DEFINE r == Append(s, x)
<1>1. /\ Len(r) = Len(s) + 1 /\ Len(s) \in Nat
      /\ \A i \in 1..Len(s) : r[i] = s[i] /\ r[i] # x
      /\ r[Len(s) + 1] = x
  BY SeqAppend, SeqSet
<1> HIDE DEF r
<1>2. \A i \in 1..Len(r) : i \in 1..Len(s) \/ i = Len(s) + 1
  BY <1>1
<1>3. Once(r)
  BY <1>1, <1>2 DEF Once
<1> QED BY <1>3 DEF r

\* Sequences of records about distinct chunks, one shorter or longer.
LEMMA DistinctTail ==
    ASSUME NEW T, NEW s \in Seq(T), s # <<>>, Distinct(s)
    PROVE  Distinct(Tail(s)) /\ \A e \in ToSet(Tail(s)) : e.chunk # Head(s).chunk
<1> DEFINE r == Tail(s)
<1>1. /\ Head(s) = s[1] /\ 1 \in 1..Len(s) /\ Len(s) \in Nat /\ r \in Seq(T) /\ Len(r) = Len(s) - 1
      /\ \A i \in 1..(Len(s) - 1) : r[i] = s[i + 1] /\ i + 1 \in 1..Len(s)
  BY SeqTail
<1>2. ToSet(r) = {r[i] : i \in 1..Len(r)}
  BY <1>1, SeqSet
<1> HIDE DEF r
<1>3. Distinct(r)
  <2>1. ASSUME NEW i \in 1..Len(r), NEW j \in 1..Len(r), r[i].chunk = r[j].chunk PROVE i + 1 = j + 1
    BY <1>1, <2>1 DEF Distinct
  <2>2. ASSUME NEW i \in 1..Len(r), NEW j \in 1..Len(r), r[i].chunk = r[j].chunk PROVE i = j
    BY <2>1, <2>2, <1>1
  <2> QED BY <2>2 DEF Distinct
<1>4. ASSUME NEW i \in 1..Len(r) PROVE r[i].chunk # Head(s).chunk
  <2>1. i + 1 # 1 /\ r[i] = s[i + 1] /\ i + 1 \in 1..Len(s)
    BY <1>1
  <2> QED BY <1>1, <2>1 DEF Distinct
<1> QED BY <1>2, <1>3, <1>4 DEF r

\* So can a record about a chunk that no record of it is about.
LEMMA DistinctAppend ==
    ASSUME NEW T, NEW s \in Seq(T), NEW x \in T, Distinct(s), \A e \in ToSet(s) : e.chunk # x.chunk
    PROVE  Distinct(Append(s, x))
<1> DEFINE r == Append(s, x)
<1>1. /\ Len(r) = Len(s) + 1 /\ Len(s) \in Nat
      /\ \A i \in 1..Len(s) : r[i] = s[i] /\ r[i].chunk # x.chunk
      /\ r[Len(s) + 1] = x
  BY SeqAppend, SeqSet
<1> HIDE DEF r
<1>2. \A i \in 1..Len(r) : i \in 1..Len(s) \/ i = Len(s) + 1
  BY <1>1
<1>3. Distinct(r)
  BY <1>1, <1>2 DEF Distinct
<1> QED BY <1>3 DEF r

\* A pipeline that changes alone keeps the order of the others.
LEMMA ApartAfter ==
    ASSUME Apart, NEW p \in Pipelines, Elsewhere(p), Orderly(pipe'[p], p[1])
    PROVE  Apart'
<1>1. \A q \in Pipelines : Orderly(pipe'[q], q[1])
  BY Zenon DEF Apart, Elsewhere
<1> QED BY <1>1 DEF Apart, Orderly, Once, Distinct, ToSet

\* The beginnings, when a step assigns nothing.
LEMMA NoneBegun ==
    ASSUME Control, Typed, Begun, [Next]_vars, nextChunk' = nextChunk,
           NEW T, Spots' \subseteq Spots \cup T, \A a \in T : \E b \in Spots : a[1] = b[1]
    PROVE  Begun'
<1>1. \A a \in T : a[1][2] < nextChunk'[a[1][1]]
  BY DEF Begun
<1>2. \A t \in Transfers : nextChunk'[t] \in Nat /\ nextChunk[t] <= nextChunk'[t]
  BY DEF Typed, Kept
<1>3. \A a \in Spots' : a[1][2] < nextChunk'[a[1][1]]
  BY <1>1, <1>2, BegunKept
<1>4. \A t \in Transfers : status'[t] \in {"idle", "queued"} => nextChunk'[t] = 1
  BY Onward DEF Begun
<1> QED BY <1>3, <1>4 DEF Begun

\* A chunk goes from one place to another.
LEMMA MovePlaces ==
    ASSUME Control, Typed, Places, [Next]_vars, nextChunk' = nextChunk, Apart',
           NEW s \in Spots, NEW kind, NEW x, Spots' \subseteq (Spots \ {s}) \cup {<<s[1], kind, x>>}
    PROVE  Places' /\ Moved(s[1], kind, x)
<1>1. Moved(s[1], kind, x) /\ Single'
  BY MovedFrom, MoveSingle DEF Places
<1>2. Begun'
  <2> DEFINE T == {<<s[1], kind, x>>}
  <2>1. Spots' \subseteq Spots \cup T /\ \A a \in T : \E b \in Spots : a[1] = b[1]
    OBVIOUS
  <2> HIDE DEF T
  <2> QED BY <2>1, NoneBegun DEF Places
<1> QED BY <1>1, <1>2 DEF Places

\* Chunks leave their places.
LEMMA LeavePlaces ==
    ASSUME Control, Typed, Places, [Next]_vars, nextChunk' = nextChunk, Apart', Spots' \subseteq Spots
    PROVE  Places'
<1>1. Single'
  BY LessSingle DEF Places
<1>2. Begun'
  <2> DEFINE T == {}
  <2>1. Spots' \subseteq Spots \cup T /\ \A a \in T : \E b \in Spots : a[1] = b[1]
    OBVIOUS
  <2> HIDE DEF T
  <2> QED BY <2>1, NoneBegun DEF Places
<1> QED BY <1>1, <1>2 DEF Places

-----------------------------------------------------------------------------
\* A copy is requested.
LEMMA AdvancePlaces ==
    ASSUME Control, Typed, Places, [Next]_vars, nextChunk' = nextChunk, wire' = wire, cq' = cq,
           NEW p \in Pipelines, NEW e \in CopyRecord, Advanced(p, e)
    PROVE  /\ Places' /\ Moved(e.chunk, "copying", p)
           /\ <<e.chunk, "pending", p>> \in Spots /\ e.chunk \in ToSet(pipe[p].pending)
<1> DEFINE r == pipe[p]
           s == <<e.chunk, "pending", p>>
<1>1. /\ r.pending \in Seq(Chunks) /\ r.copying \in Seq(CopyRecord)
      /\ r.pending # <<>> /\ e.chunk = Head(r.pending)
      /\ pipe'[p].pending = Tail(r.pending) /\ pipe'[p].copying = Append(r.copying, e)
  <2>1. r.pending \in Seq(Chunks) /\ r.copying \in Seq(CopyRecord)
    BY PipeParts DEF Typed
  <2> QED BY <2>1 DEF Advanced
<1>2. Orderly(r, p[1])
  BY DEF Places, Apart
<1> HIDE DEF r
<1>3. /\ e.chunk \in ToSet(r.pending) /\ ToSet(r.pending) = ToSet(Tail(r.pending)) \cup {e.chunk}
      /\ Once(Tail(r.pending)) /\ e.chunk \notin ToSet(Tail(r.pending))
  BY <1>1, <1>2, SeqTail, OnceTail DEF Orderly
<1>4. ToSet(Append(r.copying, e)) = ToSet(r.copying) \cup {e}
  BY <1>1, SeqAppend
<1>5. s \in Spots /\ s[1] = e.chunk
  BY <1>3, SpotIs DEF r
<1>6. \A f \in ToSet(r.copying) : f.chunk # e.chunk
  <2> SUFFICES ASSUME NEW f \in ToSet(r.copying), f.chunk = e.chunk PROVE FALSE
    OBVIOUS
  <2>1. <<f.chunk, "copying", p>> \in Spots
    BY SpotIs DEF r
  <2> QED BY <1>5, <2>1 DEF Places, Single
<1>7. Distinct(Append(r.copying, e))
  BY <1>1, <1>2, <1>6, DistinctAppend DEF Orderly
<1>8. Orderly(pipe'[p], p[1])
  BY <1>1, <1>2, <1>3, <1>4, <1>7 DEF Orderly
<1>9. Apart'
  BY <1>8, ApartAfter DEF Advanced, Places
<1>10. Spots' \subseteq (Spots \ {s}) \cup {<<s[1], "copying", p>>}
  <2>1. \A a \in Spots' : \/ a \in Spots
                          \/ \E c \in ToSet(pipe'[p].pending) : a = <<c, "pending", p>>
                          \/ \E f \in ToSet(pipe'[p].copying) : a = <<f.chunk, "copying", p>>
    <3>1. NewIn(p)
      BY DEF Advanced, Elsewhere, NewIn
    <3> QED BY <3>1, PipesAfter
  <2>2. \A c \in ToSet(pipe'[p].pending) : <<c, "pending", p>> \in Spots
    BY <1>1, <1>3, SpotIs DEF r
  <2>3. \A f \in ToSet(pipe'[p].copying) : f.chunk = e.chunk \/ <<f.chunk, "copying", p>> \in Spots
    BY <1>1, <1>4, SpotIs DEF r
  <2>4. s \notin Spots'
    <3> SUFFICES ASSUME s \in Spots' PROVE FALSE
      OBVIOUS
    <3>1. \E q \in Pipelines : \E c \in ToSet(pipe'[q].pending) : s = <<c, "pending", q>>
      BY PlacesAfter
    <3>2. e.chunk \in ToSet(pipe'[p].pending)
      BY <3>1
    <3> QED BY <1>1, <1>3, <3>2
  <2> QED BY <1>5, <2>1, <2>2, <2>3, <2>4
<1>11. Places' /\ Moved(s[1], "copying", p)
  <2> HIDE DEF s
  <2> QED BY <1>5, <1>9, <1>10, MovePlaces
<1> QED BY <1>3, <1>5, <1>11 DEF r

\* A copied chunk is posted.
LEMMA PostPlaces ==
    ASSUME Control, Typed, Places, [Next]_vars, nextChunk' = nextChunk, cq' = cq,
           NEW p \in Pipelines, NEW e \in CopyRecord, NEW w \in WireRecord, Posted(p, e, w)
    PROVE  /\ Places' /\ Moved(e.chunk, "wire", w)
           /\ <<e.chunk, "copying", p>> \in Spots /\ e \in ToSet(pipe[p].copying)
<1> DEFINE r == pipe[p]
           s == <<e.chunk, "copying", p>>
<1>1. /\ r.pending \in Seq(Chunks) /\ r.copying \in Seq(CopyRecord)
      /\ r.copying # <<>> /\ e = Head(r.copying)
      /\ pipe'[p].pending = r.pending /\ pipe'[p].copying = Tail(r.copying)
      /\ w.chunk = e.chunk /\ wire' = wire \cup {w}
  <2>1. r.pending \in Seq(Chunks) /\ r.copying \in Seq(CopyRecord)
    BY PipeParts DEF Typed
  <2> QED BY <2>1 DEF Posted
<1>2. Orderly(r, p[1])
  BY DEF Places, Apart
<1> HIDE DEF r
<1>3. /\ e \in ToSet(r.copying) /\ ToSet(r.copying) = ToSet(Tail(r.copying)) \cup {e}
      /\ Distinct(Tail(r.copying)) /\ \A f \in ToSet(Tail(r.copying)) : f.chunk # e.chunk
  BY <1>1, <1>2, SeqTail, DistinctTail DEF Orderly
<1>5. s \in Spots /\ s[1] = e.chunk
  BY <1>3, SpotIs DEF r
<1>8. Orderly(pipe'[p], p[1])
  BY <1>1, <1>2, <1>3 DEF Orderly
<1>9. Apart'
  BY <1>8, ApartAfter DEF Posted, Places
<1>10. Spots' \subseteq (Spots \ {s}) \cup {<<s[1], "wire", w>>}
  <2>1. ASSUME NEW q \in Pipelines PROVE \A c \in ToSet(pipe'[q].pending) : <<c, "pending", q>> \in Spots
    <3>1. pipe'[q].pending = pipe[q].pending
      BY <1>1 DEF Posted, Elsewhere, r
    <3> QED BY <3>1, SpotIs
  <2>2. ASSUME NEW q \in Pipelines PROVE \A f \in ToSet(pipe'[q].copying) : <<f.chunk, "copying", q>> \in Spots \ {s}
    <3>1. CASE q = p
      BY <1>1, <1>3, <3>1, SpotIs DEF r
    <3>2. CASE q # p
      <4>1. pipe'[q] = pipe[q]
        BY <3>2 DEF Posted, Elsewhere
      <4> QED BY <3>2, <4>1, SpotIs
    <3> QED BY <3>1, <3>2
  <2>3. \A v \in wire' : v = w \/ <<v.chunk, "wire", v>> \in Spots
    BY <1>1, SpotIs, Zenon
  <2>4. \A v \in cq' : <<v.chunk, "cq", v>> \in Spots
    BY SpotIs, Zenon
  <2> QED BY <1>1, <1>5, <2>1, <2>2, <2>3, <2>4, PlacesAfter
<1>11. Places' /\ Moved(s[1], "wire", w)
  <2> HIDE DEF s
  <2> QED BY <1>5, <1>9, <1>10, MovePlaces
<1> QED BY <1>3, <1>5, <1>11 DEF r

\* The next chunk of a transfer is in no place, and gets one.
LEMMA FirstPlace ==
    ASSUME Control, Typed, Places, [Next]_vars, Apart',
           NEW t, Chooses(t), NEW kind, NEW x,
           Spots' \subseteq Spots \cup {<<<<t, nextChunk[t]>>, kind, x>>}
    PROVE  /\ Places' /\ Moved(<<t, nextChunk[t]>>, kind, x)
           /\ \A a \in Spots : a[1] # <<t, nextChunk[t]>>
<1> DEFINE c == <<t, nextChunk[t]>>
           T == {<<c, kind, x>>}
<1>0. /\ t \in Transfers /\ nextChunk \in [Transfers -> Nat]
           /\ nextChunk' = [nextChunk EXCEPT ![t] = nextChunk[t] + 1]
      /\ c[1] = t /\ c[2] = nextChunk[t]
  BY DEF Chooses, Typed, Kept
<1>1. nextChunk[t] \in Nat /\ nextChunk'[t] = nextChunk[t] + 1
        /\ \A s \in Transfers : s # t => nextChunk'[s] = nextChunk[s]
  BY <1>0
<1>2. \A a \in Spots : a[1] # c
  <2> SUFFICES ASSUME NEW a \in Spots, a[1] = c PROVE FALSE
    OBVIOUS
  <2>1. a[1][2] < nextChunk[a[1][1]]
    BY DEF Places, Begun
  <2>2. nextChunk[t] < nextChunk[t]
    BY <1>0, <2>1
  <2> QED BY <1>1, <2>2
<1>3. Moved(c, kind, x) /\ Single'
  <2>1. Moved(c, kind, x)
    BY <1>2 DEF Moved
  <2> QED BY <2>1, MoveSingle DEF Places
<1>4. \A s \in Transfers : nextChunk'[s] \in Nat /\ nextChunk[s] <= nextChunk'[s]
  BY <1>0, <1>1
<1>5. \A a \in T : a[1][2] < nextChunk'[a[1][1]]
  BY <1>0, <1>1
<1>6. \A a \in Spots' : a[1][2] < nextChunk'[a[1][1]]
  <2>1. Spots' \subseteq Spots \cup T
    OBVIOUS
  <2> HIDE DEF T
  <2> QED BY <1>4, <1>5, <2>1, BegunKept DEF Places
<1>7. \A s \in Transfers : status'[s] \in {"idle", "queued"} => nextChunk'[s] = 1
  <2> SUFFICES ASSUME NEW s \in Transfers, status'[s] \in {"idle", "queued"} PROVE nextChunk'[s] = 1
    OBVIOUS
  <2>1. status[s] \in {"idle", "queued"} /\ nextChunk[s] = 1
    BY Onward DEF Places, Begun
  <2>2. status[t] \in {"active", "failed"}
    BY DEF Chooses, Control, Rounds, Queueing
  <2> QED BY <1>1, <2>1, <2>2
<1>8. Begun'
  BY <1>6, <1>7 DEF Begun
<1> QED BY <1>2, <1>3, <1>8 DEF Places

\* A chunk is assigned to a pipeline.
LEMMA PendPlaces ==
    ASSUME Control, Typed, Places, [Next]_vars, wire' = wire, cq' = cq,
           NEW p \in Pipelines, Pended(p)
    PROVE  /\ Places' /\ Moved(<<p[1], nextChunk[p[1]]>>, "pending", p)
           /\ \A a \in Spots : a[1] # <<p[1], nextChunk[p[1]]>>
<1> DEFINE r == pipe[p]
           c == <<p[1], nextChunk[p[1]]>>
<1>1. /\ r.pending \in Seq(Chunks) /\ c \in Chunks /\ c[1] = p[1]
      /\ pipe'[p].pending = Append(r.pending, c) /\ pipe'[p].copying = r.copying
  <2>1. r.pending \in Seq(Chunks)
    BY PipeParts DEF Typed
  <2> QED BY <2>1 DEF Pended, Chooses
<1>2. Orderly(r, p[1])
  BY DEF Places, Apart
<1> HIDE DEF r
<1>3. \A d \in ToSet(r.pending) : <<d, "pending", p>> \in Spots
  BY SpotIs DEF r
<1>4. ASSUME NEW a \in Spots PROVE a[1] # c
  <2>1. a[1][2] < nextChunk[a[1][1]]
    BY DEF Places, Begun
  <2>2. nextChunk[p[1]] \in Nat
    BY DEF Pended, Chooses, Typed, Kept
  <2> QED BY <2>1, <2>2
<1>5. c \notin ToSet(r.pending)
  BY <1>3, <1>4
<1>6. ToSet(Append(r.pending, c)) = ToSet(r.pending) \cup {c} /\ Once(Append(r.pending, c))
  BY <1>1, <1>2, <1>5, SeqAppend, OnceAppend DEF Orderly
<1>7. Orderly(pipe'[p], p[1])
  BY <1>1, <1>2, <1>6 DEF Orderly
<1>8. Apart'
  BY <1>7, ApartAfter DEF Pended, Places
<1>9. Spots' \subseteq Spots \cup {<<c, "pending", p>>}
  <2>1. NewIn(p)
    BY DEF Pended, Elsewhere, NewIn
  <2>2. \A f \in ToSet(pipe'[p].copying) : <<f.chunk, "copying", p>> \in Spots
    BY <1>1, SpotIs DEF r
  <2>3. \A d \in ToSet(pipe'[p].pending) : d = c \/ <<d, "pending", p>> \in Spots
    BY <1>1, <1>3, <1>6
  <2> HIDE DEF c
  <2> QED BY <2>1, <2>2, <2>3, PipesAfter
<1>10. Chooses(p[1])
  BY DEF Pended
<1> QED BY <1>8, <1>9, <1>10, FirstPlace

\* A chunk is posted on a NIC of the source.
LEMMA DirectPlaces ==
    ASSUME Control, Typed, Places, [Next]_vars, pipe' = pipe, cq' = cq,
           NEW t, Chooses(t), NEW w, w.chunk = <<t, nextChunk[t]>>, wire' = wire \cup {w}
    PROVE  /\ Places' /\ Moved(<<t, nextChunk[t]>>, "wire", w)
           /\ \A a \in Spots : a[1] # <<t, nextChunk[t]>>
<1>1. Apart'
  BY DEF Places, Apart, Orderly, Once, Distinct, ToSet
<1>2. Spots' \subseteq Spots \cup {<<w.chunk, "wire", w>>}
  <2>1. \A p \in Pipelines : \A c \in ToSet(pipe'[p].pending) : <<c, "pending", p>> \in Spots
    BY SpotIs, Zenon
  <2>2. \A p \in Pipelines : \A e \in ToSet(pipe'[p].copying) : <<e.chunk, "copying", p>> \in Spots
    BY SpotIs, Zenon
  <2>3. \A v \in wire' : v = w \/ <<v.chunk, "wire", v>> \in Spots
    BY SpotIs, Zenon
  <2>4. \A v \in cq' : <<v.chunk, "cq", v>> \in Spots
    BY SpotIs, Zenon
  <2>5. ASSUME NEW a \in Spots' PROVE a \in Spots \/ a = <<w.chunk, "wire", w>>
    <3>1. CASE \E p \in Pipelines : \E c \in ToSet(pipe'[p].pending) : a = <<c, "pending", p>>
      BY <2>1, <3>1
    <3>2. CASE \E p \in Pipelines : \E e \in ToSet(pipe'[p].copying) : a = <<e.chunk, "copying", p>>
      BY <2>2, <3>2
    <3>3. CASE \E v \in wire' : a = <<v.chunk, "wire", v>>
      BY <2>3, <3>3
    <3>4. CASE \E v \in cq' : a = <<v.chunk, "cq", v>>
      BY <2>4, <3>4
    <3> QED BY <3>1, <3>2, <3>3, <3>4, PlacesAfter
  <2> QED BY <2>5
<1> QED BY <1>1, <1>2, FirstPlace

\* A work request is completed.
LEMMA CompletePlaces ==
    ASSUME Control, Typed, Places, [Next]_vars, pipe' = pipe, nextChunk' = nextChunk,
           NEW w \in wire, NEW v, v.chunk = w.chunk, wire' = wire \ {w}, cq' = cq \cup {v}
    PROVE  Places' /\ Moved(w.chunk, "cq", v) /\ <<w.chunk, "wire", w>> \in Spots
<1> DEFINE s == <<w.chunk, "wire", w>>
<1>1. Apart'
  BY DEF Places, Apart, Orderly, Once, Distinct, ToSet
<1>2. s \in Spots /\ s[1] = w.chunk
  BY SpotIs
<1>3. Spots' \subseteq (Spots \ {s}) \cup {<<s[1], "cq", v>>}
  <2>1. \A p \in Pipelines : \A c \in ToSet(pipe'[p].pending) : <<c, "pending", p>> \in Spots \ {s}
    BY SpotIs, Zenon
  <2>2. \A p \in Pipelines : \A e \in ToSet(pipe'[p].copying) : <<e.chunk, "copying", p>> \in Spots \ {s}
    BY SpotIs, Zenon
  <2>3. \A u \in wire' : <<u.chunk, "wire", u>> \in Spots \ {s}
    BY SpotIs, Zenon
  <2>4. \A u \in cq' : u = v \/ <<u.chunk, "cq", u>> \in Spots \ {s}
    BY SpotIs, Zenon
  <2>5. v.chunk = s[1]
    BY <1>2
  <2> HIDE DEF s
  <2> QED BY <2>1, <2>2, <2>3, <2>4, <2>5, PlacesAfter
<1>4. Places' /\ Moved(s[1], "cq", v)
  <2> HIDE DEF s
  <2> QED BY <1>1, <1>2, <1>3, MovePlaces
<1> QED BY <1>2, <1>4

\* Results are handed out, completions are counted, transfers leave.
LEMMA ThinnedPlaces ==
    ASSUME Control, Typed, Places, [Next]_vars, nextChunk' = nextChunk, wire' \subseteq wire, cq' \subseteq cq,
           \A p \in Pipelines : pipe'[p].pending = pipe[p].pending,
           \A p \in Pipelines : \/ pipe'[p].copying = <<>>
                                \/ /\ Len(pipe'[p].copying) = Len(pipe[p].copying)
                                   /\ pipe'[p].copying \in Seq(CopyRecord)
                                   /\ \A i \in 1..Len(pipe[p].copying) :
                                        pipe'[p].copying[i].chunk = pipe[p].copying[i].chunk
    PROVE  Places' /\ Spots' \subseteq Spots
<1>1. ASSUME NEW p \in Pipelines
      PROVE  /\ \A e \in ToSet(pipe'[p].copying) : \E f \in ToSet(pipe[p].copying) : f.chunk = e.chunk
             /\ Distinct(pipe[p].copying) => Distinct(pipe'[p].copying)
  <2> DEFINE s == pipe[p].copying
             r == pipe'[p].copying
  <2>1. CASE r = <<>>
    BY <2>1 DEF ToSet, Distinct
  <2>2. CASE r # <<>>
    <3>1. Len(r) = Len(s) /\ r \in Seq(CopyRecord) /\ \A i \in 1..Len(s) : r[i].chunk = s[i].chunk
      BY <2>2
    <3>2. s \in Seq(CopyRecord)
      BY PipeParts DEF Typed
    <3> HIDE DEF s, r
    <3>3. ToSet(s) = {s[i] : i \in 1..Len(s)} /\ ToSet(r) = {r[i] : i \in 1..Len(r)}
      BY <3>1, <3>2, SeqSet
    <3>4. \A e \in ToSet(r) : \E f \in ToSet(s) : f.chunk = e.chunk
      BY <3>1, <3>3
    <3>5. Distinct(s) => Distinct(r)
      BY <3>1 DEF Distinct
    <3> QED BY <3>4, <3>5 DEF s, r
  <2> QED BY <2>1, <2>2
<1>2. ASSUME NEW p \in Pipelines PROVE Orderly(pipe'[p], p[1])
  <2>1. Orderly(pipe[p], p[1])
    BY DEF Places, Apart
  <2>2. pipe'[p].pending = pipe[p].pending
    OBVIOUS
  <2> QED BY <1>1, <2>1, <2>2 DEF Orderly
<1>3. Apart'
  BY <1>2 DEF Apart, Orderly, Once, Distinct, ToSet
<1>4. Spots' \subseteq Spots
  <2>1. \A p \in Pipelines : \A c \in ToSet(pipe'[p].pending) : <<c, "pending", p>> \in Spots
    BY SpotIs, Zenon
  <2>2. ASSUME NEW p \in Pipelines, NEW e \in ToSet(pipe'[p].copying) PROVE <<e.chunk, "copying", p>> \in Spots
    BY <1>1, SpotIs
  <2>3. \A u \in wire' : <<u.chunk, "wire", u>> \in Spots
    BY SpotIs, Zenon
  <2>4. \A u \in cq' : <<u.chunk, "cq", u>> \in Spots
    BY SpotIs, Zenon
  <2> QED BY <2>1, <2>2, <2>3, <2>4, PlacesAfter
<1> QED BY <1>3, <1>4, LeavePlaces

\* What is in a place was in one, or has just been assigned.
Traced == \A a \in Spots' : (\E b \in Spots : b[1] = a[1]) \/ a[1][2] >= nextChunk[a[1][1]]

\* A move takes a chunk that was in a place, or the next one of a transfer.
LEMMA MovedTraced ==
    /\ Spots' \subseteq Spots => Traced
    /\ \A c, kind, x : Moved(c, kind, x) /\ (\E b \in Spots : b[1] = c) => Traced
    /\ \A t, kind, x : t \in Transfers /\ nextChunk[t] \in Nat /\ Moved(<<t, nextChunk[t]>>, kind, x) => Traced
<1>1. Spots' \subseteq Spots => Traced
  BY DEF Traced
<1>2. ASSUME NEW c, NEW kind, NEW x, Moved(c, kind, x), NEW b \in Spots, b[1] = c PROVE Traced
  BY <1>2 DEF Traced, Moved
<1>3. ASSUME NEW t \in Transfers, NEW kind, NEW x, nextChunk[t] \in Nat, Moved(<<t, nextChunk[t]>>, kind, x)
      PROVE Traced
  <2> SUFFICES ASSUME NEW a \in Spots', a \notin Spots PROVE a[1][2] >= nextChunk[a[1][1]]
    BY DEF Traced
  <2>1. a[1] = <<t, nextChunk[t]>>
    BY <1>3 DEF Moved
  <2> QED BY <1>3, <2>1
<1> QED BY <1>1, <1>2, <1>3

\* A poll takes chunks from the NICs.
LEMMA PollThins == ASSUME Control, Typed, Places, [Next]_vars, Poll PROVE Places' /\ Spots' \subseteq Spots
<1>1. Polled /\ nextChunk' = nextChunk
  BY PollIs DEF Poll
<1>2. ASSUME NEW q \in Pipelines PROVE pipe'[q].pending = pipe[q].pending /\ pipe'[q].copying = pipe[q].copying
  <2>1. PICK k : pipe'[q] = [pending |-> pipe[q].pending, copying |-> pipe[q].copying, inflight |-> pipe[q].inflight,
                             arrived |-> pipe[q].arrived + k, assigned |-> pipe[q].assigned - k]
    BY <1>1, Zenon DEF Polled
  <2> QED BY <2>1
<1>3. \A q \in Pipelines : pipe[q].copying \in Seq(CopyRecord)
  BY PipeParts DEF Typed
<1>4. wire' \subseteq wire /\ cq' \subseteq cq
  BY <1>1 DEF Polled
<1> QED BY <1>1, <1>2, <1>3, <1>4, ThinnedPlaces

\* Every step keeps a chunk in one place.
LEMMA StepPlaces == ASSUME Control, Typed, Places, [Next]_vars PROVE Places' /\ Traced
<1>0. Working
  BY DEF Control, Rounds
<1>1. ASSUME UNCHANGED <<pipe, wire, cq, nextChunk>> PROVE Places' /\ Traced
  <2>1. Apart'
    BY <1>1 DEF Places, Apart, Orderly, Once, Distinct, ToSet
  <2>2. Spots' \subseteq Spots
    BY <1>1 DEF Spots, PipeSpots, NicSpots, ToSet
  <2> QED BY <1>1, <2>1, <2>2, LeavePlaces, MovedTraced
<1>2. CASE Dispatch
  <2>1. Dispatched /\ UNCHANGED <<wire, cq, nextChunk>>
    BY <1>2, DispatchIs DEF Dispatch, nic, ClientSide
  <2>2. \A p \in Pipelines : pipe'[p].pending = pipe[p].pending
    BY <2>1 DEF Dispatched
  <2>3. \A p \in Pipelines :
           /\ Len(pipe'[p].copying) = Len(pipe[p].copying) /\ pipe'[p].copying \in Seq(CopyRecord)
           /\ \A i \in 1..Len(pipe[p].copying) : pipe'[p].copying[i].chunk = pipe[p].copying[i].chunk
    BY <2>1 DEF Dispatched, Told, PipeRecord
  <2> QED BY <2>1, <2>2, <2>3, ThinnedPlaces, MovedTraced
<1>3. CASE AdvanceCopy
  <2>1. PICK p \in Pipelines, e \in CopyRecord : Advanced(p, e)
    BY <1>0, <1>3, AdvanceCopyIs
  <2>2. UNCHANGED <<nextChunk, wire, cq>>
    BY <1>3 DEF AdvanceCopy, nic, ClientSide
  <2>3. Places' /\ Moved(e.chunk, "copying", p) /\ <<e.chunk, "pending", p>> \in Spots
    BY <2>1, <2>2, AdvancePlaces
  <2>4. \E b \in Spots : b[1] = e.chunk
    BY <2>3
  <2> QED BY <2>3, <2>4, MovedTraced
<1>4. CASE AssignProxy
  <2>1. PICK p \in Pipelines : Pended(p)
    BY <1>0, <1>4, AssignProxyIs
  <2>2. UNCHANGED <<wire, cq>>
    BY <1>4 DEF AssignProxy, nic
  <2>3. Places' /\ Moved(<<p[1], nextChunk[p[1]]>>, "pending", p)
    BY <2>1, <2>2, PendPlaces
  <2>4. p[1] \in Transfers /\ nextChunk[p[1]] \in Nat
    BY <2>1 DEF Pended, Chooses, Typed, Kept
  <2> QED BY <2>3, <2>4, MovedTraced
<1>5. CASE AssignDirect
  <2>1. PostedDirect(Context, BestNic) /\ UNCHANGED <<pipe, cq>>
    BY <1>0, <1>5, AssignDirectIs DEF AssignDirect
  <2> DEFINE t == Context
  <2>2. PICK w \in WireRecord : w.chunk = <<t, nextChunk[t]>> /\ wire' = wire \cup {w}
    BY <2>1 DEF PostedDirect
  <2>3. Chooses(t)
    BY <2>1 DEF PostedDirect
  <2> HIDE DEF t
  <2>4. Places' /\ Moved(<<t, nextChunk[t]>>, "wire", w)
    BY <2>1, <2>2, <2>3, DirectPlaces
  <2>5. t \in Transfers /\ nextChunk[t] \in Nat
    BY <2>3 DEF Chooses, Typed, Kept
  <2> QED BY <2>4, <2>5, MovedTraced
<1>6. CASE FreePosted
  <2>1. PICK p \in Pipelines : Reclaimed(p)
    BY <1>0, <1>6, FreePostedIs
  <2>2. UNCHANGED <<nextChunk, wire, cq>>
    BY <1>6 DEF FreePosted, nic, ClientSide
  <2>3. ASSUME NEW q \in Pipelines PROVE pipe'[q].pending = pipe[q].pending /\ pipe'[q].copying = pipe[q].copying
    <3>1. CASE q = p
      BY <2>1, <3>1 DEF Reclaimed
    <3>2. CASE q # p
      BY <2>1, <3>2, Zenon DEF Reclaimed, Elsewhere
    <3> QED BY <3>1, <3>2
  <2>4. \A q \in Pipelines : pipe[q].copying \in Seq(CopyRecord)
    BY PipeParts DEF Typed
  <2> QED BY <2>2, <2>3, <2>4, ThinnedPlaces, MovedTraced
<1>7. CASE PostProxy
  <2>1. PICK p \in Pipelines, e \in CopyRecord, w \in WireRecord : Posted(p, e, w)
    BY <1>0, <1>7, PostProxyIs
  <2>2. UNCHANGED <<nextChunk, cq>>
    BY <1>7 DEF PostProxy, ClientSide
  <2>3. Places' /\ Moved(e.chunk, "wire", w) /\ <<e.chunk, "copying", p>> \in Spots
    BY <2>1, <2>2, PostPlaces
  <2>4. \E b \in Spots : b[1] = e.chunk
    BY <2>3
  <2> QED BY <2>3, <2>4, MovedTraced
<1>8. CASE Poll
  BY <1>8, PollThins, MovedTraced
<1>9. CASE Retire
  <2>1. PICK S \in SUBSET Transfers : Retired(S)
    BY <1>9, RetireIs
  <2>2. UNCHANGED <<nextChunk, wire, cq>>
    BY <1>9, Zenon DEF Retire, nic, ClientSide
  <2>3. ASSUME NEW q \in Pipelines
        PROVE  pipe'[q].pending = pipe[q].pending /\ (pipe'[q].copying = pipe[q].copying \/ pipe'[q].copying = <<>>)
    <3>1. pipe'[q] = IF q[1] \in S THEN [pending |-> pipe[q].pending, copying |-> <<>>, inflight |-> <<>>,
                                         arrived |-> pipe[q].arrived, assigned |-> pipe[q].assigned] ELSE pipe[q]
      BY <2>1, Zenon DEF Retired
    <3> QED BY <3>1
  <2>4. \A q \in Pipelines : pipe[q].copying \in Seq(CopyRecord)
    BY PipeParts DEF Typed
  <2> QED BY <2>2, <2>3, <2>4, ThinnedPlaces, MovedTraced
<1>10. CASE Nic \/ NicFails
  <2>1. PICK w \in wire, ok \in BOOLEAN : Complete(w, ok)
    BY <1>10 DEF Nic, NicFails
  <2> DEFINE v == [chunk |-> w.chunk, nic |-> w.nic, ok |-> ok]
  <2>2. pipe' = pipe /\ nextChunk' = nextChunk /\ wire' = wire \ {w} /\ cq' = cq \cup {v} /\ v.chunk = w.chunk
    BY <2>1 DEF Complete
  <2> HIDE DEF v
  <2>3. Places' /\ Moved(w.chunk, "cq", v) /\ <<w.chunk, "wire", w>> \in Spots
    BY <2>2, CompletePlaces
  <2>4. \E b \in Spots : b[1] = w.chunk
    BY <2>3
  <2> QED BY <2>3, <2>4, MovedTraced
<1>11. CASE CopyThread \/ LaunchFails \/ Gpu
  BY <1>1, <1>11 DEF CopyThread, Launch, DrainRecycled, PushResult, LaunchFails, Gpu, FinishCopy, Client, nic
<1>12. CASE (\E t \in Transfers : Start(t)) \/ Begin \/ PostFails \/ PollFails
  BY <1>1, <1>12 DEF Start, Begin, PostFails, PollFails, ClientSide, nic
<1>13. CASE Aside \/ AdvanceEnds \/ AssignEnds \/ PostEnds
  BY <1>1, <1>13, AsideStays DEF AdvanceEnds, AssignEnds, PostEnds, ClientSide, nic
<1>14. CASE UNCHANGED vars
  BY <1>1, <1>14 DEF vars
<1> QED BY <1>2, <1>3, <1>4, <1>5, <1>6, <1>7, <1>8, <1>9, <1>10, <1>11, <1>12, <1>13, <1>14 DEF Next, Worker, Aside

-----------------------------------------------------------------------------
(* What is counted.                                                         *)

\* A transfer that has ended stays so.
LEMMA FinishedStays ==
    ASSUME Control, [Next]_vars
    PROVE  \A t \in Transfers : status[t] \in {"done", "failed"} => status'[t] = status[t]
<1>0. status \in [Transfers -> Statuses]
  BY DEF Control, Rounds, Working
<1>1. ASSUME NEW S, Fail(S) PROVE \A t \in Transfers : status[t] \in {"done", "failed"} => status'[t] = status[t]
  BY <1>1 DEF Fail, Finished
<1>2. CASE \E t \in Transfers : Start(t)
  BY <1>0, <1>2 DEF Start, MayStart
<1>3. CASE Begin
  BY <1>3, BeginControls DEF Control
<1>4. CASE Dispatch \/ Poll \/ PostFails \/ PollFails
  <2>1. \E S : Fail(S)
    BY <1>4 DEF Dispatch, Poll, PostFails, PollFails
  <2> QED BY <1>1, <2>1
<1>5. CASE Retire
  <2>1. \E S : status' = [t \in Transfers |-> IF t \in S /\ ~Finished(t) THEN "done" ELSE status[t]]
    BY <1>5, Zenon DEF Retire
  <2> QED BY <2>1 DEF Finished
<1>6. CASE UNCHANGED status
  BY <1>6
<1>7. CASE Aside
  BY <1>7, AsideStays
<1> QED BY <1>2, <1>3, <1>4, <1>5, <1>6, <1>7 DEF Next, Worker, Aside, vars, AdvanceCopy, AdvanceEnds,
           AssignDirect, AssignProxy, AssignEnds, FreePosted, PostProxy, PostEnds, CopyThread, Launch,
               DrainRecycled, PushResult,
           LaunchFails, Gpu, Nic, NicFails, FinishCopy, Complete, Client

\* What a transfer has completed is some of what it has.
LEMMA GoneIs ==
    ASSUME Typed, NEW t \in Transfers
    PROVE  /\ IsFiniteSet(Gone(t)) /\ Cardinality(Gone(t)) \in Nat /\ Cardinality(Gone(t)) <= Len(Lens[t])
           /\ Gone(t) \subseteq 1..Len(Lens[t])
           /\ Cardinality(Gone(t)) = Len(Lens[t]) => Gone(t) = 1..Len(Lens[t])
<1> DEFINE n == Len(Lens[t])
           G == Gone(t)
<1>1. n \in Nat /\ nextChunk[t] \in 1..(n + 1)
  BY ChunkTyped DEF Typed, Kept
<1>2. IsFiniteSet(1..n) /\ Cardinality(1..n) = n
  <2>1. 1 \in Int /\ n \in Int
    BY <1>1
  <2>2. IsFiniteSet(1..n) /\ Cardinality(1..n) = IF 1 > n THEN 0 ELSE n - 1 + 1
    BY <2>1, FS_Interval
  <2> HIDE DEF n
  <2> QED BY <1>1, <2>2
<1>3. G \in SUBSET (1..n)
  <2> HIDE DEF n
  <2> QED BY <1>1 DEF Gone
<1> HIDE DEF n, G
<1>4. IsFiniteSet(G) /\ Cardinality(G) <= Cardinality(1..n) /\ (Cardinality(1..n) = Cardinality(G) => 1..n = G)
  BY <1>2, <1>3, FS_Subset
<1>5. Cardinality(G) \in Nat
  BY <1>4, FS_CardinalityType
<1> QED BY <1>2, <1>3, <1>4, <1>5 DEF n, G

\* No step makes less of it.
LEMMA GoneGrows ==
    ASSUME Typed, Typed', Traced, NEW t \in Transfers, nextChunk[t] <= nextChunk'[t]
    PROVE  Gone(t) \subseteq Gone(t)' /\ Cardinality(Gone(t)) <= Cardinality(Gone(t)')
<1>1. nextChunk[t] \in Nat /\ nextChunk'[t] \in Nat
  BY DEF Typed, Kept
<1>2. ASSUME NEW i \in Gone(t) PROVE i \in Gone(t)'
  <2>1. i \in 1..(nextChunk[t] - 1) /\ i \in 1..(nextChunk'[t] - 1)
    BY <1>1 DEF Gone
  <2>2. ASSUME NEW a \in Spots', a[1] = <<t, i>> PROVE FALSE
    <3>1. CASE \E b \in Spots : b[1] = a[1]
      BY <2>2, <3>1 DEF Gone
    <3>2. CASE a[1][2] >= nextChunk[a[1][1]]
      BY <1>1, <2>1, <2>2, <3>2
    <3> QED BY <3>1, <3>2 DEF Traced
  <2> QED BY <2>1, <2>2 DEF Gone
<1> DEFINE G == Gone(t)
           H == Gone(t)'
<1>3. IsFiniteSet(H)
  <2> DEFINE m == nextChunk'[t] - 1
  <2>1. H \in SUBSET (1..m) /\ 1 \in Int /\ m \in Int
    BY <1>1 DEF Gone
  <2> HIDE DEF H, m
  <2>2. IsFiniteSet(1..m)
    BY <2>1, FS_Interval
  <2> QED BY <2>1, <2>2, FS_Subset
<1>4. G \in SUBSET H
  BY <1>2
<1> HIDE DEF G, H
<1>5. Cardinality(G) <= Cardinality(H)
  BY <1>3, <1>4, FS_Subset
<1> QED BY <1>4, <1>5 DEF G, H

\* The index of the next chunk never goes back.
LEMMA NextGrows ==
    ASSUME Control, Typed, [Next]_vars
    PROVE  \A t \in Transfers : nextChunk[t] <= nextChunk'[t]
<1>0. \A t \in Transfers : nextChunk[t] \in Nat
  BY DEF Typed, Kept
<1>1. CASE nextChunk' = nextChunk
  BY <1>0, <1>1
<1>2. CASE AssignDirect \/ AssignProxy
  <2>1. CanAssign /\ AssignNext
    BY <1>2 DEF AssignDirect, AssignProxy
  <2>2. nextChunk' = [nextChunk EXCEPT ![Context] = nextChunk[Context] + 1] /\ nextChunk \in [Transfers -> Nat]
    BY <2>1 DEF AssignNext, Typed, Kept
  <2> DEFINE c == Context
  <2> HIDE DEF c
  <2>3. \A t \in Transfers : nextChunk'[t] = IF t = c THEN nextChunk[c] + 1 ELSE nextChunk[t]
    BY <2>2 DEF c
  <2> QED BY <1>0, <2>3
<1>3. CASE Aside
  <2>1. nextChunk' = nextChunk
    BY <1>3, AsideStays
  <2> QED BY <1>1, <2>1
<1> QED BY <1>1, <1>2, <1>3, Zenon DEF Next, Worker, Aside, vars, Start, Begin, Dispatch, AdvanceCopy, AdvanceEnds,
           AssignEnds, FreePosted, PostProxy, PostFails, PostEnds, Poll, PollFails, Retire, CopyThread, Launch,
           DrainRecycled, PushResult, LaunchFails, Gpu, Nic, NicFails, FinishCopy, Complete, Client, ClientSide

\* The completions of t that are counted are of chunks that are then gone.
LEMMA PollCounts ==
    ASSUME Typed, Typed', Places, Traced, Polled, nextChunk' = nextChunk, Spots' \subseteq Spots, NEW t \in Transfers,
           completed[t] <= Cardinality(Gone(t))
    PROVE  completed'[t] <= Cardinality(Gone(t)')
<1> DEFINE W == {w \in cq : w.ok /\ w.chunk[1] = t}
           I == {w.chunk[2] : w \in W}
           G == Gone(t)
           H == Gone(t)'
           f == [w \in W |-> w.chunk[2]]
<1>1. completed' = [s \in Transfers |-> completed[s] + Cardinality({w \in cq : w.ok /\ w.chunk[1] = s})] /\ cq' = {}
  BY DEF Polled
<1>2. completed'[t] = completed[t] + Cardinality(W)
  BY <1>1
<1>3. IsFiniteSet(W) /\ Cardinality(W) \in Nat
  BY CqFinite DEF Typed
<1>4. ASSUME NEW w \in W
      PROVE  /\ w \in cq /\ w.chunk = <<t, w.chunk[2]>> /\ w.chunk[2] \in Nat \ {0} /\ <<w.chunk, "cq", w>> \in Spots
             /\ w.chunk[2] < nextChunk[t]
  <2>1. w \in cq /\ w.chunk[1] = t
    OBVIOUS
  <2> HIDE DEF W
  <2>2. w.chunk \in Chunks
    BY <2>1 DEF Typed, Hardware, CqRecord
  <2>3. w.chunk = <<w.chunk[1], w.chunk[2]>> /\ w.chunk[2] \in 1..Len(Lens[w.chunk[1]]) /\ Len(Lens[t]) \in Nat
    BY <2>2, ChunkTyped
  <2>4. <<w.chunk, "cq", w>> \in Spots
    BY <2>1, SpotIs
  <2>5. w.chunk[2] < nextChunk[w.chunk[1]]
    BY <2>4 DEF Places, Begun
  <2> QED BY <2>1, <2>3, <2>4, <2>5
<1>5. f \in Bijection(W, I)
  <2>1. ASSUME NEW v \in W, NEW w \in W, f[v] = f[w] PROVE v = w
    <3>1. v.chunk = w.chunk
      BY <1>4, <2>1
    <3>2. <<v.chunk, "cq", v>> = <<w.chunk, "cq", w>>
      <4> DEFINE a == <<v.chunk, "cq", v>>
                 b == <<w.chunk, "cq", w>>
      <4>1. a \in Spots /\ b \in Spots /\ a[1] = b[1]
        BY <1>4, <3>1
      <4> HIDE DEF a, b
      <4>2. a = b
        BY <4>1 DEF Places, Single
      <4> QED BY <4>2 DEF a, b
    <3> QED BY <3>2
  <2>2. f \in [W -> I] /\ \A x \in I : \E w \in W : f[w] = x
    OBVIOUS
  <2>3. \A v, w \in W : f[v] = f[w] => v = w
    BY <2>1
  <2> HIDE DEF f, W, I
  <2>4. f \in Injection(W, I)
    BY <2>2, <2>3 DEF Injection, IsInjective
  <2>5. f \in Surjection(W, I)
    BY <2>2 DEF Surjection
  <2> QED BY <2>4, <2>5 DEF Bijection
<1>6. IsFiniteSet(I) /\ Cardinality(I) = Cardinality(W)
  <2> HIDE DEF f, W, I
  <2> QED BY <1>3, <1>5, FS_Bijection DEF ExistsBijection
<1>7. G \subseteq H
  <2>1. nextChunk[t] <= nextChunk'[t]
    BY DEF Typed, Kept
  <2> QED BY <2>1, GoneGrows
<1>8. ASSUME NEW w \in W PROVE w.chunk[2] \notin G /\ w.chunk[2] \in H
  <2>1. w.chunk[2] \notin G
    <3> DEFINE b == <<w.chunk, "cq", w>>
    <3>1. b \in Spots /\ b[1] = <<t, w.chunk[2]>>
      BY <1>4
    <3> HIDE DEF b
    <3> QED BY <3>1 DEF Gone
  <2>2. ASSUME NEW a \in Spots', a[1] = <<t, w.chunk[2]>> PROVE FALSE
    <3> DEFINE b == <<w.chunk, "cq", w>>
    <3>1. a \in Spots /\ b \in Spots /\ b[1] = a[1]
      BY <1>4, <2>2
    <3> HIDE DEF b
    <3>2. a = b
      BY <3>1 DEF Places, Single
    <3>3. b[2] = "cq"
      BY DEF b
    <3>4. a[2] # "cq"
      BY <1>1, PlacesAfter
    <3> QED BY <3>2, <3>3, <3>4
  <2>3. w.chunk[2] \in 1..(nextChunk'[t] - 1)
    <3>1. nextChunk[t] \in Nat /\ nextChunk'[t] = nextChunk[t]
      BY DEF Typed, Kept
    <3>2. w.chunk[2] \in Nat \ {0} /\ w.chunk[2] < nextChunk[t]
      BY <1>4
    <3> HIDE DEF W, I, G, H, f
    <3> QED BY <3>1, <3>2
  <2> QED BY <2>1, <2>2, <2>3 DEF Gone
<1>9. I \cap G = {} /\ I \subseteq H
  BY <1>8
<1>10. IsFiniteSet(G) /\ Cardinality(G) \in Nat
  BY GoneIs
<1>11. IsFiniteSet(H)
  <2> DEFINE m == nextChunk'[t] - 1
  <2>1. H \in SUBSET (1..m) /\ 1 \in Int /\ m \in Int
    BY DEF Gone, Typed, Kept
  <2> HIDE DEF H, m
  <2>2. IsFiniteSet(1..m)
    BY <2>1, FS_Interval
  <2> QED BY <2>1, <2>2, FS_Subset
<1> HIDE DEF W, I, G, H, f
<1>12. Cardinality(G \cup I) = Cardinality(G) + Cardinality(I) /\ IsFiniteSet(G \cup I)
  <2>1. G \cap I = {} /\ Cardinality({}) = 0
    BY <1>9, FS_EmptySet
  <2>2. Cardinality(G \cup I) = Cardinality(G) + Cardinality(I) - Cardinality(G \cap I) /\ IsFiniteSet(G \cup I)
    BY <1>6, <1>10, FS_Union
  <2>3. Cardinality(G) \in Nat /\ Cardinality(I) \in Nat
    BY <1>3, <1>6, <1>10
  <2>4. Cardinality(G) + Cardinality(I) - 0 = Cardinality(G) + Cardinality(I)
    BY <2>3
  <2> QED BY <2>1, <2>2, <2>4
<1>13. Cardinality(G \cup I) <= Cardinality(H)
  BY <1>7, <1>9, <1>11, FS_Subset
<1>14. Cardinality(H) \in Nat /\ completed[t] \in Nat /\ completed[t] <= Cardinality(G)
  BY <1>11, FS_CardinalityType DEF G, Typed, Kept
<1>15. completed'[t] <= Cardinality(H)
  BY <1>2, <1>3, <1>6, <1>10, <1>12, <1>13, <1>14
<1> QED BY <1>15 DEF H

\* No step counts more than is gone.
LEMMA StepCounted == ASSUME Control, Typed, Typed', Places, Traced, Counted, [Next]_vars PROVE Counted'
<1> SUFFICES ASSUME NEW t \in Transfers PROVE completed'[t] <= Cardinality(Gone(t)')
  BY DEF Counted
<1>1. Cardinality(Gone(t)) <= Cardinality(Gone(t)')
  BY GoneGrows, NextGrows
<1>2. completed[t] \in Nat /\ completed[t] <= Cardinality(Gone(t)) /\ Cardinality(Gone(t)) \in Nat
  BY GoneIs DEF Counted, Typed, Kept
<1>3. Cardinality(Gone(t)') \in Nat
  <2> DEFINE m == nextChunk'[t] - 1
             H == Gone(t)'
  <2>1. H \in SUBSET (1..m) /\ 1 \in Int /\ m \in Int
    BY DEF Gone, Typed, Kept
  <2> HIDE DEF H, m
  <2>2. IsFiniteSet(1..m)
    BY <2>1, FS_Interval
  <2>3. Cardinality(H) \in Nat
    BY <2>1, <2>2, FS_Subset, FS_CardinalityType
  <2> QED BY <2>3 DEF H
<1>4. CASE completed' = completed
  BY <1>1, <1>2, <1>3, <1>4
<1>5. CASE Poll
  <2>1. Polled /\ nextChunk' = nextChunk
    BY <1>5, PollIs DEF Poll
  <2>2. Spots' \subseteq Spots
    BY <1>5, PollThins
  <2> QED BY <1>2, <2>1, <2>2, PollCounts
<1>6. CASE Aside
  BY <1>4, <1>6, AsideStays
<1> QED BY <1>4, <1>5, <1>6, Zenon DEF Next, Worker, Aside, vars, Start, Begin, Dispatch, AdvanceCopy, AdvanceEnds,
           AssignDirect, AssignProxy, AssignEnds, FreePosted, PostProxy, PostFails, PostEnds, PollFails, Retire,
           CopyThread, Launch, DrainRecycled, PushResult, LaunchFails, Gpu, Nic, NicFails, FinishCopy, Complete,
           Client, ClientSide

-----------------------------------------------------------------------------
(* The loads of the NICs.                                                   *)

\* The work requests on NICs, one more or one less.
LEMMA NicAdds ==
    ASSUME NEW S, IsFiniteSet(S), NEW w, w \notin S
    PROVE  /\ \A n : /\ Cardinality(OnNic(S, n)) \in Nat
                     /\ Cardinality(OnNic(S \cup {w}, n)) = Cardinality(OnNic(S, n)) + (IF w.nic = n THEN 1 ELSE 0)
           /\ \A p : /\ Cardinality(Of(S, p)) \in Nat
                     /\ Cardinality(Of(S \cup {w}, p)) =
                           Cardinality(Of(S, p)) + (IF w.chunk[1] = p[1] /\ w.nic = p[2] THEN 1 ELSE 0)
<1>1. ASSUME NEW T, T \subseteq S
      PROVE  Cardinality(T) \in Nat /\ Cardinality(T \cup {w}) = Cardinality(T) + 1
               /\ Cardinality(T) + 0 = Cardinality(T)
  <2>1. IsFiniteSet(T) /\ Cardinality(T) \in Nat /\ w \notin T
    BY <1>1, FS_Subset, FS_CardinalityType
  <2>2. Cardinality(T \cup {w}) = IF w \in T THEN Cardinality(T) ELSE Cardinality(T) + 1
    BY <2>1, FS_AddElement
  <2> QED BY <2>1, <2>2
<1>2. ASSUME NEW n
      PROVE  /\ Cardinality(OnNic(S, n)) \in Nat
             /\ Cardinality(OnNic(S \cup {w}, n)) = Cardinality(OnNic(S, n)) + (IF w.nic = n THEN 1 ELSE 0)
  <2> DEFINE T == OnNic(S, n)
  <2>1. T \subseteq S /\ OnNic(S \cup {w}, n) = IF w.nic = n THEN T \cup {w} ELSE T
    BY DEF OnNic
  <2> HIDE DEF T
  <2> QED BY <1>1, <2>1 DEF T
<1>3. ASSUME NEW p
      PROVE  /\ Cardinality(Of(S, p)) \in Nat
             /\ Cardinality(Of(S \cup {w}, p)) =
                   Cardinality(Of(S, p)) + (IF w.chunk[1] = p[1] /\ w.nic = p[2] THEN 1 ELSE 0)
  <2> DEFINE T == Of(S, p)
  <2>1. T \subseteq S /\ Of(S \cup {w}, p) = IF w.chunk[1] = p[1] /\ w.nic = p[2] THEN T \cup {w} ELSE T
    BY DEF Of
  <2> HIDE DEF T
  <2> QED BY <1>1, <2>1 DEF T
<1> QED BY <1>2, <1>3

\* The same, said of each.
LEMMA OneMore ==
    ASSUME NEW S, IsFiniteSet(S), NEW u, u \notin S
    PROVE  /\ \A k : Cardinality(Of(S \cup {u}, k)) =
                        Cardinality(Of(S, k)) + (IF u.chunk[1] = k[1] /\ u.nic = k[2] THEN 1 ELSE 0)
           /\ \A k : Cardinality(OnNic(S \cup {u}, k)) = Cardinality(OnNic(S, k)) + (IF u.nic = k THEN 1 ELSE 0)
<1>1. /\ \A n : /\ Cardinality(OnNic(S, n)) \in Nat
                /\ Cardinality(OnNic(S \cup {u}, n)) = Cardinality(OnNic(S, n)) + (IF u.nic = n THEN 1 ELSE 0)
      /\ \A p : /\ Cardinality(Of(S, p)) \in Nat
                /\ Cardinality(Of(S \cup {u}, p)) =
                      Cardinality(Of(S, p)) + (IF u.chunk[1] = p[1] /\ u.nic = p[2] THEN 1 ELSE 0)
  BY NicAdds, Zenon
<1> QED BY <1>1, Zenon

\* The work requests of a NIC and of a pipeline, one less.
LEMMA NicLoses ==
    ASSUME NEW S, IsFiniteSet(S), NEW w \in S
    PROVE  /\ \A n : /\ Cardinality(OnNic(S \ {w}, n)) \in Nat
                     /\ Cardinality(OnNic(S, n)) = Cardinality(OnNic(S \ {w}, n)) + (IF w.nic = n THEN 1 ELSE 0)
           /\ \A p : /\ Cardinality(Of(S \ {w}, p)) \in Nat
                     /\ Cardinality(Of(S, p)) =
                           Cardinality(Of(S \ {w}, p)) + (IF w.chunk[1] = p[1] /\ w.nic = p[2] THEN 1 ELSE 0)
<1> DEFINE R == S \ {w}
<1>1. IsFiniteSet(R) /\ w \notin R /\ R \cup {w} = S
  BY FS_Subset
<1> HIDE DEF R
<1>2. /\ \A n : /\ Cardinality(OnNic(R, n)) \in Nat
                /\ Cardinality(OnNic(R \cup {w}, n)) = Cardinality(OnNic(R, n)) + (IF w.nic = n THEN 1 ELSE 0)
      /\ \A p : /\ Cardinality(Of(R, p)) \in Nat
                /\ Cardinality(Of(R \cup {w}, p)) =
                      Cardinality(Of(R, p)) + (IF w.chunk[1] = p[1] /\ w.nic = p[2] THEN 1 ELSE 0)
  BY <1>1, NicAdds
<1> QED BY <1>1, <1>2 DEF R

\* Loads are numbers.
LEMMA LoadNat ==
    ASSUME Typed, NEW p \in Pipelines
    PROVE  /\ Len(pipe[p].pending) \in Nat /\ Len(pipe[p].copying) \in Nat /\ pipe[p].assigned \in Int
           /\ Cardinality(Of(wire, p)) \in Nat /\ Cardinality(Of(cq, p)) \in Nat /\ Used(p) \in Nat
<1>1. Len(pipe[p].pending) \in Nat /\ Len(pipe[p].copying) \in Nat /\ pipe[p].assigned \in Int
  <2>1. pipe[p].pending \in Seq(Chunks) /\ pipe[p].copying \in Seq(CopyRecord) /\ pipe[p].assigned \in Int
    BY PipeParts DEF Typed
  <2> DEFINE r == pipe[p].pending
             s == pipe[p].copying
  <2> HIDE DEF r, s
  <2>2. Len(r) \in Nat /\ Len(s) \in Nat
    BY <2>1 DEF r, s
  <2> QED BY <2>1, <2>2 DEF r, s
<1>2. ASSUME NEW S, IsFiniteSet(S) PROVE Cardinality(Of(S, p)) \in Nat
  <2>1. Of(S, p) \in SUBSET S
    BY DEF Of
  <2> QED BY <1>2, <2>1, FS_Subset, FS_CardinalityType
<1>3. Cardinality(Of(wire, p)) \in Nat /\ Cardinality(Of(cq, p)) \in Nat
  BY <1>2 DEF Typed, Hardware
<1>4. Used(p) \in Nat
  <2> DEFINE a == Len(pipe[p].pending)
             b == Len(pipe[p].copying)
             c == Cardinality(Of(wire, p))
             d == Cardinality(Of(cq, p))
  <2>1. Used(p) = a + b + c + d
    BY DEF Used
  <2>2. a \in Nat /\ b \in Nat /\ c \in Nat /\ d \in Nat
    BY <1>1, <1>3
  <2> HIDE DEF a, b, c, d
  <2> QED BY <2>1, <2>2
<1> QED BY <1>1, <1>3, <1>4

\* The work requests of a NIC are finitely many.
LEMMA OnNicNat ==
    ASSUME Typed, NEW n
    PROVE  Cardinality(OnNic(wire, n)) \in Nat /\ Cardinality(OnNic(cq, n)) \in Nat
<1>1. ASSUME NEW S, IsFiniteSet(S) PROVE Cardinality(OnNic(S, n)) \in Nat
  <2>1. OnNic(S, n) \in SUBSET S
    BY DEF OnNic
  <2> QED BY <1>1, <2>1, FS_Subset, FS_CardinalityType
<1> QED BY <1>1 DEF Typed, Hardware

\* The candidates are NICs.
LEMMA CandidatesTyped == Candidates \in Seq(Nics)
<1>1. ASSUME NEW S, S \subseteq Nics PROVE Ascending(S) \in Seq(Nics)
  <2>1. IsFiniteSet(S) /\ S \subseteq Nat
    BY <1>1, Finiteness, FS_Subset
  <2>2. Cardinality(S) \in Nat /\ Ascending(S) \in [1..Cardinality(S) -> S]
    BY <2>1, AscendingTyped
  <2> DEFINE s == Ascending(S)
             n == Cardinality(S)
  <2>3. s \in [1..n -> Nics] /\ n \in Nat
    BY <1>1, <2>2
  <2> HIDE DEF s, n
  <2>4. s \in Seq(Nics)
    BY <2>3
  <2> QED BY <2>4 DEF s
<1>2. Ascending(DirectNics) \in Seq(Nics) /\ Ascending(ProxyNics) \in Seq(Nics)
  BY <1>1, Finiteness
<1> QED BY <1>2, SeqConcat DEF Candidates

\* What NICs are compared by is a number.
LEMMA LoadOfNat ==
    ASSUME Working, Typed, Loads, NEW n \in Nics
    PROVE  Load(n) \in Nat /\ out[n] \in Nat /\ out[n] <= MaxOutstanding
<1>1. out[n] \in Nat /\ out[n] <= MaxOutstanding
  BY OnNicNat DEF Loads
<1>2. CASE n \in ProxyNics
  <2> DEFINE f == [t \in ToSet(active) |-> pipe[<<t, n>>].assigned]
  <2>1. IsFiniteSet(ToSet(active)) /\ ToSet(active) \subseteq Transfers
    BY SeqSet DEF Working
  <2>2. \A t \in ToSet(active) : f[t] \in Nat
    <3> SUFFICES ASSUME NEW t \in ToSet(active) PROVE pipe[<<t, n>>].assigned \in Nat
      OBVIOUS
    <3> DEFINE p == <<t, n>>
    <3>1. p \in Pipelines
      BY <1>2, <2>1 DEF Pipelines
    <3> HIDE DEF p
    <3>2. pipe[p].assigned \in Int /\ Used(p) \in Nat /\ pipe[p].assigned >= Used(p)
      BY <3>1, LoadNat DEF Loads
    <3>3. pipe[p].assigned \in Nat
      BY <3>2
    <3> QED BY <3>3 DEF p
  <2>3. Assigned(n) = Total(f, ToSet(active))
    BY DEF Assigned
  <2> HIDE DEF f
  <2>4. Assigned(n) \in Nat
    BY <2>1, <2>2, <2>3, SumFacts
  <2> DEFINE a == IF Assigned(n) > out[n] THEN Assigned(n) - out[n] ELSE 0
  <2>5. a \in Nat /\ Alpha \in Nat
    BY <1>1, <2>4, Sizing
  <2>6. Load(n) = Alpha * a + out[n]
    BY <1>2 DEF Load
  <2> HIDE DEF a
  <2>7. Alpha * a \in Nat
    BY <2>5
  <2> QED BY <1>1, <2>6, <2>7
<1>3. CASE n \notin ProxyNics
  BY <1>1, <1>3 DEF Load
<1> QED BY <1>1, <1>2, <1>3

\* The NIC that is chosen is one of those that have room.
LEMMA BestIsOpen ==
    ASSUME Working, Typed, Loads, Open # {}
    PROVE  BestNic \in Nics /\ Load(BestNic) < Limit(BestNic)
<1> DEFINE L(i) == Load(Candidates[i])
           V == {L(i) : i \in Open}
           Best(i) == \A j \in Open : L(i) < L(j) \/ (L(i) = L(j) /\ i <= j)
<1>1. \A i \in Open : Candidates[i] \in Nics /\ i \in Nat /\ Load(Candidates[i]) < Limit(Candidates[i])
  BY CandidatesTyped DEF Open
<1>2. \A i \in Open : L(i) \in Nat
  BY <1>1, LoadOfNat
<1> HIDE DEF L
<1>3. V \subseteq Nat /\ V # {}
  BY <1>2
<1>4. PICK v \in V : \A u \in V : v <= u
  <2> HIDE DEF V
  <2> QED BY <1>3, LeastNatural
<1> DEFINE I == {i \in Open : L(i) = v}
<1>5. I \subseteq Nat /\ I # {}
  BY <1>1
<1>6. PICK i \in I : \A j \in I : i <= j
  <2> HIDE DEF I
  <2> QED BY <1>5, LeastNatural
<1>7. i \in Open /\ Best(i)
  <2>1. i \in Open /\ L(i) = v
    OBVIOUS
  <2>2. ASSUME NEW j \in Open PROVE L(i) < L(j) \/ (L(i) = L(j) /\ i <= j)
    <3>1. L(j) \in V /\ v <= L(j) /\ L(j) \in Nat /\ v \in Nat
      BY <1>2, <1>3, <1>4
    <3>2. L(j) = v => i <= j
      BY <1>6
    <3> QED BY <2>1, <3>1, <3>2
  <2> QED BY <2>1, <2>2
<1>8. BestNic = Candidates[CHOOSE k \in Open : Best(k)]
  BY Zenon DEF BestNic, L
<1> DEFINE k == CHOOSE x \in Open : Best(x)
<1>9. \E x \in Open : Best(x)
  <2> HIDE DEF Best
  <2> QED BY <1>7
<1>10. k \in Open
  <2> HIDE DEF Best
  <2> QED BY <1>9, Zenon
<1>11. BestNic = Candidates[k]
  BY <1>8, Zenon
<1> HIDE DEF k
<1> QED BY <1>1, <1>10, <1>11

\* The loads of pipelines, when they change by as much as what they are made of.
Balanced ==
    \A p \in Pipelines :
        /\ pipe'[p].assigned - pipe[p].assigned >= Used(p)' - Used(p)
        /\ ~Finished(p[1])' => pipe'[p].assigned - pipe[p].assigned = Used(p)' - Used(p)

\* The loads of NICs, when they do.
Metered ==
    \A n \in Nics :
        /\ out'[n] - out[n] = (Cardinality(OnNic(wire, n))' - Cardinality(OnNic(wire, n)))
                                + (Cardinality(OnNic(cq, n))' - Cardinality(OnNic(cq, n)))
        /\ out'[n] <= out[n] \/ (out'[n] = out[n] + 1 /\ out[n] < MaxOutstanding)

\* The loads are right after a step that changes them by what it moves.
LEMMA LoadsFrom ==
    ASSUME Control, Typed, Typed', [Next]_vars, Loads, Balanced, Metered
    PROVE  Loads'
<1>1. ASSUME NEW n \in Nics
      PROVE  /\ out'[n] = Cardinality(OnNic(wire, n))' + Cardinality(OnNic(cq, n))'
             /\ out'[n] <= MaxOutstanding
  <2> DEFINE a == Cardinality(OnNic(wire, n))
             b == Cardinality(OnNic(cq, n))
             c == Cardinality(OnNic(wire, n))'
             d == Cardinality(OnNic(cq, n))'
  <2>1. a \in Nat /\ b \in Nat
    BY OnNicNat
  <2>2. c \in Nat /\ d \in Nat
    <3>1. ASSUME NEW S, IsFiniteSet(S) PROVE Cardinality({w \in S : w.nic = n}) \in Nat
      BY <3>1, FS_Subset, FS_CardinalityType
    <3>2. IsFiniteSet(wire') /\ IsFiniteSet(cq')
      BY DEF Typed, Hardware
    <3>3. c = Cardinality({w \in wire' : w.nic = n}) /\ d = Cardinality({w \in cq' : w.nic = n})
      BY DEF OnNic
    <3> QED BY <3>1, <3>2, <3>3
  <2>3. out[n] = a + b /\ out[n] <= MaxOutstanding /\ out'[n] - out[n] = (c - a) + (d - b)
        /\ (out'[n] <= out[n] \/ (out'[n] = out[n] + 1 /\ out[n] < MaxOutstanding))
    BY DEF Loads, Metered
  <2>4. out[n] \in Int /\ out'[n] \in Int /\ MaxOutstanding \in Nat
    BY Sizing DEF Typed, Kept
  <2> HIDE DEF a, b, c, d
  <2>5. out'[n] = c + d /\ out'[n] <= MaxOutstanding
    BY <2>1, <2>2, <2>3, <2>4
  <2> QED BY <2>5 DEF c, d
<1>2. ASSUME NEW p \in Pipelines
      PROVE  pipe'[p].assigned >= Used(p)' /\ (~Finished(p[1])' => pipe'[p].assigned = Used(p)')
  <2> DEFINE u == Used(p)
             v == Used(p)'
             x == pipe[p].assigned
             y == pipe'[p].assigned
  <2>1. u \in Nat /\ x \in Int
    BY LoadNat
  <2>2. v \in Nat /\ y \in Int
    <3>1. ASSUME NEW S, IsFiniteSet(S) PROVE Cardinality(Of(S, p)) \in Nat
      <4>1. Of(S, p) \in SUBSET S
        BY DEF Of
      <4> QED BY <3>1, <4>1, FS_Subset, FS_CardinalityType
    <3>2. IsFiniteSet(wire') /\ IsFiniteSet(cq') /\ pipe'[p] \in PipeRecord
      BY DEF Typed, Hardware, Kept
    <3> DEFINE r == pipe'[p]
               a == Len(r.pending)
               b == Len(r.copying)
               c == Cardinality(Of(wire', p))
               d == Cardinality(Of(cq', p))
    <3>3. v = a + b + c + d
      BY DEF Used, Of
    <3>4. c \in Nat /\ d \in Nat
      BY <3>1, <3>2
    <3> HIDE DEF r
    <3>5. a \in Nat /\ b \in Nat /\ r.assigned \in Int
      BY <3>2 DEF r, PipeRecord
    <3> HIDE DEF a, b, c, d, v
    <3>6. v \in Nat
      BY <3>3, <3>4, <3>5
    <3> QED BY <3>5, <3>6 DEF r
  <2>3. x >= u /\ (~Finished(p[1]) => x = u) /\ y - x >= v - u /\ (~Finished(p[1])' => y - x = v - u)
    BY DEF Loads, Balanced
  <2>4. Finished(p[1]) => Finished(p[1])'
    <3>1. p[1] \in Transfers
      BY DEF Pipelines
    <3> QED BY <3>1, FinishedStays DEF Finished
  <2> HIDE DEF u, v, x, y
  <2>5. y >= v /\ (~Finished(p[1])' => y = v)
    BY <2>1, <2>2, <2>3, <2>4
  <2> QED BY <2>5 DEF v, y
<1> QED BY <1>1, <1>2 DEF Loads

\* The chunks in a pipeline that are not posted.
Held(r) == Len(r.pending) + Len(r.copying)

\* What a pipeline is charged for: what it holds, what is on its NIC, what is completed.
LEMMA HeldNat ==
    ASSUME Typed
    PROVE  \A p \in Pipelines : Held(pipe[p]) \in Nat
             /\ Used(p) = Held(pipe[p]) + Cardinality(Of(wire, p)) + Cardinality(Of(cq, p))
<1> SUFFICES ASSUME NEW p \in Pipelines
             PROVE Held(pipe[p]) \in Nat
                     /\ Used(p) = Held(pipe[p]) + Cardinality(Of(wire, p)) + Cardinality(Of(cq, p))
  OBVIOUS
<1> DEFINE a == Len(pipe[p].pending)
           b == Len(pipe[p].copying)
<1>1. a \in Nat /\ b \in Nat
  BY LoadNat
<1>2. Used(p) = a + b + Cardinality(Of(wire, p)) + Cardinality(Of(cq, p)) /\ Held(pipe[p]) = a + b
  BY DEF Used, Held
<1> HIDE DEF a, b
<1> QED BY <1>1, <1>2

\* The same after a step.
LEMMA UsedAfter ==
    ASSUME Typed'
    PROVE  \A p \in Pipelines :
              /\ Held(pipe'[p]) \in Nat /\ pipe'[p].assigned \in Int
              /\ Used(p)' = Held(pipe'[p]) + Cardinality(Of(wire', p)) + Cardinality(Of(cq', p))
<1> SUFFICES ASSUME NEW p \in Pipelines
             PROVE  /\ Held(pipe'[p]) \in Nat /\ pipe'[p].assigned \in Int
                    /\ Used(p)' = Held(pipe'[p]) + Cardinality(Of(wire', p)) + Cardinality(Of(cq', p))
  OBVIOUS
<1> DEFINE r == pipe'[p]
           a == Len(r.pending)
           b == Len(r.copying)
<1>1. r \in PipeRecord
  BY DEF Typed, Kept
<1>2. Used(p)' = a + b + Cardinality(Of(wire', p)) + Cardinality(Of(cq', p)) /\ Held(r) = a + b
  BY DEF Used, Held, Of
<1> HIDE DEF r
<1>3. a \in Nat /\ b \in Nat /\ r.assigned \in Int
  BY <1>1 DEF PipeRecord
<1> HIDE DEF a, b
<1> QED BY <1>2, <1>3 DEF r

\* Nothing is posted or completed: the pipelines alone count.
HeldBalanced ==
    \A p \in Pipelines :
        \/ pipe'[p].assigned - pipe[p].assigned = Held(pipe'[p]) - Held(pipe[p])
        \/ Finished(p[1])' /\ pipe'[p].assigned = pipe[p].assigned /\ Held(pipe'[p]) <= Held(pipe[p])

\* A step that neither posts nor completes changes the loads by what pipelines hold.
LEMMA NicsStill ==
    ASSUME Typed, Typed', UNCHANGED <<wire, cq, out>>, HeldBalanced
    PROVE  Balanced /\ Metered
<1>1. ASSUME NEW p \in Pipelines
      PROVE  /\ pipe'[p].assigned - pipe[p].assigned >= Used(p)' - Used(p)
             /\ ~Finished(p[1])' => pipe'[p].assigned - pipe[p].assigned = Used(p)' - Used(p)
  <2> DEFINE c == Cardinality(Of(wire, p))
             d == Cardinality(Of(cq, p))
             h == Held(pipe[p])
             k == Held(pipe'[p])
             x == pipe[p].assigned
             y == pipe'[p].assigned
  <2>1. c \in Nat /\ d \in Nat /\ x \in Int
    BY LoadNat
  <2>2. h \in Nat /\ Used(p) = h + c + d
    BY HeldNat
  <2>3. k \in Nat /\ y \in Int /\ Used(p)' = k + c + d
    BY UsedAfter
  <2>4. y - x = k - h \/ (Finished(p[1])' /\ y = x /\ k <= h)
    BY DEF HeldBalanced
  <2> HIDE DEF c, d, h, k, x, y
  <2>5. y - x >= Used(p)' - Used(p) /\ (~Finished(p[1])' => y - x = Used(p)' - Used(p))
    BY <2>1, <2>2, <2>3, <2>4
  <2> QED BY <2>5 DEF x, y
<1>2. ASSUME NEW n \in Nics
      PROVE  /\ out'[n] - out[n] = (Cardinality(OnNic(wire, n))' - Cardinality(OnNic(wire, n)))
                                       + (Cardinality(OnNic(cq, n))' - Cardinality(OnNic(cq, n)))
             /\ out'[n] <= out[n] \/ (out'[n] = out[n] + 1 /\ out[n] < MaxOutstanding)
  <2>1. Cardinality(OnNic(wire, n))' = Cardinality(OnNic(wire, n))
          /\ Cardinality(OnNic(cq, n))' = Cardinality(OnNic(cq, n))
    BY DEF OnNic
  <2>2. Cardinality(OnNic(wire, n)) \in Nat /\ Cardinality(OnNic(cq, n)) \in Nat
    BY OnNicNat
  <2>3. out[n] \in Int /\ out'[n] = out[n]
    BY DEF Typed, Kept
  <2> QED BY <2>1, <2>2, <2>3
<1> QED BY <1>1, <1>2 DEF Balanced, Metered

\* The lengths of what a pipeline holds, step by step.
LEMMA HeldSteps ==
    ASSUME Typed, NEW p \in Pipelines
    PROVE  /\ \A e \in CopyRecord : Advanced(p, e) =>
                 pipe'[p].assigned = pipe[p].assigned /\ Held(pipe'[p]) = Held(pipe[p])
           /\ Pended(p) => pipe'[p].assigned = pipe[p].assigned + 1 /\ Held(pipe'[p]) = Held(pipe[p]) + 1
           /\ Reclaimed(p) => pipe'[p].assigned = pipe[p].assigned /\ Held(pipe'[p]) = Held(pipe[p])
           /\ \A e \in CopyRecord, w \in WireRecord : Posted(p, e, w) =>
                 pipe'[p].assigned = pipe[p].assigned /\ Held(pipe'[p]) = Held(pipe[p]) - 1
<1> DEFINE r == pipe[p].pending
           s == pipe[p].copying
<1>1. r \in Seq(Chunks) /\ s \in Seq(CopyRecord)
  BY PipeParts DEF Typed
<1>2. ASSUME NEW e \in CopyRecord, Advanced(p, e)
      PROVE  pipe'[p].assigned = pipe[p].assigned /\ Held(pipe'[p]) = Held(pipe[p])
  <2>1. pipe'[p].pending = Tail(r) /\ pipe'[p].copying = Append(s, e) /\ r # <<>>
          /\ pipe'[p].assigned = pipe[p].assigned
    BY <1>2 DEF Advanced
  <2> HIDE DEF r, s
  <2>2. Len(Tail(r)) = Len(r) - 1 /\ Len(r) \in Nat /\ Len(Append(s, e)) = Len(s) + 1 /\ Len(s) \in Nat
    BY <1>1, <2>1, SeqTail, SeqAppend, SeqSet
  <2>3. Len(r) - 1 + (Len(s) + 1) = Len(r) + Len(s)
    BY <2>2
  <2> QED BY <2>1, <2>2, <2>3 DEF Held, r, s
<1>3. ASSUME Pended(p)
      PROVE  pipe'[p].assigned = pipe[p].assigned + 1 /\ Held(pipe'[p]) = Held(pipe[p]) + 1
  <2> DEFINE c == <<p[1], nextChunk[p[1]]>>
  <2>1. /\ pipe'[p].pending = Append(r, c) /\ pipe'[p].copying = s /\ c \in Chunks
        /\ pipe'[p].assigned = pipe[p].assigned + 1
    BY <1>3 DEF Pended, Chooses
  <2> HIDE DEF r, s, c
  <2>2. Len(Append(r, c)) = Len(r) + 1 /\ Len(r) \in Nat /\ Len(s) \in Nat
    BY <1>1, <2>1, SeqAppend, SeqSet
  <2>3. Len(r) + 1 + Len(s) = Len(r) + Len(s) + 1
    BY <2>2
  <2> QED BY <2>1, <2>2, <2>3 DEF Held, r, s
<1>4. ASSUME Reclaimed(p)
      PROVE  pipe'[p].assigned = pipe[p].assigned /\ Held(pipe'[p]) = Held(pipe[p])
  <2>1. pipe'[p].pending = r /\ pipe'[p].copying = s /\ pipe'[p].assigned = pipe[p].assigned
    BY <1>4 DEF Reclaimed
  <2> QED BY <2>1 DEF Held
<1>5. ASSUME NEW e \in CopyRecord, NEW w \in WireRecord, Posted(p, e, w)
      PROVE  pipe'[p].assigned = pipe[p].assigned /\ Held(pipe'[p]) = Held(pipe[p]) - 1
  <2>1. pipe'[p].pending = r /\ pipe'[p].copying = Tail(s) /\ s # <<>> /\ pipe'[p].assigned = pipe[p].assigned
    BY <1>5 DEF Posted
  <2> HIDE DEF r, s
  <2>2. Len(Tail(s)) = Len(s) - 1 /\ Len(r) \in Nat /\ Len(s) \in Nat
    BY <1>1, <2>1, SeqTail, SeqSet
  <2>3. Held(pipe'[p]) = Len(r) + Len(Tail(s)) /\ Held(pipe[p]) = Len(r) + Len(s)
    <3>1. Held(pipe'[p]) = Len(r) + Len(Tail(s))
      BY <2>1 DEF Held
    <3> QED BY <3>1 DEF Held, r, s
  <2>4. Len(r) + Len(Tail(s)) = Len(r) + Len(s) - 1
    BY <2>2
  <2> QED BY <2>1, <2>3, <2>4
<1> QED BY <1>2, <1>3, <1>4, <1>5

\* One more work request on NIC n.
LEMMA PostMeters ==
    ASSUME Typed, NEW n \in Nics, NEW w, w \notin wire, w.nic = n, wire' = wire \cup {w}, cq' = cq,
           out' = [out EXCEPT ![n] = out[n] + 1], out[n] < MaxOutstanding
    PROVE  Metered
<1> SUFFICES ASSUME NEW m \in Nics
             PROVE  /\ out'[m] - out[m] = (Cardinality(OnNic(wire, m))' - Cardinality(OnNic(wire, m)))
                                              + (Cardinality(OnNic(cq, m))' - Cardinality(OnNic(cq, m)))
                    /\ out'[m] <= out[m] \/ (out'[m] = out[m] + 1 /\ out[m] < MaxOutstanding)
  BY DEF Metered
<1> DEFINE a == Cardinality(OnNic(wire, m))
           b == Cardinality(OnNic(cq, m))
           c == Cardinality(OnNic(wire', m))
<1>1. a \in Nat /\ b \in Nat
  BY OnNicNat
<1>2. IsFiniteSet(wire) /\ out \in [Nics -> Int]
  BY DEF Typed, Hardware, Kept
<1>3. c = a + (IF w.nic = m THEN 1 ELSE 0)
  <2>1. \A k : Cardinality(OnNic(wire \cup {w}, k)) = Cardinality(OnNic(wire, k)) + (IF w.nic = k THEN 1 ELSE 0)
    BY <1>2, NicAdds
  <2> QED BY <2>1, Zenon
<1>4. Cardinality(OnNic(wire, m))' = c /\ Cardinality(OnNic(cq, m))' = b
  BY DEF OnNic
<1>5. out[m] \in Int /\ out'[m] = IF m = n THEN out[n] + 1 ELSE out[m]
  BY <1>2
<1> HIDE DEF a, b, c
<1>6. out'[m] - out[m] = (c - a) + (b - b)
  BY <1>1, <1>3, <1>5
<1>7. out'[m] <= out[m] \/ (out'[m] = out[m] + 1 /\ out[m] < MaxOutstanding)
  BY <1>5
<1> QED BY <1>4, <1>6, <1>7 DEF a, b

\* A proxy chunk is posted: it goes from the pipeline to the NIC.
LEMMA PostLoads ==
    ASSUME Typed, Typed', Places, cq' = cq,
           NEW p \in Pipelines, NEW e \in CopyRecord, NEW w \in WireRecord, Posted(p, e, w)
    PROVE  Balanced /\ Metered
<1>1. e \in ToSet(pipe[p].copying) /\ e.chunk[1] = p[1]
  <2>1. pipe[p].copying \in Seq(CopyRecord) /\ pipe[p].copying # <<>> /\ e = Head(pipe[p].copying)
    BY PipeParts DEF Typed, Posted
  <2>2. e \in ToSet(pipe[p].copying)
    BY <2>1, SeqTail
  <2> QED BY <2>2 DEF Places, Apart, Orderly
<1>2. w.chunk = e.chunk /\ w.nic = p[2] /\ wire' = wire \cup {w} /\ out' = [out EXCEPT ![p[2]] = out[p[2]] + 1]
      /\ out[p[2]] < MaxOutstanding
  BY DEF Posted
<1>3. w \notin wire
  <2> SUFFICES ASSUME w \in wire PROVE FALSE
    OBVIOUS
  <2> DEFINE a == <<w.chunk, "wire", w>>
             b == <<e.chunk, "copying", p>>
  <2>1. a \in Spots /\ b \in Spots /\ a[1] = b[1] /\ a[2] # b[2]
    BY <1>1, <1>2, SpotIs
  <2> HIDE DEF a, b
  <2> QED BY <2>1 DEF Places, Single
<1>4. IsFiniteSet(wire) /\ out \in [Nics -> Int]
  BY DEF Typed, Hardware, Kept
<1>4a. \A k : Cardinality(Of(wire \cup {w}, k)) =
                 Cardinality(Of(wire, k)) + (IF w.chunk[1] = k[1] /\ w.nic = k[2] THEN 1 ELSE 0)
  BY <1>3, <1>4, OneMore, ZenonT(60)
<1>5. ASSUME NEW q \in Pipelines
      PROVE  /\ pipe'[q].assigned - pipe[q].assigned >= Used(q)' - Used(q)
             /\ ~Finished(q[1])' => pipe'[q].assigned - pipe[q].assigned = Used(q)' - Used(q)
  <2> DEFINE c == Cardinality(Of(wire, q))
             c2 == Cardinality(Of(wire', q))
             d == Cardinality(Of(cq, q))
             h == Held(pipe[q])
             k == Held(pipe'[q])
             x == pipe[q].assigned
             y == pipe'[q].assigned
  <2>1. c \in Nat /\ d \in Nat /\ x \in Int
    BY LoadNat
  <2>2. h \in Nat /\ Used(q) = h + c + d
    BY HeldNat
  <2>3. k \in Nat /\ y \in Int /\ Used(q)' = k + c2 + d
    BY UsedAfter
  <2>4. c2 = c + (IF w.chunk[1] = q[1] /\ w.nic = q[2] THEN 1 ELSE 0)
    <3>1. wire' = wire \cup {w}
      BY <1>2
    <3> QED BY <1>4a, <3>1, Zenon
  <2>5. CASE q = p
    <3>1. c2 = c + 1
      BY <1>1, <1>2, <2>4, <2>5
    <3>2. y = x /\ k = h - 1
      BY <2>5, HeldSteps
    <3> HIDE DEF c, c2, d, h, k, x, y
    <3>3. y - x = Used(q)' - Used(q)
      BY <2>1, <2>2, <2>3, <3>1, <3>2
    <3>4. y - x >= Used(q)' - Used(q)
      BY <2>1, <2>2, <2>3, <3>1, <3>2
    <3> QED BY <3>3, <3>4 DEF x, y
  <2>6. CASE q # p
    <3>1. ~(p[1] = q[1] /\ p[2] = q[2])
      BY <2>6 DEF Pipelines
    <3>2. c2 = c
      BY <1>1, <1>2, <2>1, <2>4, <3>1
    <3>3. y = x /\ k = h
      BY <2>6 DEF Posted, Elsewhere
    <3> HIDE DEF c, c2, d, h, k, x, y
    <3>4. y - x = Used(q)' - Used(q)
      BY <2>1, <2>2, <2>3, <3>2, <3>3
    <3>5. y - x >= Used(q)' - Used(q)
      BY <2>1, <2>2, <2>3, <3>2, <3>3
    <3> QED BY <3>4, <3>5 DEF x, y
  <2> QED BY <2>5, <2>6
<1>6. Metered
  <2>1. p[2] \in Nics
    BY Finiteness DEF Posted
  <2> DEFINE n == p[2]
  <2>2. n \in Nics /\ w.nic = n /\ out' = [out EXCEPT ![n] = out[n] + 1] /\ out[n] < MaxOutstanding
    BY <1>2, <2>1
  <2> HIDE DEF n
  <2> QED BY <1>2, <1>3, <1>4, <2>2, PostMeters
<1> QED BY <1>5, <1>6 DEF Balanced

\* A chunk is posted on a NIC of the source, which no pipeline uses.
LEMMA DirectLoads ==
    ASSUME Working, Typed, Typed', Places, Loads, pipe' = pipe, cq' = cq, NEW t, NEW n \in DirectNics, Chooses(t),
           NEW w \in WireRecord, w.chunk = <<t, nextChunk[t]>>, w.nic = n, wire' = wire \cup {w},
           out' = [out EXCEPT ![n] = out[n] + 1], out[n] < MaxOutstanding,
           \A a \in Spots : a[1] # <<t, nextChunk[t]>>
    PROVE  Balanced /\ Metered
<1>1. w \notin wire
  BY SpotIs
<1>2. IsFiniteSet(wire) /\ n \in Nics /\ n \notin ProxyNics
  BY Finiteness DEF Typed, Hardware
<1>3. ASSUME NEW q \in Pipelines
      PROVE  /\ pipe'[q].assigned - pipe[q].assigned >= Used(q)' - Used(q)
             /\ ~Finished(q[1])' => pipe'[q].assigned - pipe[q].assigned = Used(q)' - Used(q)
  <2> DEFINE c == Cardinality(Of(wire, q))
             c2 == Cardinality(Of(wire', q))
             d == Cardinality(Of(cq, q))
             h == Held(pipe[q])
             x == pipe[q].assigned
  <2>1. c \in Nat /\ d \in Nat /\ x \in Int
    BY LoadNat
  <2>2. h \in Nat /\ Used(q) = h + c + d
    BY HeldNat
  <2>3. Used(q)' = h + c2 + d
    BY UsedAfter
  <2>4. c2 = c + (IF w.chunk[1] = q[1] /\ w.nic = q[2] THEN 1 ELSE 0)
    <3>1. \A r : Cardinality(Of(wire \cup {w}, r)) =
                    Cardinality(Of(wire, r)) + (IF w.chunk[1] = r[1] /\ w.nic = r[2] THEN 1 ELSE 0)
      BY <1>1, <1>2, OneMore, ZenonT(60)
    <3>2. wire' = wire \cup {w}
      OBVIOUS
    <3> QED BY <3>1, <3>2, Zenon
  <2>5. q[2] # n
    BY <1>2 DEF Pipelines
  <2>6. c2 = c
    BY <2>1, <2>4, <2>5
  <2> HIDE DEF c, c2, d, h
  <2>7. Used(q)' = Used(q) /\ Used(q) \in Nat
    BY <2>1, <2>2, <2>3, <2>6
  <2>8. pipe'[q].assigned = x
    OBVIOUS
  <2> HIDE DEF x
  <2>9. x - x >= Used(q)' - Used(q) /\ x - x = Used(q)' - Used(q)
    BY <2>1, <2>7
  <2> QED BY <2>8, <2>9 DEF x
<1> QED BY <1>1, <1>2, <1>3, PostMeters DEF Balanced

\* A work request is completed: it is counted among the completions.
LEMMA CompleteLoads ==
    ASSUME Typed, Typed', Places, pipe' = pipe, out' = out,
           NEW w \in wire, NEW v, v.chunk = w.chunk, v.nic = w.nic, wire' = wire \ {w}, cq' = cq \cup {v}
    PROVE  Balanced /\ Metered
<1>1. v \notin cq
  <2> SUFFICES ASSUME v \in cq PROVE FALSE
    OBVIOUS
  <2> DEFINE a == <<w.chunk, "wire", w>>
             b == <<v.chunk, "cq", v>>
  <2>1. a \in Spots /\ b \in Spots /\ a[1] = b[1] /\ a[2] # b[2]
    BY SpotIs
  <2> HIDE DEF a, b
  <2> QED BY <2>1 DEF Places, Single
<1>2. IsFiniteSet(wire) /\ IsFiniteSet(cq)
  BY DEF Typed, Hardware
<1>3. \A k : Cardinality(Of(wire \ {w}, k)) \in Nat /\
             Cardinality(Of(wire, k)) = Cardinality(Of(wire \ {w}, k)) +
                 (IF w.chunk[1] = k[1] /\ w.nic = k[2] THEN 1 ELSE 0)
  BY <1>2, NicLoses
<1>4. \A k : Cardinality(Of(cq \cup {v}, k)) = Cardinality(Of(cq, k)) +
           (IF v.chunk[1] = k[1] /\ v.nic = k[2] THEN 1 ELSE 0)
  BY <1>1, <1>2, OneMore, ZenonT(60)
<1>5. \A k : Cardinality(OnNic(wire \ {w}, k)) \in Nat /\
             Cardinality(OnNic(wire, k)) = Cardinality(OnNic(wire \ {w}, k)) + (IF w.nic = k THEN 1 ELSE 0)
  BY <1>2, NicLoses
<1>6. \A k : Cardinality(OnNic(cq \cup {v}, k)) = Cardinality(OnNic(cq, k)) + (IF v.nic = k THEN 1 ELSE 0)
  BY <1>1, <1>2, OneMore, ZenonT(60)
<1>7. ASSUME NEW q \in Pipelines
      PROVE  /\ pipe'[q].assigned - pipe[q].assigned >= Used(q)' - Used(q)
             /\ ~Finished(q[1])' => pipe'[q].assigned - pipe[q].assigned = Used(q)' - Used(q)
  <2> DEFINE c == Cardinality(Of(wire, q))
             c2 == Cardinality(Of(wire', q))
             d == Cardinality(Of(cq, q))
             d2 == Cardinality(Of(cq', q))
             h == Held(pipe[q])
             x == pipe[q].assigned
             one == IF w.chunk[1] = q[1] /\ w.nic = q[2] THEN 1 ELSE 0
  <2>1. c \in Nat /\ d \in Nat /\ x \in Int
    BY LoadNat
  <2>2. h \in Nat /\ Used(q) = h + c + d
    BY HeldNat
  <2>3. Used(q)' = h + c2 + d2
    BY UsedAfter
  <2>4. c2 \in Nat /\ c = c2 + one
    BY <1>3, Zenon
  <2>5. d2 = d + one
    BY <1>4
  <2>6. one \in Nat
    OBVIOUS
  <2>7. pipe'[q].assigned = x
    OBVIOUS
  <2> HIDE DEF c, c2, d, d2, h, x, one
  <2>8. Used(q)' = Used(q) /\ Used(q) \in Nat
    BY <2>1, <2>2, <2>3, <2>4, <2>5, <2>6
  <2>9. x - x >= Used(q)' - Used(q) /\ x - x = Used(q)' - Used(q)
    BY <2>1, <2>8
  <2> QED BY <2>7, <2>9 DEF x
<1>8. ASSUME NEW m \in Nics
      PROVE  /\ out'[m] - out[m] = (Cardinality(OnNic(wire, m))' - Cardinality(OnNic(wire, m)))
                                       + (Cardinality(OnNic(cq, m))' - Cardinality(OnNic(cq, m)))
             /\ out'[m] <= out[m]
  <2> DEFINE a == Cardinality(OnNic(wire, m))
             b == Cardinality(OnNic(cq, m))
             c == Cardinality(OnNic(wire', m))
             d == Cardinality(OnNic(cq', m))
             one == IF w.nic = m THEN 1 ELSE 0
  <2>1. a \in Nat /\ b \in Nat /\ out[m] \in Int /\ out'[m] = out[m]
    BY OnNicNat DEF Typed, Kept
  <2>2. c \in Nat /\ a = c + one
    BY <1>5, Zenon
  <2>3. d = b + one
    BY <1>6
  <2>4. one \in Nat
    OBVIOUS
  <2>5. Cardinality(OnNic(wire, m))' = c /\ Cardinality(OnNic(cq, m))' = d
    BY DEF OnNic
  <2> HIDE DEF a, b, c, d, one
  <2>6. out'[m] - out[m] = (c - a) + (d - b) /\ out'[m] <= out[m]
    BY <2>1, <2>2, <2>3, <2>4
  <2> QED BY <2>5, <2>6 DEF a, b
<1> QED BY <1>7, <1>8 DEF Balanced, Metered

\* The completions are counted: those of a transfer that goes on are all good.
LEMMA PollLoads == ASSUME Control, Typed, Typed', Polled PROVE Balanced /\ Metered
<1>1. IsFiniteSet(cq) /\ cq' = {} /\ wire' = wire /\ Fail({w.chunk[1] : w \in {w \in cq : ~w.ok}})
  BY DEF Polled, Typed, Hardware
<1>2. Cardinality({}) = 0
  BY FS_EmptySet
<1>3. ASSUME NEW q \in Pipelines
      PROVE  /\ pipe'[q].assigned - pipe[q].assigned >= Used(q)' - Used(q)
             /\ ~Finished(q[1])' => pipe'[q].assigned - pipe[q].assigned = Used(q)' - Used(q)
  <2> DEFINE W == {w \in cq : w.ok /\ w.chunk[1] = q[1] /\ w.nic = q[2]}
             k == Cardinality(W)
             c == Cardinality(Of(wire, q))
             d == Cardinality(Of(cq, q))
             h == Held(pipe[q])
             x == pipe[q].assigned
             y == pipe'[q].assigned
  <2>1. c \in Nat /\ d \in Nat /\ x \in Int
    BY LoadNat
  <2>2. h \in Nat /\ Used(q) = h + c + d
    BY HeldNat
  <2>3. pipe'[q] = [pending |-> pipe[q].pending, copying |-> pipe[q].copying, inflight |-> pipe[q].inflight,
                    arrived |-> pipe[q].arrived + k, assigned |-> x - k]
    BY Zenon DEF Polled
  <2>4. y = x - k /\ Held(pipe'[q]) = h
    <3> HIDE DEF k, x
    <3>1. pipe'[q].pending = pipe[q].pending /\ pipe'[q].copying = pipe[q].copying /\ pipe'[q].assigned = x - k
      BY <2>3
    <3> QED BY <3>1 DEF Held
  <2>5. Used(q)' = h + c + 0
    <3>1. Of(cq', q) = {} /\ Of(wire', q) = Of(wire, q)
      BY <1>1 DEF Of
    <3>2. Used(q)' = Held(pipe'[q]) + Cardinality(Of(wire', q)) + Cardinality(Of(cq', q))
      BY UsedAfter
    <3> HIDE DEF h, c
    <3> QED BY <1>2, <2>4, <3>1, <3>2 DEF c
  <2>6. Of(cq, q) \in SUBSET cq /\ W \in SUBSET Of(cq, q)
    BY DEF Of
  <2>7. IsFiniteSet(Of(cq, q))
    BY <1>1, <2>6, FS_Subset
  <2>8. k \in Nat /\ k <= d
    <3> HIDE DEF W
    <3> QED BY <2>6, <2>7, FS_Subset, FS_CardinalityType
  <2>9. ~Finished(q[1])' => k = d
    <3> SUFFICES ASSUME ~Finished(q[1])', W # Of(cq, q) PROVE FALSE
      OBVIOUS
    <3>1. PICK w \in cq : ~w.ok /\ w.chunk[1] = q[1]
      BY <2>6 DEF Of
    <3>2. q[1] \in Transfers /\ q[1] \in {v.chunk[1] : v \in {v \in cq : ~v.ok}}
      BY <3>1 DEF Pipelines
    <3>3. status'[q[1]] \in {"done", "failed"}
      BY <1>1, <3>2, FailKeeps DEF Control, Rounds
    <3> QED BY <3>3 DEF Finished
  <2> HIDE DEF W, k, c, d, h, x, y
  <2>10. y - x >= Used(q)' - Used(q) /\ (~Finished(q[1])' => y - x = Used(q)' - Used(q))
    BY <2>1, <2>2, <2>4, <2>5, <2>8, <2>9
  <2> QED BY <2>10 DEF x, y
<1>4. ASSUME NEW m \in Nics
      PROVE  /\ out'[m] - out[m] = (Cardinality(OnNic(wire, m))' - Cardinality(OnNic(wire, m)))
                                       + (Cardinality(OnNic(cq, m))' - Cardinality(OnNic(cq, m)))
             /\ out'[m] <= out[m]
  <2> DEFINE a == Cardinality(OnNic(wire, m))
             b == Cardinality(OnNic(cq, m))
  <2>1. a \in Nat /\ b \in Nat /\ out[m] \in Int
    BY OnNicNat DEF Typed, Kept
  <2>2. out'[m] = out[m] - b
    BY DEF Polled
  <2>3. Cardinality(OnNic(wire, m))' = a
    BY <1>1 DEF OnNic
  <2>4. OnNic(cq, m)' = {}
    BY <1>1 DEF OnNic
  <2>5. Cardinality(OnNic(cq, m))' = 0
    BY <1>2, <2>4
  <2> HIDE DEF a, b
  <2>6. out'[m] - out[m] = (a - a) + (0 - b) /\ out'[m] <= out[m]
    BY <2>1, <2>2
  <2> QED BY <2>3, <2>5, <2>6 DEF a, b
<1> QED BY <1>3, <1>4 DEF Balanced, Metered

\* Every step keeps the loads.
LEMMA StepLoads == ASSUME Control, Typed, Typed', Places, Loads, [Next]_vars PROVE Loads'
<1>0. Working
  BY DEF Control, Rounds
<1>a. \A p \in Pipelines : pipe[p].assigned \in Int /\ Held(pipe[p]) \in Nat
  BY LoadNat, HeldNat
<1>b. ASSUME UNCHANGED <<wire, cq, out>>, \A p \in Pipelines : pipe'[p] = pipe[p] PROVE Loads'
  <2>1. \A p \in Pipelines : pipe'[p].assigned - pipe[p].assigned = Held(pipe'[p]) - Held(pipe[p])
    <3> SUFFICES ASSUME NEW p \in Pipelines
        PROVE pipe'[p].assigned - pipe[p].assigned = Held(pipe'[p]) - Held(pipe[p])
      OBVIOUS
    <3> DEFINE x == pipe[p].assigned
               h == Held(pipe[p])
    <3>1. x \in Int /\ h \in Nat /\ pipe'[p].assigned = x /\ Held(pipe'[p]) = h
      BY <1>a, <1>b
    <3> HIDE DEF x, h
    <3>2. x - x = h - h
      BY <3>1
    <3> QED BY <3>1, <3>2 DEF x, h
  <2>2. HeldBalanced
    BY <2>1 DEF HeldBalanced
  <2> QED BY <1>b, <2>2, NicsStill, LoadsFrom
<1>c. ASSUME UNCHANGED <<wire, cq, out>>, NEW p \in Pipelines, Elsewhere(p),
             pipe'[p].assigned - pipe[p].assigned = Held(pipe'[p]) - Held(pipe[p])
      PROVE  Loads'
  <2>1. ASSUME NEW q \in Pipelines PROVE pipe'[q].assigned - pipe[q].assigned = Held(pipe'[q]) - Held(pipe[q])
    <3>1. CASE q = p
      BY <1>c, <3>1
    <3>2. CASE q # p
      <4> DEFINE x == pipe[q].assigned
                 h == Held(pipe[q])
      <4>1. pipe'[q] = pipe[q]
        BY <1>c, <3>2 DEF Elsewhere
      <4>2. x \in Int /\ h \in Nat /\ pipe'[q].assigned = x /\ Held(pipe'[q]) = h
        BY <1>a, <4>1
      <4> HIDE DEF x, h
      <4>3. x - x = h - h
        BY <4>2
      <4> QED BY <4>2, <4>3 DEF x, h
    <3> QED BY <3>1, <3>2
  <2>2. HeldBalanced
    BY <2>1 DEF HeldBalanced
  <2> QED BY <1>c, <2>2, NicsStill, LoadsFrom
<1>2. CASE Dispatch
  <2>1. Dispatched /\ UNCHANGED <<wire, cq, out>>
    BY <1>2, DispatchIs DEF Dispatch, nic
  <2>2. ASSUME NEW p \in Pipelines PROVE pipe'[p].assigned - pipe[p].assigned = Held(pipe'[p]) - Held(pipe[p])
    <3> DEFINE x == pipe[p].assigned
               h == Held(pipe[p])
    <3>1. x \in Int /\ h \in Nat /\ pipe'[p].assigned = x /\ Held(pipe'[p]) = h
      BY <1>a, <2>1 DEF Dispatched, Held
    <3> HIDE DEF x, h
    <3>2. x - x = h - h
      BY <3>1
    <3> QED BY <3>1, <3>2 DEF x, h
  <2>3. HeldBalanced
    BY <2>2 DEF HeldBalanced
  <2> QED BY <2>1, <2>3, NicsStill, LoadsFrom
<1>3. CASE AdvanceCopy
  <2>1. PICK p \in Pipelines, e \in CopyRecord : Advanced(p, e)
    BY <1>0, <1>3, AdvanceCopyIs
  <2>2. UNCHANGED <<wire, cq, out>> /\ Elsewhere(p)
    BY <1>3, <2>1 DEF AdvanceCopy, nic, Advanced
  <2>3. pipe'[p].assigned = pipe[p].assigned /\ Held(pipe'[p]) = Held(pipe[p])
    BY <2>1, HeldSteps
  <2> QED BY <1>a, <1>c, <2>2, <2>3
<1>4. CASE AssignProxy
  <2>1. PICK p \in Pipelines : Pended(p)
    BY <1>0, <1>4, AssignProxyIs
  <2>2. UNCHANGED <<wire, cq, out>> /\ Elsewhere(p)
    BY <1>4, <2>1 DEF AssignProxy, nic, Pended
  <2>3. pipe'[p].assigned = pipe[p].assigned + 1 /\ Held(pipe'[p]) = Held(pipe[p]) + 1
    BY <2>1, HeldSteps
  <2> QED BY <1>a, <1>c, <2>2, <2>3
<1>5. CASE AssignDirect
  <2>1. PostedDirect(Context, BestNic) /\ UNCHANGED <<pipe, cq>> /\ Open # {}
    BY <1>0, <1>5, AssignDirectIs DEF AssignDirect
  <2> DEFINE t == Context
             n == BestNic
  <2>2. PICK w \in WireRecord : w.chunk = <<t, nextChunk[t]>> /\ w.nic = n /\ wire' = wire \cup {w}
    BY <2>1 DEF PostedDirect
  <2>3. Chooses(t) /\ n \in DirectNics /\ out' = [out EXCEPT ![n] = out[n] + 1]
    BY <2>1 DEF PostedDirect
  <2>4. out[n] < MaxOutstanding
    <3>1. Load(n) < Limit(n)
      BY <1>0, <2>1, BestIsOpen
    <3> HIDE DEF n
    <3>2. n \notin ProxyNics
      BY <2>3, Finiteness
    <3>3. Load(n) = out[n] /\ Limit(n) = MaxOutstanding + 0
      BY <3>2 DEF Load, Limit
    <3>4. MaxOutstanding + 0 = MaxOutstanding
      BY Sizing
    <3> QED BY <3>1, <3>3, <3>4
  <2> HIDE DEF t, n
  <2>5. \A a \in Spots : a[1] # <<t, nextChunk[t]>>
    BY <2>1, <2>2, <2>3, DirectPlaces
  <2>6. Balanced /\ Metered
    BY <1>0, <2>1, <2>2, <2>3, <2>4, <2>5, DirectLoads
  <2> QED BY <2>6, LoadsFrom
<1>6. CASE FreePosted
  <2>1. PICK p \in Pipelines : Reclaimed(p)
    BY <1>0, <1>6, FreePostedIs
  <2>2. UNCHANGED <<wire, cq, out>> /\ Elsewhere(p)
    BY <1>6, <2>1 DEF FreePosted, nic, Reclaimed
  <2>3. pipe'[p].assigned = pipe[p].assigned /\ Held(pipe'[p]) = Held(pipe[p])
    BY <2>1, HeldSteps
  <2> QED BY <1>a, <1>c, <2>2, <2>3
<1>7. CASE PostProxy
  <2>1. PICK p \in Pipelines, e \in CopyRecord, w \in WireRecord : Posted(p, e, w)
    BY <1>0, <1>7, PostProxyIs
  <2>2. cq' = cq
    BY <1>7 DEF PostProxy
  <2> QED BY <2>1, <2>2, PostLoads, LoadsFrom
<1>8. CASE Poll
  BY <1>8, PollIs, PollLoads, LoadsFrom
<1>9. CASE Retire
  <2>1. PICK S \in SUBSET Transfers : Retired(S)
    BY <1>9, RetireIs
  <2>2. UNCHANGED <<wire, cq, out>>
    BY <1>9, Zenon DEF Retire, nic
  <2>3. ASSUME NEW p \in Pipelines
        PROVE  \/ pipe'[p].assigned - pipe[p].assigned = Held(pipe'[p]) - Held(pipe[p])
               \/ Finished(p[1])' /\ pipe'[p].assigned = pipe[p].assigned /\ Held(pipe'[p]) <= Held(pipe[p])
    <3>1. pipe'[p] = IF p[1] \in S THEN [pending |-> pipe[p].pending, copying |-> <<>>, inflight |-> <<>>,
                                         arrived |-> pipe[p].arrived, assigned |-> pipe[p].assigned] ELSE pipe[p]
      BY <2>1, Zenon DEF Retired
    <3>2. CASE p[1] \in S
      <4>1. pipe'[p].assigned = pipe[p].assigned /\ Held(pipe'[p]) = Len(pipe[p].pending) + 0
        BY <3>1, <3>2 DEF Held
      <4>2. Len(pipe[p].pending) \in Nat /\ Len(pipe[p].copying) \in Nat
        BY LoadNat
      <4>3. Held(pipe'[p]) <= Held(pipe[p])
        <5> DEFINE a == Len(pipe[p].pending)
                   b == Len(pipe[p].copying)
        <5>1. Held(pipe'[p]) = a + 0 /\ Held(pipe[p]) = a + b /\ a \in Nat /\ b \in Nat
          BY <4>1, <4>2 DEF Held
        <5> HIDE DEF a, b
        <5> QED BY <5>1
      <4>4. Finished(p[1])'
        <5>1. p[1] \in Transfers
          BY DEF Pipelines
        <5> QED BY <2>1, <3>2, <5>1 DEF Retired, Finished
      <4> QED BY <4>1, <4>3, <4>4
    <3>3. CASE p[1] \notin S
      <4> DEFINE x == pipe[p].assigned
                 h == Held(pipe[p])
      <4>1. x \in Int /\ h \in Nat /\ pipe'[p].assigned = x /\ Held(pipe'[p]) = h
        BY <1>a, <3>1, <3>3
      <4> HIDE DEF x, h
      <4>2. x - x = h - h
        BY <4>1
      <4> QED BY <4>1, <4>2 DEF x, h
    <3> QED BY <3>2, <3>3
  <2>4. HeldBalanced
    BY <2>3 DEF HeldBalanced
  <2> QED BY <2>2, <2>4, NicsStill, LoadsFrom
<1>10. CASE Nic \/ NicFails
  <2>1. PICK w \in wire, ok \in BOOLEAN : Complete(w, ok)
    BY <1>10 DEF Nic, NicFails
  <2> DEFINE v == [chunk |-> w.chunk, nic |-> w.nic, ok |-> ok]
  <2>2. /\ pipe' = pipe /\ out' = out /\ wire' = wire \ {w} /\ cq' = cq \cup {v}
        /\ v.chunk = w.chunk /\ v.nic = w.nic
    BY <2>1 DEF Complete
  <2> HIDE DEF v
  <2> QED BY <2>2, CompleteLoads, LoadsFrom
<1>11. CASE CopyThread \/ LaunchFails \/ Gpu
  BY <1>b, <1>11 DEF CopyThread, Launch, DrainRecycled, PushResult, LaunchFails, Gpu, FinishCopy, Client, nic
<1>12. CASE (\E t \in Transfers : Start(t)) \/ Begin \/ PostFails \/ PollFails
  BY <1>b, <1>12 DEF Start, Begin, PostFails, PollFails, ClientSide, nic
<1>13. CASE Aside \/ AdvanceEnds \/ AssignEnds \/ PostEnds
  BY <1>b, <1>13, AsideStays DEF AdvanceEnds, AssignEnds, PostEnds, ClientSide, nic
<1>14. CASE UNCHANGED vars
  BY <1>b, <1>14 DEF vars, nic
<1> QED BY <1>2, <1>3, <1>4, <1>5, <1>6, <1>7, <1>8, <1>9, <1>10, <1>11, <1>12, <1>13, <1>14 DEF Next, Worker, Aside

-----------------------------------------------------------------------------
(* Chunks, completions and loads, in every state.                           *)

Chunked == Control /\ Typed /\ Places /\ Counted /\ Loads

\* No chunk has a place in the beginning, and nothing is loaded.
LEMMA InitChunked == Init => Chunked
<1> SUFFICES ASSUME Init PROVE Chunked
  OBVIOUS
<1>1. Typed
  BY InitTyped
<1>2. Control
  <2>1. status = [t \in Transfers |-> "idle"] /\ queue = <<>> /\ active = <<>> /\ tasks = <<>>
    BY DEF Init
  <2>2. Working
    BY <2>1 DEF Working, Statuses, Ordered
  <2>3. ToSet(active) = {} /\ ToSet(queue) = {}
    BY <2>1 DEF ToSet
  <2>4. Queueing
    BY <2>1, <2>3 DEF Queueing
  <2>5. Trial
    BY Sizing DEF Init, Trial, NotTrying, NoReset
  <2> QED BY <2>2, <2>4, <2>5 DEF Control, Rounds
<1>3. pipe = [p \in Pipelines |-> EmptyPipe] /\ wire = {} /\ cq = {} /\ out = [n \in Nics |-> 0]
  BY DEF Init
<1>4. \A p \in Pipelines : pipe[p].pending = <<>> /\ pipe[p].copying = <<>> /\ pipe[p].assigned = 0
  BY <1>3 DEF EmptyPipe
<1>5. Spots = {}
  <2>1. \A p \in Pipelines : PipeSpots[p] = {}
    BY <1>4 DEF PipeSpots, ToSet
  <2>2. NicSpots = {}
    BY <1>3 DEF NicSpots
  <2> QED BY <2>1, <2>2, SpotsAre
<1>6. Places
  <2>1. Single
    BY <1>5 DEF Single
  <2>2. Apart
    BY <1>4 DEF Apart, Orderly, Once, Distinct, ToSet
  <2>3. Begun
    BY <1>5 DEF Begun, Init
  <2> QED BY <2>1, <2>2, <2>3 DEF Places
<1>7. Counted
  <2> SUFFICES ASSUME NEW t \in Transfers PROVE completed[t] <= Cardinality(Gone(t))
    BY DEF Counted
  <2>1. completed[t] = 0
    BY DEF Init
  <2>2. Cardinality(Gone(t)) \in Nat
    BY <1>1, GoneIs
  <2> QED BY <2>1, <2>2
<1>8. Loads
  <2>1. \A n : OnNic(wire, n) = {} /\ OnNic(cq, n) = {} /\ Of(wire, n) = {} /\ Of(cq, n) = {}
    BY <1>3 DEF OnNic, Of
  <2>2. Cardinality({}) = 0
    BY FS_EmptySet
  <2>0. \A k : /\ Cardinality(OnNic(wire, k)) = 0 /\ Cardinality(OnNic(cq, k)) = 0
               /\ Cardinality(Of(wire, k)) = 0 /\ Cardinality(Of(cq, k)) = 0
    BY <2>1, <2>2, Zenon
  <2>3. \A n \in Nics : out[n] = Cardinality(OnNic(wire, n)) + Cardinality(OnNic(cq, n)) /\ out[n] <= MaxOutstanding
    <3>1. \A n \in Nics : out[n] = 0
      BY <1>3
    <3> QED BY <2>0, <3>1, Sizing
  <2>4. \A p \in Pipelines : Used(p) = 0
    <3>1. \A p \in Pipelines : Len(pipe[p].pending) = 0 /\ Len(pipe[p].copying) = 0
      BY <1>4
    <3>2. ASSUME NEW p \in Pipelines PROVE Used(p) = 0
      <4>1. /\ Used(p) = Len(pipe[p].pending) + Len(pipe[p].copying)
                             + Cardinality(Of(wire, p)) + Cardinality(Of(cq, p))
            /\ Len(pipe[p].pending) = 0 /\ Len(pipe[p].copying) = 0
            /\ Cardinality(Of(wire, p)) = 0 /\ Cardinality(Of(cq, p)) = 0
        BY <2>0, <3>1, Zenon DEF Used
      <4> QED BY <4>1
    <3> QED BY <3>2
  <2> QED BY <1>4, <2>3, <2>4 DEF Loads
<1> QED BY <1>1, <1>2, <1>6, <1>7, <1>8 DEF Chunked

\* Every step keeps it.
LEMMA StepChunked == ASSUME Chunked, [Next]_vars PROVE Chunked'
<1>1. Control /\ Typed /\ Places /\ Counted /\ Loads
  BY DEF Chunked
<1>2. CqBegun
  BY <1>1, CqHasBegun
<1>3. Control' /\ Typed'
  BY <1>1, <1>2, StepControl, StepTyped DEF Typed
<1>4. Places' /\ Traced
  BY <1>1, StepPlaces
<1>5. Counted' /\ Loads'
  BY <1>1, <1>3, <1>4, StepCounted, StepLoads
<1> QED BY <1>3, <1>4, <1>5 DEF Chunked

\* Every behaviour has it.
THEOREM Core == Spec => []Chunked
<1>1. Chunked /\ [Next]_vars => Chunked'
  BY StepChunked
<1> QED BY <1>1, InitChunked, PTL DEF Spec

-----------------------------------------------------------------------------
(* What the runs check follows.                                             *)

\* Offsets stay in the buffer, rings in their bounds, loads do not go below zero.
LEMMA ChunkedTypeOK == Chunked => TypeOK
<1> SUFFICES ASSUME Chunked PROVE TypeOK
  OBVIOUS
<1>1. Control /\ Typed /\ Places /\ Counted /\ Loads
  BY DEF Chunked
<1>2. /\ status \in [Transfers -> {"idle", "queued", "active", "done", "failed"}]
      /\ queue \in Seq(Transfers) /\ active \in Seq(Transfers)
  BY <1>1 DEF Control, Rounds, Working, Statuses
<1>3. ASSUME NEW t \in Transfers
      PROVE  nextChunk[t] \in 1..(Len(Lens[t]) + 1) /\ completed[t] \in 0..Len(Lens[t])
  <2>1. nextChunk[t] \in 1..(Len(Lens[t]) + 1) /\ completed[t] \in Nat /\ completed[t] <= Cardinality(Gone(t))
    BY <1>1 DEF Typed, Kept, Counted
  <2>2. Cardinality(Gone(t)) \in Nat /\ Cardinality(Gone(t)) <= Len(Lens[t]) /\ Len(Lens[t]) \in Nat
    BY <1>1, GoneIs, ChunkTyped
  <2> QED BY <2>1, <2>2
<1>4. ASSUME NEW p \in Pipelines
      PROVE  /\ pipe[p].pending \in Seq(Chunks) /\ pipe[p].inflight \in Seq(Nat)
             /\ pipe[p].copying \in Seq([chunk : Chunks, addr : 0..(BufferSize - 1),
                                         flag : Flags \cup {NoFlag}, got : BOOLEAN])
             /\ pipe[p].arrived \in Nat /\ pipe[p].assigned \in Nat
  <2>1. /\ pipe[p].pending \in Seq(Chunks) /\ pipe[p].copying \in Seq(CopyRecord)
        /\ pipe[p].inflight \in Seq(Nat) /\ pipe[p].arrived \in Nat /\ pipe[p].assigned \in Int
    BY <1>1, PipeParts DEF Typed
  <2>2. Flags \cup {NoFlag} = Nat
    BY DEF Flags, NoFlag
  <2>3. Used(p) \in Nat /\ pipe[p].assigned >= Used(p)
    BY <1>1, LoadNat DEF Loads
  <2>4. pipe[p].assigned \in Nat
    BY <2>1, <2>3
  <2> QED BY <2>1, <2>2, <2>4 DEF CopyRecord
<1>5. out \in [Nics -> 0..MaxOutstanding]
  <2>1. out \in [Nics -> Int]
    BY <1>1 DEF Typed, Kept
  <2>2. ASSUME NEW n \in Nics PROVE out[n] \in 0..MaxOutstanding
    <3>1. out[n] \in Nat /\ out[n] <= MaxOutstanding
      BY <1>1, LoadOfNat DEF Control, Rounds
    <3> QED BY <3>1, Sizing
  <2> QED BY <2>1, <2>2
<1>6. \A g \in Gpus : buffer[g].alloc \in 0..BufferSize /\ buffer[g].freed \in Nat
  BY <1>1 DEF Typed, Kept
<1>7. /\ requests \in Seq([chunk : Chunks, gpu : ProxyGpus]) /\ Len(requests) <= RingCapacity
      /\ Len(results) <= RingCapacity /\ Len(recycled) <= RingCapacity
  BY <1>1 DEF Typed, Rings
<1>8. results \o held \in Seq([chunk : Chunks, flag : Flags \cup {NoFlag}, ok : BOOLEAN])
  <2>1. results \o held \in Seq(ResultRecord)
    BY <1>1, SeqConcat DEF Typed, Rings
  <2>2. Flags \cup {NoFlag} = Nat
    BY DEF Flags, NoFlag
  <2> QED BY <2>1, <2>2 DEF ResultRecord
<1>9. pool \o recycled \in Seq(Flags) /\ raised \subseteq Flags
  BY <1>1, SeqConcat DEF Typed, Rings
<1>10. /\ copies \subseteq [chunk : Chunks, flag : Flags \cup {NoFlag}]
       /\ wire \subseteq [chunk : Chunks, nic : Nics, addr : -1..(BufferSize - 1)]
       /\ cq \subseteq [chunk : Chunks, nic : Nics, ok : BOOLEAN]
       /\ taint \subseteq {"reset", "failed", "leak"} /\ faults \in 0..MaxFaults
  <2>1. Flags \cup {NoFlag} = Nat
    BY DEF Flags, NoFlag
  <2> QED BY <1>1, <2>1 DEF Typed, Hardware, WireRecord, CqRecord
<1>11. /\ reset \in [done : SUBSET ProxyNics, half : ProxyNics \cup {0}]
       /\ trying \in [at : {"no", "full", "fits", "refused"}, cur : 0..BufferSize]
  BY <1>1 DEF Control, Trial
<1> QED BY <1>2, <1>3, <1>4, <1>5, <1>6, <1>7, <1>8, <1>9, <1>10, <1>11 DEF TypeOK

\* The state is well-formed, always.
THEOREM TypeCorrect == Spec => []TypeOK
BY Core, ChunkedTypeOK, PTL

\* The loads by which NICs are chosen are what is on its way to the NIC and on it.
LEMMA ChunkedLoads == Chunked => LoadAccounted
<1> SUFFICES ASSUME Chunked PROVE LoadAccounted
  OBVIOUS
<1>1. Loads
  BY DEF Chunked
<1>2. ASSUME NEW p \in Pipelines, status[p[1]] = "active"
      PROVE  pipe[p].assigned = Used(p)
  BY <1>1, <1>2 DEF Loads, Finished
<1> QED BY <1>1, <1>2 DEF LoadAccounted, Loads, OnNic, Of, Used

\* The loads are accounted for, always.
THEOREM LoadsAlways == Spec => []LoadAccounted
BY Core, ChunkedLoads, PTL

-----------------------------------------------------------------------------
(* What has happened stays so.                                              *)

\* What no step takes back is that something has happened.
LEMMA TaintStays == ASSUME [Next]_vars PROVE taint \subseteq taint'
<1>1. CASE Aside
  BY <1>1, AsideStays
<1>2. CASE Dispatch
  <2>1. \E b : taint' = IF b THEN taint ELSE taint \cup {"failed"}
    BY <1>2 DEF Dispatch
  <2> QED BY <2>1
<1>3. CASE Poll
  <2>1. \E b : taint' = IF b THEN taint ELSE taint \cup {"failed"}
    BY <1>3 DEF Poll
  <2> QED BY <2>1
<1>4. CASE PostFails \/ PollFails
  BY <1>4 DEF PostFails, PollFails
<1>5. CASE UNCHANGED taint
  BY <1>5
<1> QED BY <1>1, <1>2, <1>3, <1>4, <1>5 DEF Next, Worker, Aside, vars, Start, Begin, AdvanceCopy, AdvanceEnds,
             AssignDirect, AssignProxy, AssignEnds, FreePosted, PostProxy, PostEnds, Retire, CopyThread, Launch,
             DrainRecycled, PushResult, LaunchFails, Gpu, Nic, NicFails, FinishCopy, Complete, Client

-----------------------------------------------------------------------------
(* Resets and tryAlloc.                                                     *)

\* The worker is in tryAlloc in no other task than that of moving chunks into a buffer.
LEMMA NotTryingAt == ASSUME Trial, NEW op, At(op), op # "advance" PROVE trying.at = "no"
BY DEF Trial, Advancing, At

\* Until a reset has met chunks in the buffer or tryAlloc, tryAlloc does not begin in the middle
\* of a reset of its buffer, nor a reset in the middle of it: it stores what it loaded.
Watched ==
    "reset" \notin taint =>
        \A g \in ProxyGpus :
            /\ HalfReset(g) => ~Within(g) /\ buffer[g].alloc = 0
            /\ Within(g) /\ trying.at \in {"full", "fits"} => trying.cur = buffer[g].alloc

\* Steps that leave the allocators alone.
LEMMA WatchedStill ==
    ASSUME Watched, taint \subseteq taint', UNCHANGED <<reset, trying, tasks>>,
           \A g \in ProxyGpus : buffer'[g].alloc = buffer[g].alloc
    PROVE  Watched'
BY DEF Watched, HalfReset, Within, Target

\* Steps after which the worker is not in tryAlloc.
LEMMA WatchedOutside ==
    ASSUME Watched, taint \subseteq taint', reset' = reset, trying'.at = "no",
           \A g \in ProxyGpus : HalfReset(g) => buffer'[g].alloc = buffer[g].alloc
    PROVE  Watched'
BY DEF Watched, HalfReset, Within

\* Steps of tryAlloc in the buffer it seeks space in.
LEMMA WatchedWithin ==
    ASSUME Watched, taint' = taint, Stay, reset' = reset, trying.at # "no", Target \in ProxyGpus,
           \A g \in ProxyGpus : g # Target => buffer'[g] = buffer[g],
           trying'.at \in {"full", "fits"} => trying'.cur = buffer'[Target].alloc
    PROVE  Watched'
<1> SUFFICES ASSUME "reset" \notin taint, NEW g \in ProxyGpus
             PROVE  /\ HalfReset(g)' => ~Within(g)' /\ buffer'[g].alloc = 0
                    /\ Within(g)' /\ trying'.at \in {"full", "fits"} => trying'.cur = buffer'[g].alloc
  BY DEF Watched
<1>1. Target' = Target /\ HalfReset(g)' = HalfReset(g)
  BY DEF Target, Stay, HalfReset
<1>2. Within(g)' => g = Target
  BY <1>1 DEF Within
<1>3. HalfReset(g) => g # Target
  BY DEF Watched, Within
<1>4. HalfReset(g) => buffer[g].alloc = 0
  BY DEF Watched
<1> QED BY <1>1, <1>2, <1>3, <1>4

\* Every step keeps it.
LEMMA StepWatched == ASSUME Control, Typed, Watched, [Next]_vars PROVE Watched'
<1>0. /\ taint \subseteq taint' /\ Kept /\ Working /\ Trial
      /\ buffer \in [Gpus -> [alloc : 0..BufferSize, freed : Nat]] /\ ProxyGpus \subseteq Gpus
  BY TaintStays, ProxyGpuTyped DEF Typed, Control, Rounds, Kept, ProxyGpus
<1>1. ASSUME NEW op, At(op), op # "advance", UNCHANGED <<reset, trying>>,
             \A g \in ProxyGpus : buffer'[g].alloc = buffer[g].alloc
      PROVE  Watched'
  <2>1. trying'.at = "no"
    BY <1>0, <1>1, NotTryingAt
  <2> QED BY <1>0, <1>1, <2>1, WatchedOutside
<1>2. CASE \E t \in Transfers : Start(t)
  <2>1. /\ UNCHANGED <<trying, tasks, buffer>> /\ reset'.half = 0
    BY <1>2 DEF Start, worker, NoReset
  <2> QED BY <1>0, <2>1 DEF Watched, HalfReset, Within, Target
<1>3. CASE ResetAlloc
  <2>1. PICK n \in ProxyNics :
          /\ buffer' = [buffer EXCEPT ![ProxyGpu(n)].alloc = 0] /\ reset' = [reset EXCEPT !.half = n]
          /\ Disturb(Occupied(ProxyGpu(n))) /\ UNCHANGED <<trying, tasks>>
    BY <1>3 DEF ResetAlloc, worker
  <2> DEFINE m == ProxyGpu(n)
  <2>2. m \in Gpus
    BY ProxyGpuTyped
  <2>3. \A g \in ProxyGpus : HalfReset(g)' => g = m
    <3>1. ASSUME NEW g \in ProxyGpus, HalfReset(g)' PROVE g = m
      <4>1. ProxyGpu(reset'.half) = g /\ reset'.half # 0
        BY <3>1 DEF HalfReset
      <4>2. reset'.half = n
        BY <2>1, <4>1
      <4> QED BY <4>1, <4>2
    <3> QED BY <3>1
  <2> HIDE DEF m
  <2>4. buffer'[m].alloc = 0 /\ \A g \in Gpus : g # m => buffer'[g] = buffer[g]
    BY <1>0, <2>1, <2>2 DEF m
  <2> SUFFICES ASSUME "reset" \notin taint', NEW g \in ProxyGpus
               PROVE  /\ HalfReset(g)' => ~Within(g)' /\ buffer'[g].alloc = 0
                      /\ Within(g)' /\ trying'.at \in {"full", "fits"} => trying'.cur = buffer'[g].alloc
    BY DEF Watched
  <2>5. ~Within(m) /\ "reset" \notin taint
    BY <2>1 DEF Disturb, Occupied, m
  <2>6. Within(g)' = Within(g)
    BY <2>1 DEF Within, Target
  <2> QED BY <1>0, <2>1, <2>3, <2>4, <2>5, <2>6 DEF Watched
<1>4. CASE ResetFree
  <2>1. /\ UNCHANGED <<trying, tasks>> /\ reset'.half = 0
        /\ buffer' = [buffer EXCEPT ![ProxyGpu(reset.half)].freed = 0]
    BY <1>4 DEF ResetFree, worker
  <2>2. \A g \in Gpus : buffer'[g].alloc = buffer[g].alloc
    BY <1>0, <2>1
  <2> QED BY <1>0, <2>1, <2>2 DEF Watched, HalfReset, Within, Target
<1>5. CASE Begin
  <2>1. tasks = <<>> /\ UNCHANGED <<reset, trying, buffer>>
    BY <1>5 DEF Begin, allocator
  <2>2. trying.at = "no"
    BY <1>0, <2>1 DEF Trial, Advancing, At
  <2> QED BY <1>0, <2>1, <2>2, WatchedOutside
<1>6. CASE Dispatch \/ Poll \/ PollFails \/ AssignDirect \/ AssignProxy \/ AssignEnds \/ PostProxy \/ PostEnds
           \/ PostFails
  <2>1. UNCHANGED <<reset, trying, buffer>> /\ (At("dispatch") \/ At("poll") \/ At("assign") \/ At("post"))
    BY <1>6 DEF Dispatch, Poll, PollFails, AssignDirect, AssignProxy, AssignEnds, PostProxy, PostEnds, PostFails,
       CanAssign, CanPost, Posting, allocator
  <2> QED BY <1>1, <2>1
<1>7. CASE FreePosted
  <2>1. At("post") /\ UNCHANGED <<reset, trying>>
    BY <1>7 DEF FreePosted, Posting
  <2>2. \E g, len : buffer' = [buffer EXCEPT ![g] = Release(buffer[g], len)]
    BY <1>7 DEF FreePosted
  <2>3. PICK h, len : buffer' = [buffer EXCEPT ![h] = Release(buffer[h], len)]
    BY <2>2
  <2>4. ASSUME NEW g \in ProxyGpus PROVE buffer'[g].alloc = buffer[g].alloc
    <3>1. g \in Gpus /\ buffer[g] \in [alloc : 0..BufferSize, freed : Nat]
      BY <1>0
    <3>2. buffer'[g] = IF g = h THEN Release(buffer[g], len) ELSE buffer[g]
      BY <1>0, <2>3, <3>1
    <3>3. Release(buffer[g], len).alloc = buffer[g].alloc
      BY <3>1 DEF Release
    <3> QED BY <3>2, <3>3
  <2> QED BY <1>1, <2>1, <2>4
<1>8. CASE Retire
  <2>1. At("retire") /\ UNCHANGED <<reset, trying>>
    BY <1>8 DEF Retire
  <2>2. PICK S \in SUBSET Transfers : buffer' = [g \in Gpus |-> Release(buffer[g], Space(g, S))]
    BY <1>8, RetireIs DEF Retired
  <2>3. ASSUME NEW g \in ProxyGpus PROVE buffer'[g].alloc = buffer[g].alloc
    <3>1. g \in Gpus /\ buffer[g] \in [alloc : 0..BufferSize, freed : Nat]
      BY <1>0
    <3>2. buffer'[g] = Release(buffer[g], Space(g, S))
      BY <2>2, <3>1
    <3>3. Release(buffer[g], Space(g, S)).alloc = buffer[g].alloc
      BY <3>1 DEF Release
    <3> QED BY <3>2, <3>3
  <2> QED BY <1>1, <2>1, <2>3
<1>9. CASE AdvanceEnds
  <2>1. UNCHANGED <<reset, trying, buffer>> /\ ~Advancing
    BY <1>9 DEF AdvanceEnds, allocator
  <2>2. trying.at = "no"
    BY <1>0, <2>1 DEF Trial
  <2> QED BY <1>0, <2>1, <2>2, WatchedOutside
<1>10. CASE LoadAlloc
  <2>1. /\ Advancing /\ Stay /\ UNCHANGED <<reset, buffer>> /\ trying' = Loaded /\ Disturb(HalfReset(Target))
    BY <1>10 DEF LoadAlloc
  <2>2. trying'.cur = buffer[Target].alloc
    BY <2>1 DEF Loaded
  <2> SUFFICES ASSUME "reset" \notin taint', NEW g \in ProxyGpus
               PROVE  /\ HalfReset(g)' => ~Within(g)' /\ buffer'[g].alloc = 0
                      /\ Within(g)' /\ trying'.at \in {"full", "fits"} => trying'.cur = buffer'[g].alloc
    BY DEF Watched
  <2>3. ~HalfReset(Target) /\ "reset" \notin taint
    BY <2>1 DEF Disturb
  <2>4. Target' = Target /\ HalfReset(g)' = HalfReset(g)
    BY <2>1 DEF Target, Stay, HalfReset
  <2>5. Within(g)' => g = Target
    BY <2>4 DEF Within
  <2>6. HalfReset(g) => buffer[g].alloc = 0
    BY <2>3 DEF Watched
  <2> QED BY <2>1, <2>2, <2>3, <2>4, <2>5, <2>6
<1>11. CASE StartAgain
  <2>1. /\ Advancing /\ Stay /\ reset' = reset /\ taint' = taint /\ trying' = [at |-> "fits", cur |-> 0]
        /\ trying.at = "full" /\ buffer' = [buffer EXCEPT ![Target] = EmptyBuffer]
    BY <1>11 DEF StartAgain
  <2>2. Target \in ProxyGpus /\ Target \in Gpus
    BY <1>0, <2>1, TargetIs
  <2>3. /\ \A g \in ProxyGpus : g # Target => buffer'[g] = buffer[g]
        /\ trying'.cur = buffer'[Target].alloc
    BY <1>0, <2>1, <2>2 DEF EmptyBuffer
  <2> QED BY <2>1, <2>2, <2>3, WatchedWithin
<1>12. CASE NoSpace
  <2>1. UNCHANGED <<reset, buffer>> /\ trying'.at = "no"
    BY <1>12 DEF NoSpace, NotTrying
  <2> QED BY <1>0, <2>1, WatchedOutside
<1>13. CASE AdvanceCopy \/ AdvanceRingFull
  <2>1. /\ Take /\ reset' = reset /\ taint' = taint /\ trying'.at \in {"no", "refused"}
    BY <1>13 DEF AdvanceCopy, AdvanceRingFull, NotTrying
  <2>2. /\ Advancing /\ Stay /\ trying.at = "fits" /\ buffer' = [buffer EXCEPT ![Target].alloc = trying.cur + Wanted]
    BY <2>1 DEF Take
  <2>3. Target \in ProxyGpus /\ Target \in Gpus
    BY <1>0, <2>2, TargetIs
  <2>4. \A g \in ProxyGpus : g # Target => buffer'[g] = buffer[g]
    BY <1>0, <2>2, <2>3
  <2> QED BY <2>1, <2>2, <2>3, <2>4, WatchedWithin
<1>14. CASE FreeRefused
  <2>1. /\ reset' = reset /\ trying'.at = "no" /\ Advancing
        /\ buffer' = [buffer EXCEPT ![Target] = Release(buffer[Target], Wanted)]
    BY <1>14 DEF FreeRefused, NotTrying
  <2>2. Target \in Gpus /\ buffer[Target] \in [alloc : 0..BufferSize, freed : Nat]
    BY <1>0, <2>1, TargetIs
  <2>3. Release(buffer[Target], Wanted).alloc = buffer[Target].alloc
    BY <2>2 DEF Release
  <2>4. \A g \in ProxyGpus : buffer'[g].alloc = buffer[g].alloc
    BY <1>0, <2>1, <2>2, <2>3
  <2> QED BY <1>0, <2>1, <2>4, WatchedOutside
<1>15. CASE CopyThread \/ LaunchFails \/ Gpu \/ Nic \/ NicFails
  <2>1. UNCHANGED <<reset, trying, tasks, buffer>>
    BY <1>15 DEF CopyThread, LaunchFails, Launch, DrainRecycled, PushResult, Gpu, Nic, NicFails, FinishCopy, Complete,
       Client, allocator, worker
  <2> QED BY <1>0, <2>1, WatchedStill
<1>16. CASE UNCHANGED vars
  <2>1. UNCHANGED <<reset, trying, tasks, buffer>>
    BY <1>16 DEF vars
  <2> QED BY <1>0, <2>1, WatchedStill
<1> QED BY <1>2, <1>3, <1>4, <1>5, <1>6, <1>7, <1>8, <1>9, <1>10, <1>11, <1>12, <1>13, <1>14, <1>15, <1>16
        DEF Next, Worker

-----------------------------------------------------------------------------
(* Sums over finite sets: of what does not change, changes at one place,   *)
(* or comes in two parts.                                                  *)

(* What sums do.                                                            *)

\* Total adds up the same values to the same sum.
LEMMA TotalSame ==
    ASSUME NEW f, NEW h, NEW S, IsFiniteSet(S), \A x \in S : f[x] \in Nat /\ h[x] = f[x]
    PROVE  Total(h, S) = Total(f, S)
<1> DEFINE K == {k \in Nat : \A T \in SUBSET S : Cardinality(T) = k => Total(h, T) = Total(f, T)}
<1>1. ASSUME NEW T \in SUBSET S
      PROVE  /\ IsFiniteSet(T) /\ Cardinality(T) \in Nat /\ (Cardinality(T) = 0 => T = {})
             /\ T = {} => Total(f, T) = 0 /\ Total(h, T) = 0
             /\ \A x \in T : /\ Total(f, T) = f[x] + Total(f, T \ {x}) /\ Total(h, T) = h[x] + Total(h, T \ {x})
                             /\ Cardinality(T \ {x}) = Cardinality(T) - 1
  <2>1. IsFiniteSet(T) /\ Cardinality(T) \in Nat /\ (Cardinality(T) = 0 => T = {})
    BY FS_Subset, FS_CardinalityType, FS_EmptySet
  <2>2. \A x \in T : f[x] \in Nat /\ h[x] \in Nat
    OBVIOUS
  <2>3. /\ T = {} => Total(f, T) = 0
        /\ \A x \in T : Total(f, T) = f[x] + Total(f, T \ {x})
    BY <2>1, <2>2, SumFacts
  <2>4. /\ T = {} => Total(h, T) = 0
        /\ \A x \in T : Total(h, T) = h[x] + Total(h, T \ {x})
    BY <2>1, <2>2, SumFacts
  <2>5. \A x \in T : Cardinality(T \ {x}) = Cardinality(T) - 1
    BY <2>1, FS_RemoveElement
  <2> QED BY <2>1, <2>3, <2>4, <2>5
<1>2. 0 \in K
  BY <1>1
<1>3. ASSUME NEW n \in Nat, n \in K PROVE n + 1 \in K
  <2> SUFFICES ASSUME NEW T \in SUBSET S, Cardinality(T) = n + 1 PROVE Total(h, T) = Total(f, T)
    OBVIOUS
  <2>1. T # {}
    BY FS_EmptySet
  <2>2. PICK x \in T : TRUE
    BY <2>1
  <2>3. Cardinality(T \ {x}) = n
    <3>1. Cardinality(T \ {x}) = Cardinality(T) - 1
      BY <1>1
    <3> QED BY <3>1
  <2>4. Total(h, T \ {x}) = Total(f, T \ {x})
    BY <1>3, <2>3
  <2>5. Total(f, T) = f[x] + Total(f, T \ {x}) /\ Total(h, T) = h[x] + Total(h, T \ {x}) /\ h[x] = f[x]
    BY <1>1
  <2> QED BY <2>4, <2>5
<1> HIDE DEF K
<1>4. Nat \subseteq K
  BY <1>2, <1>3, NatSetInduction
<1>5. Cardinality(S) \in K
  BY <1>4, FS_CardinalityType
<1> QED BY <1>5 DEF K

\* When one value changes, so does the sum.
LEMMA TotalOne ==
    ASSUME NEW f, NEW h, NEW S, IsFiniteSet(S), NEW z \in S,
           \A x \in S : f[x] \in Nat /\ h[x] \in Nat /\ (x # z => h[x] = f[x])
    PROVE  Total(f, S) \in Nat /\ Total(h, S) \in Nat /\ Total(h, S) - h[z] = Total(f, S) - f[z]
<1> DEFINE R == S \ {z}
<1>1. IsFiniteSet(R) /\ \A x \in R : f[x] \in Nat /\ h[x] = f[x]
  BY FS_Subset
<1>2. Total(f, S) = f[z] + Total(f, R) /\ Total(h, S) = h[z] + Total(h, R)
  BY SumFacts
<1>3. Total(f, R) \in Nat
  BY <1>1, SumFacts
<1>4. Total(h, R) = Total(f, R)
  <2> HIDE DEF R
  <2> QED BY <1>1, TotalSame
<1>5. f[z] \in Nat /\ h[z] \in Nat
  OBVIOUS
<1> HIDE DEF R
<1> QED BY <1>2, <1>3, <1>4, <1>5

\* The sum over two parts.
LEMMA TotalSplit ==
    ASSUME NEW f, NEW A, NEW B, IsFiniteSet(A), IsFiniteSet(B), A \cap B = {}, \A x \in A \cup B : f[x] \in Nat
    PROVE  Total(f, A \cup B) = Total(f, A) + Total(f, B)
<1> DEFINE K == {k \in Nat : \A T \in SUBSET B : Cardinality(T) = k => Total(f, A \cup T) = Total(f, A) + Total(f, T)}
<1>1. Total(f, A) \in Nat
  BY SumFacts
<1>2. ASSUME NEW T \in SUBSET B
      PROVE  /\ Cardinality(T) \in Nat /\ (Cardinality(T) = 0 => T = {})
             /\ Total(f, T) \in Nat /\ (T = {} => Total(f, T) = 0)
             /\ \A x \in T : /\ Total(f, T) = f[x] + Total(f, T \ {x}) /\ Cardinality(T \ {x}) = Cardinality(T) - 1
                             /\ Total(f, A \cup T) = f[x] + Total(f, A \cup (T \ {x}))
  <2>1. IsFiniteSet(T) /\ Cardinality(T) \in Nat /\ (Cardinality(T) = 0 => T = {})
    BY FS_Subset, FS_CardinalityType, FS_EmptySet
  <2>2. IsFiniteSet(A \cup T) /\ \A x \in A \cup T : f[x] \in Nat
    BY <2>1, FS_Union
  <2>3. /\ Total(f, T) \in Nat /\ (T = {} => Total(f, T) = 0)
        /\ \A x \in T : Total(f, T) = f[x] + Total(f, T \ {x})
    BY <2>1, <2>2, SumFacts
  <2>4. ASSUME NEW x \in T PROVE Total(f, A \cup T) = f[x] + Total(f, A \cup (T \ {x}))
    <3>1. (A \cup T) \ {x} = A \cup (T \ {x})
      OBVIOUS
    <3>2. Total(f, A \cup T) = f[x] + Total(f, (A \cup T) \ {x})
      BY <2>2, SumFacts
    <3> QED BY <3>1, <3>2
  <2>5. \A x \in T : Cardinality(T \ {x}) = Cardinality(T) - 1
    BY <2>1, FS_RemoveElement
  <2> QED BY <2>1, <2>3, <2>4, <2>5
<1>3. 0 \in K
  <2> SUFFICES ASSUME NEW T \in SUBSET B, Cardinality(T) = 0 PROVE Total(f, A \cup T) = Total(f, A) + Total(f, T)
    OBVIOUS
  <2>1. T = {} /\ Total(f, T) = 0
    BY <1>2
  <2>2. A \cup T = A
    BY <2>1
  <2> QED BY <1>1, <2>1, <2>2
<1>4. ASSUME NEW n \in Nat, n \in K PROVE n + 1 \in K
  <2> SUFFICES ASSUME NEW T \in SUBSET B, Cardinality(T) = n + 1 PROVE Total(f, A \cup T) = Total(f, A) + Total(f, T)
    OBVIOUS
  <2>1. PICK x \in T : TRUE
    BY FS_EmptySet
  <2>2. Cardinality(T \ {x}) = n
    <3>1. Cardinality(T \ {x}) = Cardinality(T) - 1
      BY <1>2
    <3> QED BY <3>1
  <2>3. Total(f, A \cup (T \ {x})) = Total(f, A) + Total(f, T \ {x})
    BY <1>4, <2>2
  <2>4. Total(f, T) = f[x] + Total(f, T \ {x}) /\ Total(f, A \cup T) = f[x] + Total(f, A \cup (T \ {x}))
    BY <1>2
  <2>5. Total(f, T \ {x}) \in Nat /\ f[x] \in Nat
    BY <1>2
  <2> QED BY <1>1, <2>3, <2>4, <2>5
<1> HIDE DEF K
<1>5. Nat \subseteq K
  BY <1>3, <1>4, NatSetInduction
<1>6. Cardinality(B) \in K
  BY <1>5, FS_CardinalityType
<1> QED BY <1>6 DEF K

\* The sum of nothing but zeros, and what it says of its values when it is zero.
LEMMA TotalZero ==
    ASSUME NEW f, NEW S, IsFiniteSet(S), \A x \in S : f[x] \in Nat
    PROVE  Total(f, S) = 0 <=> \A x \in S : f[x] = 0
<1> DEFINE K == {k \in Nat : \A T \in SUBSET S : Cardinality(T) = k /\ (\A x \in T : f[x] = 0) => Total(f, T) = 0}
<1>1. ASSUME NEW T \in SUBSET S
      PROVE  /\ Cardinality(T) \in Nat /\ (Cardinality(T) = 0 => T = {})
             /\ Total(f, T) \in Nat /\ (T = {} => Total(f, T) = 0)
             /\ \A x \in T : Total(f, T) = f[x] + Total(f, T \ {x}) /\ Cardinality(T \ {x}) = Cardinality(T) - 1
  <2>1. IsFiniteSet(T) /\ Cardinality(T) \in Nat /\ (Cardinality(T) = 0 => T = {})
    BY FS_Subset, FS_CardinalityType, FS_EmptySet
  <2>2. /\ Total(f, T) \in Nat /\ (T = {} => Total(f, T) = 0)
        /\ \A x \in T : Total(f, T) = f[x] + Total(f, T \ {x})
    BY <2>1, SumFacts
  <2>3. \A x \in T : Cardinality(T \ {x}) = Cardinality(T) - 1
    BY <2>1, FS_RemoveElement
  <2> QED BY <2>1, <2>2, <2>3
<1>2. 0 \in K
  BY <1>1
<1>3. ASSUME NEW n \in Nat, n \in K PROVE n + 1 \in K
  <2> SUFFICES ASSUME NEW T \in SUBSET S, Cardinality(T) = n + 1, \A x \in T : f[x] = 0 PROVE Total(f, T) = 0
    OBVIOUS
  <2>1. PICK x \in T : TRUE
    BY FS_EmptySet
  <2>2. Cardinality(T \ {x}) = n
    <3>1. Cardinality(T \ {x}) = Cardinality(T) - 1
      BY <1>1
    <3> QED BY <3>1
  <2>3. Total(f, T \ {x}) = 0
    BY <1>3, <2>2
  <2>4. Total(f, T) = f[x] + Total(f, T \ {x}) /\ f[x] = 0
    BY <1>1
  <2> QED BY <2>3, <2>4
<1> HIDE DEF K
<1>4. Cardinality(S) \in K
  BY <1>2, <1>3, NatSetInduction, FS_CardinalityType
<1>5. (\A x \in S : f[x] = 0) => Total(f, S) = 0
  BY <1>4 DEF K
<1>6. ASSUME Total(f, S) = 0, NEW x \in S PROVE f[x] = 0
  <2>1. Total(f, S) = f[x] + Total(f, S \ {x}) /\ Total(f, S \ {x}) \in Nat /\ f[x] \in Nat
    BY <1>1
  <2> QED BY <1>6, <2>1
<1> QED BY <1>5, <1>6

\* The sum of one value more.
LEMMA TotalNext ==
    ASSUME NEW f, NEW k \in Nat, \A i \in 1..(k + 1) : f[i] \in Nat
    PROVE  Total(f, 1..(k + 1)) = f[k + 1] + Total(f, 1..k) /\ Total(f, 1..k) \in Nat /\ f[k + 1] \in Nat
<1> DEFINE S == 1..(k + 1)
<1>1. S \ {k + 1} = 1..k /\ k + 1 \in S
  OBVIOUS
<1>2. IsFiniteSet(S) /\ \A x \in S : f[x] \in Nat
  BY FS_Interval
<1>3. IsFiniteSet(1..k) /\ \A x \in 1..k : f[x] \in Nat
  BY FS_Interval
<1> HIDE DEF S
<1>4. Total(f, S) = f[k + 1] + Total(f, S \ {k + 1})
  BY <1>1, <1>2, SumFacts
<1>5. Total(f, 1..k) \in Nat
  BY <1>3, SumFacts
<1> QED BY <1>1, <1>2, <1>4, <1>5 DEF S

\* c lists m numbers of a and then n of b, l in all.
Joins(c, l, a, m, b, n) ==
    /\ m \in Nat /\ n \in Nat /\ l = m + n
    /\ \A i \in 1..m : a[i] \in Nat /\ c[i] = a[i]
    /\ \A i \in 1..n : b[i] \in Nat /\ c[m + i] = b[i]

\* The sum of one sequence followed by another.
LEMMA TotalConcat ==
    ASSUME NEW a, NEW b, NEW c, NEW m \in Nat, NEW n \in Nat, NEW l \in Nat, Joins(c, l, a, m, b, n)
    PROVE  Total(c, 1..l) = Total(a, 1..m) + Total(b, 1..n)
<1> USE DEF Joins
<1> DEFINE K == {k \in Nat : k <= n => Total(c, 1..(m + k)) = Total(a, 1..m) + Total(b, 1..k)}
<1>0. \A k \in Nat : IsFiniteSet(1..k)
  BY FS_Interval
<1>1. Total(a, 1..m) \in Nat /\ Total(c, 1..m) = Total(a, 1..m)
  <2>1. Total(a, 1..m) \in Nat
    BY <1>0, SumFacts
  <2>2. Total(c, 1..m) = Total(a, 1..m)
    BY <1>0, TotalSame
  <2> QED BY <2>1, <2>2
<1>2. 0 \in K
  <2>1. 1..0 = {} /\ m + 0 = m
    OBVIOUS
  <2>2. Total(b, {}) = 0
    BY FS_EmptySet, SumFacts
  <2> QED BY <1>1, <2>1, <2>2
<1>3. ASSUME NEW k \in Nat, k \in K PROVE k + 1 \in K
  <2> SUFFICES ASSUME k + 1 <= n PROVE Total(c, 1..(m + (k + 1))) = Total(a, 1..m) + Total(b, 1..(k + 1))
    OBVIOUS
  <2>1. Total(c, 1..(m + k)) = Total(a, 1..m) + Total(b, 1..k)
    BY <1>3
  <2>2. Total(b, 1..(k + 1)) = b[k + 1] + Total(b, 1..k) /\ Total(b, 1..k) \in Nat /\ b[k + 1] \in Nat
    <3>1. \A i \in 1..(k + 1) : b[i] \in Nat
      OBVIOUS
    <3> QED BY <3>1, TotalNext
  <2>3. Total(c, 1..(m + (k + 1))) = c[m + (k + 1)] + Total(c, 1..(m + k)) /\ c[m + (k + 1)] = b[k + 1]
    <3>1. m + k \in Nat /\ (m + k) + 1 = m + (k + 1)
      OBVIOUS
    <3>2. ASSUME NEW i \in 1..(m + (k + 1)) PROVE c[i] \in Nat
      <4>1. CASE i \in 1..m
        BY <4>1
      <4>2. CASE i \notin 1..m
        <5>1. i - m \in 1..n /\ m + (i - m) = i
          BY <4>2
        <5>2. b[i - m] \in Nat /\ c[m + (i - m)] = b[i - m]
          BY <5>1
        <5> QED BY <5>1, <5>2
      <4> QED BY <4>1, <4>2
    <3>3. Total(c, 1..(m + (k + 1))) = c[m + (k + 1)] + Total(c, 1..(m + k))
      <4> DEFINE j == m + k
      <4>1. j \in Nat /\ j + 1 = m + (k + 1) /\ \A i \in 1..(j + 1) : c[i] \in Nat
        BY <3>1, <3>2
      <4> HIDE DEF j
      <4>2. Total(c, 1..(j + 1)) = c[j + 1] + Total(c, 1..j)
        BY <4>1, TotalNext
      <4> QED BY <4>1, <4>2 DEF j
    <3>4. k + 1 \in 1..n
      OBVIOUS
    <3> QED BY <3>3, <3>4
  <2> QED BY <1>1, <2>1, <2>2, <2>3
<1> HIDE DEF K
<1>4. n \in K
  BY <1>2, <1>3, NatSetInduction
<1> QED BY <1>4 DEF K
-----------------------------------------------------------------------------
(* The space a pipeline holds: the lengths of the chunks it copies and of  *)
(* those on its NIC.                                                       *)

(* The space a pipeline holds: of the chunks it copies and those on the NIC. *)

\* The lengths of the chunks of s.
Lengths(s) == [i \in 1..Len(s) |-> LenOf(s[i].chunk)]
Copied(s) == Total(Lengths(s), 1..Len(s))
SizesOf(r) == [i \in DOMAIN r.copying |-> LenOf(r.copying[i].chunk)] \o r.inflight
WeightOf(r) == Copied(r.copying) + Sum(r.inflight)

\* The sum of a sequence of numbers, of one with a number more, and of its two parts.
LEMMA SumParts ==
    ASSUME NEW s \in Seq(Nat)
    PROVE  /\ Sum(s) = Total(s, 1..Len(s)) /\ Sum(s) \in Nat /\ (s = <<>> => Sum(s) = 0)
           /\ \A x \in Nat : Sum(Append(s, x)) = Sum(s) + x
           /\ \A k \in 0..Len(s) : /\ Sum(s) = Sum(SubSeq(s, 1, k)) + Sum(SubSeq(s, k + 1, Len(s)))
                                   /\ Sum(SubSeq(s, 1, k)) \in Nat /\ Sum(SubSeq(s, k + 1, Len(s))) \in Nat
<1>0. \A r \in Seq(Nat) : Sum(r) = Total(r, 1..Len(r)) /\ Sum(r) \in Nat
  <2> TAKE r \in Seq(Nat)
  <2>1. Len(r) \in Nat /\ r \in [1..Len(r) -> Nat]
    OBVIOUS
  <2> QED BY <2>1, SumIs
<1>1. s = <<>> => Sum(s) = 0
  <2> SUFFICES ASSUME s = <<>> PROVE Sum(s) = 0
    OBVIOUS
  <2>1. 1..Len(s) = {}
    OBVIOUS
  <2>2. Total(s, {}) = 0
    BY FS_EmptySet, SumFacts
  <2> QED BY <1>0, <2>1, <2>2
<1>2. ASSUME NEW x \in Nat PROVE Sum(Append(s, x)) = Sum(s) + x
  <2> DEFINE c == Append(s, x)
             n == Len(s)
             b == <<x>>
  <2>1. /\ c \in Seq(Nat) /\ Len(c) = n + 1 /\ n \in Nat /\ b \in Seq(Nat) /\ Len(b) = 1
        /\ (\A i \in 1..n : s[i] \in Nat /\ c[i] = s[i]) /\ c[n + 1] = x
    OBVIOUS
  <2>2. Sum(c) = Total(c, 1..(n + 1)) /\ Sum(s) = Total(s, 1..n)
    BY <1>0, <2>1
  <2> HIDE DEF c, n
  <2>3. \A i \in 1..(n + 1) : c[i] \in Nat
    BY <2>1
  <2>4. Total(c, 1..(n + 1)) = c[n + 1] + Total(c, 1..n) /\ Total(c, 1..n) \in Nat
    BY <2>1, <2>3, TotalNext
  <2>5. Total(c, 1..n) = Total(s, 1..n)
    <3>1. IsFiniteSet(1..n)
      BY <2>1, FS_Interval
    <3> QED BY <2>1, <3>1, TotalSame
  <2>6. Sum(c) = Sum(s) + x
    BY <2>1, <2>2, <2>4, <2>5
  <2> QED BY <2>6 DEF c
<1>3. ASSUME NEW k \in 0..Len(s)
      PROVE  /\ Sum(s) = Sum(SubSeq(s, 1, k)) + Sum(SubSeq(s, k + 1, Len(s)))
             /\ Sum(SubSeq(s, 1, k)) \in Nat /\ Sum(SubSeq(s, k + 1, Len(s))) \in Nat
  <2> DEFINE a == SubSeq(s, 1, k)
             b == SubSeq(s, k + 1, Len(s))
             n == Len(s) - k
  <2>1. k \in Nat /\ n \in Nat /\ Len(s) = k + n
    OBVIOUS
  <2>2. a \in Seq(Nat) /\ Len(a) = k /\ \A i \in 1..k : a[i] \in Nat /\ s[i] = a[i]
    OBVIOUS
  <2>3. b \in Seq(Nat) /\ Len(b) = n /\ \A i \in 1..n : b[i] \in Nat /\ s[k + i] = b[i]
    OBVIOUS
  <2> HIDE DEF a, b, n
  <2>4. Total(s, 1..Len(s)) = Total(a, 1..k) + Total(b, 1..n)
    <3>1. Joins(s, Len(s), a, k, b, n)
      BY <2>1, <2>2, <2>3 DEF Joins
    <3> QED BY <2>1, <3>1, TotalConcat
  <2>5. Sum(s) = Total(s, 1..Len(s)) /\ Sum(a) = Total(a, 1..k) /\ Sum(b) = Total(b, 1..n)
          /\ Sum(a) \in Nat /\ Sum(b) \in Nat
    BY <1>0, <2>1, <2>2, <2>3
  <2> QED BY <2>4, <2>5 DEF a, b
<1> QED BY <1>0, <1>1, <1>2, <1>3

\* The sum of one sequence after the other.
LEMMA SumConcat == ASSUME NEW r \in Seq(Nat), NEW s \in Seq(Nat) PROVE Sum(r \o s) = Sum(r) + Sum(s)
<1> DEFINE q == r \o s
           m == Len(r)
           n == Len(s)
<1>1. /\ q \in Seq(Nat) /\ Len(q) = m + n /\ m \in Nat /\ n \in Nat
      /\ \A i \in 1..m : q[i] = r[i]
      /\ \A i \in 1..n : q[m + i] = s[i]
  OBVIOUS
<1>2. (\A i \in 1..m : r[i] \in Nat) /\ (\A i \in 1..n : s[i] \in Nat)
  OBVIOUS
<1>3. Sum(q) = Total(q, 1..Len(q)) /\ Sum(r) = Total(r, 1..m) /\ Sum(s) = Total(s, 1..n)
  BY <1>1, SumParts
<1> HIDE DEF q, m, n
<1>4. Joins(q, Len(q), r, m, s, n)
  BY <1>1, <1>2 DEF Joins
<1>5. Total(q, 1..Len(q)) = Total(r, 1..m) + Total(s, 1..n)
  BY <1>1, <1>4, TotalConcat
<1> QED BY <1>3, <1>5 DEF q

\* The lengths of chunks that are copied: of one more, and of one that leaves.
LEMMA CopiedParts ==
    ASSUME NEW s \in Seq(CopyRecord)
    PROVE  /\ Copied(s) \in Nat /\ Len(s) \in Nat /\ (Copied(s) = 0 <=> s = <<>>)
           /\ \A i \in 1..Len(s) : /\ s[i] \in CopyRecord /\ LenOf(s[i].chunk) \in Nat
                                   /\ Lengths(s)[i] = LenOf(s[i].chunk)
           /\ \A e \in CopyRecord : Copied(Append(s, e)) = Copied(s) + LenOf(e.chunk) /\ LenOf(e.chunk) \in Nat
           /\ s # <<>> => /\ Copied(s) = LenOf(Head(s).chunk) + Copied(Tail(s)) /\ LenOf(Head(s).chunk) \in Nat
                          /\ Copied(Tail(s)) \in Nat
<1>1. ASSUME NEW r \in Seq(CopyRecord)
      PROVE  /\ Len(r) \in Nat /\ IsFiniteSet(1..Len(r))
             /\ \A i \in 1..Len(r) : /\ r[i] \in CopyRecord /\ LenOf(r[i].chunk) \in Nat /\ LenOf(r[i].chunk) > 0
                                     /\ Lengths(r)[i] = LenOf(r[i].chunk)
             /\ Copied(r) \in Nat /\ (Copied(r) = 0 <=> r = <<>>)
  <2>1. Len(r) \in Nat /\ \A i \in 1..Len(r) : r[i] \in CopyRecord
    OBVIOUS
  <2>2. IsFiniteSet(1..Len(r))
    BY <2>1, FS_Interval
  <2>3. ASSUME NEW i \in 1..Len(r)
        PROVE LenOf(r[i].chunk) \in Nat /\ LenOf(r[i].chunk) > 0 /\ Lengths(r)[i] = LenOf(r[i].chunk)
    <3>1. r[i].chunk \in Chunks
      BY <2>1 DEF CopyRecord
    <3>2. LenOf(r[i].chunk) \in Nat /\ LenOf(r[i].chunk) > 0
      BY <3>1, LenTyped
    <3> QED BY <3>2 DEF Lengths
  <2>4. \A i \in 1..Len(r) : Lengths(r)[i] \in Nat /\ Lengths(r)[i] # 0
    BY <2>3
  <2>5. Copied(r) \in Nat /\ (Copied(r) = 0 <=> \A i \in 1..Len(r) : Lengths(r)[i] = 0)
    <3> DEFINE f == Lengths(r)
    <3> HIDE DEF f
    <3>1. \A i \in 1..Len(r) : f[i] \in Nat
      BY <2>4 DEF f
    <3>2. Total(f, 1..Len(r)) \in Nat /\ (Total(f, 1..Len(r)) = 0 <=> \A i \in 1..Len(r) : f[i] = 0)
      BY <2>2, <3>1, SumFacts, TotalZero
    <3> QED BY <3>2 DEF Copied, f
  <2>6. r = <<>> <=> 1..Len(r) = {}
    <3>1. r = <<>> <=> Len(r) = 0
      OBVIOUS
    <3> QED BY <2>1, <3>1
  <2> QED BY <2>1, <2>2, <2>3, <2>4, <2>5, <2>6
<1>2. ASSUME NEW e \in CopyRecord PROVE Copied(Append(s, e)) = Copied(s) + LenOf(e.chunk) /\ LenOf(e.chunk) \in Nat
  <2> DEFINE r == Append(s, e)
             n == Len(s)
             f == Lengths(s)
             h == Lengths(r)
  <2>1. r \in Seq(CopyRecord) /\ Len(r) = n + 1 /\ n \in Nat /\ (\A i \in 1..n : r[i] = s[i]) /\ r[n + 1] = e
    BY SeqAppend, <1>1
  <2> HIDE DEF r
  <2>2. (\A i \in 1..(n + 1) : h[i] \in Nat /\ h[i] = LenOf(r[i].chunk))
    BY <1>1, <2>1
  <2>3. \A i \in 1..n : f[i] \in Nat /\ h[i] = f[i]
    BY <1>1, <2>1, <2>2
  <2>4. h[n + 1] = LenOf(e.chunk) /\ h[n + 1] \in Nat
    BY <2>1, <2>2
  <2>5. IsFiniteSet(1..n)
    BY <1>1
  <2>6. Copied(s) = Total(f, 1..n) /\ Copied(r) = Total(h, 1..(n + 1))
    BY <2>1 DEF Copied
  <2>7. Copied(s) \in Nat
    BY <1>1
  <2> HIDE DEF f, h, n
  <2>8. Total(h, 1..(n + 1)) = h[n + 1] + Total(h, 1..n) /\ Total(h, 1..n) = Total(f, 1..n)
    BY <2>1, <2>2, <2>3, <2>5, TotalNext, TotalSame
  <2> QED BY <2>4, <2>6, <2>7, <2>8 DEF r
<1>3. ASSUME s # <<>>
      PROVE  /\ Copied(s) = LenOf(Head(s).chunk) + Copied(Tail(s)) /\ LenOf(Head(s).chunk) \in Nat
             /\ Copied(Tail(s)) \in Nat
  <2> DEFINE r == Tail(s)
             m == Len(r)
             f == Lengths(s)
             h == Lengths(r)
             a == [i \in 1..1 |-> LenOf(Head(s).chunk)]
  <2>1. /\ r \in Seq(CopyRecord) /\ Len(s) = 1 + m /\ m \in Nat /\ Head(s) = s[1] /\ 1 \in 1..Len(s)
        /\ \A i \in 1..m : r[i] = s[1 + i] /\ 1 + i \in 1..Len(s)
    BY <1>3, SeqTail
  <2> HIDE DEF r
  <2>2. \A i \in 1..Len(s) : f[i] \in Nat /\ f[i] = LenOf(s[i].chunk)
    BY <1>1
  <2>3. \A i \in 1..m : h[i] \in Nat /\ f[1 + i] = h[i]
    <3> TAKE i \in 1..m
    <3>1. h[i] = LenOf(r[i].chunk) /\ h[i] \in Nat
      BY <1>1, <2>1
    <3>2. r[i] = s[1 + i] /\ 1 + i \in 1..Len(s)
      BY <2>1
    <3>3. f[1 + i] = LenOf(s[1 + i].chunk)
      BY <2>2, <3>2
    <3> QED BY <3>1, <3>2, <3>3
  <2>4. \A i \in 1..1 : a[i] \in Nat /\ f[i] = a[i]
    BY <2>1, <2>2
  <2>5. Copied(s) = Total(f, 1..Len(s)) /\ Copied(r) = Total(h, 1..m) /\ Copied(r) \in Nat
    BY <1>1, <2>1 DEF Copied
  <2>6. a[1] = LenOf(Head(s).chunk) /\ a[1] \in Nat
    BY <2>4
  <2> HIDE DEF f, h, m, a
  <2>7. Total(f, 1..Len(s)) = Total(a, 1..1) + Total(h, 1..m)
    <3> DEFINE k == 1
    <3>1. k \in Nat /\ Len(s) \in Nat /\ Joins(f, Len(s), a, k, h, m)
      BY <2>1, <2>3, <2>4 DEF Joins
    <3> HIDE DEF k
    <3>2. Total(f, 1..Len(s)) = Total(a, 1..k) + Total(h, 1..m)
      BY <2>1, <3>1, TotalConcat
    <3> QED BY <3>2 DEF k
  <2>8. Total(a, 1..1) = a[1]
    <3>1. 0 \in Nat /\ 0 + 1 = 1 /\ 1..0 = {} /\ \A i \in 1..(0 + 1) : a[i] \in Nat
      BY <2>4
    <3>2. Total(a, 1..(0 + 1)) = a[0 + 1] + Total(a, 1..0)
      <4> DEFINE k == 0
      <4>1. k \in Nat /\ \A i \in 1..(k + 1) : a[i] \in Nat
        BY <3>1
      <4> HIDE DEF k
      <4>2. Total(a, 1..(k + 1)) = a[k + 1] + Total(a, 1..k)
        BY <4>1, TotalNext
      <4> QED BY <4>2 DEF k
    <3>3. Total(a, {}) = 0
      BY FS_EmptySet, SumFacts
    <3> QED BY <2>6, <3>1, <3>2, <3>3
  <2> QED BY <2>5, <2>6, <2>7, <2>8 DEF r
<1> QED BY <1>1, <1>2, <1>3

\* Chunks of the same lengths.
LEMMA CopiedSame ==
    ASSUME NEW s, NEW r, Len(r) = Len(s), \A i \in 1..Len(s) : r[i].chunk = s[i].chunk
    PROVE  Copied(r) = Copied(s)
<1>1. Lengths(r) = Lengths(s)
  BY DEF Lengths
<1> QED BY <1>1 DEF Copied

\* What a pipeline of state r holds is what it copies and what is on its NIC.
LEMMA WeightIs ==
    ASSUME NEW r \in PipeRecord
    PROVE  /\ Sum(SizesOf(r)) = WeightOf(r) /\ WeightOf(r) \in Nat
           /\ Copied(r.copying) \in Nat /\ Sum(r.inflight) \in Nat
           /\ r.copying \in Seq(CopyRecord) /\ r.inflight \in Seq(Nat)
<1> DEFINE s == r.copying
           t == r.inflight
           a == Lengths(s)
<1>1. s \in Seq(CopyRecord) /\ t \in Seq(Nat)
  BY DEF PipeRecord
<1>2. Len(s) \in Nat /\ DOMAIN s = 1..Len(s) /\ Copied(s) \in Nat /\ \A i \in 1..Len(s) : a[i] \in Nat
  <2> HIDE DEF s
  <2>1. Len(s) \in Nat /\ DOMAIN s = 1..Len(s)
    BY <1>1, SeqSet
  <2>2. Copied(s) \in Nat /\ \A i \in 1..Len(s) : a[i] \in Nat
    BY <1>1, CopiedParts
  <2> QED BY <2>1, <2>2
<1>3. SizesOf(r) = a \o t
  BY <1>2 DEF SizesOf, Lengths
<1>3a. WeightOf(r) = Copied(s) + Sum(t)
  BY DEF WeightOf
<1> HIDE DEF s, t
<1>4. a \in Seq(Nat) /\ Len(a) = Len(s)
  BY <1>2 DEF Lengths
<1> HIDE DEF a
<1>5. Sum(a \o t) = Sum(a) + Sum(t) /\ Sum(a) = Total(a, 1..Len(a))
  BY <1>1, <1>4, SumParts, SumConcat
<1>6. Copied(s) = Sum(a)
  BY <1>4, <1>5 DEF Copied, a
<1>7. Sum(t) \in Nat
  BY <1>1, SumParts
<1>8. WeightOf(r) \in Nat
  BY <1>2, <1>3a, <1>7
<1> QED BY <1>1, <1>2, <1>3, <1>3a, <1>5, <1>6, <1>7, <1>8 DEF s, t
-----------------------------------------------------------------------------
(* What is missing of a buffer is what the pipelines of its NICs hold.     *)

\* What each pipeline holds, when they are as q says.
Weigh(q) == [p \in Pipelines |-> WeightOf(q[p])]

\* The space of a buffer that the transfers of S hold, now and after a step.
LEMMA SpaceIs ==
    /\ Kept => \A g, S : Space(g, S) = Total(Weigh(pipe), S \X On(g))
    /\ Kept' => \A g, S : Space(g, S)' = Total(Weigh(pipe'), S \X On(g))
<1>1. ASSUME Kept PROVE [p \in Pipelines |-> Sum(Sizes(p))] = Weigh(pipe)
  <2>1. ASSUME NEW p \in Pipelines PROVE Sum(Sizes(p)) = WeightOf(pipe[p])
    <3>1. pipe[p] \in PipeRecord /\ Sizes(p) = SizesOf(pipe[p])
      BY <1>1 DEF Kept, Sizes, SizesOf
    <3> QED BY <3>1, WeightIs
  <2> QED BY <2>1 DEF Weigh
<1>2. ASSUME Kept' PROVE [p \in Pipelines |-> Sum(Sizes(p))]' = Weigh(pipe')
  <2>1. ASSUME NEW p \in Pipelines PROVE Sum(Sizes(p))' = WeightOf(pipe'[p])
    <3>1. pipe'[p] \in PipeRecord
      BY <1>2 DEF Kept
    <3>2. Sizes(p)' = SizesOf(pipe'[p])
      BY DEF Sizes, SizesOf
    <3>3. Sum(SizesOf(pipe'[p])) = WeightOf(pipe'[p])
      BY <3>1, WeightIs
    <3>4. Sum(Sizes(p))' = Sum(Sizes(p)')
      OBVIOUS
    <3> QED BY <3>2, <3>3, <3>4
  <2> QED BY <2>1 DEF Weigh
<1>3. ASSUME Kept, NEW g, NEW S PROVE Space(g, S) = Total(Weigh(pipe), S \X On(g))
  BY <1>1, <1>3 DEF Space
<1>4. ASSUME Kept', NEW g, NEW S PROVE Space(g, S)' = Total(Weigh(pipe'), S \X On(g))
  BY <1>2, <1>4 DEF Space
<1> QED BY <1>3, <1>4

\* Pipelines of a buffer: finitely many, and they hold numbers.
LEMMA WeightsTyped ==
    ASSUME NEW q, \A p \in Pipelines : q[p] \in PipeRecord, NEW S \in SUBSET Transfers, NEW g
    PROVE  /\ S \X On(g) \subseteq Pipelines /\ IsFiniteSet(S \X On(g))
           /\ \A p \in S \X On(g) : Weigh(q)[p] \in Nat /\ Weigh(q)[p] = WeightOf(q[p])
           /\ Total(Weigh(q), S \X On(g)) \in Nat
<1>1. S \X On(g) \subseteq Pipelines
  BY DEF On, Pipelines
<1>2. IsFiniteSet(S \X On(g))
  BY <1>1, Finiteness, FS_Subset
<1>3. \A p \in S \X On(g) : Weigh(q)[p] \in Nat /\ Weigh(q)[p] = WeightOf(q[p])
  BY <1>1, WeightIs DEF Weigh
<1>4. Total(Weigh(q), S \X On(g)) \in Nat
  <2> DEFINE f == Weigh(q)
             R == S \X On(g)
  <2>1. IsFiniteSet(R) /\ \A p \in R : f[p] \in Nat
    BY <1>2, <1>3
  <2> HIDE DEF f, R
  <2> QED BY <2>1, SumFacts DEF f, R
<1> QED BY <1>1, <1>2, <1>3, <1>4

\* How much of buffer b is missing.
Missing(b) == b.alloc - b.freed

\* What is missing of the buffer of g for chunks: nothing in the middle of a reset, and what
\* tryAlloc gave for a request that the ring refused does not count.
Due(g) == IF HalfReset(g) THEN 0 ELSE Missing(buffer[g]) - Refused(g)

\* Nothing is held for a transfer the worker does not have, and what is missing of a buffer is
\* what pipelines hold.
Clean == taint \cap {"reset", "leak"} = {}
Spared == "leak" \notin taint => \A p \in Pipelines : p[1] \notin ToSet(active) => WeightOf(pipe[p]) = 0
Balance == Clean => \A g \in ProxyGpus : Due(g) = Total(Weigh(pipe), Transfers \X On(g))
Spaces == Spared /\ Balance

\* So it is enough to count the transfers the worker has.
LEMMA SpaceOfActive ==
    ASSUME Kept, Working, Spared, "leak" \notin taint, NEW g
    PROVE  Space(g, ToSet(active)) = Total(Weigh(pipe), Transfers \X On(g)) /\ Space(g, ToSet(active)) \in Nat
<1> DEFINE f == Weigh(pipe)
           A == ToSet(active) \X On(g)
           B == (Transfers \ ToSet(active)) \X On(g)
<1>1. ToSet(active) \subseteq Transfers
  BY DEF Working, ToSet
<1>2. \A p \in Pipelines : pipe[p] \in PipeRecord
  BY DEF Kept
<1>3. /\ IsFiniteSet(A) /\ IsFiniteSet(B) /\ (\A p \in A \cup B : f[p] \in Nat)
      /\ Total(f, A) \in Nat
  BY <1>1, <1>2, WeightsTyped
<1>4. A \cap B = {} /\ A \cup B = Transfers \X On(g)
  BY <1>1
<1>5. ASSUME NEW p \in B PROVE f[p] = 0
  <2>1. p \in Pipelines /\ p[1] \notin ToSet(active)
    BY DEF On, Pipelines
  <2> QED BY <2>1 DEF Spared, Weigh
<1>6. Space(g, ToSet(active)) = Total(f, A)
  BY SpaceIs
<1> HIDE DEF f, A, B
<1>7. Total(f, A \cup B) = Total(f, A) + Total(f, B) /\ Total(f, B) = 0
  <2>1. Total(f, B) = 0
    BY <1>3, <1>5, TotalZero
  <2>2. Total(f, A \cup B) = Total(f, A) + Total(f, B)
    BY <1>3, <1>4, TotalSplit
  <2> QED BY <2>1, <2>2
<1>8. Total(f, A \cup B) = Total(f, A)
  BY <1>3, <1>7
<1> QED BY <1>3, <1>4, <1>6, <1>8 DEF f

\* A pipeline is in no buffer but that of its NIC.
LEMMA WhichBuffer ==
    ASSUME NEW p \in Pipelines
    PROVE  /\ \A g : p \in Transfers \X On(g) <=> g = ProxyGpu(p[2])
           /\ ProxyGpu(p[2]) \in ProxyGpus /\ ProxyGpu(p[2]) \in Gpus /\ p[2] \in ProxyNics
<1>1. p[1] \in Transfers /\ p[2] \in ProxyNics /\ p = <<p[1], p[2]>>
  BY DEF Pipelines
<1>2. ProxyGpu(p[2]) \in ProxyGpus /\ ProxyGpu(p[2]) \in Gpus
  BY <1>1, ProxyGpuTyped DEF ProxyGpus
<1>3. ASSUME NEW g PROVE p \in Transfers \X On(g) <=> g = ProxyGpu(p[2])
  BY <1>1 DEF On
<1> QED BY <1>1, <1>2, <1>3

\* A buffer's numbers.
LEMMA BufferTyped ==
    ASSUME Kept
    PROVE  \A g \in ProxyGpus : /\ g \in Gpus /\ buffer[g] \in [alloc : 0..BufferSize, freed : Nat]
                                /\ Missing(buffer[g]) \in Int
<1> SUFFICES ASSUME NEW g \in ProxyGpus
             PROVE  /\ g \in Gpus /\ buffer[g] \in [alloc : 0..BufferSize, freed : Nat]
                    /\ Missing(buffer[g]) \in Int
  OBVIOUS
<1>1. g \in Gpus
  BY ProxyGpuTyped DEF ProxyGpus
<1>2. buffer[g] \in [alloc : 0..BufferSize, freed : Nat]
  BY <1>1 DEF Kept
<1> QED BY <1>1, <1>2, Sizing DEF Missing

\* A step that changes neither what pipelines hold nor what is missing.
LEMMA SpacesStill ==
    ASSUME Kept, Kept', Spaces, taint \subseteq taint', ToSet(active) \subseteq ToSet(active)',
           \A p \in Pipelines : WeightOf(pipe'[p]) = WeightOf(pipe[p]),
           Clean' => \A g \in ProxyGpus : Due(g)' = Due(g)
    PROVE  Spaces'
<1>1. Spared'
  BY DEF Spaces, Spared
<1>2. Weigh(pipe') = Weigh(pipe)
  BY DEF Weigh
<1>3. Clean' => Clean
  BY DEF Clean
<1>4. Balance'
  BY <1>2, <1>3 DEF Spaces, Balance
<1> QED BY <1>1, <1>4 DEF Spaces

\* What is due, after a step.
LEMMA DueAfter ==
    ASSUME NEW g
    PROVE  /\ Due(g) = IF HalfReset(g) THEN 0 ELSE Missing(buffer[g]) - Refused(g)
           /\ Due(g)' = IF HalfReset(g)' THEN 0 ELSE Missing(buffer'[g]) - Refused(g)'
BY DEF Due, Missing

\* The resets that are under way, and what a refused request has, stay.
LEMMA ResetSame == ASSUME reset' = reset, NEW g PROVE HalfReset(g)' = HalfReset(g)
BY DEF HalfReset
LEMMA RefusedSame ==
    ASSUME trying' = trying, trying.at # "refused" \/ UNCHANGED <<tasks, pipe>>, NEW g
    PROVE  Refused(g)' = Refused(g)
<1>1. CASE trying.at # "refused"
  BY <1>1 DEF Refused
<1>2. CASE UNCHANGED <<tasks, pipe>>
  BY <1>2 DEF Refused, Target, Wanted, Pipeline
<1> QED BY <1>1, <1>2

\* Steps that leave the allocators alone.
LEMMA DueStill ==
    ASSUME UNCHANGED <<buffer, reset, trying>>, trying.at = "no" \/ UNCHANGED <<tasks, pipe>>, NEW g
    PROVE  Due(g)' = Due(g)
BY ResetSame, RefusedSame, DueAfter

\* A step that changes what one pipeline holds, and what is missing of its buffer by as much.
LEMMA SpacesOne ==
    ASSUME Kept, Kept', Spaces, taint' = taint, active' = active,
           NEW p \in Pipelines, p[1] \in ToSet(active), Elsewhere(p),
           Clean => \A g \in ProxyGpus : g # ProxyGpu(p[2]) => Due(g)' = Due(g),
           Clean => Due(ProxyGpu(p[2]))' = Due(ProxyGpu(p[2])) + WeightOf(pipe'[p]) - WeightOf(pipe[p])
    PROVE  Spaces'
<1>0. ToSet(active)' = ToSet(active)
  BY DEF ToSet
<1>1. Spared'
  BY <1>0 DEF Spaces, Spared, Elsewhere
<1>2. ASSUME Clean, NEW g \in ProxyGpus
      PROVE  Due(g)' = Total(Weigh(pipe'), Transfers \X On(g))
  <2> DEFINE f == Weigh(pipe)
             h == Weigh(pipe')
             R == Transfers \X On(g)
  <2>1. /\ R \subseteq Pipelines /\ IsFiniteSet(R)
        /\ \A q \in R : f[q] \in Nat /\ f[q] = WeightOf(pipe[q])
        /\ \A q \in R : h[q] \in Nat /\ h[q] = WeightOf(pipe'[q])
    <3>1. Transfers \in SUBSET Transfers /\ (\A q \in Pipelines : pipe[q] \in PipeRecord)
            /\ (\A q \in Pipelines : pipe'[q] \in PipeRecord)
      BY DEF Kept
    <3> QED BY <3>1, WeightsTyped
  <2>2. Due(g) = Total(f, R)
    BY <1>2 DEF Spaces, Balance
  <2>4. p \in R <=> g = ProxyGpu(p[2])
    BY WhichBuffer
  <2> HIDE DEF f, h, R
  <2>5. CASE g = ProxyGpu(p[2])
    <3>1. \A q \in R : f[q] \in Nat /\ h[q] \in Nat /\ (q # p => h[q] = f[q])
      BY <2>1 DEF Elsewhere
    <3>2. p \in R
      BY <2>4, <2>5
    <3>3. Total(f, R) \in Nat /\ Total(h, R) \in Nat /\ Total(h, R) - h[p] = Total(f, R) - f[p]
      BY <2>1, <3>1, <3>2, TotalOne
    <3>4. Due(g)' = Due(g) + h[p] - f[p] /\ h[p] \in Nat /\ f[p] \in Nat
      BY <1>2, <2>1, <2>5, <3>2
    <3>5. Due(g)' = Total(h, R)
      BY <2>2, <3>3, <3>4
    <3> QED BY <3>5 DEF h, R
  <2>6. CASE g # ProxyGpu(p[2])
    <3>1. \A q \in R : f[q] \in Nat /\ h[q] = f[q]
      BY <2>1, <2>4, <2>6 DEF Elsewhere
    <3>2. Total(h, R) = Total(f, R)
      BY <2>1, <3>1, TotalSame
    <3>3. Due(g)' = Due(g)
      BY <1>2, <2>6
    <3> QED BY <2>2, <3>2, <3>3 DEF h, R
  <2> QED BY <2>5, <2>6
<1>3. Balance'
  BY <1>2 DEF Balance, Clean
<1> QED BY <1>1, <1>3 DEF Spaces

\* What the worker's steps make of the space a pipeline holds.
LEMMA WeightSteps ==
    ASSUME Typed, Typed'
    PROVE  /\ \A p \in Pipelines, e \in CopyRecord : Advanced(p, e) =>
                 WeightOf(pipe'[p]) = WeightOf(pipe[p]) + LenOf(e.chunk)
           /\ \A p \in Pipelines, e \in CopyRecord, w \in WireRecord : Posted(p, e, w) =>
                 WeightOf(pipe'[p]) = WeightOf(pipe[p])
           /\ \A p \in Pipelines : Pended(p) => WeightOf(pipe'[p]) = WeightOf(pipe[p])
           /\ Polled \/ Dispatched => \A p \in Pipelines : WeightOf(pipe'[p]) = WeightOf(pipe[p])
<1>0. ASSUME NEW p \in Pipelines
      PROVE  /\ pipe[p] \in PipeRecord /\ pipe[p].copying \in Seq(CopyRecord) /\ pipe[p].inflight \in Seq(Nat)
             /\ Copied(pipe[p].copying) \in Nat /\ Sum(pipe[p].inflight) \in Nat
             /\ WeightOf(pipe[p]) = Copied(pipe[p].copying) + Sum(pipe[p].inflight)
             /\ WeightOf(pipe'[p]) = Copied(pipe'[p].copying) + Sum(pipe'[p].inflight)
  BY WeightIs DEF Typed, Kept, WeightOf
<1>1. ASSUME NEW p \in Pipelines, NEW e \in CopyRecord, Advanced(p, e)
      PROVE  WeightOf(pipe'[p]) = WeightOf(pipe[p]) + LenOf(e.chunk)
  <2> DEFINE s == pipe[p].copying
             t == pipe[p].inflight
  <2>1. pipe'[p].copying = Append(s, e) /\ pipe'[p].inflight = t
    BY <1>1 DEF Advanced
  <2>2. s \in Seq(CopyRecord) /\ Copied(s) \in Nat /\ Sum(t) \in Nat
    BY <1>0
  <2> HIDE DEF s, t
  <2>3. Copied(Append(s, e)) = Copied(s) + LenOf(e.chunk) /\ LenOf(e.chunk) \in Nat
    BY <2>2, CopiedParts
  <2>4. WeightOf(pipe'[p]) = Copied(Append(s, e)) + Sum(t) /\ WeightOf(pipe[p]) = Copied(s) + Sum(t)
    BY <2>1 DEF WeightOf, s, t
  <2> QED BY <2>2, <2>3, <2>4
<1>2. ASSUME NEW p \in Pipelines, NEW e \in CopyRecord, NEW w \in WireRecord, Posted(p, e, w)
      PROVE  WeightOf(pipe'[p]) = WeightOf(pipe[p])
  <2> DEFINE s == pipe[p].copying
             t == pipe[p].inflight
             l == LenOf(e.chunk)
  <2>1. pipe'[p].copying = Tail(s) /\ pipe'[p].inflight = Append(t, l) /\ s # <<>> /\ e = Head(s)
    BY <1>2 DEF Posted
  <2>2. s \in Seq(CopyRecord) /\ t \in Seq(Nat) /\ Sum(t) \in Nat
    BY <1>0
  <2> HIDE DEF s, t
  <2>3. Copied(s) = l + Copied(Tail(s)) /\ l \in Nat /\ Copied(Tail(s)) \in Nat
    BY <2>1, <2>2, CopiedParts
  <2>4. Sum(Append(t, l)) = Sum(t) + l
    BY <2>2, <2>3, SumParts
  <2>5. WeightOf(pipe'[p]) = Copied(Tail(s)) + Sum(Append(t, l)) /\ WeightOf(pipe[p]) = Copied(s) + Sum(t)
    <3>1. WeightOf(pipe'[p]) = Copied(Tail(s)) + Sum(Append(t, l))
      BY <2>1 DEF WeightOf
    <3> QED BY <3>1 DEF WeightOf, s, t
  <2> HIDE DEF l
  <2> QED BY <2>2, <2>3, <2>4, <2>5
<1>3. ASSUME NEW p \in Pipelines, Pended(p) PROVE WeightOf(pipe'[p]) = WeightOf(pipe[p])
  BY <1>3 DEF Pended, WeightOf
<1>4. ASSUME Polled, NEW p \in Pipelines PROVE WeightOf(pipe'[p]) = WeightOf(pipe[p])
  <2>1. pipe'[p].copying = pipe[p].copying /\ pipe'[p].inflight = pipe[p].inflight
    <3>1. \E k : pipe'[p] = [pending |-> pipe[p].pending, copying |-> pipe[p].copying,
                            inflight |-> pipe[p].inflight, arrived |-> pipe[p].arrived + k,
                            assigned |-> pipe[p].assigned - k]
      BY <1>4, Zenon DEF Polled
    <3> QED BY <3>1
  <2> QED BY <2>1 DEF WeightOf
<1>5. ASSUME Dispatched, NEW p \in Pipelines PROVE WeightOf(pipe'[p]) = WeightOf(pipe[p])
  <2> DEFINE s == pipe[p].copying
             r == pipe'[p].copying
  <2>1. Len(r) = Len(s) /\ pipe'[p].inflight = pipe[p].inflight /\ \A i \in 1..Len(s) : r[i].chunk = s[i].chunk
    BY <1>5 DEF Dispatched, Told
  <2> HIDE DEF r, s
  <2>2. Copied(r) = Copied(s)
    BY <2>1, CopiedSame
  <2> QED BY <2>1, <2>2 DEF WeightOf, r, s
<1> QED BY <1>1, <1>2, <1>3, <1>4, <1>5

\* Elsewhere a pipeline holds what it held.
LEMMA WeightElsewhere ==
    ASSUME NEW p \in Pipelines, Elsewhere(p), WeightOf(pipe'[p]) = WeightOf(pipe[p])
    PROVE  \A q \in Pipelines : WeightOf(pipe'[q]) = WeightOf(pipe[q])
BY DEF Elsewhere

\* AdvanceCopy keeps the space that was found: where the buffer ends that is in use.
LEMMA AdvanceSpaces == ASSUME Control, Typed, Typed', Watched, Spaces, AdvanceCopy PROVE Spaces'
<1>0. Kept /\ Kept'
  BY DEF Typed
<1>1. PICK p \in Pipelines, e \in CopyRecord : Advanced(p, e)
  BY AdvanceCopyIs
<1> DEFINE g == ProxyGpu(p[2])
           len == LenOf(e.chunk)
<1>2. g \in ProxyGpus /\ g \in Gpus /\ buffer[g] \in [alloc : 0..BufferSize, freed : Nat] /\ len \in Nat
  <2>1. e.chunk \in Chunks
    BY DEF CopyRecord
  <2> QED BY <1>0, <2>1, WhichBuffer, BufferTyped, LenTyped
<1>3. /\ p[1] \in ToSet(active) /\ Elsewhere(p) /\ trying.at = "fits" /\ Target = g
      /\ buffer' = [buffer EXCEPT ![g].alloc = trying.cur + len]
  BY <1>1 DEF Advanced
<1>4. taint' = taint /\ active' = active /\ reset' = reset /\ trying'.at = "no"
  BY DEF AdvanceCopy, NotTrying
<1>5. WeightOf(pipe'[p]) = WeightOf(pipe[p]) + len /\ WeightOf(pipe[p]) \in Nat
  <2>1. WeightOf(pipe'[p]) = WeightOf(pipe[p]) + len
    BY <1>1, WeightSteps
  <2>2. pipe[p] \in PipeRecord
    BY <1>0 DEF Kept
  <2> QED BY <2>1, <2>2, WeightIs
<1>6. /\ \A h \in ProxyGpus : h # g => buffer'[h] = buffer[h]
      /\ buffer'[g] = [buffer[g] EXCEPT !.alloc = trying.cur + len]
  BY <1>2, <1>3, <1>0, BufferTyped DEF Kept
<1>7. \A h : Refused(h) = 0 /\ Refused(h)' = 0 /\ HalfReset(h)' = HalfReset(h)
  BY <1>3, <1>4, ResetSame DEF Refused
<1> HIDE DEF g, len
<1>8. ASSUME NEW h \in ProxyGpus, h # g PROVE Due(h)' = Due(h)
  BY <1>6, <1>7, <1>8, DueAfter
<1>9. ASSUME Clean PROVE Due(g)' = Due(g) + WeightOf(pipe'[p]) - WeightOf(pipe[p])
  <2>1. ~HalfReset(g) /\ trying.cur = buffer[g].alloc
    BY <1>2, <1>3, <1>9 DEF Watched, Within, Clean
  <2>2. buffer[g].alloc \in Int /\ buffer[g].freed \in Int
    BY <1>2, Sizing
  <2>3. buffer'[g].alloc = buffer[g].alloc + len /\ buffer'[g].freed = buffer[g].freed
    BY <1>2, <1>6, <2>1
  <2>4. Due(g) = buffer[g].alloc - buffer[g].freed /\ Due(g)' = buffer'[g].alloc - buffer'[g].freed
    <3>1. Due(g) = Missing(buffer[g]) - 0 /\ Due(g)' = Missing(buffer'[g]) - 0
      BY <1>7, <2>1, DueAfter
    <3> QED BY <2>2, <2>3, <1>2, <3>1 DEF Missing
  <2> QED BY <1>2, <1>5, <2>2, <2>3, <2>4
<1>10. /\ Clean => \A h \in ProxyGpus : h # ProxyGpu(p[2]) => Due(h)' = Due(h)
       /\ Clean => Due(ProxyGpu(p[2]))' = Due(ProxyGpu(p[2])) + WeightOf(pipe'[p]) - WeightOf(pipe[p])
  BY <1>8, <1>9 DEF g
<1> QED BY <1>0, <1>3, <1>4, <1>10, SpacesOne

\* The other steps of tryAlloc, and those of a reset, change nothing that is due.
LEMMA AsideSpaces == ASSUME Control, Typed, Typed', Watched, Spaces, Aside, [Next]_vars PROVE Spaces'
<1>0. /\ Kept /\ Kept' /\ Working /\ Trial
      /\ buffer \in [Gpus -> [alloc : 0..BufferSize, freed : Nat]] /\ ProxyGpus \subseteq Gpus
  BY ProxyGpuTyped DEF Typed, Control, Rounds, Kept, ProxyGpus
<1>1. pipe' = pipe /\ active' = active /\ taint \subseteq taint'
  BY AsideStays, TaintStays
<1>2. ToSet(active) \subseteq ToSet(active)' /\ \A p \in Pipelines : WeightOf(pipe'[p]) = WeightOf(pipe[p])
  BY <1>1 DEF ToSet
<1> SUFFICES ASSUME Clean', NEW g \in ProxyGpus PROVE Due(g)' = Due(g)
  BY <1>0, <1>1, <1>2, SpacesStill
<1>3. Clean /\ "reset" \notin taint /\ "leak" \notin taint /\ "reset" \notin taint'
  BY <1>1 DEF Clean
<1>4. Due(g) = Total(Weigh(pipe), Transfers \X On(g)) /\ Due(g) \in Nat
  <2>1. Due(g) = Total(Weigh(pipe), Transfers \X On(g))
    BY <1>3 DEF Spaces, Balance
  <2>2. Total(Weigh(pipe), Transfers \X On(g)) \in Nat
    BY <1>0, WeightsTyped DEF Kept
  <2> QED BY <2>1, <2>2
<1>5. /\ g \in Gpus /\ buffer[g] \in [alloc : 0..BufferSize, freed : Nat]
      /\ buffer[g].alloc \in Int /\ buffer[g].freed \in Int /\ Missing(buffer[g]) \in Int
  BY <1>0, BufferTyped, Sizing
<1>6. /\ HalfReset(g) => ~Within(g) /\ buffer[g].alloc = 0
      /\ Within(g) /\ trying.at \in {"full", "fits"} => trying.cur = buffer[g].alloc
  BY <1>3 DEF Watched
<1>7. trying.at # "no" => Advancing
  BY <1>0 DEF Trial
<1>8. CASE ResetAlloc
  <2>1. PICK n \in ProxyNics :
          /\ buffer' = [buffer EXCEPT ![ProxyGpu(n)].alloc = 0] /\ reset' = [reset EXCEPT !.half = n]
          /\ Disturb(Occupied(ProxyGpu(n))) /\ UNCHANGED <<trying, tasks>> /\ reset.half = 0
    BY <1>8 DEF ResetAlloc, worker
  <2> DEFINE m == ProxyGpu(n)
  <2>2. ~HalfReset(g) /\ Refused(g)' = Refused(g)
    BY <1>1, <2>1, RefusedSame DEF HalfReset
  <2>3. HalfReset(g)' => g = m
    <3>1. ASSUME HalfReset(g)' PROVE g = m
      <4>1. ProxyGpu(reset'.half) = g /\ reset'.half # 0
        BY <3>1 DEF HalfReset
      <4>2. reset'.half = n
        BY <2>1, <4>1
      <4> QED BY <4>1, <4>2
    <3> QED BY <3>1
  <2>4. ~Occupied(m)
    BY <1>3, <2>1 DEF Disturb
  <2>5. CASE g = m
    <3>1. ~(Space(g, ToSet(active)) > 0) /\ ~Within(g)
      BY <2>4, <2>5 DEF Occupied
    <3>2. Space(g, ToSet(active)) = Total(Weigh(pipe), Transfers \X On(g)) /\ Space(g, ToSet(active)) \in Nat
      BY <1>0, <1>3, SpaceOfActive DEF Spaces
    <3>3. Due(g) = 0
      BY <1>4, <3>1, <3>2
    <3>4. HalfReset(g)'
      <4>1. n # 0
        BY Finiteness DEF Nics
      <4>2. reset'.half = n
        BY <1>0, <2>1 DEF Trial
      <4> QED BY <2>5, <4>1, <4>2 DEF HalfReset
    <3> QED BY <3>3, <3>4, DueAfter
  <2>6. CASE g # m
    <3> HIDE DEF m
    <3>1. buffer'[g] = buffer[g]
      BY <1>0, <1>5, <2>1, <2>6 DEF m
    <3> QED BY <2>2, <2>3, <2>6, <3>1, DueAfter
  <2> QED BY <2>5, <2>6
<1>9. CASE ResetFree
  <2>1. /\ UNCHANGED <<trying, tasks>> /\ reset'.half = 0 /\ reset.half # 0
        /\ buffer' = [buffer EXCEPT ![ProxyGpu(reset.half)].freed = 0]
    BY <1>9 DEF ResetFree, worker
  <2>2. ~HalfReset(g)' /\ Refused(g)' = Refused(g)
    BY <1>1, <2>1, RefusedSame DEF HalfReset
  <2>3. CASE HalfReset(g)
    <3>1. ProxyGpu(reset.half) = g
      BY <2>3 DEF HalfReset
    <3>2. buffer'[g].alloc = 0 /\ buffer'[g].freed = 0
      BY <1>5, <1>6, <1>0, <2>1, <2>3, <3>1
    <3>3. Refused(g) = 0
      BY <1>6, <2>3 DEF Refused, Within
    <3> QED BY <2>2, <2>3, <3>2, <3>3, DueAfter DEF Missing
  <2>4. CASE ~HalfReset(g)
    <3>1. ProxyGpu(reset.half) # g
      BY <2>1, <2>4 DEF HalfReset
    <3>2. buffer'[g] = buffer[g]
      BY <1>5, <1>0, <2>1, <3>1
    <3> QED BY <2>2, <2>4, <3>2, DueAfter
  <2> QED BY <2>3, <2>4
<1>10. CASE LoadAlloc \/ NoSpace
  <2>1. UNCHANGED <<reset, buffer>> /\ trying.at # "refused" /\ trying'.at # "refused"
    BY <1>10 DEF LoadAlloc, NoSpace, Loaded, NotTrying
  <2>2. Refused(g) = 0 /\ Refused(g)' = 0
    BY <2>1 DEF Refused
  <2> QED BY <2>1, <2>2, ResetSame, DueAfter
<1>11. CASE StartAgain
  <2>1. /\ Advancing /\ Stay /\ reset' = reset /\ trying'.at = "fits" /\ buffer[Target].freed >= trying.cur
        /\ trying.at = "full" /\ buffer' = [buffer EXCEPT ![Target] = EmptyBuffer]
    BY <1>11 DEF StartAgain, Empty
  <2>2. Refused(g) = 0 /\ Refused(g)' = 0 /\ HalfReset(g)' = HalfReset(g)
    BY <2>1, ResetSame DEF Refused
  <2>3. CASE g = Target
    <3>1. ~HalfReset(g) /\ trying.cur = buffer[g].alloc
      BY <1>6, <2>1, <2>3 DEF Within
    <3>2. Due(g) = Missing(buffer[g]) - 0
      BY <2>2, <3>1, DueAfter
    <3>3. Due(g) = 0
      <4>1. Due(g) = buffer[g].alloc - buffer[g].freed /\ buffer[g].freed >= buffer[g].alloc
        BY <1>5, <2>1, <2>3, <3>1, <3>2 DEF Missing
      <4> QED BY <1>4, <1>5, <4>1
    <3>4. buffer'[g].alloc = 0 /\ buffer'[g].freed = 0
      BY <1>0, <1>5, <2>1, <2>3 DEF EmptyBuffer
    <3>5. Due(g)' = Missing(buffer'[g]) - 0
      BY <2>2, <3>1, DueAfter
    <3> QED BY <3>3, <3>4, <3>5 DEF Missing
  <2>4. CASE g # Target
    <3>1. buffer'[g] = buffer[g]
      BY <1>0, <1>5, <2>1, <2>4
    <3> QED BY <2>2, <3>1, DueAfter
  <2> QED BY <2>3, <2>4
<1>12. CASE AdvanceRingFull
  <2>1. /\ Take /\ reset' = reset /\ trying'.at = "refused"
    BY <1>12 DEF AdvanceRingFull
  <2>2. /\ Advancing /\ Stay /\ trying.at = "fits" /\ buffer' = [buffer EXCEPT ![Target].alloc = trying.cur + Wanted]
    BY <2>1 DEF Take
  <2>3. /\ Refused(g) = 0 /\ HalfReset(g)' = HalfReset(g)
        /\ Refused(g)' = IF Target = g THEN Wanted ELSE 0
    BY <1>1, <2>1, <2>2, ResetSame DEF Refused, Target, Wanted, Pipeline, Stay
  <2>4. CASE g = Target
    <3>1. ~HalfReset(g) /\ trying.cur = buffer[g].alloc /\ Wanted \in Nat
      BY <1>0, <1>6, <2>2, <2>4, TargetIs, Sizing DEF Within
    <3>2. buffer'[g].alloc = buffer[g].alloc + Wanted /\ buffer'[g].freed = buffer[g].freed
      BY <1>0, <1>5, <2>2, <2>4, <3>1
    <3>3. Due(g) = Missing(buffer[g]) - 0 /\ Due(g)' = Missing(buffer'[g]) - Wanted
      BY <2>3, <2>4, <3>1, DueAfter
    <3> HIDE DEF Wanted
    <3> QED BY <1>5, <3>1, <3>2, <3>3 DEF Missing
  <2>5. CASE g # Target
    <3>1. buffer'[g] = buffer[g]
      BY <1>0, <1>5, <2>2, <2>5
    <3> QED BY <2>3, <2>5, <3>1, DueAfter
  <2> QED BY <2>4, <2>5
<1>13. CASE FreeRefused
  <2>1. /\ reset' = reset /\ trying'.at = "no" /\ Advancing /\ trying.at = "refused"
        /\ buffer' = [buffer EXCEPT ![Target] = Release(buffer[Target], Wanted)]
    BY <1>13 DEF FreeRefused, NotTrying
  <2>2. /\ Refused(g)' = 0 /\ HalfReset(g)' = HalfReset(g)
        /\ Refused(g) = IF Target = g THEN Wanted ELSE 0
    BY <2>1, ResetSame DEF Refused
  <2>3. CASE g = Target
    <3>1. ~HalfReset(g) /\ Wanted \in Nat
      BY <1>0, <1>6, <2>1, <2>3, TargetIs, Sizing DEF Within
    <3>2. buffer'[g] = Release(buffer[g], Wanted)
      BY <1>0, <1>5, <2>1, <2>3
    <3>3. buffer'[g].alloc = buffer[g].alloc /\ buffer'[g].freed = buffer[g].freed + Wanted
      BY <1>5, <3>1, <3>2, ReleaseTyped
    <3>4. Due(g)' = Missing(buffer'[g]) - 0 /\ Due(g) = Missing(buffer[g]) - Wanted
      BY <2>2, <2>3, <3>1, DueAfter
    <3> QED BY <1>5, <3>1, <3>3, <3>4 DEF Missing
  <2>4. CASE g # Target
    <3>1. buffer'[g] = buffer[g]
      BY <1>0, <1>5, <2>1, <2>4
    <3> QED BY <2>2, <2>4, <3>1, DueAfter
  <2> QED BY <2>3, <2>4
<1> QED BY <1>8, <1>9, <1>10, <1>11, <1>12, <1>13 DEF Aside

\* FreePosted gives back the space of what has arrived.
LEMMA FreeSpaces == ASSUME Control, Typed, Typed', Watched, Spaces, FreePosted PROVE Spaces'
<1>0. Kept /\ Kept'
  BY DEF Typed
<1>1. PICK p \in Pipelines : Reclaimed(p)
  BY FreePostedIs DEF Control, Rounds
<1>2. taint' = taint /\ active' = active /\ UNCHANGED <<reset, trying>> /\ trying.at = "no"
  <2>1. At("post") /\ UNCHANGED <<taint, active, reset, trying>>
    BY DEF FreePosted, Posting
  <2> QED BY <2>1, NotTryingAt DEF Control
<1> DEFINE s == pipe[p].copying
           t == pipe[p].inflight
           g == ProxyGpu(p[2])
<1>3. p[1] \in ToSet(active) /\ Elsewhere(p)
  BY <1>1 DEF Reclaimed
<1>4. PICK k \in 0..Len(t) : /\ pipe'[p].copying = s /\ pipe'[p].inflight = SubSeq(t, k + 1, Len(t))
                             /\ buffer' = [buffer EXCEPT ![g] = Release(buffer[g], Sum(SubSeq(t, 1, k)))]
  <2>1. PICK k \in 0..Len(t) :
          /\ pipe'[p] = [pending |-> pipe[p].pending, copying |-> s,
                         inflight |-> SubSeq(t, k + 1, Len(t)), arrived |-> 0,
                         assigned |-> pipe[p].assigned]
          /\ buffer' = [buffer EXCEPT ![g] = Release(buffer[g], Sum(SubSeq(t, 1, k)))]
    BY <1>1, Zenon DEF Reclaimed
  <2> HIDE DEF s, t, g
  <2>2. pipe'[p].copying = s /\ pipe'[p].inflight = SubSeq(t, k + 1, Len(t))
    BY <2>1
  <2> QED BY <2>1, <2>2
<1>5. g \in ProxyGpus /\ g \in Gpus /\ buffer[g] \in [alloc : 0..BufferSize, freed : Nat]
  BY <1>0, WhichBuffer, BufferTyped
<1>6. pipe[p] \in PipeRecord
  BY <1>0 DEF Kept
<1>7. t \in Seq(Nat) /\ Copied(s) \in Nat /\ Sum(t) \in Nat
  BY <1>6, WeightIs
<1>8. WeightOf(pipe[p]) = Copied(s) + Sum(t) /\ WeightOf(pipe'[p]) = Copied(s) + Sum(SubSeq(t, k + 1, Len(t)))
  BY <1>4 DEF WeightOf
<1>8a. /\ \A h \in ProxyGpus : h # ProxyGpu(p[2]) => buffer'[h] = buffer[h]
       /\ buffer'[g] = Release(buffer[g], Sum(SubSeq(t, 1, k)))
  BY <1>0, <1>4, <1>5, BufferTyped DEF Kept
<1> HIDE DEF s, t, g
<1>9. /\ Sum(t) = Sum(SubSeq(t, 1, k)) + Sum(SubSeq(t, k + 1, Len(t)))
      /\ Sum(SubSeq(t, 1, k)) \in Nat /\ Sum(SubSeq(t, k + 1, Len(t))) \in Nat
  BY <1>7, SumParts
<1>10. Missing(buffer'[g]) - Missing(buffer[g]) = WeightOf(pipe'[p]) - WeightOf(pipe[p])
  <2>1. /\ Release(buffer[g], Sum(SubSeq(t, 1, k))).alloc = buffer[g].alloc
        /\ Release(buffer[g], Sum(SubSeq(t, 1, k))).freed = buffer[g].freed + Sum(SubSeq(t, 1, k))
    BY <1>5, <1>9, ReleaseTyped
  <2>2. buffer[g].alloc \in Int /\ buffer[g].freed \in Int
    BY <1>5, Sizing
  <2>3. Missing(buffer'[g]) = buffer[g].alloc - (buffer[g].freed + Sum(SubSeq(t, 1, k)))
          /\ Missing(buffer[g]) = buffer[g].alloc - buffer[g].freed
    BY <1>8a, <2>1 DEF Missing
  <2> QED BY <1>7, <1>8, <1>9, <2>2, <2>3
<1>11. \A h : Refused(h) = 0 /\ Refused(h)' = 0 /\ HalfReset(h)' = HalfReset(h)
  BY <1>2, ResetSame DEF Refused
<1>12. ASSUME NEW h \in ProxyGpus, h # ProxyGpu(p[2]) PROVE Due(h)' = Due(h)
  BY <1>8a, <1>11, <1>12, DueAfter
<1>13. ASSUME Clean PROVE Due(g)' = Due(g) + WeightOf(pipe'[p]) - WeightOf(pipe[p])
  <2>1. CASE ~HalfReset(g)
    <3>1. Due(g) = Missing(buffer[g]) - 0 /\ Due(g)' = Missing(buffer'[g]) - 0
      BY <1>11, <2>1, DueAfter
    <3>2. Missing(buffer[g]) \in Int /\ WeightOf(pipe[p]) \in Int /\ WeightOf(pipe'[p]) \in Int
      <4>1. buffer[g].alloc \in Int /\ buffer[g].freed \in Int
        BY <1>5, Sizing
      <4> QED BY <1>7, <1>8, <1>9, <4>1 DEF Missing
    <3>3. Missing(buffer'[g]) \in Int
      <4>1. buffer'[g] \in [alloc : 0..BufferSize, freed : Nat]
        BY <1>0, <1>5 DEF Kept
      <4> QED BY <4>1, Sizing DEF Missing
    <3> QED BY <1>10, <3>1, <3>2, <3>3
  <2>2. CASE HalfReset(g)
    <3> DEFINE f == Weigh(pipe)
               R == Transfers \X On(g)
    <3>1. Due(g) = 0 /\ Due(g)' = 0
      BY <1>11, <2>2, DueAfter
    <3>2. Total(f, R) = 0
      BY <1>5, <1>13, <3>1 DEF Spaces, Balance
    <3>3. IsFiniteSet(R) /\ \A q \in R : f[q] \in Nat /\ f[q] = WeightOf(pipe[q])
      <4>1. Transfers \in SUBSET Transfers /\ (\A q \in Pipelines : pipe[q] \in PipeRecord)
        BY <1>0 DEF Kept
      <4> QED BY <4>1, WeightsTyped
    <3>4. p \in R
      BY WhichBuffer DEF g
    <3> HIDE DEF f, R
    <3>5. WeightOf(pipe[p]) = 0
      <4>1. f[p] = 0
        BY <3>2, <3>3, <3>4, TotalZero
      <4> QED BY <3>3, <3>4, <4>1
    <3>6. WeightOf(pipe'[p]) = 0
      BY <1>7, <1>8, <1>9, <3>5
    <3> QED BY <3>1, <3>5, <3>6
  <2> QED BY <2>1, <2>2
<1>14. /\ Clean => \A h \in ProxyGpus : h # ProxyGpu(p[2]) => Due(h)' = Due(h)
       /\ Clean => Due(ProxyGpu(p[2]))' = Due(ProxyGpu(p[2])) + WeightOf(pipe'[p]) - WeightOf(pipe[p])
  BY <1>12, <1>13 DEF g
<1> QED BY <1>0, <1>2, <1>3, <1>14, SpacesOne

\* Retire gives back what the transfers it takes away hold, in one sum per buffer.
LEMMA RetireSpaces == ASSUME Control, Typed, Typed', Watched, Spaces, Retire PROVE Spaces'
<1>0. Kept /\ Kept' /\ Working
  BY DEF Typed, Control, Rounds
<1>1. PICK S \in SUBSET Transfers : Retired(S)
  BY RetireIs
<1>2. taint' = taint /\ UNCHANGED <<reset, trying>> /\ trying.at = "no"
  <2>1. At("retire") /\ UNCHANGED <<taint, reset, trying>>
    BY DEF Retire
  <2> QED BY <2>1, NotTryingAt DEF Control
<1>3. /\ S \subseteq ToSet(active) /\ ToSet(active') = ToSet(active) \ S
      /\ buffer' = [g \in Gpus |-> Release(buffer[g], Space(g, S))]
  BY <1>1 DEF Retired
<1>4. ASSUME NEW p \in Pipelines
      PROVE  WeightOf(pipe'[p]) = IF p[1] \in S THEN 0 ELSE WeightOf(pipe[p])
  <2>1. CASE p[1] \in S
    <3>1. pipe'[p].copying = <<>> /\ pipe'[p].inflight = <<>>
      <4>1. pipe'[p] = [pending |-> pipe[p].pending, copying |-> <<>>, inflight |-> <<>>,
                        arrived |-> pipe[p].arrived, assigned |-> pipe[p].assigned]
        BY <1>1, <2>1 DEF Retired
      <4> QED BY <4>1
    <3>2. <<>> \in Seq(CopyRecord) /\ <<>> \in Seq(Nat)
      OBVIOUS
    <3>3. Copied(<<>>) = 0 /\ Sum(<<>>) = 0
      BY <3>2, CopiedParts, SumParts
    <3> QED BY <2>1, <3>1, <3>3 DEF WeightOf
  <2>2. CASE p[1] \notin S
    <3>1. pipe'[p] = pipe[p]
      BY <1>1, <2>2 DEF Retired
    <3> QED BY <2>2, <3>1
  <2> QED BY <2>1, <2>2
<1>5. Spared'
  <2>1. ToSet(active)' = ToSet(active) \ S
    BY <1>3 DEF ToSet
  <2> SUFFICES ASSUME "leak" \notin taint, NEW p \in Pipelines, p[1] \notin ToSet(active) \ S
               PROVE  WeightOf(pipe'[p]) = 0
    BY <1>2, <2>1 DEF Spared
  <2>2. CASE p[1] \in S
    BY <1>4, <2>2
  <2>3. CASE p[1] \notin S
    <3>1. WeightOf(pipe[p]) = 0
      BY <2>3 DEF Spaces, Spared
    <3> QED BY <1>4, <2>3, <3>1
  <2> QED BY <2>2, <2>3
<1>6. ASSUME Clean, NEW g \in ProxyGpus
      PROVE  Due(g)' = Total(Weigh(pipe'), Transfers \X On(g))
  <2> DEFINE f == Weigh(pipe)
             h == Weigh(pipe')
             A == S \X On(g)
             B == (Transfers \ S) \X On(g)
  <2>1. (\A q \in Pipelines : pipe[q] \in PipeRecord) /\ (\A q \in Pipelines : pipe'[q] \in PipeRecord)
    BY <1>0 DEF Kept
  <2>2. /\ IsFiniteSet(A) /\ A \subseteq Pipelines /\ \A q \in A : f[q] \in Nat /\ h[q] \in Nat
        /\ IsFiniteSet(B) /\ B \subseteq Pipelines /\ \A q \in B : f[q] \in Nat /\ h[q] \in Nat
    <3>1. Transfers \ S \in SUBSET Transfers
      OBVIOUS
    <3> QED BY <2>1, <3>1, WeightsTyped
  <2>3. A \cap B = {} /\ A \cup B = Transfers \X On(g)
    OBVIOUS
  <2>4. (\A q \in A : h[q] = 0) /\ (\A q \in B : h[q] = f[q])
    BY <1>4, <2>2 DEF Weigh
  <2>5. Due(g) = Total(f, A \cup B)
    BY <1>6, <2>3 DEF Spaces, Balance
  <2>6. Space(g, S) = Total(f, A)
    BY <1>0, SpaceIs
  <2> HIDE DEF f, h, A, B
  <2>7. \A q \in A \cup B : f[q] \in Nat /\ h[q] \in Nat
    BY <2>2
  <2>8. Total(f, A) \in Nat /\ Total(f, B) \in Nat
    BY <2>2, SumFacts
  <2>9. Total(f, A \cup B) = Total(f, A) + Total(f, B) /\ Total(h, A \cup B) = Total(h, A) + Total(h, B)
    BY <2>2, <2>3, <2>7, TotalSplit
  <2>10. Total(h, A) = 0
    BY <2>2, <2>4, TotalZero
  <2>11. Total(h, B) = Total(f, B)
    BY <2>2, <2>4, TotalSame
  <2>12. Missing(buffer'[g]) = Missing(buffer[g]) - Total(f, A) /\ Missing(buffer[g]) \in Int
    <3>1. g \in Gpus /\ buffer[g] \in [alloc : 0..BufferSize, freed : Nat]
      BY <1>0, BufferTyped
    <3>2. buffer'[g] = Release(buffer[g], Total(f, A))
      BY <1>3, <2>6, <3>1
    <3>3. buffer'[g].alloc = buffer[g].alloc /\ buffer'[g].freed = buffer[g].freed + Total(f, A)
      BY <2>8, <3>1, <3>2, ReleaseTyped
    <3>4. buffer[g].alloc \in Int /\ buffer[g].freed \in Int
      BY <3>1, Sizing
    <3> QED BY <2>8, <3>3, <3>4 DEF Missing
  <2>13. Due(g)' = Total(h, A \cup B)
    <3>1. Refused(g) = 0 /\ Refused(g)' = 0 /\ HalfReset(g)' = HalfReset(g)
      BY <1>2, ResetSame DEF Refused
    <3>2. CASE HalfReset(g)
      <4>1. Due(g) = 0 /\ Due(g)' = 0
        BY <3>1, <3>2, DueAfter
      <4> QED BY <2>5, <2>8, <2>9, <2>10, <2>11, <4>1
    <3>3. CASE ~HalfReset(g)
      <4>1. Due(g) = Missing(buffer[g]) - 0 /\ Due(g)' = Missing(buffer'[g]) - 0
        BY <3>1, <3>3, DueAfter
      <4> QED BY <2>5, <2>8, <2>9, <2>10, <2>11, <2>12, <4>1
    <3> QED BY <3>2, <3>3
  <2> QED BY <2>3, <2>13 DEF h
<1>7. Balance'
  BY <1>2, <1>6 DEF Balance, Clean
<1> QED BY <1>5, <1>7 DEF Spaces

\* Every step keeps the accounts.
LEMMA StepSpaces == ASSUME Control, Typed, Typed', Watched, Spaces, [Next]_vars PROVE Spaces'
<1>0. Kept /\ Kept' /\ Working /\ taint \subseteq taint'
  BY TaintStays DEF Typed, Control, Rounds
<1>1. ASSUME UNCHANGED <<buffer, reset, trying>>, trying.at = "no" \/ UNCHANGED <<tasks, pipe>>,
             ToSet(active) \subseteq ToSet(active)', \A p \in Pipelines : WeightOf(pipe'[p]) = WeightOf(pipe[p])
      PROVE  Spaces'
  <2>1. \A g \in ProxyGpus : Due(g)' = Due(g)
    BY <1>1, DueStill
  <2> QED BY <1>0, <1>1, <2>1, SpacesStill
<1>2. ASSUME UNCHANGED <<pipe, buffer, reset, trying>>, trying.at = "no" \/ tasks' = tasks,
             ToSet(active) \subseteq ToSet(active)'
      PROVE  Spaces'
  BY <1>1, <1>2
<1>a. /\ At("dispatch") \/ At("poll") \/ At("assign") \/ At("post") => trying.at = "no"
      /\ ~Advancing => trying.at = "no"
  BY NotTryingAt DEF Control, Trial
<1>3. active' = active => ToSet(active) \subseteq ToSet(active)'
  BY DEF ToSet
<1>4. CASE \E t \in Transfers : Start(t)
  <2>1. /\ UNCHANGED <<pipe, buffer, trying, tasks, active>> /\ reset.half = 0 /\ reset'.half = 0
    BY <1>4 DEF Start, worker, NoReset
  <2>2. ToSet(active)' = ToSet(active)
    BY <2>1 DEF ToSet
  <2>3. ASSUME NEW g \in ProxyGpus PROVE Due(g)' = Due(g)
    <3>1. ~HalfReset(g) /\ ~HalfReset(g)' /\ Refused(g)' = Refused(g)
      BY <2>1, RefusedSame DEF HalfReset
    <3> QED BY <2>1, <3>1, DueAfter
  <2> QED BY <1>0, <2>1, <2>2, <2>3, SpacesStill
<1>5. CASE Begin
  <2>1. \E k \in Nat : active' = active \o SubSeq(queue, 1, k)
    <3> DEFINE free == IF Len(active) < MaxActivePxn THEN MaxActivePxn - Len(active) ELSE 0
               k == Min({free, Len(queue)})
    <3>1. active' = active \o SubSeq(queue, 1, k)
      BY <1>5 DEF Begin
    <3>2. Len(active) \in Nat /\ Len(queue) \in Nat
      BY <1>0 DEF Working
    <3>3. free \in Nat
      BY <3>2, Sizing
    <3> HIDE DEF free
    <3>4. k \in Nat
      <4>0. free \in Int /\ Len(queue) \in Int
        BY <3>2, <3>3
      <4>1. Min({free, Len(queue)}) \in {free, Len(queue)}
        BY <4>0, MinOfTwo, Zenon
      <4> QED BY <3>2, <3>3, <4>1
    <3> QED BY <3>1, <3>4
  <2>2. PICK k \in Nat : active' = active \o SubSeq(queue, 1, k)
    BY <2>1
  <2>3. ToSet(active) \subseteq ToSet(active)'
    <3>1. active \in Seq(Transfers) /\ active' \in Seq(Transfers)
      BY <1>0, <1>5, BeginControls DEF Control, Rounds, Working
    <3> DEFINE r == SubSeq(queue, 1, k)
    <3>2. ASSUME NEW i \in 1..Len(active) PROVE i \in 1..Len(active') /\ active'[i] = active[i]
      BY <2>2, <3>1
    <3>3. ToSet(active) = {active[i] : i \in 1..Len(active)} /\ ToSet(active') = {active'[i] : i \in 1..Len(active')}
      BY <3>1, SeqSet
    <3>4. ToSet(active)' = ToSet(active')
      BY DEF ToSet
    <3> QED BY <3>2, <3>3, <3>4
  <2>4. UNCHANGED <<pipe, buffer, reset, trying>> /\ tasks = <<>>
    BY <1>5 DEF Begin, allocator
  <2>5. ~Advancing
    BY <2>4 DEF Advancing, At
  <2> QED BY <1>2, <1>a, <2>3, <2>4, <2>5
<1>6. CASE Dispatch
  <2>1. \A p \in Pipelines : WeightOf(pipe'[p]) = WeightOf(pipe[p])
    BY <1>6, DispatchIs, WeightSteps
  <2>2. At("dispatch") /\ UNCHANGED <<active, buffer, reset, trying>>
    BY <1>6 DEF Dispatch, allocator
  <2> QED BY <1>1, <1>3, <1>a, <2>1, <2>2
<1>7. CASE AdvanceCopy \/ Aside
  BY <1>7, AdvanceSpaces, AsideSpaces
<1>8. CASE AdvanceEnds \/ AssignDirect \/ AssignEnds \/ PostEnds \/ PostFails
  <2>1. /\ UNCHANGED <<active, pipe, buffer, reset, trying>>
        /\ At("assign") \/ At("post") \/ ~Advancing
    BY <1>8 DEF AdvanceEnds, AssignDirect, AssignEnds, PostEnds, PostFails, CanAssign, CanPost, Posting, allocator
  <2> QED BY <1>2, <1>3, <1>a, <2>1
<1>9. CASE AssignProxy
  <2>1. PICK p \in Pipelines : Pended(p)
    BY <1>9, AssignProxyIs DEF Control, Rounds
  <2>2. \A q \in Pipelines : WeightOf(pipe'[q]) = WeightOf(pipe[q])
    BY <2>1, WeightSteps, WeightElsewhere DEF Pended
  <2>3. At("assign") /\ UNCHANGED <<active, buffer, reset, trying>>
    BY <1>9 DEF AssignProxy, CanAssign, allocator
  <2> QED BY <1>1, <1>3, <1>a, <2>2, <2>3
<1>10. CASE FreePosted
  BY <1>10, FreeSpaces
<1>11. CASE PostProxy
  <2>1. PICK p \in Pipelines, e \in CopyRecord, w \in WireRecord : Posted(p, e, w)
    BY <1>11, PostProxyIs DEF Control, Rounds
  <2>2. WeightOf(pipe'[p]) = WeightOf(pipe[p]) /\ Elsewhere(p)
    BY <2>1, WeightSteps DEF Posted
  <2>3. \A q \in Pipelines : WeightOf(pipe'[q]) = WeightOf(pipe[q])
    BY <2>2, WeightElsewhere
  <2>4. At("post") /\ UNCHANGED <<active, buffer, reset, trying>>
    BY <1>11 DEF PostProxy, CanPost, Posting, allocator
  <2> QED BY <1>1, <1>3, <1>a, <2>3, <2>4
<1>12. CASE Poll
  <2>1. \A p \in Pipelines : WeightOf(pipe'[p]) = WeightOf(pipe[p])
    BY <1>12, PollIs, WeightSteps
  <2>2. At("poll") /\ UNCHANGED <<active, buffer, reset, trying>>
    BY <1>12 DEF Poll, allocator
  <2> QED BY <1>1, <1>3, <1>a, <2>1, <2>2
<1>13. CASE Retire
  BY <1>13, RetireSpaces
<1>14. CASE PollFails
  BY <1>14 DEF PollFails, Spaces, Spared, Balance, Clean
<1>15. CASE CopyThread \/ LaunchFails \/ Gpu \/ Nic \/ NicFails
  <2>1. UNCHANGED <<active, tasks, pipe, buffer, reset, trying>>
    BY <1>15 DEF CopyThread, Launch, DrainRecycled, PushResult, LaunchFails, Gpu, Nic, NicFails, FinishCopy, Complete,
                 Client, worker, allocator
  <2> QED BY <1>2, <1>3, <2>1
<1>16. CASE UNCHANGED vars
  BY <1>2, <1>3, <1>16 DEF vars
<1> QED BY <1>4, <1>5, <1>6, <1>7, <1>8, <1>9, <1>10, <1>11, <1>12, <1>13, <1>14, <1>15, <1>16 DEF Next, Worker, Aside

\* In the beginning nothing is held and nothing is missing.
LEMMA InitSpaces == Init => Spaces
<1> SUFFICES ASSUME Init PROVE Spaces
  OBVIOUS
<1>1. pipe = [p \in Pipelines |-> EmptyPipe] /\ buffer = [g \in Gpus |-> EmptyBuffer]
  BY DEF Init
<1>2. Kept
  BY InitTyped DEF Typed
<1>3. ASSUME NEW p \in Pipelines PROVE WeightOf(pipe[p]) = 0
  <2>1. pipe[p].copying = <<>> /\ pipe[p].inflight = <<>> /\ <<>> \in Seq(CopyRecord) /\ <<>> \in Seq(Nat)
    BY <1>1 DEF EmptyPipe
  <2>2. Copied(<<>>) = 0 /\ Sum(<<>>) = 0
    BY <2>1, CopiedParts, SumParts
  <2> QED BY <2>1, <2>2 DEF WeightOf
<1>4. ASSUME NEW g \in ProxyGpus PROVE Due(g) = Total(Weigh(pipe), Transfers \X On(g))
  <2> DEFINE f == Weigh(pipe)
             R == Transfers \X On(g)
  <2>1. \A p \in Pipelines : pipe[p] \in PipeRecord
    BY <1>2 DEF Kept
  <2>2. IsFiniteSet(R) /\ \A p \in R : f[p] \in Nat /\ f[p] = 0
    <3>1. R \subseteq Pipelines /\ IsFiniteSet(R) /\ \A p \in R : f[p] \in Nat /\ f[p] = WeightOf(pipe[p])
      BY <2>1, WeightsTyped
    <3> QED BY <1>3, <3>1
  <2> HIDE DEF f, R
  <2>3. Total(f, R) = 0
    BY <2>2, TotalZero
  <2>4. buffer[g] = EmptyBuffer
    BY <1>1, <1>2, BufferTyped
  <2>5. Refused(g) = 0
    BY DEF Init, NotTrying, Refused
  <2>6. Due(g) = 0
    BY <2>4, <2>5 DEF Due, Missing, EmptyBuffer
  <2> QED BY <2>3, <2>6 DEF f, R
<1> QED BY <1>3, <1>4 DEF Spaces, Spared, Balance

\* Every behaviour has them.
LEMMA SpacesAlways == Spec => [](Chunked /\ Watched /\ Spaces)
<1>1. Chunked /\ Watched /\ Spaces /\ [Next]_vars => (Chunked /\ Watched /\ Spaces)'
  <2> SUFFICES ASSUME Chunked, Watched, Spaces, [Next]_vars PROVE Chunked' /\ Watched' /\ Spaces'
    OBVIOUS
  <2>1. Chunked'
    BY StepChunked
  <2>2. Control /\ Typed /\ Typed'
    BY <2>1 DEF Chunked
  <2> QED BY <2>1, <2>2, StepWatched, StepSpaces
<1>2. Init => Watched
  BY DEF Init, NoReset, NotTrying, Watched, HalfReset, Within
<1> QED BY <1>1, <1>2, InitChunked, InitSpaces, PTL DEF Spec

\* What is missing of a buffer is what the pipelines hold of it and what tryAlloc gave for a
\* refused request, always, as long as no reset meets chunks or tryAlloc.
THEOREM SpaceAlways == Spec => []SpaceAccounted
<1>1. Chunked /\ Spaces => SpaceAccounted
  <2> SUFFICES ASSUME Chunked, Spaces, taint \cap {"reset", "leak"} = {}, NEW g \in ProxyGpus, ~HalfReset(g)
               PROVE  buffer[g].alloc - buffer[g].freed = Space(g, ToSet(active)) + Refused(g)
    BY DEF SpaceAccounted
  <2>1. Kept /\ Working /\ Trial /\ Spared /\ "leak" \notin taint /\ Clean
    BY DEF Chunked, Control, Rounds, Typed, Spaces, Clean
  <2>2. Space(g, ToSet(active)) = Total(Weigh(pipe), Transfers \X On(g)) /\ Space(g, ToSet(active)) \in Nat
    BY <2>1, SpaceOfActive
  <2>3. Missing(buffer[g]) - Refused(g) = Space(g, ToSet(active))
    <3>1. Due(g) = Missing(buffer[g]) - Refused(g)
      BY DueAfter
    <3> QED BY <2>1, <2>2, <3>1 DEF Spaces, Balance
  <2>4. Missing(buffer[g]) \in Int
    BY <2>1, BufferTyped
  <2>5. Refused(g) \in Int
    <3>1. CASE trying.at = "refused" /\ Target = g
      <4>1. Wanted \in Int
        BY <2>1, <3>1, TargetIs, Sizing DEF Trial
      <4> QED BY <3>1, <4>1 DEF Refused
    <3>2. CASE ~(trying.at = "refused" /\ Target = g)
      BY <3>2 DEF Refused
    <3> QED BY <3>1, <3>2
  <2>6. Missing(buffer[g]) = Space(g, ToSet(active)) + Refused(g)
    BY <2>2, <2>3, <2>4, <2>5
  <2> QED BY <2>6 DEF Missing
<1> QED BY <1>1, SpacesAlways, PTL
-----------------------------------------------------------------------------
(* Ranges of the buffers.                                                   *)

\* The range of chunk c in the buffer that NIC n reads, at addr.
Cells(c, n, addr) == <<c, ProxyGpu(n), addr, addr + LenOf(c) - 1>>

\* What is in use: the ranges of the work requests on proxy NICs and of the copies, before and
\* after a step.
LEMMA InUseIs ==
    /\ \A a : a \in InUse <=>
          \/ \E w \in wire : w.nic \in ProxyNics /\ a = Cells(w.chunk, w.nic, w.addr)
          \/ \E p \in Pipelines : \E e \in ToSet(pipe[p].copying) : a = Cells(e.chunk, p[2], e.addr)
    /\ \A a : a \in InUse' <=>
          \/ \E w \in wire' : w.nic \in ProxyNics /\ a = Cells(w.chunk, w.nic, w.addr)
          \/ \E p \in Pipelines : \E e \in ToSet(pipe'[p].copying) : a = Cells(e.chunk, p[2], e.addr)
<1>1. ASSUME NEW a
      PROVE  a \in InUse <=>
               \/ \E w \in wire : w.nic \in ProxyNics /\ a = Cells(w.chunk, w.nic, w.addr)
               \/ \E p \in Pipelines : \E e \in ToSet(pipe[p].copying) : a = Cells(e.chunk, p[2], e.addr)
  BY DEF InUse, Cells
<1>2. ASSUME NEW a
      PROVE  a \in InUse' <=>
               \/ \E w \in wire' : w.nic \in ProxyNics /\ a = Cells(w.chunk, w.nic, w.addr)
               \/ \E p \in Pipelines : \E e \in ToSet(pipe'[p].copying) : a = Cells(e.chunk, p[2], e.addr)
  BY DEF InUse, Cells
<1> QED BY <1>1, <1>2

\* A range in use is one of a chunk, in a proxy buffer.
LEMMA InUseTyped ==
    ASSUME Typed
    PROVE  \A a \in InUse : /\ a[1] \in Chunks /\ a[2] \in ProxyGpus /\ a[2] \in Gpus
                            /\ a[3] \in Int /\ a[4] \in Int
<1>1. ASSUME NEW c \in Chunks, NEW n \in ProxyNics, NEW addr \in Int, NEW a, a = Cells(c, n, addr)
      PROVE  a[1] \in Chunks /\ a[2] \in ProxyGpus /\ a[2] \in Gpus /\ a[3] \in Int /\ a[4] \in Int
  <2>1. ProxyGpu(n) \in ProxyGpus /\ ProxyGpu(n) \in Gpus
    BY ProxyGpuTyped DEF ProxyGpus
  <2>2. LenOf(c) \in Nat
    BY LenTyped
  <2> QED BY <1>1, <2>1, <2>2 DEF Cells
<1>2. ASSUME NEW w \in wire PROVE w.chunk \in Chunks /\ w.addr \in Int
  BY Sizing DEF Typed, Hardware, WireRecord
<1>3. ASSUME NEW p \in Pipelines, NEW e \in ToSet(pipe[p].copying)
      PROVE  e.chunk \in Chunks /\ e.addr \in Int /\ p[2] \in ProxyNics
  <2>1. e \in CopyRecord
    BY PipeParts, SeqSet DEF Typed
  <2> QED BY <2>1, Sizing DEF CopyRecord, Pipelines
<1> QED BY <1>1, <1>2, <1>3, InUseIs

-----------------------------------------------------------------------------
(* What has ended has completed, unless something has failed.               *)

\* A transfer that has ended has completed all its chunks.
Ended == taint = {} => \A t \in Transfers : Finished(t) => completed[t] >= Len(Lens[t])

\* A step that ends no transfer.
LEMMA EndedStill ==
    ASSUME Kept, Ended, taint \subseteq taint',
           taint' = {} => \A t \in Transfers : /\ completed'[t] \in Nat /\ completed'[t] >= completed[t]
                                               /\ Finished(t)' => Finished(t) \/ completed[t] >= Len(Lens[t])
    PROVE  Ended'
<1> SUFFICES ASSUME taint' = {}, NEW t \in Transfers, Finished(t)' PROVE completed'[t] >= Len(Lens[t])
  BY DEF Ended
<1>1. taint = {}
  OBVIOUS
<1>2. completed[t] \in Nat /\ completed'[t] \in Nat /\ completed'[t] >= completed[t] /\ Len(Lens[t]) \in Nat
  BY ChunkTyped DEF Kept
<1>3. completed[t] >= Len(Lens[t])
  BY <1>1 DEF Ended
<1> QED BY <1>2, <1>3

\* No step ends a transfer that has not completed, but for failures.
LEMMA StepEnded == ASSUME Control, Typed, Typed', Ended, [Next]_vars PROVE Ended'
<1>0. Kept /\ taint \subseteq taint' /\ \A t \in Transfers : completed[t] \in Nat /\ completed'[t] \in Nat
  BY TaintStays DEF Typed, Kept
<1>1. ASSUME completed' = completed, taint' = {} => \A t \in Transfers : Finished(t)' => Finished(t) PROVE Ended'
  BY <1>0, <1>1, EndedStill
<1>2. CASE \E t \in Transfers : Start(t)
  <2>1. completed' = completed /\ \A t \in Transfers : Finished(t)' => Finished(t)
    <3>1. PICK t \in Transfers : Start(t)
      BY <1>2
    <3>2. status' = [status EXCEPT ![t] = "queued"] /\ completed' = completed
      BY <3>1 DEF Start
    <3>3. status \in [Transfers -> Statuses]
      BY DEF Control, Rounds, Working
    <3> QED BY <3>2, <3>3 DEF Finished
  <2> QED BY <1>1, <2>1
<1>3. CASE Begin
  <2>1. \E S : status' = [t \in Transfers |-> IF t \in S THEN "active" ELSE status[t]]
    BY <1>3 DEF Begin
  <2>2. \A t \in Transfers : Finished(t)' => Finished(t)
    BY <2>1 DEF Finished
  <2>3. completed' = completed
    BY <1>3 DEF Begin
  <2> QED BY <1>1, <2>2, <2>3
<1>4. CASE Dispatch
  <2>1. taint' = {} => \A t \in Transfers : Finished(t)' => Finished(t)
    <3> SUFFICES ASSUME taint' = {}, NEW t \in Transfers, Finished(t)' PROVE Finished(t)
      OBVIOUS
    <3>2. Fail({})
      <4> DEFINE R == {r \in ToSet(results) : ~r.ok /\ Awaiting(r) # {}}
                 F == UNION {{p[1] : p \in Awaiting(r)} : r \in R}
      <4>1. Fail(F) /\ taint' = IF R = {} THEN taint ELSE taint \cup {"failed"}
        BY <1>4 DEF Dispatch
      <4>2. R = {}
        <5> HIDE DEF R
        <5> QED BY <4>1
      <4>3. F = {}
        BY <4>2
      <4> HIDE DEF F
      <4> QED BY <4>1, <4>3
    <3> QED BY <3>2 DEF Fail, Finished
  <2>2. completed' = completed
    BY <1>4 DEF Dispatch, ClientSide
  <2> QED BY <1>1, <2>1, <2>2
<1>5. CASE Poll
  <2>1. Polled
    BY <1>5, PollIs
  <2>2. ASSUME taint' = {}, NEW t \in Transfers
        PROVE  completed'[t] \in Nat /\ completed'[t] >= completed[t] /\ (Finished(t)' => Finished(t))
    <3>1. completed'[t] = completed[t] + Cardinality({w \in cq : w.ok /\ w.chunk[1] = t})
      BY <2>1 DEF Polled
    <3>2. Cardinality({w \in cq : w.ok /\ w.chunk[1] = t}) \in Nat
      <4>1. {w \in cq : w.ok /\ w.chunk[1] = t} \subseteq cq
        OBVIOUS
      <4> QED BY <4>1, CqFinite DEF Typed
    <3>3. Fail({w.chunk[1] : w \in {w \in cq : ~w.ok}}) /\ \A w \in cq : w.ok
      BY <2>1, <2>2 DEF Polled
    <3>4. Finished(t)' => Finished(t)
      BY <3>3 DEF Fail, Finished
    <3>5. completed'[t] \in Nat /\ completed'[t] >= completed[t]
      BY <1>0, <3>1, <3>2
    <3> QED BY <3>4, <3>5
  <2> QED BY <1>0, <2>2, EndedStill
<1>6. CASE PostFails \/ PollFails
  BY <1>6 DEF PostFails, PollFails, Ended
<1>7. CASE Retire
  <2>1. PICK S \in SUBSET Transfers : Retired(S)
    BY <1>7, RetireIs
  <2>2. completed' = completed
    BY <1>7 DEF Retire, ClientSide
  <2>3. \A t \in Transfers : Finished(t)' => Finished(t) \/ completed[t] >= Len(Lens[t])
    BY <2>1 DEF Retired, Finished
  <2>4. \A t \in Transfers : completed'[t] \in Nat /\ completed'[t] >= completed[t]
    BY <1>0, <2>2
  <2> QED BY <1>0, <2>3, <2>4, EndedStill
<1>8. CASE UNCHANGED <<status, completed>>
  BY <1>1, <1>8 DEF Finished
<1>9. CASE Aside
  BY <1>8, <1>9, AsideStays
<1> QED BY <1>2, <1>3, <1>4, <1>5, <1>6, <1>7, <1>8, <1>9 DEF Next, Worker, Aside, vars, AdvanceCopy, AdvanceEnds,
             AssignDirect, AssignProxy, AssignEnds, FreePosted, PostProxy, PostEnds, CopyThread, Launch,
             DrainRecycled, PushResult, LaunchFails, Gpu, Nic, NicFails, FinishCopy, Complete, Client, ClientSide

\* What is in a place is a chunk of a transfer that has not ended.
LEMMA EndedIsGone ==
    ASSUME Chunked, Ended, taint = {}, NEW a \in Spots
    PROVE  a[1][1] \in Transfers /\ ~Finished(a[1][1])
<1> DEFINE t == a[1][1]
           n == Len(Lens[t])
<1>1. a[1] \in Chunks /\ t \in Transfers /\ a[1][2] \in 1..n /\ n \in Nat /\ a[1] = <<t, a[1][2]>>
  BY SpotTyped, ChunkTyped DEF Chunked
<1>2. ASSUME Finished(t) PROVE FALSE
  <2>1. completed[t] >= n /\ completed[t] <= Cardinality(Gone(t)) /\ completed[t] \in Nat
    BY <1>1, <1>2 DEF Ended, Chunked, Counted, Typed, Kept
  <2>2. /\ Cardinality(Gone(t)) \in Nat /\ Cardinality(Gone(t)) <= n
        /\ Cardinality(Gone(t)) = n => Gone(t) = 1..n
    BY <1>1, GoneIs DEF Chunked
  <2> HIDE DEF n
  <2>3. Gone(t) = 1..n
    BY <1>1, <2>1, <2>2
  <2>4. a[1][2] \in Gone(t)
    BY <1>1, <2>3
  <2> QED BY <1>1, <2>4 DEF Gone
<1> QED BY <1>1, <1>2
-----------------------------------------------------------------------------
(* What is posted and not freed: the lengths that wait for a completion.    *)

\* All lengths are positive.
Positive(s) == \A i \in 1..Len(s) : s[i] > 0

\* How many lengths a pipeline keeps more than it is charged for and has to free.
Surplus(r) == Len(r.inflight) + Held(r) - r.assigned - r.arrived
\* None more, until its transfer ends: FreePosted frees one length per completion.
Drawn ==
    \A p \in Pipelines : Positive(pipe[p].inflight) /\ (~Finished(p[1]) => Surplus(pipe[p]) = 0)

\* The numbers in it.
LEMMA SurplusParts ==
    ASSUME Typed, NEW p \in Pipelines
    PROVE  /\ Len(pipe[p].inflight) \in Nat /\ Held(pipe[p]) \in Nat /\ pipe[p].assigned \in Int
           /\ pipe[p].arrived \in Nat
<1>1. pipe[p].inflight \in Seq(Nat) /\ pipe[p].assigned \in Int /\ pipe[p].arrived \in Nat
  BY PipeParts DEF Typed
<1>2. Held(pipe[p]) \in Nat
  BY HeldNat
<1> QED BY <1>1, <1>2

\* What is left of positive numbers is positive.
LEMMA PositiveSteps ==
    ASSUME NEW s \in Seq(Nat), Positive(s)
    PROVE  /\ \A l \in Nat : l > 0 => Positive(Append(s, l))
           /\ \A k \in 0..Len(s) : Positive(SubSeq(s, k + 1, Len(s))) /\ Len(SubSeq(s, k + 1, Len(s))) = Len(s) - k
<1>0. Len(s) \in Nat
  OBVIOUS
<1>1. ASSUME NEW l \in Nat, l > 0 PROVE Positive(Append(s, l))
  <2> DEFINE r == Append(s, l)
  <2>1. Len(r) = Len(s) + 1 /\ (\A i \in 1..Len(s) : r[i] = s[i]) /\ r[Len(s) + 1] = l
    OBVIOUS
  <2> HIDE DEF r
  <2>2. ASSUME NEW i \in 1..Len(r) PROVE r[i] > 0
    <3>1. i \in 1..Len(s) \/ i = Len(s) + 1
      BY <1>0, <2>1
    <3> QED BY <1>1, <2>1, <3>1 DEF Positive
  <2> QED BY <2>2 DEF Positive, r
<1>2. ASSUME NEW k \in 0..Len(s)
      PROVE  Positive(SubSeq(s, k + 1, Len(s))) /\ Len(SubSeq(s, k + 1, Len(s))) = Len(s) - k
  <2> DEFINE r == SubSeq(s, k + 1, Len(s))
  <2>1. Len(r) = Len(s) - k /\ \A i \in 1..Len(r) : r[i] = s[k + i]
    BY <1>0
  <2> HIDE DEF r
  <2>2. ASSUME NEW i \in 1..Len(r) PROVE r[i] > 0
    <3>1. k + i \in 1..Len(s)
      BY <1>0, <2>1
    <3> QED BY <2>1, <3>1 DEF Positive
  <2> QED BY <2>1, <2>2 DEF Positive, r
<1> QED BY <1>1, <1>2

\* What the steps of the worker make of it.
LEMMA SurplusSteps ==
    ASSUME Typed, Typed', Loads, Drawn, NEW p \in Pipelines
    PROVE  /\ \A e \in CopyRecord : Advanced(p, e) =>
                 Positive(pipe'[p].inflight) /\ Surplus(pipe'[p]) = Surplus(pipe[p])
           /\ Pended(p) => Positive(pipe'[p].inflight) /\ Surplus(pipe'[p]) = Surplus(pipe[p])
           /\ Reclaimed(p) => /\ Positive(pipe'[p].inflight)
                              /\ ~Finished(p[1]) => Surplus(pipe'[p]) = Surplus(pipe[p])
           /\ \A e \in CopyRecord, w \in WireRecord : Posted(p, e, w) =>
                 Positive(pipe'[p].inflight) /\ Surplus(pipe'[p]) = Surplus(pipe[p])
           /\ Polled \/ Dispatched => Positive(pipe'[p].inflight) /\ Surplus(pipe'[p]) = Surplus(pipe[p])
<1> DEFINE t == pipe[p].inflight
           u == pipe'[p].inflight
           h == Held(pipe[p])
           k == Held(pipe'[p])
           a == pipe[p].assigned
           b == pipe'[p].assigned
           x == pipe[p].arrived
           y == pipe'[p].arrived
<1>0. /\ t \in Seq(Nat) /\ Len(t) \in Nat /\ h \in Nat /\ a \in Int /\ x \in Nat /\ Positive(t)
      /\ Len(u) \in Nat /\ k \in Nat /\ b \in Int /\ y \in Nat
  <2>1. pipe'[p] \in PipeRecord
    BY DEF Typed, Kept
  <2>2. Len(u) \in Nat /\ y \in Nat
    BY <2>1 DEF PipeRecord
  <2>3. k \in Nat /\ b \in Int
    BY UsedAfter
  <2>4. t \in Seq(Nat) /\ Positive(t)
    BY PipeParts DEF Typed, Drawn
  <2> QED BY <2>2, <2>3, <2>4, SurplusParts
<1>00. Surplus(pipe[p]) = Len(t) + h - a - x /\ Surplus(pipe'[p]) = Len(u) + k - b - y
  BY DEF Surplus
<1>1. ASSUME NEW e \in CopyRecord, Advanced(p, e) PROVE Positive(u) /\ Surplus(pipe'[p]) = Surplus(pipe[p])
  <2>1. u = t /\ y = x
    BY <1>1 DEF Advanced
  <2>2. b = a /\ k = h
    BY <1>1, HeldSteps
  <2> QED BY <1>0, <1>00, <2>1, <2>2, Zenon
<1>2. ASSUME Pended(p) PROVE Positive(u) /\ Surplus(pipe'[p]) = Surplus(pipe[p])
  <2>1. u = t /\ y = x
    BY <1>2 DEF Pended
  <2>2. b = a + 1 /\ k = h + 1
    BY <1>2, HeldSteps
  <2> HIDE DEF t, u, h, k, a, b, x, y
  <2>3. Len(t) + k - b - x = Len(t) + h - a - x
    BY <1>0, <2>2
  <2> QED BY <1>0, <1>00, <2>1, <2>3, Zenon
<1>3. ASSUME Reclaimed(p) PROVE Positive(u) /\ (~Finished(p[1]) => Surplus(pipe'[p]) = Surplus(pipe[p]))
  <2>1. PICK j \in 0..Len(t) : /\ x <= Len(t) => j = x
                               /\ u = SubSeq(t, j + 1, Len(t)) /\ y = 0
    <3>1. PICK j \in 0..Len(t) :
             /\ x <= Len(t) => j = x
             /\ pipe'[p] = [pending |-> pipe[p].pending, copying |-> pipe[p].copying,
                            inflight |-> SubSeq(t, j + 1, Len(t)), arrived |-> 0,
                            assigned |-> pipe[p].assigned]
      BY <1>3, Zenon DEF Reclaimed
    <3> HIDE DEF t, x
    <3>2. u = SubSeq(t, j + 1, Len(t)) /\ y = 0
      BY <3>1
    <3> QED BY <3>1, <3>2
  <2>2. b = a /\ k = h
    BY <1>3, HeldSteps
  <2>3. ~Finished(p[1]) => a >= h
    <3>1. ~Finished(p[1]) => a = Used(p)
      BY DEF Loads
    <3>2. Used(p) = h + Cardinality(Of(wire, p)) + Cardinality(Of(cq, p))
      BY HeldNat
    <3>3. Cardinality(Of(wire, p)) \in Nat /\ Cardinality(Of(cq, p)) \in Nat
      BY LoadNat
    <3> HIDE DEF a, h
    <3> QED BY <1>0, <3>1, <3>2, <3>3
  <2>4. ~Finished(p[1]) => Len(t) + h - a - x = 0
    BY <1>00 DEF Drawn
  <2> HIDE DEF t, u, h, k, a, b, x, y
  <2>5. Positive(u) /\ Len(u) = Len(t) - j
    BY <1>0, <2>1, PositiveSteps
  <2>6. ASSUME ~Finished(p[1]) PROVE Len(u) + k - b - y = Len(t) + h - a - x
    <3>1. x <= Len(t)
      BY <1>0, <2>3, <2>4, <2>6
    <3> QED BY <1>0, <2>1, <2>2, <2>5, <3>1
  <2> QED BY <1>00, <2>5, <2>6, Zenon
<1>4. ASSUME NEW e \in CopyRecord, NEW w \in WireRecord, Posted(p, e, w)
      PROVE  Positive(u) /\ Surplus(pipe'[p]) = Surplus(pipe[p])
  <2> DEFINE l == LenOf(e.chunk)
  <2>1. u = Append(t, l) /\ y = x
    BY <1>4 DEF Posted
  <2>2. b = a /\ k = h - 1
    BY <1>4, HeldSteps
  <2>3. l \in Nat /\ l > 0
    BY LenTyped DEF CopyRecord
  <2> HIDE DEF t, u, h, k, a, b, x, y, l
  <2>4. Positive(u) /\ Len(u) = Len(t) + 1
    BY <1>0, <2>1, <2>3, PositiveSteps
  <2>5. Len(u) + k - b - y = Len(t) + h - a - x
    BY <1>0, <2>1, <2>2, <2>4
  <2> QED BY <1>00, <2>4, <2>5, Zenon
<1>5. ASSUME Polled PROVE Positive(u) /\ Surplus(pipe'[p]) = Surplus(pipe[p])
  <2> DEFINE j == Cardinality({w \in cq : w.ok /\ w.chunk[1] = p[1] /\ w.nic = p[2]})
  <2>1. pipe'[p] = [pending |-> pipe[p].pending, copying |-> pipe[p].copying, inflight |-> pipe[p].inflight,
                    arrived |-> pipe[p].arrived + j, assigned |-> pipe[p].assigned - j]
    BY <1>5, Zenon DEF Polled
  <2>2. j \in Nat
    <3>1. {w \in cq : w.ok /\ w.chunk[1] = p[1] /\ w.nic = p[2]} \subseteq cq
      OBVIOUS
    <3> QED BY <3>1, CqFinite DEF Typed
  <2> HIDE DEF j
  <2>3. u = t /\ y = x + j /\ b = a - j /\ k = h
    BY <2>1 DEF Held
  <2> HIDE DEF t, u, h, k, a, b, x, y
  <2>4. Len(t) + h - (a - j) - (x + j) = Len(t) + h - a - x
    BY <1>0, <2>2
  <2> QED BY <1>0, <1>00, <2>3, <2>4, Zenon
<1>6. ASSUME Dispatched PROVE Positive(u) /\ Surplus(pipe'[p]) = Surplus(pipe[p])
  <2>1. u = t /\ y = x /\ b = a /\ k = h
    BY <1>6 DEF Dispatched, Held
  <2> QED BY <1>0, <1>00, <2>1, Zenon
<1> QED BY <1>1, <1>2, <1>3, <1>4, <1>5, <1>6

\* It stays so when the pipelines keep their surplus until their transfer ends.
LEMMA DrawnStill ==
    ASSUME Control, [Next]_vars, Drawn,
           \A p \in Pipelines : /\ Positive(pipe'[p].inflight)
                                /\ ~Finished(p[1])' => Surplus(pipe'[p]) = Surplus(pipe[p])
    PROVE  Drawn'
<1> SUFFICES ASSUME NEW p \in Pipelines PROVE ~Finished(p[1])' => Surplus(pipe'[p]) = 0
  BY DEF Drawn
<1>1. ~Finished(p[1])' => ~Finished(p[1])
  BY FinishedStays DEF Finished, Pipelines
<1> QED BY <1>1 DEF Drawn

\* No step posts without keeping the length, or frees what has not arrived.
LEMMA StepDrawn == ASSUME Control, Typed, Typed', Loads, Drawn, [Next]_vars PROVE Drawn'
<1>1. ASSUME NEW p \in Pipelines, Elsewhere(p), Positive(pipe'[p].inflight),
             ~Finished(p[1]) => Surplus(pipe'[p]) = Surplus(pipe[p])
      PROVE  Drawn'
  <2>1. ~Finished(p[1])' => ~Finished(p[1])
    BY FinishedStays DEF Finished, Pipelines
  <2>2. ASSUME NEW q \in Pipelines
        PROVE  Positive(pipe'[q].inflight) /\ (~Finished(q[1])' => Surplus(pipe'[q]) = Surplus(pipe[q]))
    BY <1>1, <2>1 DEF Elsewhere, Drawn
  <2> QED BY <2>2, DrawnStill
<1>2. CASE AdvanceCopy
  <2>1. PICK p \in Pipelines, e \in CopyRecord : Advanced(p, e)
    BY <1>2, AdvanceCopyIs
  <2>2. Elsewhere(p)
    BY <2>1 DEF Advanced
  <2> QED BY <1>1, <2>1, <2>2, SurplusSteps
<1>3. CASE AssignProxy
  <2>1. PICK p \in Pipelines : Pended(p)
    BY <1>3, AssignProxyIs DEF Control, Rounds
  <2>2. Elsewhere(p)
    BY <2>1 DEF Pended
  <2> QED BY <1>1, <2>1, <2>2, SurplusSteps
<1>4. CASE FreePosted
  <2>1. PICK p \in Pipelines : Reclaimed(p)
    BY <1>4, FreePostedIs DEF Control, Rounds
  <2>2. Elsewhere(p)
    BY <2>1 DEF Reclaimed
  <2> QED BY <1>1, <2>1, <2>2, SurplusSteps
<1>5. CASE PostProxy
  <2>1. PICK p \in Pipelines, e \in CopyRecord, w \in WireRecord : Posted(p, e, w)
    BY <1>5, PostProxyIs DEF Control, Rounds
  <2>2. Elsewhere(p)
    BY <2>1 DEF Posted
  <2> QED BY <1>1, <2>1, <2>2, SurplusSteps
<1>6. CASE Poll \/ Dispatch
  <2>1. Polled \/ Dispatched
    BY <1>6, PollIs, DispatchIs
  <2> QED BY <2>1, SurplusSteps, DrawnStill
<1>7. CASE Retire
  <2>1. PICK S \in SUBSET Transfers : Retired(S)
    BY <1>7, RetireIs
  <2>2. ASSUME NEW p \in Pipelines
        PROVE  Positive(pipe'[p].inflight) /\ (~Finished(p[1])' => Surplus(pipe'[p]) = Surplus(pipe[p]))
    <3>1. CASE p[1] \in S
      <4>1. Finished(p[1])'
        BY <2>1, <3>1 DEF Retired, Finished
      <4>2. pipe'[p].inflight = <<>>
        <5>1. pipe'[p] = [pending |-> pipe[p].pending, copying |-> <<>>, inflight |-> <<>>,
                          arrived |-> pipe[p].arrived, assigned |-> pipe[p].assigned]
          BY <2>1, <3>1 DEF Retired
        <5> QED BY <5>1
      <4> QED BY <4>1, <4>2 DEF Positive
    <3>2. CASE p[1] \notin S
      <4>1. pipe'[p] = pipe[p]
        BY <2>1, <3>2 DEF Retired
      <4> QED BY <4>1 DEF Drawn
    <3> QED BY <3>1, <3>2
  <2> QED BY <2>2, DrawnStill
<1>8. CASE pipe' = pipe
  BY <1>8, DrawnStill DEF Drawn
<1>9. CASE Aside
  BY <1>8, <1>9, AsideStays
<1> QED BY <1>2, <1>3, <1>4, <1>5, <1>6, <1>7, <1>8, <1>9 DEF Next, Worker, Aside, vars, Start, Begin,
             AdvanceEnds, AssignDirect, AssignEnds, PostEnds, PostFails, PollFails, CopyThread, Launch,
             DrainRecycled, PushResult, LaunchFails, Gpu, Nic, NicFails, FinishCopy, Complete, Client

\* Where a pipeline holds nothing, no copy and no work request of it uses the buffer.
LEMMA NothingHeld ==
    ASSUME Chunked, Ended, Drawn, taint = {}, NEW p \in Pipelines, WeightOf(pipe[p]) = 0
    PROVE  pipe[p].copying = <<>> /\ \A w \in wire : ~(w.chunk[1] = p[1] /\ w.nic = p[2])
<1>0. Typed
  BY DEF Chunked
<1> DEFINE s == pipe[p].copying
           t == pipe[p].inflight
<1>1. s \in Seq(CopyRecord) /\ t \in Seq(Nat)
  BY <1>0, PipeParts DEF Typed
<1>2. Positive(t)
  BY DEF Drawn
<1>3. s = <<>> /\ t = <<>>
  <2>1. WeightOf(pipe[p]) = Copied(s) + Sum(t)
    BY DEF WeightOf
  <2> HIDE DEF s, t
  <2>2. Copied(s) \in Nat /\ (Copied(s) = 0 <=> s = <<>>)
    BY <1>1, CopiedParts
  <2>3. Sum(t) \in Nat /\ (t # <<>> => Sum(t) > 0)
    <3>1. Sum(t) \in Nat
      BY <1>1, SumNat
    <3>2. ASSUME t # <<>> PROVE Sum(t) > 0
      <4> DEFINE n == Len(t)
                 r == SubSeq(t, 1, n - 1)
                 x == t[n]
      <4>1. n \in Nat /\ n >= 1
        BY <1>1, <3>2
      <4>2. x \in Nat /\ x > 0
        BY <1>1, <1>2, <4>1 DEF Positive
      <4>3. r \in Seq(Nat) /\ t = Append(r, x)
        BY <1>1, <4>1
      <4> HIDE DEF r, x, n
      <4>4. Sum(t) = Sum(r) + x /\ Sum(r) \in Nat
        BY <4>2, <4>3, SumParts
      <4> QED BY <4>2, <4>4
    <3> QED BY <3>1, <3>2
  <2> QED BY <2>1, <2>2, <2>3
<1>4. ASSUME NEW w \in wire, w.chunk[1] = p[1], w.nic = p[2] PROVE FALSE
  <2>1. ~Finished(p[1])
    BY <1>4, SpotIs, EndedIsGone
  <2>2. Surplus(pipe[p]) = 0 /\ pipe[p].assigned = Used(p)
    BY <2>1 DEF Drawn, Chunked, Loads
  <2>3. /\ Used(p) = Held(pipe[p]) + Cardinality(Of(wire, p)) + Cardinality(Of(cq, p))
        /\ Held(pipe[p]) \in Nat /\ Cardinality(Of(wire, p)) \in Nat /\ Cardinality(Of(cq, p)) \in Nat
        /\ pipe[p].arrived \in Nat
    BY <1>0, HeldNat, LoadNat, SurplusParts
  <2>4. Len(t) = 0
    BY <1>3
  <2>5. Surplus(pipe[p]) = Len(t) + Held(pipe[p]) - pipe[p].assigned - pipe[p].arrived
    BY DEF Surplus
  <2>6. Cardinality(Of(wire, p)) = 0
    <3> HIDE DEF t
    <3> QED BY <2>2, <2>3, <2>4, <2>5
  <2>7. w \in Of(wire, p) /\ IsFiniteSet(Of(wire, p))
    <3>1. Of(wire, p) \subseteq wire /\ IsFiniteSet(wire)
      BY <1>0 DEF Of, Typed, Hardware
    <3> QED BY <1>4, <3>1, FS_Subset DEF Of
  <2> QED BY <2>6, <2>7, FS_EmptySet
<1> QED BY <1>3, <1>4
-----------------------------------------------------------------------------
(* The ranges in use end before the place where the next one starts.        *)

\* A range in use ends before the place where the next is given out, and ranges do not overlap.
Packed ==
    taint = {} => /\ \A a \in InUse : a[4] < buffer[a[2]].alloc
                  /\ \A a, b \in InUse : a[1] # b[1] /\ a[2] = b[2] => a[4] < b[3] \/ b[4] < a[3]

\* A buffer of which nothing is held is not in use.
LEMMA NothingInUse ==
    ASSUME Chunked, Ended, Drawn, taint = {}, NEW g, Total(Weigh(pipe), Transfers \X On(g)) = 0
    PROVE  \A a \in InUse : a[2] # g
<1>0. Typed
  BY DEF Chunked
<1>1. ASSUME NEW p \in Pipelines, ProxyGpu(p[2]) = g
      PROVE  pipe[p].copying = <<>> /\ \A w \in wire : ~(w.chunk[1] = p[1] /\ w.nic = p[2])
  <2> DEFINE f == Weigh(pipe)
             R == Transfers \X On(g)
  <2>1. /\ IsFiniteSet(R) /\ \A q \in R : f[q] \in Nat /\ f[q] = WeightOf(pipe[q])
    <3>1. Transfers \in SUBSET Transfers /\ (\A q \in Pipelines : pipe[q] \in PipeRecord)
      BY <1>0 DEF Typed, Kept
    <3> QED BY <3>1, WeightsTyped
  <2>2. p \in R
    BY <1>1, WhichBuffer
  <2> HIDE DEF f, R
  <2>3. f[p] = 0
    BY <2>1, <2>2, TotalZero DEF f, R
  <2>4. WeightOf(pipe[p]) = 0
    BY <2>1, <2>2, <2>3
  <2> QED BY <2>4, NothingHeld
<1>2. ASSUME NEW w \in wire, w.nic \in ProxyNics, NEW a, a = Cells(w.chunk, w.nic, w.addr), a[2] = g PROVE FALSE
  <2> DEFINE p == <<w.chunk[1], w.nic>>
  <2>1. p \in Pipelines
    <3>1. w.chunk \in Chunks
      BY <1>0 DEF Typed, Hardware, WireRecord
    <3>2. w.chunk[1] \in Transfers
      BY <3>1, ChunkTyped
    <3> QED BY <1>2, <3>2 DEF Pipelines
  <2>2. ProxyGpu(p[2]) = g
    BY <1>2 DEF Cells
  <2> QED BY <1>1, <2>1, <2>2
<1>3. ASSUME NEW p \in Pipelines, NEW e \in ToSet(pipe[p].copying), NEW a, a = Cells(e.chunk, p[2], e.addr), a[2] = g
      PROVE  FALSE
  <2>1. ProxyGpu(p[2]) = g
    BY <1>3 DEF Cells
  <2>2. pipe[p].copying = <<>>
    BY <1>1, <2>1
  <2> QED BY <1>3, <2>2 DEF ToSet
<1> QED BY <1>2, <1>3, InUseIs

\* A step that puts nothing into use and leaves the buffers their places.
LEMMA PackedLess ==
    ASSUME Typed, Packed, taint \subseteq taint', InUse' \subseteq InUse,
           \A g \in Gpus : buffer'[g].alloc = buffer[g].alloc
    PROVE  Packed'
<1> SUFFICES ASSUME taint' = {}
             PROVE  /\ \A a \in InUse' : a[4] < buffer'[a[2]].alloc
                    /\ \A a, b \in InUse' : a[1] # b[1] /\ a[2] = b[2] => a[4] < b[3] \/ b[4] < a[3]
  BY DEF Packed
<1>1. taint = {}
  OBVIOUS
<1>2. ASSUME NEW a \in InUse' PROVE a[4] < buffer'[a[2]].alloc
  BY <1>1, <1>2, InUseTyped DEF Packed
<1>3. ASSUME NEW a \in InUse', NEW b \in InUse', a[1] # b[1], a[2] = b[2] PROVE a[4] < b[3] \/ b[4] < a[3]
  BY <1>1, <1>3 DEF Packed
<1> QED BY <1>2, <1>3

\* A step after which the copies and work requests are some of those there were.
Fewer ==
    /\ \A w \in wire' : w.nic \in ProxyNics => w \in wire
    /\ \A p \in Pipelines : \A e \in ToSet(pipe'[p].copying) :
          \E d \in ToSet(pipe[p].copying) : d.chunk = e.chunk /\ d.addr = e.addr

\* It puts nothing into use.
LEMMA FewerInUse == Fewer => InUse' \subseteq InUse
<1> SUFFICES ASSUME Fewer, NEW a \in InUse' PROVE a \in InUse
  OBVIOUS
<1>1. ASSUME NEW w \in wire', w.nic \in ProxyNics, a = Cells(w.chunk, w.nic, w.addr) PROVE a \in InUse
  BY <1>1, InUseIs DEF Fewer
<1>2. ASSUME NEW p \in Pipelines, NEW e \in ToSet(pipe'[p].copying), a = Cells(e.chunk, p[2], e.addr)
      PROVE  a \in InUse
  <2>1. PICK d \in ToSet(pipe[p].copying) : d.chunk = e.chunk /\ d.addr = e.addr
    BY <1>2 DEF Fewer
  <2>2. a = Cells(d.chunk, p[2], d.addr)
    BY <1>2, <2>1
  <2> QED BY <2>2, InUseIs
<1> QED BY <1>1, <1>2, InUseIs

\* A copy is given a range of its own.
LEMMA AdvancePacked ==
    ASSUME Chunked, Watched, Packed, AdvanceCopy PROVE Packed'
<1>0. Typed /\ Kept /\ Control
  BY DEF Chunked, Typed
<1>1. PICK p \in Pipelines, e \in CopyRecord : Advanced(p, e)
  BY <1>0, AdvanceCopyIs
<1>2. taint' = taint /\ wire' = wire
  BY DEF AdvanceCopy, nic
<1> SUFFICES ASSUME taint = {}
             PROVE  /\ \A a \in InUse' : a[4] < buffer'[a[2]].alloc
                    /\ \A a, b \in InUse' : a[1] # b[1] /\ a[2] = b[2] => a[4] < b[3] \/ b[4] < a[3]
  BY <1>2 DEF Packed
<1> DEFINE g == ProxyGpu(p[2])
           len == LenOf(e.chunk)
           n == Cells(e.chunk, p[2], e.addr)
<1>3. /\ g \in ProxyGpus /\ g \in Gpus /\ buffer[g] \in [alloc : 0..BufferSize, freed : Nat]
      /\ len \in 1..BufferSize /\ len \in Nat
  BY <1>0, WhichBuffer, BufferTyped, ChunkTyped, LenTyped DEF CopyRecord
<1>4. /\ trying.at = "fits" /\ Target = g /\ e.addr = trying.cur
      /\ buffer' = [buffer EXCEPT ![g].alloc = e.addr + len]
      /\ Elsewhere(p) /\ pipe'[p].copying = Append(pipe[p].copying, e)
  BY <1>1 DEF Advanced
<1>5. buffer'[g].alloc = e.addr + len /\ \A h \in Gpus : h # g => buffer'[h] = buffer[h]
  BY <1>0, <1>3, <1>4 DEF Kept
<1>5a. e.addr = buffer[g].alloc /\ e.addr \in Int
  <2>1. e.addr = buffer[g].alloc
    BY <1>3, <1>4 DEF Watched, Within
  <2> QED BY <1>3, <2>1, Sizing
<1>6. \A a \in InUse : a[2] = g => a[4] < e.addr /\ a[4] < buffer'[g].alloc
  <2> SUFFICES ASSUME NEW a \in InUse, a[2] = g PROVE a[4] < e.addr /\ a[4] < buffer'[g].alloc
    OBVIOUS
  <2>1. a[4] < e.addr /\ a[4] \in Int
    BY <1>0, <1>5a, InUseTyped DEF Packed
  <2> HIDE DEF g, len
  <2> QED BY <1>3, <1>5, <1>5a, <2>1
<1>7. n[1] = e.chunk /\ n[2] = g /\ n[3] = e.addr /\ n[4] = e.addr + len - 1
  BY DEF Cells
<1>8. n[4] < buffer'[g].alloc /\ n[3] \in Int /\ n[4] \in Int
  <2> HIDE DEF n, len, g
  <2> QED BY <1>3, <1>5, <1>5a, <1>7
<1>9. \A a \in InUse' : a \in InUse \/ a = n
  <2> SUFFICES ASSUME NEW a \in InUse', a # n PROVE a \in InUse
    OBVIOUS
  <2>1. CASE \E w \in wire' : w.nic \in ProxyNics /\ a = Cells(w.chunk, w.nic, w.addr)
    BY <1>2, <2>1, InUseIs
  <2>2. ASSUME NEW q \in Pipelines, NEW d \in ToSet(pipe'[q].copying), a = Cells(d.chunk, q[2], d.addr)
        PROVE  a \in InUse
    <3>1. CASE q = p
      <4>1. pipe[p].copying \in Seq(CopyRecord)
        BY <1>0, PipeParts
      <4>2. ToSet(pipe'[p].copying) = ToSet(pipe[p].copying) \cup {e}
        <5> DEFINE s == pipe[p].copying
        <5> HIDE DEF s
        <5>1. ToSet(Append(s, e)) = ToSet(s) \cup {e}
          BY <4>1, SeqAppend DEF s
        <5> QED BY <1>4, <5>1 DEF s
      <4>3. d \in ToSet(pipe[p].copying)
        BY <2>2, <3>1, <4>2
      <4> QED BY <2>2, <3>1, <4>3, InUseIs
    <3>2. CASE q # p
      <4>1. pipe'[q] = pipe[q]
        BY <1>4, <3>2 DEF Elsewhere
      <4> QED BY <2>2, <4>1, InUseIs
    <3> QED BY <3>1, <3>2
  <2> QED BY <2>1, <2>2, InUseIs
<1>10. \A a \in InUse : a[2] \in Gpus /\ a[3] \in Int /\ a[4] \in Int
  BY <1>0, InUseTyped
<1> HIDE DEF n, len, g
<1>11. ASSUME NEW a \in InUse' PROVE a[4] < buffer'[a[2]].alloc
  <2>1. CASE a = n
    BY <1>7, <1>8, <2>1
  <2>2. CASE a \in InUse
    <3>1. CASE a[2] = g
      BY <1>6, <2>2, <3>1
    <3>2. CASE a[2] # g
      <4>1. buffer'[a[2]] = buffer[a[2]]
        BY <1>5, <1>10, <2>2, <3>2
      <4> QED BY <2>2, <4>1 DEF Packed
    <3> QED BY <3>1, <3>2
  <2> QED BY <1>9, <2>1, <2>2
<1>12. ASSUME NEW a \in InUse', NEW b \in InUse', a[1] # b[1], a[2] = b[2] PROVE a[4] < b[3] \/ b[4] < a[3]
  <2>1. CASE a \in InUse /\ b \in InUse
    BY <1>12, <2>1 DEF Packed
  <2>2. CASE a \in InUse /\ b = n
    BY <1>6, <1>7, <1>12, <2>2
  <2>3. CASE a = n /\ b \in InUse
    BY <1>6, <1>7, <1>12, <2>3
  <2> QED BY <1>9, <1>12, <2>1, <2>2, <2>3
<1> QED BY <1>11, <1>12

\* The other steps of tryAlloc, and those of a reset, take the place where the next range starts
\* back only in a buffer of which nothing is held.
LEMMA AsideRaises ==
    ASSUME Chunked, Watched, Spaces, Aside, taint' = {}, taint = {}, NEW g \in ProxyGpus
    PROVE  buffer'[g].alloc >= buffer[g].alloc \/ Total(Weigh(pipe), Transfers \X On(g)) = 0
<1>0. /\ Typed /\ Kept /\ Working /\ Trial /\ Clean
      /\ buffer \in [Gpus -> [alloc : 0..BufferSize, freed : Nat]] /\ ProxyGpus \subseteq Gpus
  BY ProxyGpuTyped DEF Chunked, Typed, Control, Rounds, Kept, ProxyGpus, Clean
<1> DEFINE held0 == Total(Weigh(pipe), Transfers \X On(g))
<1>1. /\ g \in Gpus /\ buffer[g] \in [alloc : 0..BufferSize, freed : Nat]
      /\ buffer[g].alloc \in Int /\ buffer[g].freed \in Int
  BY <1>0, BufferTyped, Sizing
<1>2. held0 \in Nat /\ Due(g) = held0
  <2>1. Transfers \in SUBSET Transfers /\ (\A q \in Pipelines : pipe[q] \in PipeRecord)
    BY <1>0 DEF Kept
  <2> QED BY <1>0, <2>1, WeightsTyped DEF Spaces, Balance
<1>3. /\ HalfReset(g) => ~Within(g) /\ buffer[g].alloc = 0
      /\ Within(g) /\ trying.at \in {"full", "fits"} => trying.cur = buffer[g].alloc
  BY DEF Watched
<1>4. CASE buffer'[g].alloc = buffer[g].alloc
  BY <1>1, <1>4
<1>5. CASE ResetAlloc
  <2>1. PICK n \in ProxyNics :
          /\ buffer' = [buffer EXCEPT ![ProxyGpu(n)].alloc = 0] /\ Disturb(Occupied(ProxyGpu(n)))
    BY <1>5 DEF ResetAlloc
  <2> DEFINE m == ProxyGpu(n)
  <2>2. ~Occupied(m)
    BY <2>1 DEF Disturb
  <2>3. CASE g = m
    <3>1. ~(Space(g, ToSet(active)) > 0)
      BY <2>2, <2>3 DEF Occupied
    <3>2. Space(g, ToSet(active)) = held0
      BY <1>0, SpaceOfActive DEF Spaces
    <3> HIDE DEF held0
    <3>3. held0 = 0
      BY <1>2, <3>1, <3>2
    <3> QED BY <3>3 DEF held0
  <2>4. CASE g # m
    <3>1. buffer'[g] = buffer[g]
      BY <1>0, <1>1, <2>1, <2>4
    <3> QED BY <1>4, <3>1
  <2> QED BY <2>3, <2>4
<1>6. CASE ResetFree
  <2>1. buffer' = [buffer EXCEPT ![ProxyGpu(reset.half)].freed = 0]
    BY <1>6 DEF ResetFree
  <2>2. buffer'[g].alloc = buffer[g].alloc
    BY <1>0, <1>1, <2>1
  <2> QED BY <1>4, <2>2
<1>7. CASE LoadAlloc \/ NoSpace
  BY <1>4, <1>7 DEF LoadAlloc, NoSpace
<1>8. CASE StartAgain
  <2>1. /\ trying.at = "full" /\ buffer[Target].freed >= trying.cur
        /\ buffer' = [buffer EXCEPT ![Target] = EmptyBuffer]
    BY <1>8 DEF StartAgain, Empty
  <2>2. CASE g = Target
    <3>1. ~HalfReset(g) /\ trying.cur = buffer[g].alloc
      BY <1>3, <2>1, <2>2 DEF Within
    <3>2. Refused(g) = 0
      BY <2>1 DEF Refused
    <3>3. Due(g) = Missing(buffer[g]) - 0
      BY <3>1, <3>2, DueAfter
    <3>4. Due(g) = buffer[g].alloc - buffer[g].freed /\ buffer[g].freed >= buffer[g].alloc
      BY <1>1, <2>1, <2>2, <3>1, <3>3 DEF Missing
    <3> HIDE DEF held0
    <3>5. held0 = 0
      BY <1>1, <1>2, <3>4
    <3> QED BY <3>5 DEF held0
  <2>3. CASE g # Target
    <3>1. buffer'[g] = buffer[g]
      BY <1>0, <1>1, <2>1, <2>3
    <3> QED BY <1>4, <3>1
  <2> QED BY <2>2, <2>3
<1>9. CASE AdvanceRingFull
  <2>1. Take
    BY <1>9 DEF AdvanceRingFull
  <2>2. /\ Advancing /\ trying.at = "fits" /\ buffer' = [buffer EXCEPT ![Target].alloc = trying.cur + Wanted]
    BY <2>1 DEF Take
  <2>3. CASE g = Target
    <3>1. trying.cur = buffer[g].alloc /\ Wanted \in Nat
      BY <1>0, <1>3, <2>2, <2>3, TargetIs, Sizing DEF Within
    <3>2. buffer'[g].alloc = buffer[g].alloc + Wanted
      BY <1>0, <1>1, <2>2, <2>3, <3>1
    <3> HIDE DEF Wanted
    <3> QED BY <1>1, <3>1, <3>2
  <2>4. CASE g # Target
    <3>1. buffer'[g] = buffer[g]
      BY <1>0, <1>1, <2>2, <2>4
    <3> QED BY <1>4, <3>1
  <2> QED BY <2>3, <2>4
<1>10. CASE FreeRefused
  <2>1. Advancing /\ buffer' = [buffer EXCEPT ![Target] = Release(buffer[Target], Wanted)]
    BY <1>10 DEF FreeRefused
  <2>2. buffer'[g].alloc = buffer[g].alloc
    BY <1>0, <1>1, <2>1 DEF Release
  <2> QED BY <1>4, <2>2
<1> QED BY <1>5, <1>6, <1>7, <1>8, <1>9, <1>10 DEF Aside

\* So they leave the ranges in use before that place.
LEMMA AsidePacked ==
    ASSUME Chunked, Watched, Spaces, Ended, Drawn, Packed, Aside PROVE Packed'
<1>0. Typed /\ Kept
  BY DEF Chunked, Typed
<1>1. pipe' = pipe /\ wire' = wire /\ taint \subseteq taint'
  BY AsideStays
<1> SUFFICES ASSUME taint' = {}
             PROVE  /\ \A a \in InUse' : a[4] < buffer'[a[2]].alloc
                    /\ \A a, b \in InUse' : a[1] # b[1] /\ a[2] = b[2] => a[4] < b[3] \/ b[4] < a[3]
  BY DEF Packed
<1>2. taint = {}
  BY <1>1
<1>3. InUse' = InUse
  BY <1>1 DEF InUse
<1>4. ASSUME NEW a \in InUse PROVE a[4] < buffer'[a[2]].alloc
  <2> DEFINE g == a[2]
  <2>1. g \in ProxyGpus /\ g \in Gpus /\ a[4] \in Int
    BY <1>0, InUseTyped
  <2>2. Total(Weigh(pipe), Transfers \X On(g)) # 0
    BY <1>2, NothingInUse
  <2>3. buffer'[g].alloc >= buffer[g].alloc
    BY <1>2, <2>1, <2>2, AsideRaises
  <2>4. a[4] < buffer[g].alloc
    BY <1>2 DEF Packed
  <2>5. buffer[g].alloc \in Int /\ buffer'[g].alloc \in Int
    <3>1. Typed'
      BY <1>0, AsideTyped DEF Chunked
    <3>2. buffer[g].alloc \in 0..BufferSize /\ buffer'[g].alloc \in 0..BufferSize
      BY <1>0, <2>1, <3>1 DEF Typed, Kept
    <3> QED BY <3>2, Sizing
  <2> HIDE DEF g
  <2>6. a[4] < buffer'[g].alloc
    BY <2>1, <2>3, <2>4, <2>5
  <2> QED BY <2>6 DEF g
<1> QED BY <1>2, <1>3, <1>4 DEF Packed

\* A post takes over the range of the copy.
LEMMA PostInUse == ASSUME Control, Typed, PostProxy PROVE InUse' \subseteq InUse
<1>1. PICK p \in Pipelines, e \in CopyRecord, w \in WireRecord : Posted(p, e, w)
  BY PostProxyIs DEF Control, Rounds
<1>2. /\ w.chunk = e.chunk /\ w.nic = p[2] /\ w.addr = e.addr /\ wire' = wire \cup {w}
      /\ pipe'[p].copying = Tail(pipe[p].copying) /\ pipe[p].copying # <<>> /\ e = Head(pipe[p].copying)
      /\ Elsewhere(p)
  BY <1>1 DEF Posted
<1>3. pipe[p].copying \in Seq(CopyRecord)
  BY PipeParts DEF Typed
<1>4. e \in ToSet(pipe[p].copying) /\ ToSet(pipe'[p].copying) \subseteq ToSet(pipe[p].copying)
  <2> DEFINE s == pipe[p].copying
  <2>1. s \in Seq(CopyRecord) /\ s # <<>>
    BY <1>2, <1>3
  <2> HIDE DEF s
  <2>2. Head(s) \in ToSet(s) /\ ToSet(Tail(s)) \subseteq ToSet(s)
    BY <2>1, SeqTail
  <2> QED BY <1>2, <2>2 DEF s
<1> SUFFICES ASSUME NEW a \in InUse' PROVE a \in InUse
  OBVIOUS
<1>5. ASSUME NEW v \in wire', v.nic \in ProxyNics, a = Cells(v.chunk, v.nic, v.addr) PROVE a \in InUse
  <2>1. CASE v \in wire
    BY <1>5, <2>1, InUseIs
  <2>2. CASE v = w
    <3>1. a = Cells(e.chunk, p[2], e.addr)
      BY <1>2, <1>5, <2>2
    <3> QED BY <1>4, <3>1, InUseIs
  <2> QED BY <1>2, <1>5, <2>1, <2>2
<1>6. ASSUME NEW q \in Pipelines, NEW d \in ToSet(pipe'[q].copying), a = Cells(d.chunk, q[2], d.addr)
      PROVE  a \in InUse
  <2>1. d \in ToSet(pipe[q].copying)
    BY <1>2, <1>4, <1>6 DEF Elsewhere
  <2> QED BY <1>6, <2>1, InUseIs
<1> QED BY <1>5, <1>6, InUseIs

\* No step lets two ranges overlap.
LEMMA StepPacked ==
    ASSUME Chunked, Chunked', Watched, Spaces, Ended, Drawn, Packed, [Next]_vars PROVE Packed'
<1>0. Typed /\ Typed' /\ Control /\ Working /\ Kept /\ taint \subseteq taint'
  BY TaintStays DEF Chunked, Control, Rounds, Typed
<1>1. ASSUME InUse' \subseteq InUse, buffer' = buffer PROVE Packed'
  BY <1>0, <1>1, PackedLess
<1>2. ASSUME wire' \subseteq wire, buffer' = buffer,
             \A p \in Pipelines : pipe'[p].copying = pipe[p].copying
      PROVE  Packed'
  <2>1. Fewer
    BY <1>2 DEF Fewer
  <2> QED BY <1>1, <1>2, <2>1, FewerInUse
<1>3. CASE \E t \in Transfers : Start(t)
  BY <1>1, <1>3 DEF Start, InUse, nic
<1>4. CASE AdvanceCopy
  BY <1>4, AdvancePacked
<1>5. CASE Aside
  BY <1>5, AsidePacked
<1>6. CASE Dispatch
  <2>1. Dispatched /\ wire' = wire /\ buffer' = buffer
    BY <1>0, <1>6, DispatchIs DEF Dispatch, nic, allocator
  <2>2. ASSUME NEW p \in Pipelines, NEW e \in ToSet(pipe'[p].copying)
        PROVE  \E d \in ToSet(pipe[p].copying) : d.chunk = e.chunk /\ d.addr = e.addr
    <3> DEFINE s == pipe[p].copying
               r == pipe'[p].copying
    <3>1. s \in Seq(CopyRecord) /\ r \in Seq(CopyRecord)
      BY <1>0, <2>2 DEF Typed, Kept, PipeRecord
    <3>2. Len(r) = Len(s) /\ \A i \in 1..Len(s) : r[i].chunk = s[i].chunk /\ r[i].addr = s[i].addr
      BY <2>1, <2>2 DEF Dispatched, Told
    <3>3. e \in ToSet(r)
      BY <2>2
    <3> HIDE DEF r, s
    <3>4. PICK i \in 1..Len(s) : e = r[i]
      BY <3>1, <3>2, <3>3, SeqSet
    <3>5. s[i] \in ToSet(s) /\ s[i].chunk = e.chunk /\ s[i].addr = e.addr
      BY <3>1, <3>2, <3>4, SeqSet
    <3> QED BY <3>5 DEF s
  <2>3. Fewer
    BY <2>1, <2>2 DEF Fewer
  <2> QED BY <1>1, <2>1, <2>3, FewerInUse
<1>7. CASE AssignDirect
  <2>1. PostedDirect(Context, BestNic) /\ pipe' = pipe /\ buffer' = buffer
    BY <1>0, <1>7, AssignDirectIs DEF AssignDirect, allocator
  <2>2. PICK w \in WireRecord : w.nic = BestNic /\ wire' = wire \cup {w} /\ BestNic \in DirectNics
    BY <2>1 DEF PostedDirect
  <2>3. w.nic \notin ProxyNics
    BY <2>2 DEF ProxyNics
  <2>4. Fewer
    BY <2>1, <2>2, <2>3 DEF Fewer
  <2> QED BY <1>1, <2>1, <2>4, FewerInUse
<1>8. CASE AssignProxy
  <2>1. PICK p \in Pipelines : Pended(p)
    BY <1>0, <1>8, AssignProxyIs
  <2>2. wire' = wire /\ buffer' = buffer
    BY <1>8 DEF AssignProxy, nic, allocator
  <2>3. \A q \in Pipelines : pipe'[q].copying = pipe[q].copying
    BY <2>1 DEF Pended, Elsewhere
  <2> QED BY <1>2, <2>2, <2>3
<1>9. CASE FreePosted
  <2>1. PICK p \in Pipelines : Reclaimed(p)
    BY <1>0, <1>9, FreePostedIs
  <2>2. wire' = wire
    BY <1>9 DEF FreePosted, nic
  <2>3. \A q \in Pipelines : pipe'[q].copying = pipe[q].copying
    BY <2>1 DEF Reclaimed, Elsewhere
  <2>4. \E g, l : buffer' = [buffer EXCEPT ![g] = Release(buffer[g], l)]
    BY <2>1, Zenon DEF Reclaimed
  <2>5. \A h \in Gpus : buffer'[h].alloc = buffer[h].alloc
    BY <1>0, <2>4 DEF Kept, Release
  <2>6. Fewer
    BY <2>2, <2>3 DEF Fewer
  <2> QED BY <1>0, <2>5, <2>6, PackedLess, FewerInUse
<1>10. CASE PostProxy
  <2>1. buffer' = buffer
    BY <1>10 DEF PostProxy, allocator
  <2> QED BY <1>0, <1>1, <1>10, <2>1, PostInUse
<1>11. CASE Poll
  <2>1. Polled /\ buffer' = buffer
    BY <1>0, <1>11, PollIs DEF Poll, allocator
  <2>2. wire' = wire
    BY <2>1 DEF Polled
  <2>3. ASSUME NEW p \in Pipelines PROVE pipe'[p].copying = pipe[p].copying
    <3>1. \E k : pipe'[p] = [pending |-> pipe[p].pending, copying |-> pipe[p].copying,
                             inflight |-> pipe[p].inflight, arrived |-> pipe[p].arrived + k,
                             assigned |-> pipe[p].assigned - k]
      BY <2>1, Zenon DEF Polled
    <3> QED BY <3>1
  <2> QED BY <1>2, <2>1, <2>2, <2>3
<1>12. CASE Retire
  <2>1. PICK S \in SUBSET Transfers : Retired(S)
    BY <1>0, <1>12, RetireIs
  <2>2. wire' = wire
    BY <1>12 DEF Retire, nic
  <2>3. ASSUME NEW p \in Pipelines PROVE pipe'[p].copying = pipe[p].copying \/ pipe'[p].copying = <<>>
    <3>1. CASE p[1] \in S
      <4>1. pipe'[p] = [pending |-> pipe[p].pending, copying |-> <<>>, inflight |-> <<>>,
                        arrived |-> pipe[p].arrived, assigned |-> pipe[p].assigned]
        BY <2>1, <3>1 DEF Retired
      <4> QED BY <4>1
    <3>2. CASE p[1] \notin S
      BY <2>1, <3>2 DEF Retired
    <3> QED BY <3>1, <3>2
  <2>4. ToSet(<<>>) = {}
    BY DEF ToSet
  <2>5. Fewer
    BY <2>2, <2>3, <2>4 DEF Fewer
  <2>6. \A g \in Gpus : buffer'[g].alloc = buffer[g].alloc
    <3>1. buffer' = [g \in Gpus |-> Release(buffer[g], Space(g, S))]
      BY <2>1 DEF Retired
    <3> QED BY <1>0, <3>1 DEF Kept, Release
  <2> QED BY <1>0, <2>5, <2>6, PackedLess, FewerInUse
<1>13. CASE Nic \/ NicFails
  <2>1. PICK w \in wire, ok \in BOOLEAN : Complete(w, ok)
    BY <1>13 DEF Nic, NicFails
  <2>2. wire' \subseteq wire /\ pipe' = pipe /\ buffer' = buffer
    BY <2>1 DEF Complete, allocator
  <2> QED BY <1>2, <2>2
<1>14. CASE UNCHANGED <<wire, pipe, buffer>>
  BY <1>2, <1>14
<1> QED BY <1>3, <1>4, <1>5, <1>6, <1>7, <1>8, <1>9, <1>10, <1>11, <1>12, <1>13, <1>14 DEF Next, Worker, Aside, vars,
             Begin, allocator, AdvanceEnds, AssignEnds, PostEnds, PostFails, PollFails, CopyThread, Launch,
                 DrainRecycled, PushResult,
             LaunchFails, Gpu, FinishCopy, Client, nic

\* In the beginning no transfer has ended, nothing is posted and nothing is in use.
LEMMA InitLayout == Init => Ended /\ Drawn /\ Packed
<1> SUFFICES ASSUME Init PROVE Ended /\ Drawn /\ Packed
  OBVIOUS
<1>1. /\ status = [t \in Transfers |-> "idle"] /\ pipe = [p \in Pipelines |-> EmptyPipe]
      /\ wire = {}
  BY DEF Init
<1>2. Ended
  BY <1>1 DEF Ended, Finished
<1>3. Drawn
  <2>1. Len(<<>>) = 0
    OBVIOUS
  <2>2. Positive(<<>>) /\ Surplus(EmptyPipe) = 0
    BY <2>1 DEF Positive, Surplus, Held, EmptyPipe
  <2> QED BY <1>1, <2>2 DEF Drawn, EmptyPipe
<1>4. InUse = {}
  <2>1. \A p \in Pipelines : ToSet(pipe[p].copying) = {}
    BY <1>1 DEF EmptyPipe, ToSet
  <2> QED BY <1>1, <2>1, InUseIs
<1> QED BY <1>2, <1>3, <1>4 DEF Packed

\* Every behaviour keeps the ranges apart.
LEMMA PackedAlways == Spec => [](Chunked /\ Watched /\ Spaces /\ Ended /\ Drawn /\ Packed)
<1>1. Chunked /\ Watched /\ Spaces /\ Ended /\ Drawn /\ Packed /\ [Next]_vars
        => (Chunked /\ Watched /\ Spaces /\ Ended /\ Drawn /\ Packed)'
  <2> SUFFICES ASSUME Chunked, Watched, Spaces, Ended, Drawn, Packed, [Next]_vars
               PROVE  Chunked' /\ Watched' /\ Spaces' /\ Ended' /\ Drawn' /\ Packed'
    OBVIOUS
  <2>1. Chunked'
    BY StepChunked
  <2>2. Control /\ Typed /\ Typed' /\ Loads
    BY <2>1 DEF Chunked
  <2>3. Watched' /\ Spaces' /\ Ended' /\ Drawn'
    BY <2>2, StepWatched, StepSpaces, StepEnded, StepDrawn
  <2>4. Packed'
    BY <2>1, StepPacked
  <2> QED BY <2>1, <2>3, <2>4
<1>2. Init => Watched
  BY DEF Init, NoReset, NotTrying, Watched, HalfReset, Within
<1> QED BY <1>1, <1>2, InitChunked, InitSpaces, InitLayout, PTL DEF Spec

\* As long as resets find buffers empty and not in the middle of tryAlloc, and no transfer fails,
\* no two chunks share memory of a proxy buffer, and none reaches over its end.
THEOREM RangesAlways == Spec => []RangesDisjoint
<1>1. Chunked /\ Packed => RangesDisjoint
  <2> SUFFICES ASSUME Chunked, Packed, taint = {} PROVE RangesInUseDisjoint
    BY DEF RangesDisjoint
  <2>1. ASSUME NEW a \in InUse PROVE a[4] < BufferSize
    <3>1. Typed
      BY DEF Chunked
    <3>2. a[2] \in Gpus /\ a[4] \in Int
      BY <3>1, InUseTyped
    <3>3. buffer[a[2]].alloc \in 0..BufferSize
      BY <3>1, <3>2 DEF Typed, Kept
    <3>4. a[4] < buffer[a[2]].alloc
      BY DEF Packed
    <3> QED BY <3>2, <3>3, <3>4, Sizing
  <2>2. ASSUME NEW a \in InUse, NEW b \in InUse, a[1] # b[1], a[2] = b[2] PROVE a[4] < b[3] \/ b[4] < a[3]
    BY <2>2 DEF Packed
  <2> QED BY <2>1, <2>2 DEF RangesInUseDisjoint
<1> QED BY <1>1, PackedAlways, PTL
===============================================================================
